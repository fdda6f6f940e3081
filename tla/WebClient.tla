------------------------------ MODULE WebClient ------------------------------
(***************************************************************************)
(* The web application among other users of the program: a visitor on the  *)
(* demo page of a fresh or of a shared deployment, or on the lending page  *)
(* of a running market, with a SOL vault or with Bitcoin vaults; strangers *)
(* who freeze, thaw, repay, liquidate, attest and move the price; a lender *)
(* who asks the gate.                                                      *)
(***************************************************************************)
EXTENDS DemoPage, BtcPanel, LenderGate

CONSTANTS
    Stranger,              \* everyone else
    Theirs,                \* the stranger's vault
    Mine,                  \* the visitor's vault on the lending page
    TheirBtc,              \* the stranger's Bitcoin vault
    MyBtc,                 \* the visitor's, registered elsewhere
    Market                 \* the markets a visitor may find

\* The stranger and the visitor have a vault of either kind each, no vault is at
\* the null address, and the loan in a market came out of its pool.
ASSUME WebAssumption ==
    /\ Stranger \in Users
    /\ Theirs \in Vaults /\ Mine \in Vaults
    /\ TheirBtc \in BtcVaults /\ MyBtc \in BtcVaults
    /\ Theirs # Mine /\ TheirBtc # MyBtc
    /\ NoPda \notin Vaults \cup BtcVaults
    /\ \A m \in Market :
         /\ m.asset \in Assets
         /\ {m.deposit, m.liquidity, m.loan, m.price} \subseteq Nat
         /\ m.loan <= m.liquidity
         /\ m.feedAdmin \in Users

Sdk == INSTANCE SdkWire

VARIABLES open             \* the page that is open

web == <<chainVars, calls, running, mishaps, demoVars, view, btcPanelVars, gate,
         open>>

WebTypeOK ==
    /\ TypeOK /\ BtcType /\ SendType /\ DemoType /\ GateType
    /\ view \in View /\ BtcPanelType
    /\ open \in {"demo", "lend", "btc"}

\* A vault whose owner has proved custody and deposited, and its risk state.
Deposited(asset, amount) ==
    [NoVault EXCEPT !.live = TRUE, !.asset_type = asset,
                    !.deposited_amount = amount, !.proof_status = VERIFIED,
                    !.proof_timestamp = 1]

Checked == [NoRisk EXCEPT !.live = TRUE, !.backing = TRUE, !.threshold = TRUE]

\* A deployment nobody has used yet (bound: no mishaps here), or one with a
\* stranger's vault, which an earlier check has frozen.
DemoStart ==
    /\ open = "demo" /\ mishaps = 0
    /\ ProtocolInit /\ CustodyInit
    /\ PoolInit /\ SolInit /\ BtcInit

SharedStart ==
    /\ open = "demo" /\ mishaps = MaxMishaps
    /\ now = 1 /\ slot = 0
    /\ protocol = [NoProtocol EXCEPT !.live = TRUE, !.admin = Stranger,
                                     !.total_vaults = 1, !.frozen = TRUE]
    /\ vault = [v \in Vaults |->
                  IF v = Theirs
                  THEN [NoVault EXCEPT !.live = TRUE, !.frozen = TRUE,
                                       !.asset_type = BTC]
                  ELSE NoVault]
    /\ risk = [v \in Vaults |->
                 IF v = Theirs THEN [Checked EXCEPT !.last_check_result = FALSE]
                 ELSE NoRisk]
    /\ lamports = [v \in Vaults |-> IF v = Theirs THEN RENT ELSE 0]
    /\ PoolInit /\ SolInit /\ BtcInit

\* The pool and the price of a market in which the stranger has borrowed.
MarketPool(m) ==
    /\ pool = [NoPool EXCEPT !.live = TRUE, !.total_liquidity = m.liquidity,
                             !.total_borrowed = m.loan]
    /\ feed = [a \in PriceAssets |-> FeedAt(m.price, m.feedAdmin)]
    /\ tokens = [h \in Holders |->
         CASE h = PoolVault -> m.liquidity - m.loan
           [] h = Stranger -> InitialTokens[h] + m.loan
           [] OTHER -> InitialTokens[h]]

\* The loan is against a SOL vault, and the visitor has one as well.
LendStart ==
    /\ open = "lend" /\ mishaps = MaxMishaps
    /\ now = 1 /\ slot = 0
    /\ \E m \in Market :
         /\ protocol = [NoProtocol EXCEPT
              !.live = TRUE, !.admin = Stranger, !.total_vaults = 2,
              !.total_collateral_verified = 2 * m.deposit]
         /\ vault = [v \in Vaults |->
              IF v = Theirs THEN Deposited(m.asset, m.deposit)
              ELSE IF v = Mine THEN Deposited(BTC, m.deposit)
              ELSE NoVault]
         /\ lamports = [v \in Vaults |->
              IF v \in {Theirs, Mine} THEN RENT + m.deposit ELSE 0]
         /\ MarketPool(m)
         /\ principal = [v \in Vaults |-> IF v = Theirs THEN m.loan ELSE 0]
    /\ risk = [v \in Vaults |-> IF v = Theirs THEN Checked ELSE NoRisk]
    /\ positions = {Theirs}
    /\ BtcInit

\* The loan is against a Bitcoin vault.  The visitor's is registered, by an
\* administrator, its custody signed by Ika and not verified, or unused.
\* Interest is due and (bounds) time is up and there are no mishaps.
BtcStart ==
    /\ open = "btc" /\ mishaps = 0
    /\ now = 2 /\ slot = MaxSlot
    /\ \E registered \in BOOLEAN :
         /\ protocol = [NoProtocol EXCEPT
              !.live = TRUE, !.admin = IF registered THEN Visitor ELSE Stranger,
              !.total_vaults = IF registered THEN 2 ELSE 1]
         /\ btcVault = [v \in BtcVaults |->
              CASE v = TheirBtc -> [NoBtcVault EXCEPT !.live = TRUE,
                                      !.proof_status = VERIFIED,
                                      !.proof_timestamp = 1]
                [] v = MyBtc -> [NoBtcVault EXCEPT !.live = registered]
                [] OTHER -> NoBtcVault]
         /\ approvals = [v \in BtcVaults |->
              [NoApprovals EXCEPT
                 !.ika = v = TheirBtc \/ (v = MyBtc /\ registered)]]
    /\ CustodyInit /\ SolInit
    /\ btcPositions = {TheirBtc}
    /\ \E m \in Market :
         /\ m.asset = BTC /\ MarketPool(m)
         /\ attestation = [v \in BtcVaults |->
              IF v = TheirBtc
              THEN [satoshis |-> m.deposit, attested_at_unix |-> 1]
              ELSE NoAttestation]
         /\ btcPrincipal = [v \in BtcVaults |-> IF v = TheirBtc THEN m.loan ELSE 0]

WebInit ==
    /\ DemoStart \/ SharedStart \/ LendStart \/ BtcStart
    /\ SendInit /\ DemoInit /\ BtcPanelInit
    /\ view = NoView
    /\ gate = {}

----------------------------------------------------------------------------

\* What strangers and the keeper do, through the SDK or a page of their own.  Freezing counts
\* as a mishap: a visitor is frozen out only so often.
StrangerStep ==
    \/ /\ Mishap
       /\ TriggerRiskCheck(Theirs, Stranger, FALSE)
       /\ UNCHANGED <<poolVars, solVars, btcVars>>
    \/ /\ protocol.frozen
       /\ UnfreezeProtocolState(Stranger)
       /\ UNCHANGED <<custodyVars, poolVars, solVars, btcVars, mishaps>>
    \/ /\ open \in {"lend", "btc"}
       /\ \E price \in Prices : UpdateAdminPrice(Stranger, BTC, price)
       /\ UNCHANGED <<custodyVars, solVars, btcVars, mishaps>>
    \/ /\ open = "lend"
       /\ \/ \E amount \in RepayAmounts : RepayBorrow(Theirs, Stranger, amount)
          \/ LiquidatePosition(Mine, Stranger)
       /\ UNCHANGED <<btcVars, mishaps>>
    \/ /\ open = "btc"
       /\ \/ LiquidateBtcPosition(MyBtc, Stranger)
          \/ \E satoshis \in AttestedBalances :
               FinalizeBtcLiquidation(MyBtc, protocol.admin,
                   BTC_LIQUIDATION_MIN_CONFIRMATIONS, satoshis)
       /\ UNCHANGED <<custodyVars, solVars, mishaps>>

WebNext ==
    \/ open = "demo" /\ DemoStep /\ UNCHANGED <<view, btcPanelVars, gate, open>>
    \/ open = "lend" /\ LendStep /\ UNCHANGED <<demoVars, btcPanelVars, gate, open>>
    \/ open = "btc" /\ BtcPanelStep /\ UNCHANGED <<demoVars, gate, open>>
    \/ /\ StrangerStep
       /\ UNCHANGED <<approved, calls, running, demoVars, view, btcPanelVars, gate,
                      open>>
    \/ /\ Tick
       /\ UNCHANGED <<custodyVars, poolVars, solVars, btcVars, approved, calls,
                      running, mishaps, demoVars, view, btcPanelVars, gate, open>>
    \/ /\ open = "demo"
       /\ \/ page.v # NoPda /\ AskGate(page.v)
          \/ \E v \in Vaults : GateAllows(v) \/ GateRefuses(v)
       /\ UNCHANGED <<chainVars, calls, running, mishaps, demoVars, view,
                      btcPanelVars, open>>

\* Handlers go on and transactions execute; the visitor of the demo clicks the
\* step shown, and starts over if it keeps failing.
OnDemo(A) ==
    open = "demo" /\ A /\ UNCHANGED <<view, btcPanelVars, gate, open>>

\* The lending page's timer goes off and is answered, whatever is clicked.
OnBtc(A) ==
    open = "btc" /\ A /\ UNCHANGED <<demoVars, view, gate, open>>

WebSpec ==
    /\ WebInit /\ [][WebNext]_web
    /\ SF_web(OnDemo(Click))
    /\ SF_web(OnDemo(GivesUp))
    /\ \A c \in CallIds : WF_web(OnDemo(CallStep(c)))
    /\ WF_web(OnBtc(TimerReads)) /\ WF_web(OnBtc(TimerReturns))

----------------------------------------------------------------------------

FaultsPayFor(v) ==
    vault[v].deposited_amount <= DEPOSIT_AMOUNT * (1 + MaxMishaps - mishaps)

\* A visitor of the demo deposits once: every further deposit into a vault is
\* the price of a lost answer, a refusal or a Reset.  Not so once Reset was
\* clicked under a handler: it clears the flag that keeps handlers apart, and
\* from then on one of them re-enables the buttons under another.
DepositsCostFaults ==
    open = "demo" /\ ~overtaken => \A v \in Vaults : FaultsPayFor(v)

----------------------------------------------------------------------------
(* Requests *)

\* The instructions of a task's transaction, as the pages build them and as
\* the program declares them.
WebRequests(name) ==
    CASE name = "initialize" ->
           {<<Web!BuildInitializeProtocolIx, Program!initialize_protocol>>}
      [] name = "unfreeze" ->
           {<<Web!BuildUnfreezeProtocolStateIx, Program!unfreeze_protocol_state>>}
      [] name = "register" ->
           {<<Web!BuildRegisterVaultIx, Program!register_vault>>}
      [] name = "prove" ->
           {<<Web!BuildDemoCreateMessageApprovalIx,
              Program!demo_create_message_approval>>,
            <<Web!BuildVerifyCustodyProofIx, Program!verify_custody_proof>>}
      [] name \in {"deposit", "attack"} ->
           {<<Web!BuildDepositCollateralIx, Program!deposit_collateral>>}
      [] name = "set_up_risk" ->
           {<<Web!BuildInitializeRiskStateIx, Program!initialize_risk_state>>,
            <<Web!BuildUpdateBackingStateIx, Program!update_backing_state>>}
      [] name = "check" ->
           {<<Web!BuildDemoCreateCiphertextIx, Program!demo_create_ciphertext>>,
            <<Web!BuildTriggerRiskCheckIx, Program!trigger_risk_check>>}
      [] name = "borrow" ->
           {<<Web!BuildCreateAssociatedTokenAccountIx,
              Program!create_idempotent>>,
            <<Web!BuildBorrowAgainstCollateralIx,
              Program!borrow_against_collateral>>}
      [] name = "repay" -> {<<Web!BuildRepayBorrowIx, Program!repay_borrow>>}
      [] name = "liquidate" ->
           {<<Web!BuildLiquidatePositionIx, Program!liquidate_position>>}
      [] name = "price" ->
           {<<Web!BuildUpdateAdminPriceIx, Program!update_admin_price>>}
      [] name = "ika_approve" ->
           {<<Web!BuildApproveCustodySignatureIx,
              Program!approve_custody_signature>>}
      [] name = "ika_fallback" ->
           {<<Web!BuildDemoCreateMessageApprovalIx,
              Program!demo_create_message_approval>>}
      [] name = "btc_register" ->
           {<<Web!BuildRegisterBtcVaultIx, Program!register_btc_vault>>,
            <<Web!BuildDemoCreateMessageApprovalIx,
              Program!demo_create_message_approval>>,
            <<Web!BuildVerifyBtcCustodyProofIx,
              Program!verify_btc_custody_proof>>}
      [] name = "btc_prove" ->
           {<<Web!BuildDemoCreateMessageApprovalIx,
              Program!demo_create_message_approval>>,
            <<Web!BuildVerifyBtcCustodyProofIx,
              Program!verify_btc_custody_proof>>}
      [] name = "btc_verify" ->
           {<<Web!BuildVerifyBtcCustodyProofIx,
              Program!verify_btc_custody_proof>>}
      [] name = "btc_borrow" ->
           {<<Web!BuildBorrowAgainstBtcCollateralIx,
              Program!borrow_against_btc_collateral>>}
      [] name = "btc_repay" ->
           {<<Web!BuildRepayBtcBorrowIx, Program!repay_btc_borrow>>}
      [] name = "btc_attest" ->
           {<<Web!BuildAttestBtcBalanceIx, Program!attest_btc_balance>>}

\* The SDK has no builders for the custody half.
SdkRequests(name) ==
    CASE name = "borrow" ->
           {<<Sdk!BuildCreateAssociatedTokenAccountIx,
              Program!create_idempotent>>,
            <<Sdk!BuildBorrowAgainstCollateralIx,
              Program!borrow_against_collateral>>}
      [] name = "repay" -> {<<Sdk!BuildRepayBorrowIx, Program!repay_borrow>>}
      [] name = "liquidate" ->
           {<<Sdk!BuildLiquidatePositionIx, Program!liquidate_position>>}
      [] name = "price" ->
           {<<Sdk!BuildUpdateAdminPriceIx, Program!update_admin_price>>}
      [] name = "btc_register" ->
           {<<Sdk!BuildRegisterBtcVaultIx, Program!register_btc_vault>>,
            <<Web!BuildDemoCreateMessageApprovalIx,
              Program!demo_create_message_approval>>,
            <<Sdk!BuildVerifyBtcCustodyProofIx,
              Program!verify_btc_custody_proof>>}
      [] name = "btc_verify" ->
           {<<Sdk!BuildVerifyBtcCustodyProofIx,
              Program!verify_btc_custody_proof>>}
      [] name = "btc_borrow" ->
           {<<Sdk!BuildBorrowAgainstBtcCollateralIx,
              Program!borrow_against_btc_collateral>>}
      [] name = "btc_repay" ->
           {<<Sdk!BuildRepayBtcBorrowIx, Program!repay_btc_borrow>>}
      [] name = "btc_attest" ->
           {<<Sdk!BuildAttestBtcBalanceIx, Program!attest_btc_balance>>}
      [] OTHER -> WebRequests(name)

\* The accounts a step changes, by the role they play in its instruction.
Changed ==
    {role \in {"protocol_state", "vault", "risk_state", "lending_pool",
               "price_feed", "borrow_position", "btc_borrow_position",
               "pool_token_vault",
               "signer_tokens", "message_approval", "btc_vault",
               "btc_attestation"} :
       CASE role = "protocol_state" -> protocol' # protocol
         [] role = "vault" -> vault' # vault \/ lamports' # lamports
         [] role = "risk_state" -> risk' # risk
         [] role = "lending_pool" -> pool' # pool
         [] role = "price_feed" -> feed' # feed
         [] role = "borrow_position" ->
              positions' # positions \/ principal' # principal
         [] role = "btc_borrow_position" ->
              btcPositions' # btcPositions \/ btcPrincipal' # btcPrincipal
         [] role \in {"pool_token_vault", "signer_tokens"} -> tokens' # tokens
         [] role = "message_approval" ->
              approved' # approved \/ approvals' # approvals
         [] role = "btc_vault" -> btcVault' # btcVault
         [] role = "btc_attestation" -> attestation' # attestation}

Serves(requests) ==
    /\ \A r \in requests : Program!Fits(r[1], r[2])
    /\ Changed \subseteq UNION {Program!Writable(r[1]) : r \in requests}

LendingAccountsReadBack ==
    /\ \A reader \in {Web!ReadDefaultLendingPool, Sdk!ReadLendingPool} :
         Program!Finds(reader, Program!LendingPoolAccount)
    /\ \A reader \in {Web!ReadBtcPriceFeed, Sdk!ReadAdminPriceFeed} :
         Program!Finds(reader, Program!AdminPriceFeedAccount)
    /\ \A reader \in {Web!ReadBorrowPosition, Sdk!ReadBorrowPosition} :
         Program!Finds(reader, Program!BorrowPositionAccount)
    /\ Sdk!BORROW_POSITION_LEN = Program!Bytes(Program!BorrowPositionLayout)

\* A dWallet's key has 32 bytes (Curve25519) or 33 (Secp256k1).
AddressesAgree ==
    /\ Program!Derives(Web!Pdas, Program!Pdas)
    /\ Program!Derives(Sdk!Pdas, Program!Pdas)
    /\ \A length \in {32, 33} :
         Program!Covers(Web!DeriveDwalletPda(length), length + 1)

\* A code the demo page has a name for is the program's error of that name.
ErrorsNamedRight ==
    \A i \in DOMAIN Program!LendGuardError :
      Web!ParseAnchorError(Program!CodeOf(i))
        \in {Program!LendGuardError[i], "unnamed"}

\* Whoever wrote a demo approval, and whoever reads it.
ApprovalsReadBack ==
    \A reader \in {Program!parse_demo, Web!ReadMessageApproval} :
      \A data \in {Program!DemoMessageApprovalLayout,
                    Web!MockMessageApprovalData} :
        Program!ReadsBack(data, reader)

\* Whatever a transaction of the pages changes, both hand-written clients
\* asked for: each instruction finds its accounts and arguments where it looks
\* for them, at the addresses it derives itself, and every account the step
\* writes was passed as writable; a loan and an approval are read back for what
\* they are, and an error the demo page names is the one the program raised.
RequestsServe ==
    [][\A c \in CallIds :
         /\ calls[c].sent = "flying" /\ calls'[c].sent # "flying"
         /\ mishaps' = mishaps
         => /\ AddressesAgree /\ ErrorsNamedRight
            /\ Serves(WebRequests(calls[c].task.name))
            /\ Serves(SdkRequests(calls[c].task.name))
            /\ calls[c].task.name \in {"prove", "btc_prove"}
                 => ApprovalsReadBack
            /\ calls[c].task.name = "borrow" => LendingAccountsReadBack]_web

\* The ids of the instance (a bound) are used up and the visitor of the demo is
\* back at its first step, after a Reset that let handlers run side by side.
OutOfIds ==
    /\ overtaken /\ ~IdsLeft
    /\ page.step = 1 /\ \A c \in CallIds : calls[c] = NoCall

\* A visitor who keeps clicking, and starts over when stuck, sees the last
\* deposit of the demo fail, whatever goes wrong on the way: in the first
\* session, or with another dWallet in a later one.
DemoFinishes == open = "demo" => <>(blocked \/ OutOfIds)

\* Whatever is loaded and whichever late answer is taken for it, the page comes
\* back to showing the vault it acts on, as it is on the chain.
ShownCatchesUp ==
    open = "btc" => []<>(pda # NoPda => shown = ReadBtcVault(pda))
=============================================================================
