----------------------------- MODULE Operations -----------------------------
(***************************************************************************)
(* The admin's scripts around the program: bootstrap-devnet.mjs, which     *)
(* creates the shared accounts in several transactions, may stop after any *)
(* of them and is run again, and refresh-prices.mjs, which posts every     *)
(* price in one transaction; together with Bitcoin borrowing on the pool   *)
(* they set up.                                                            *)
(*                                                                         *)
(* External, modelled from how the scripts use it: the SPL token program's *)
(* mint, its authority and its supply.  Not modelled: the LGUSD record     *)
(* file being lost after the bootstrap, which would start a second mint.   *)
(***************************************************************************)
EXTENDS BtcLending, Sequences

CONSTANTS
    Admin,             \* whose keypair the scripts sign with
    INITIAL_LIQUIDITY,
    INITIAL_PRICE,     \* the bootstrap's price of each asset
    FeedOrder,         \* the assets in the order their feeds are created
    Quotes,            \* the prices refresh-prices is started with
    KeeperBalances,    \* balances the keeper attests
    MaxStops           \* bound on failed runs of the bootstrap

ASSUME OperationsAssumption ==
    /\ Admin \in Users /\ IsFiniteSet(Users)
    /\ INITIAL_LIQUIDITY \in Nat \ {0}
    /\ InitialTokens[PoolVault] <= INITIAL_LIQUIDITY   \* the script creates it
    /\ INITIAL_PRICE \in [PriceAssets -> Nat \ {0}]
    /\ FeedOrder \in Seq(PriceAssets)
    /\ {FeedOrder[i] : i \in DOMAIN FeedOrder} = PriceAssets
    /\ FeedOrder[1] = BTC
    /\ Quotes \subseteq [PriceAssets -> Nat \ {0}]
    /\ KeeperBalances \subseteq Nat
    /\ MaxStops \in Nat

VARIABLES
    mint,              \* the LGUSD mint
    step,              \* where the bootstrap script is
    nextFeed,          \* the place in FeedOrder it has come to
    stops              \* failed runs left

Program == INSTANCE ProgramWire
Web == INSTANCE WebWire
Sdk == INSTANCE SdkWire
Script == INSTANCE ScriptWire

opsVars == <<mint, step, nextFeed, stops>>
ops == <<btcAll, opsVars>>

\* What the script does next, "feeds" once per asset.
ScriptSteps == {"off", "protocol", "mint", "record", "supply", "authority",
                "pool", "feeds"}

NoMint == [authority |-> "none", recorded |-> FALSE]

OpsTypeOK ==
    /\ BtcTypeOK
    /\ mint \in [authority : {"none", "admin", "pool"}, recorded : BOOLEAN]
    /\ step \in ScriptSteps
    /\ nextFeed \in DOMAIN FeedOrder
    /\ stops \in 0..MaxStops

OpsInit ==
    /\ ProtocolInit /\ PoolInit /\ BtcInit
    /\ mint = NoMint
    /\ step = "off"
    /\ nextFeed = 1
    /\ stops = MaxStops

----------------------------------------------------------------------------
(* bootstrap-devnet.mjs.  A step reads whether its account exists and sends *)
(* a transaction if it does not.                                           *)

Goto(next) == step' = next /\ nextFeed' = 1 /\ UNCHANGED stops

\* Mutated form: looks for a feed after the last one.
FeedDoneNeverLast == nextFeed' = nextFeed + 1 /\ UNCHANGED <<step, stops>>

FeedDone ==
    IF nextFeed = Len(FeedOrder)
    THEN Goto("off")
    ELSE nextFeed' = nextFeed + 1 /\ UNCHANGED <<step, stops>>

BootstrapStart ==
    /\ step = "off"
    /\ Goto("protocol")
    /\ UNCHANGED <<btcAll, mint>>

StepInitializeProtocol ==
    /\ step = "protocol"
    /\ IF protocol.live
       THEN UNCHANGED protocol
       ELSE InitializeProtocol(Admin)
    /\ Goto("mint")
    /\ UNCHANGED <<clockVars, poolVars, btcVars, mint>>

\* A mint that was created but not recorded is forgotten.
StepCreateMint ==
    /\ step = "mint"
    /\ mint' = IF mint.recorded THEN mint
               ELSE [authority |-> "admin", recorded |-> FALSE]
    /\ Goto("record")
    /\ UNCHANGED btcAll

StepRecordMint ==
    /\ step = "record"
    /\ mint' = [mint EXCEPT !.recorded = TRUE]
    /\ Goto("supply")
    /\ UNCHANGED btcAll

\* Mutated form: mints whenever the vault is short.
MayMintAlways == TRUE

\* Only the mint authority can mint.
MayMint == mint.authority = "admin"

\* Tops the pool's vault up; the script throws when it is short and the
\* authority has already gone to the pool.
StepMintSupply ==
    /\ step = "supply"
    /\ IF tokens[PoolVault] >= INITIAL_LIQUIDITY
       THEN /\ Goto("authority")
            /\ UNCHANGED tokens
       ELSE /\ MayMint
            /\ tokens' = [tokens EXCEPT ![PoolVault] = INITIAL_LIQUIDITY]
            /\ Goto("authority")
    /\ UNCHANGED <<clockVars, protocol, pool, feed, btcVars, mint>>

MintSupplyThrows ==
    /\ step = "supply"
    /\ tokens[PoolVault] < INITIAL_LIQUIDITY
    /\ ~MayMint
    /\ Goto("off")
    /\ UNCHANGED <<btcAll, mint>>

\* Mutated form: goes on to the feeds, which are created before the pool.
AuthorityThenFeeds ==
    /\ step = "authority"
    /\ mint' = [mint EXCEPT !.authority = "pool"]
    /\ Goto("feeds")
    /\ UNCHANGED btcAll

StepTransferAuthority ==
    /\ step = "authority"
    /\ mint' = [mint EXCEPT !.authority = "pool"]
    /\ Goto("pool")
    /\ UNCHANGED btcAll

\* initialize_lending_pool creates the BTC feed too.
StepInitializePool ==
    /\ step = "pool"
    /\ IF pool.live
       THEN UNCHANGED <<pool, feed>>
       ELSE InitializeLendingPool(Admin, BTC, INITIAL_LIQUIDITY,
                                  INITIAL_PRICE[BTC])
    /\ Goto("feeds")
    /\ UNCHANGED <<clockVars, protocol, tokens, btcVars, mint>>

\* Mutated form: stops at the first feed that exists.
FeedStepsUntilOneExists ==
    /\ step = "feeds"
    /\ ~feed[FeedOrder[nextFeed]].live
    /\ InitializeAdminPriceFeed(Admin, FeedOrder[nextFeed],
                                INITIAL_PRICE[FeedOrder[nextFeed]])
    /\ FeedDone
    /\ UNCHANGED <<btcVars, mint>>

StepInitializeFeed ==
    /\ step = "feeds"
    /\ IF feed[FeedOrder[nextFeed]].live
       THEN UNCHANGED feed
       ELSE InitializeAdminPriceFeed(Admin, FeedOrder[nextFeed],
                                     INITIAL_PRICE[FeedOrder[nextFeed]])
    /\ FeedDone
    /\ UNCHANGED <<clockVars, protocol, pool, tokens, btcVars, mint>>

\* A failed request, a rejected transaction or the operator ends the run.
BootstrapStops ==
    /\ step # "off"
    /\ stops > 0
    /\ step' = "off"
    /\ nextFeed' = 1
    /\ stops' = stops - 1
    /\ UNCHANGED <<btcAll, mint>>

BootstrapStep ==
    \/ StepInitializeProtocol
    \/ StepCreateMint
    \/ StepRecordMint
    \/ StepMintSupply
    \/ StepTransferAuthority
    \/ StepInitializePool
    \/ StepInitializeFeed
    \/ MintSupplyThrows

----------------------------------------------------------------------------
(* The other scripts *)

\* refresh-prices.mjs: every feed in one transaction, or none when one of
\* them is missing.
RefreshPrices ==
    /\ \A a \in PriceAssets : feed[a].live /\ feed[a].admin = Admin
    /\ \E quote \in Quotes :
         feed' = [a \in PriceAssets |-> FeedAt(quote[a], Admin)]
    /\ UNCHANGED <<clockVars, protocol, pool, tokens, btcVars, opsVars>>

\* The keeper and the broadcaster, reporting any balance.
DaemonReports(v) ==
    \E satoshis \in KeeperBalances :
      \/ AttestBtcBalance(v, Admin, satoshis)
      \/ FinalizeBtcLiquidation(v, Admin, BTC_LIQUIDATION_MIN_CONFIRMATIONS,
                                satoshis)

OpsNext ==
    \/ Tick /\ UNCHANGED <<poolVars, btcVars, opsVars>>
    \/ BootstrapStart
    \/ BootstrapStep
    \/ BootstrapStops
    \/ RefreshPrices
    \/ /\ \E a \in PriceAssets : CloseAdminPriceFeed(Admin, a)
       /\ UNCHANGED <<btcVars, opsVars>>
    \/ /\ \E v \in BtcVaults :
            \/ BtcVaultStep(v)
            \/ DaemonReports(v)
            \/ \E liquidator \in Users : LiquidateBtcPosition(v, liquidator)
       /\ UNCHANGED opsVars

\* The operator runs the bootstrap again whenever it has ended, and a run goes
\* on unless it stops.
OpsSpec ==
    /\ OpsInit /\ [][OpsNext]_ops
    /\ WF_ops(BootstrapStart)
    /\ WF_ops(BootstrapStep)

----------------------------------------------------------------------------

\* Once the pool lends, no key can mint LGUSD any more, and the supply is what
\* the pool was created with and what wallets held: in no order of crashes and
\* repeated runs is the vault topped up behind outstanding loans.
NoMintBehindLoans ==
    pool.live =>
      /\ mint.authority = "pool"
      /\ SumOver(Holders, tokens)
           = pool.total_liquidity + SumOver(Users, InitialTokens)

\* Wherever earlier runs stopped, running the bootstrap again sets the pool up.
BootstrapCompletes == <>pool.live

----------------------------------------------------------------------------
(* Requests *)

\* The accounts a step changes, by the role they play in its instruction.
Changed ==
    {role \in {"protocol_state", "lending_pool", "price_feed",
               "pool_token_vault", "signer_tokens", "btc_vault",
               "btc_attestation", "btc_borrow_position"} :
       CASE role = "protocol_state" -> protocol' # protocol
         [] role = "lending_pool" -> pool' # pool
         [] role = "price_feed" -> feed' # feed
         [] role = "pool_token_vault" -> tokens'[PoolVault] # tokens[PoolVault]
         [] role = "signer_tokens" ->
              \E u \in Users : tokens'[u] # tokens[u]
         [] role = "btc_vault" -> btcVault' # btcVault
         [] role = "btc_attestation" -> attestation' # attestation
         [] role = "btc_borrow_position" ->
              btcPositions' # btcPositions \/ btcPrincipal' # btcPrincipal}

\* Each client's request reaches the program as it was meant, and lets it
\* write what the step changes.
Serve(requests, declared) ==
    \A request \in requests :
      Program!Fits(request, declared) /\ Changed \subseteq Program!Writable(request)

VaultRequestsServe(v) ==
    /\ RegisterBtcVault(v) =>
         Serve({Web!BuildRegisterBtcVaultIx, Sdk!BuildRegisterBtcVaultIx},
               Program!register_btc_vault)
    /\ (\E u \in Users : VerifyBtcCustodyProof(v, u)) =>
         Serve({Web!BuildVerifyBtcCustodyProofIx,
                Sdk!BuildVerifyBtcCustodyProofIx},
               Program!verify_btc_custody_proof)
    /\ (\E u \in Users : RefreshBtcCustodyProof(v, u)) =>
         Serve({Web!BuildRefreshBtcCustodyProofIx,
                Sdk!BuildRefreshBtcCustodyProofIx},
               Program!refresh_btc_custody_proof)
    /\ (\E s \in KeeperBalances : AttestBtcBalance(v, Admin, s)) =>
         Serve({Web!BuildAttestBtcBalanceIx, Sdk!BuildAttestBtcBalanceIx,
                Script!BuildAttestIx},
               Program!attest_btc_balance)
    /\ v \in btcPositions' \ btcPositions =>
         Serve({Web!BuildBorrowAgainstBtcCollateralIx,
                Sdk!BuildBorrowAgainstBtcCollateralIx},
               Program!borrow_against_btc_collateral)
    /\ btcPrincipal'[v] < btcPrincipal[v] /\ btcVault'[v] = btcVault[v] =>
         Serve({Web!BuildRepayBtcBorrowIx, Sdk!BuildRepayBtcBorrowIx},
               Program!repay_btc_borrow)
    /\ btcVault'[v].liquidation_initiated_at > btcVault[v].liquidation_initiated_at =>
         Serve({Web!BuildLiquidateBtcPositionIx,
                Sdk!BuildLiquidateBtcPositionIx},
               Program!liquidate_btc_position)
    /\ btcVault'[v].liquidation_initiated_at < btcVault[v].liquidation_initiated_at =>
         Serve({Web!BuildFinalizeBtcLiquidationIx,
                Sdk!BuildFinalizeBtcLiquidationIx, Script!BuildFinalizeIx},
               Program!finalize_btc_liquidation)

SetupRequestsServe ==
    /\ ~protocol.live /\ protocol'.live =>
         Serve({Web!BuildInitializeProtocolIx, Script!InitializeProtocolIx},
               Program!initialize_protocol)
    /\ ~pool.live /\ pool'.live =>
         Serve({Web!BuildInitializeLendingPoolIx,
                Sdk!BuildInitializeLendingPoolIx,
                Script!InitializeLendingPoolIx},
               Program!initialize_lending_pool)
    /\ pool' = pool /\ (\E a \in PriceAssets : ~feed[a].live /\ feed'[a].live) =>
         Serve({Sdk!BuildInitializeAdminPriceFeedIx,
                Script!InitializeAdminPriceFeedIx},
               Program!initialize_admin_price_feed)
    /\ (\E a \in PriceAssets : feed[a].live /\ ~feed'[a].live) =>
         Serve({Web!BuildCloseAdminPriceFeedIx}, Program!close_admin_price_feed)
    /\ RefreshPrices =>
         Serve({Web!BuildUpdateAdminPriceIx, Sdk!BuildUpdateAdminPriceIx,
                Script!BuildUpdatePriceIx},
               Program!update_admin_price)

BtcAccountsReadBack ==
    /\ Program!ReadsBack(Program!BtcVaultLayout, Web!DecodeBtcVault)
    /\ Program!ReadsBack(Program!BtcAttestationLayout,
                         Web!DecodeBitcoinBalanceAttestation)
    /\ Program!Bytes(Program!BtcVaultLayout) = Script!BTC_VAULT_LEN
    /\ Program!FieldAt(Program!BtcVaultLayout, Script!ADDRESS_OFFSET, 64)
         = "bitcoin_address"

AddressesAgree ==
    \A pdas \in {Web!Pdas, Sdk!Pdas, Script!Pdas} :
      Program!Derives(pdas, Program!Pdas)

\* Three clients build the same instructions by hand, without the IDL: the web
\* application, the SDK and the scripts.  Whatever an instruction changes, each
\* of them asked for it in the way the program declares it; and the accounts it
\* leaves are read back for what they are.
BtcRequestsServe ==
    [][/\ AddressesAgree
       /\ SetupRequestsServe
       /\ \A v \in BtcVaults : VaultRequestsServe(v)
       /\ attestation' # attestation => BtcAccountsReadBack]_ops

\* A price feed that is missing comes back with the next runs, unless LGUSD is
\* out on loan: then the script throws at the vault it finds short.
FeedsReturn ==
    \A a \in PriceAssets :
      ~feed[a].live
        ~> \/ feed[a].live
           \/ pool.live /\ tokens[PoolVault] < INITIAL_LIQUIDITY
=============================================================================
