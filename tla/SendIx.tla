------------------------------- MODULE SendIx -------------------------------
(***************************************************************************)
(* How a page's transaction reaches the chain: sendIx of                   *)
(* web/lib/program-actions.ts over the retrying transport of               *)
(* web/lib/rpc-fetch.ts.  A call simulates, has the wallet sign, posts     *)
(* (the node simulates again) and waits for a confirmation; meanwhile the  *)
(* chain moves, and every await may throw.                                 *)
(*                                                                         *)
(* retryingFetch may post one signed transaction several times; the chain  *)
(* takes a signature once, so the copies count as one.  External: the RPC  *)
(* node, the wallet and the network between them.                          *)
(***************************************************************************)
EXTENDS LendGuard

CONSTANTS
    NoPda,                 \* no vault
    Visitor,               \* whose wallet the page is connected to
    CallIds,               \* bound: handlers and transactions under way
    MaxMishaps             \* bound on refusals, lost answers and dropped
                           \* transactions, and on what strangers do

ASSUME SendAssumption ==
    /\ BTC \in Assets
    /\ Visitor \in DemoPayers
    /\ CallIds \subseteq Nat
    /\ MaxMishaps \in Nat

Program == INSTANCE ProgramWire
Web == INSTANCE WebWire

VARIABLES
    calls,                 \* each call's handler, task and transaction
    running,               \* the page's flag that disables its buttons
    mishaps,               \* how many are left
    approved               \* vaults whose dWallet has a demo approval

NoTask == [name |-> "none", v |-> NoPda, amount |-> 0]
NoCall == [stage |-> "idle", sent |-> "no", task |-> NoTask]

Task(name, v, amount) == [name |-> name, v |-> v, amount |-> amount]

TaskNames ==
    {"none", "initialize", "unfreeze", "register", "prove", "deposit",
     "set_up_risk", "check", "attack", "ika_approve", "ika_fallback", "borrow",
     "repay", "liquidate", "price", "btc_register", "btc_prove", "btc_verify",
     "btc_borrow", "btc_repay", "btc_attest"}

\* "gone" is a transaction whose handler has ended.
Call ==
    [stage : {"idle", "simulating", "signing", "confirming", "gone"},
     sent : {"no", "flying", "ok", "err", "dropped"},
     task : [name : TaskNames, v : Vaults \cup BtcVaults \cup {NoPda},
             amount : Nat]]

SendInit ==
    /\ calls = [c \in CallIds |-> NoCall]
    /\ running = FALSE
    /\ approved = {}

SendType ==
    /\ calls \in [CallIds -> Call]
    /\ running \in BOOLEAN
    /\ mishaps \in 0..MaxMishaps
    /\ approved \subseteq Vaults

----------------------------------------------------------------------------
(* What each task does on the chain, in one transaction *)

\* demo_create_message_approval and verify_custody_proof.
ProveCustody(v) ==
    /\ v \notin approved
    /\ VerifyCustodyProof(v, Visitor)
    /\ approved' = approved \cup {v}

\* initialize_risk_state and update_backing_state.
SetUpRisk(v) ==
    /\ protocol.live /\ vault[v].live /\ ~risk[v].live
    /\ Visitor = OwnerOf[v]
    /\ risk' = [risk EXCEPT ![v] =
                  [live |-> TRUE, backing |-> TRUE, threshold |-> TRUE,
                   last_check_result |-> TRUE]]
    /\ UNCHANGED <<clockVars, protocol, vault, lamports>>

CustodyTask(t) ==
    \/ /\ \/ t.name = "initialize" /\ InitializeProtocol(Visitor)
          \/ t.name = "unfreeze" /\ UnfreezeProtocolState(Visitor)
       /\ UNCHANGED <<custodyVars, approved>>
    \/ t.name = "prove" /\ ProveCustody(t.v)
    \/ /\ \/ t.name = "register" /\ RegisterVault(t.v, BTC)
          \/ t.name \in {"deposit", "attack"}
               /\ DepositCollateral(t.v, Visitor, t.amount)
          \/ t.name = "set_up_risk" /\ SetUpRisk(t.v)
          \/ t.name = "check" /\ TriggerRiskCheck(t.v, Visitor, FALSE)
       /\ UNCHANGED approved

\* A Bitcoin vault is no VaultAccount, which its discriminator tells.
LendingTask(t) ==
    /\ t.v \in Vaults
    /\ \/ t.name = "borrow" /\ BorrowAgainstCollateral(t.v, Visitor, t.amount)
       \/ t.name = "repay" /\ RepayBorrow(t.v, Visitor, t.amount)
       \/ t.name = "liquidate" /\ LiquidatePosition(t.v, Visitor)

\* The account of a Bitcoin vault once its proof is verified.
BtcProven(account) ==
    [account EXCEPT !.proof_status = VERIFIED,
                    !.proof_timestamp = now]

\* The visitor's one demo approval of a dWallet, made and read in the same
\* transaction.
ApprovesAtOnce(v) ==
    /\ approvals[v].demo[Visitor] = 0
    /\ approvals' = [approvals EXCEPT ![v].demo[Visitor] = now]

\* register_btc_vault, demo_create_message_approval, verify_btc_custody_proof.
RegisterProvenBtcVault(v) ==
    /\ protocol.live /\ ~btcVault[v].live
    /\ protocol.total_vaults < MaxVaults
    /\ Visitor = BtcOwnerOf[v]
    /\ btcVault' = [btcVault EXCEPT ![v] =
                      BtcProven([NoBtcVault EXCEPT !.live = TRUE])]
    /\ attestation' = [attestation EXCEPT ![v] = NoAttestation]
    /\ protocol' = [protocol EXCEPT !.total_vaults = @ + 1]
    /\ ApprovesAtOnce(v)
    /\ UNCHANGED <<clockVars, poolVars, btcPositions, btcPrincipal>>

\* demo_create_message_approval and verify_btc_custody_proof.
ProveBtcCustody(v) ==
    /\ btcVault[v].live /\ Visitor = BtcOwnerOf[v]
    /\ btcVault[v].proof_status \in {PENDING, EXPIRED}
    /\ btcVault' = [btcVault EXCEPT ![v] = BtcProven(btcVault[v])]
    /\ ApprovesAtOnce(v)
    /\ UNCHANGED <<clockVars, protocol, poolVars, attestation, btcPositions,
                   btcPrincipal>>

BtcTask(t) ==
    /\ t.v \in BtcVaults
    /\ \/ t.name = "btc_register" /\ RegisterProvenBtcVault(t.v)
       \/ t.name = "btc_prove" /\ ProveBtcCustody(t.v)
       \/ t.name = "btc_verify" /\ VerifyBtcCustodyProof(t.v, Visitor)
       \/ t.name = "btc_borrow"
            /\ BorrowAgainstBtcCollateral(t.v, Visitor, t.amount)
       \/ t.name = "btc_repay" /\ RepayBtcBorrow(t.v, Visitor, t.amount)
       \/ t.name = "btc_attest" /\ AttestBtcBalance(t.v, Visitor, t.amount)

\* approve_custody_signature has Ika make an approval, and the helper makes a
\* demo one, both of a dWallet generated for it: no vault is changed.
IkaTask(t) ==
    \/ t.name = "ika_approve" /\ vault[t.v].live
    \/ t.name = "ika_fallback"

\* The transaction of a task succeeds.
Lands(t) ==
    \/ CustodyTask(t) /\ UNCHANGED <<poolVars, solVars, btcVars>>
    \/ LendingTask(t) /\ UNCHANGED <<btcVars, approved>>
    \/ /\ t.name = "price"
       /\ UpdateAdminPrice(Visitor, BTC, t.amount)
       /\ UNCHANGED <<custodyVars, solVars, btcVars, approved>>
    \/ BtcTask(t) /\ UNCHANGED <<custodyVars, solVars, approved>>
    \/ IkaTask(t) /\ UNCHANGED <<lendGuardVars, approved>>

\* What its simulation finds, by our node or by the one that takes it.  A risk
\* check is singled out for the proofs, to which ENABLED is opaque.
WouldLand(t) ==
    IF t.name = "check" THEN MayCheck(t.v, Visitor) ELSE ENABLED Lands(t)

----------------------------------------------------------------------------
(* sendIx.  Nothing but a landing transaction touches the chain. *)

chainVars == <<lendGuardVars, approved>>

\* A button's handler starts: it sets the flag and calls sendIx.
Starts(task) ==
    /\ ~running
    /\ running' = TRUE
    /\ \E c \in CallIds :
         /\ calls[c] = NoCall
         /\ \A d \in CallIds : calls[d] = NoCall => c <= d
         /\ calls' = [calls EXCEPT ![c] = [NoCall EXCEPT !.stage = "simulating",
                                                        !.task = task]]
    /\ UNCHANGED <<chainVars, mishaps>>

Mishap == mishaps > 0 /\ mishaps' = mishaps - 1

\* The handler of c goes on to its next await.
To(c, stage, sent) ==
    calls' = [calls EXCEPT ![c] =
                 [@ EXCEPT !.stage = stage,
                           !.sent = sent]]

\* The handler of c ends and clears the flag, even if it is another handler's
\* by now; a transaction still on its way outlives it.
Ended(c) ==
    /\ running' = FALSE
    /\ calls' = [calls EXCEPT ![c] =
                IF @.sent = "flying" THEN [@ EXCEPT !.stage = "gone"]
                ELSE NoCall]

\* A simulation that cannot run is no reason to stop.
Simulates(c) ==
    /\ calls[c].stage = "simulating"
    /\ \/ WouldLand(calls[c].task) /\ UNCHANGED mishaps
       \/ Mishap
    /\ To(c, "signing", "no")
    /\ UNCHANGED <<chainVars, running>>

\* Signed and accepted by the node, which simulates first.
Posts(c) ==
    /\ calls[c].stage = "signing"
    /\ WouldLand(calls[c].task)
    /\ To(c, "confirming", "flying")
    /\ UNCHANGED <<chainVars, mishaps, running>>

\* Accepted, but the answer is lost: sendRawTransaction throws.
PostUnanswered(c) ==
    /\ calls[c].stage = "signing"
    /\ WouldLand(calls[c].task)
    /\ Mishap
    /\ To(c, "gone", "flying")
    /\ running' = FALSE
    /\ UNCHANGED chainVars

\* A transaction executes, successfully or not.
Executes(c) ==
    /\ calls[c].sent = "flying"
    /\ \/ Lands(calls[c].task) /\ calls' = [calls EXCEPT ![c] =
            IF @.stage = "gone" THEN NoCall ELSE [@ EXCEPT !.sent = "ok"]]
       \/ /\ ~WouldLand(calls[c].task)
          /\ calls' = [calls EXCEPT ![c] =
               IF @.stage = "gone" THEN NoCall ELSE [@ EXCEPT !.sent = "err"]]
          /\ UNCHANGED chainVars
    /\ UNCHANGED <<mishaps, running>>

\* Its blockhash expires before a leader takes it.
Drops(c) ==
    /\ calls[c].sent = "flying"
    /\ Mishap
    /\ calls' = [calls EXCEPT ![c] =
         IF @.stage = "gone" THEN NoCall ELSE [@ EXCEPT !.sent = "dropped"]]
    /\ UNCHANGED <<chainVars, running>>

\* confirmTransaction resolves with an error in its value as well as without,
\* and sendIx does not look.
Confirmed(c) == calls[c].stage = "confirming" /\ calls[c].sent \in {"ok", "err"}

\* Mutated form: gives up after a while, whatever became of the transaction.
ExpiresByTheClock(c) == calls[c].stage = "confirming"

\* confirmTransaction throws once the blockhash has expired.
Expires(c) == calls[c].stage = "confirming" /\ calls[c].sent = "dropped"

\* The simulation fails, here or at the node.
Refused(c) ==
    /\ calls[c].stage \in {"simulating", "signing"}
    /\ ~WouldLand(calls[c].task)

\* sendIx throws: a failed simulation here or at the node, an expired
\* blockhash, or, as mishaps, a signature refused (or an Encrypt request that
\* fails before sendIx starts) and a confirmation that cannot be had.
Throws(c) ==
    /\ \/ (Refused(c) \/ Expires(c)) /\ UNCHANGED mishaps
       \/ /\ calls[c].stage \in {"simulating", "signing", "confirming"}
          /\ Mishap
    /\ Ended(c)
    /\ UNCHANGED chainVars

\* A step of sendIx, or of its transaction, that the page does not see.
UnderWay(c) == Simulates(c) \/ Posts(c) \/ Executes(c) \/ Drops(c)
=============================================================================
