------------------------------ MODULE DemoPage ------------------------------
(***************************************************************************)
(* The six-step demo of web/app/demo/page.tsx: register a vault, prove its *)
(* custody, deposit, set up the risk state, trip the circuit breaker and   *)
(* watch a second deposit fail.  Every step is a handler that remembers    *)
(* the session it was started with; Reset forgets the session but not the  *)
(* handlers under way.  Beside the steps, a panel says what the handlers   *)
(* believe of the vault, and an experiment of web/lib/ika-flow.ts has the  *)
(* program ask Ika for an approval, or makes a demo one if it refuses.     *)
(*                                                                         *)
(* Of the session only the vault and the presence of its ciphertexts are   *)
(* kept, of the Torque events the last one.  Not modelled: the log, the    *)
(* displayed ratios, what Ika does with the experiment's approval, which   *)
(* is of a dWallet that no vault has.                                      *)
(***************************************************************************)
EXTENDS SendIx, Sequences

CONSTANTS
    DwalletIds,            \* bound: the vaults of the ids the page draws
    LateIds,               \* bound: how many once handlers overtake each other
    ExperimentSteps,       \* bound: when the visitor tries the experiment
    DEPOSIT_AMOUNT

ASSUME DemoAssumption ==
    /\ DwalletIds \in Seq(Vaults)
    /\ LateIds \in Nat
    /\ ExperimentSteps \subseteq 1..6
    /\ DEPOSIT_AMOUNT \in Nat \ {0}

VARIABLES
    page,                  \* the step shown and the session
    panel,                 \* what is shown of the vault
    blocked,               \* lendguard_attack_demo_completed is recorded
    misled,                \* history: vaults of sessions moved on in error
    overtaken              \* history: Reset was clicked under a handler

demoVars == <<page, panel, blocked, misled, overtaken>>

FirstPage == [step |-> 1, v |-> NoPda, ciphertexts |-> FALSE]

PageAt(step, v) == page' = [step |-> step, v |-> v, ciphertexts |-> step > 4]

\* `mixed` is history: a handler of another vault's session wrote into it.
NoPanel == [v |-> NoPda, verified |-> FALSE, deposited |-> 0,
            frozen |-> FALSE, mixed |-> FALSE]

DemoType ==
    /\ page \in [step : 1..6, v : Vaults \cup {NoPda}, ciphertexts : BOOLEAN]
    /\ panel \in [v : Vaults \cup {NoPda}, verified : BOOLEAN,
                  deposited : Nat, frozen : BOOLEAN, mixed : BOOLEAN]
    /\ blocked \in BOOLEAN
    /\ misled \subseteq Vaults \cup {NoPda}
    /\ overtaken \in BOOLEAN

DemoInit ==
    /\ page = FirstPage /\ panel = NoPanel /\ blocked = FALSE
    /\ misled = {} /\ overtaken = FALSE

----------------------------------------------------------------------------

Undrawn(v) ==
    /\ ~vault[v].live
    /\ v \notin approved
    /\ \A c \in CallIds : calls[c].task.v # v

\* Mutated form: the id is cut down to the part that never changes.
SameDwalletId == DwalletIds[1]

Drawable == {i \in DOMAIN DwalletIds :
               Undrawn(DwalletIds[i]) /\ (overtaken => i <= LateIds)}

IdsLeft == Drawable # {}

\* generateDemoDwalletId: random, so never one that was drawn before.
FreshDwalletId == DwalletIds[CHOOSE i \in Drawable : TRUE]

\* readProtocolFrozen: one byte of the account.
FlagRead ==
    Program!FieldAt(Program!ProtocolStateLayout, Web!FROZEN_OFFSET, 1)

ProtocolFrozen == protocol[FlagRead]

RegisterTask == Task("register", FreshDwalletId, 0)

\* ensureProtocolInitialized, then register_vault.
FirstTask ==
    IF ~protocol.live THEN Task("initialize", NoPda, 0)
    ELSE IF ProtocolFrozen THEN Task("unfreeze", NoPda, 0)
    ELSE RegisterTask

ProveTask == Task("prove", page.v, 0)
DepositTask == Task("deposit", page.v, DEPOSIT_AMOUNT)
RiskTask == Task("set_up_risk", page.v, 0)
CheckTask == Task("check", page.v, 0)
AttackTask == Task("attack", page.v, DEPOSIT_AMOUNT)

\* What the button of the current step sends.
StepTask ==
    CASE page.step = 1 -> FirstTask
      [] page.step = 2 -> ProveTask
      [] page.step = 3 -> DepositTask
      [] page.step = 4 -> RiskTask
      [] page.step = 5 -> CheckTask
      [] page.step = 6 -> AttackTask

\* Beyond step 1 a handler returns at once without a session; step 5 also
\* wants the ciphertexts of step 4.
HasSession ==
    /\ page.step > 1 => page.v # NoPda
    /\ page.step = 5 => page.ciphertexts

\* The cards of the honest user's steps and those of the attacker's; only the
\* current step's has its button enabled.
HonestClick ==
    /\ page.step \in 1..3
    /\ page.step = 1 => IdsLeft
    /\ HasSession
    /\ Starts(StepTask)

AttackerClick ==
    /\ page.step \in 4..6
    /\ HasSession
    /\ Starts(StepTask)

Click == ~blocked /\ (HonestClick \/ AttackerClick) /\ UNCHANGED demoVars

\* runRealIkaExperiment: the card is there as long as there is a session.
ClickExperiment ==
    /\ page.v # NoPda /\ page.step \in ExperimentSteps
    /\ Starts(Task("ika_approve", page.v, 0))
    /\ UNCHANGED demoVars

Experiments == {"ika_approve", "ika_fallback"}

\* isPreAlphaInfraGap: an error with one of four texts is taken for a gap in
\* Ika's deployment, and a demo approval is made instead; any other is thrown.
\* Which it will be is not known.
FallsBack(c) ==
    /\ calls[c].task.name = "ika_approve"
    /\ calls[c].stage \in {"simulating", "signing"}
    /\ calls' = [calls EXCEPT ![c] =
         [NoCall EXCEPT !.stage = "simulating",
                        !.task = Task("ika_fallback", calls[c].task.v, 0)]]
    /\ UNCHANGED <<chainVars, running, mishaps, demoVars>>

\* Once the protocol is there and thawed, the same handler registers.
ThenRegisters(c) ==
    /\ calls[c].task.name \in {"initialize", "unfreeze"}
    /\ IdsLeft
    /\ calls' = [calls EXCEPT ![c] = [NoCall EXCEPT !.stage = "simulating",
                                                   !.task = RegisterTask]]
    /\ UNCHANGED <<running, page, panel>>

\* Mutated form: advances the session of the moment.
ProvenInCurrentSession(v) == page' = [page EXCEPT !.step = 3]

\* setSession({...session}) with the session the handler was started with.
Proven(v) == PageAt(3, v)

\* What a handler makes of the page when sendIx returns.  Those of
\* the two deposits leave the session alone.
StepDone(t) ==
    \/ t.name = "register" /\ PageAt(2, t.v)
    \/ t.name = "prove" /\ Proven(t.v)
    \/ t.name = "deposit" /\ page' = [page EXCEPT !.step = 4]
    \/ t.name = "set_up_risk" /\ PageAt(5, t.v)
    \/ t.name = "check" /\ PageAt(6, t.v)
    \/ t.name \in {"attack"} \cup Experiments /\ UNCHANGED page

\* And of the panel, which it updates without looking whose it is.
PanelAfter(t) ==
    IF t.name = "register" THEN [NoPanel EXCEPT !.v = t.v]
    ELSE IF panel.v = NoPda THEN panel
    ELSE [panel EXCEPT
            !.verified = @ \/ t.name = "prove",
            !.deposited = IF t.name = "deposit" THEN t.amount ELSE @,
            !.frozen = @ \/ t.name = "check",
            !.mixed = @ \/ (/\ t.name \in {"prove", "deposit", "check"}
                           /\ t.v # panel.v)]

\* The deposit was into the vault of a session that is no longer the page's.
StrayDeposit(c) ==
    calls[c].task.name = "deposit" /\ calls[c].task.v # page.v

DemoReturns(c) ==
    /\ Confirmed(c)
    /\ \/ ThenRegisters(c)
       \/ /\ StepDone(calls[c].task)
          /\ panel' = PanelAfter(calls[c].task)
          /\ Ended(c)
    /\ misled' = misled
         \cup (IF calls[c].sent = "err" /\ calls[c].task.name \notin Experiments
               THEN {calls[c].task.v} ELSE {})
         \cup (IF StrayDeposit(c) THEN {page.v} ELSE {})
    /\ UNCHANGED <<chainVars, mishaps, blocked, overtaken>>

\* Whatever made the last deposit fail counts as the attack blocked.
DemoThrows(c) ==
    /\ Throws(c) \/ PostUnanswered(c)
    /\ blocked' = (blocked \/ calls[c].task.name = "attack")
    /\ UNCHANGED <<page, panel, misled, overtaken>>

\* The Reset button is never disabled.
Reset ==
    /\ page' = FirstPage
    /\ panel' = NoPanel
    /\ running' = FALSE
    /\ overtaken' = (overtaken \/ running)
    /\ UNCHANGED <<chainVars, calls, blocked, misled>>

\* The visitor starts over because the step shown cannot succeed, or, as a
\* mishap, at any time.
GivesUp ==
    /\ ~running /\ ~blocked
    /\ page.step \in 2..5
    /\ HasSession => ~WouldLand(StepTask)
    /\ Reset
    /\ UNCHANGED mishaps

StartsOver == ~blocked /\ page # FirstPage /\ Mishap /\ Reset

pageVars == <<chainVars, calls, running, mishaps, demoVars>>

CallStep(c) ==
    \/ DemoReturns(c)
    \/ DemoThrows(c)
    \/ FallsBack(c)
    \/ UnderWay(c) /\ UNCHANGED demoVars

DemoStep ==
    \/ Click
    \/ ClickExperiment
    \/ GivesUp
    \/ StartsOver
    \/ \E c \in CallIds : CallStep(c)

----------------------------------------------------------------------------

\* What the step shown takes for granted about the vault of the session.
TrailOf(v) ==
    /\ page.step >= 2 => vault[v].live
    /\ page.step >= 3 => vault[v].proof_status = VERIFIED
    /\ page.step >= 4 => vault[v].deposited_amount >= DEPOSIT_AMOUNT
    /\ page.step >= 5 => risk[v].live /\ risk[v].backing /\ risk[v].threshold
    /\ page.step = 6 => vault[v].frozen /\ ~risk[v].last_check_result

\* What the panel says of its vault.
ToldOf(v) ==
    /\ vault[v].live
    /\ panel.verified => vault[v].proof_status = VERIFIED
    /\ panel.deposited <= vault[v].deposited_amount
    /\ panel.frozen => vault[v].frozen

\* Neither the page nor its panel runs ahead of the chain, whichever handlers
\* of forgotten sessions return meanwhile, except after a transaction that
\* failed on the chain (sendIx takes it for confirmed) and after the deposit
\* of a forgotten session (its handler advances whatever session it finds; it
\* and others also write into whatever panel they find).
PageTrailsChain ==
    /\ page.step > 1 /\ page.v \notin misled
         => page.v # NoPda /\ TrailOf(page.v)
    /\ panel.v \notin misled \cup {NoPda} /\ ~panel.mixed => ToldOf(panel.v)
=============================================================================
