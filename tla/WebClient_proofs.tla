-------------------------- MODULE WebClient_proofs --------------------------
(***************************************************************************)
(* The web application among other users, for any number of vaults, ids,   *)
(* handlers and mishaps, whatever is refused, lost, dropped, reset or done *)
(* by strangers meanwhile: the demo page does not run ahead of the chain,  *)
(* what the pages hold is what the chain could have told them, the lending *)
(* page shows a loan as liquidatable before the chain does only if it takes *)
(* the vault for another kind, what the demo deposits beyond its one       *)
(* deposit was paid for by mishaps, and the lender accepts no vault without *)
(* an approval or with a failed risk check.                                *)
(***************************************************************************)
EXTENDS WebClient, Pool_proofs

(* What is known of a vault once a step of the demo is done with it.  Each *)
(* includes the one before it.                                             *)

IsRegistered(v) == vault[v].live
IsProved(v) == IsRegistered(v) /\ vault[v].proof_status = VERIFIED
HasDeposit(v) == IsProved(v) /\ vault[v].deposited_amount >= DEPOSIT_AMOUNT
IsWatched(v) ==
    HasDeposit(v) /\ risk[v].live /\ risk[v].backing /\ risk[v].threshold
IsTripped(v) == IsWatched(v) /\ vault[v].frozen /\ ~risk[v].last_check_result

----------------------------------------------------------------------------
(* The inductive invariant *)

VaultTasks ==
    {"register", "prove", "deposit", "set_up_risk", "check", "attack"}
      \cup Experiments

OtherTasks == {"none", "initialize", "unfreeze"}

\* What the demo sends, and in which state.
DemoTask(t) ==
    \/ t.name \in OtherTasks /\ t.v = NoPda
    \/ /\ t.name \in VaultTasks
       /\ t.v \in Vaults
       /\ t.name = "deposit" => t.amount = DEPOSIT_AMOUNT
       /\ t.v \notin misled =>
            /\ t.name = "set_up_risk" => HasDeposit(t.v)
            /\ t.name = "check" => IsWatched(t.v)

\* What a transaction that succeeded has left.
DemoDone(t) ==
    /\ t.name = "register" => IsRegistered(t.v)
    /\ t.name = "prove" => IsProved(t.v)
    /\ t.name = "deposit" => HasDeposit(t.v)
    /\ t.v \notin misled =>
         /\ t.name = "set_up_risk" => IsWatched(t.v)
         /\ t.name = "check" => IsTripped(t.v)

HandlerTrails(c) ==
    /\ DemoTask(calls[c].task)
    /\ calls[c].sent = "ok" => DemoDone(calls[c].task)

HandlersTrail == \A c \in CallIds : HandlerTrails(c)

AccountsTyped ==
    /\ now \in Nat
    /\ vault \in [Vaults -> VaultAccount]
    /\ risk \in [Vaults -> RiskAccount]

DemoTyped ==
    /\ AccountsTyped
    /\ calls \in [CallIds -> Call]
    /\ page \in [step : 1..6, v : Vaults \cup {NoPda}, ciphertexts : BOOLEAN]
    /\ panel \in [v : Vaults \cup {NoPda}, verified : BOOLEAN,
                  deposited : Nat, frozen : BOOLEAN, mixed : BOOLEAN]

DemoIInv == DemoTyped /\ HandlersTrail /\ PageTrailsChain

\* The other pages are no demo.
TrailIInv ==
    IF open = "demo" THEN DemoIInv ELSE page = FirstPage /\ panel = NoPanel

----------------------------------------------------------------------------
(* The chain only moves forward: no transaction of the demo, no stranger   *)
(* and no clock takes back what a step has established.                    *)

VaultKept(v) ==
    /\ vault'[v].live
    /\ vault[v].proof_status = VERIFIED => vault'[v].proof_status = VERIFIED
    /\ vault'[v].deposited_amount >= vault[v].deposited_amount
    /\ vault[v].frozen => vault'[v].frozen

RiskKept(v) ==
    /\ risk'[v].live
    /\ risk[v].backing => risk'[v].backing
    /\ risk[v].threshold => risk'[v].threshold
    /\ ~risk[v].last_check_result => ~risk'[v].last_check_result

ChainKept ==
    /\ vault' \in [Vaults -> VaultAccount]
    /\ risk' \in [Vaults -> RiskAccount]
    /\ \A v \in Vaults :
         /\ vault[v].live => VaultKept(v)
         /\ risk[v].live => RiskKept(v)

LEMMA UnchangedKeeps ==
    ASSUME AccountsTyped, UNCHANGED <<vault, risk>>
    PROVE  ChainKept
  BY DEF AccountsTyped, ChainKept, VaultKept, RiskKept, VaultAccount

LEMMA RegisterKeeps ==
    ASSUME AccountsTyped, NEW v \in Vaults, RegisterVault(v, BTC)
    PROVE  ChainKept /\ vault'[v].live
<1>1. [NoVault EXCEPT !.live = TRUE, !.asset_type = BTC] \in VaultAccount
  BY SendAssumption DEF NoVault, VaultAccount
<1>2. /\ vault' = [vault EXCEPT ![v] =
                     [NoVault EXCEPT !.live = TRUE, !.asset_type = BTC]]
      /\ risk' = risk /\ ~vault[v].live
  BY DEF RegisterVault
<1>3. vault'[v].live
  BY <1>2 DEF AccountsTyped, NoVault
<1>4. \A u \in Vaults : vault[u].live => vault'[u] = vault[u]
  BY <1>2 DEF AccountsTyped
<1> QED
  BY <1>1, <1>2, <1>3, <1>4 DEF AccountsTyped, ChainKept, VaultKept, RiskKept,
     VaultAccount

LEMMA ProveKeeps ==
    ASSUME AccountsTyped, NEW v \in Vaults,
           VerifyCustodyProof(v, Visitor)
    PROVE  ChainKept /\ vault'[v].live /\ vault'[v].proof_status = VERIFIED
<1>1. /\ vault' = [vault EXCEPT ![v] =
                     [@ EXCEPT !.proof_status = VERIFIED,
                               !.proof_timestamp = now]]
      /\ risk' = risk /\ vault[v].live
  BY DEF VerifyCustodyProof
<1>2. /\ vault' \in [Vaults -> VaultAccount]
      /\ vault'[v].live /\ vault'[v].proof_status = VERIFIED
      /\ vault'[v].deposited_amount = vault[v].deposited_amount
      /\ vault'[v].frozen = vault[v].frozen
  BY <1>1 DEF AccountsTyped, VaultAccount
<1>3. \A u \in Vaults \ {v} : vault'[u] = vault[u]
  BY <1>1 DEF AccountsTyped
<1> QED
  BY <1>1, <1>2, <1>3 DEF AccountsTyped, ChainKept, VaultKept, RiskKept,
     VaultAccount

LEMMA DepositKeeps ==
    ASSUME AccountsTyped, NEW v \in Vaults, NEW amount \in Nat,
           DepositCollateral(v, Visitor, amount)
    PROVE  /\ ChainKept
           /\ vault'[v].live /\ vault'[v].proof_status = VERIFIED
           /\ vault'[v].deposited_amount >= amount
<1>1. /\ vault' = [vault EXCEPT ![v].deposited_amount = @ + amount]
      /\ risk' = risk /\ vault[v].live /\ vault[v].proof_status = VERIFIED
  BY DEF DepositCollateral, MayDeposit
<1>2. PICK sum \in Nat :
        /\ sum = vault[v].deposited_amount + amount
        /\ sum >= amount /\ sum >= vault[v].deposited_amount
  BY DEF AccountsTyped, VaultAccount
<1>3. /\ vault' \in [Vaults -> VaultAccount]
      /\ vault'[v].live /\ vault'[v].proof_status = VERIFIED
      /\ vault'[v].deposited_amount = sum
      /\ vault'[v].frozen = vault[v].frozen
  <2>1. vault' =
          [vault EXCEPT ![v] = [vault[v] EXCEPT !.deposited_amount = sum]]
    BY <1>1, <1>2 DEF AccountsTyped
  <2>2. vault[v] \in VaultAccount
    BY DEF AccountsTyped
  <2>3. [vault[v] EXCEPT !.deposited_amount = sum] \in VaultAccount
    BY <2>2 DEF VaultAccount
  <2>4. vault'[v] = [vault[v] EXCEPT !.deposited_amount = sum]
    BY <2>1 DEF AccountsTyped
  <2> QED
    BY <1>1, <2>1, <2>2, <2>3, <2>4 DEF AccountsTyped, VaultAccount
<1>4. \A u \in Vaults \ {v} : vault'[u] = vault[u]
  BY <1>1 DEF AccountsTyped
<1>5. /\ vault'[v].deposited_amount >= amount
      /\ vault'[v].deposited_amount >= vault[v].deposited_amount
  BY <1>2, <1>3
<1> QED
  BY <1>1, <1>3, <1>4, <1>5 DEF AccountsTyped, ChainKept, VaultKept, RiskKept,
     VaultAccount

LEMMA SetUpRiskKeeps ==
    ASSUME AccountsTyped, NEW v \in Vaults, SetUpRisk(v)
    PROVE  /\ ChainKept /\ vault' = vault
           /\ risk'[v].live /\ risk'[v].backing /\ risk'[v].threshold
<1>1. /\ risk' = [risk EXCEPT ![v] =
                    [live |-> TRUE, backing |-> TRUE, threshold |-> TRUE,
                     last_check_result |-> TRUE]]
      /\ vault' = vault /\ ~risk[v].live
  BY DEF SetUpRisk
<1>2. /\ risk' \in [Vaults -> RiskAccount]
      /\ risk'[v].live /\ risk'[v].backing /\ risk'[v].threshold
  BY <1>1 DEF AccountsTyped, RiskAccount
<1>3. \A u \in Vaults : risk[u].live => risk'[u] = risk[u]
  BY <1>1 DEF AccountsTyped
<1> QED
  BY <1>1, <1>2, <1>3 DEF AccountsTyped, ChainKept, VaultKept, RiskKept,
     VaultAccount

LEMMA CheckKeeps ==
    ASSUME AccountsTyped, NEW v \in Vaults, NEW user,
           TriggerRiskCheck(v, user, FALSE)
    PROVE  /\ ChainKept
           /\ vault'[v] = [vault[v] EXCEPT !.frozen = TRUE]
           /\ risk'[v] = [risk[v] EXCEPT !.last_check_result = FALSE]
<1>1. /\ vault' = [vault EXCEPT ![v].frozen = @ \/ ~FALSE]
      /\ risk' = [risk EXCEPT ![v].last_check_result = FALSE]
      /\ vault[v].live /\ risk[v].live
  BY DEF TriggerRiskCheck, MayCheck
<1>2. /\ vault'[v] = [vault[v] EXCEPT !.frozen = TRUE]
      /\ risk'[v] = [risk[v] EXCEPT !.last_check_result = FALSE]
  BY <1>1 DEF AccountsTyped
<1>3. vault' \in [Vaults -> VaultAccount] /\ risk' \in [Vaults -> RiskAccount]
  <2>1. vault[v] \in VaultAccount /\ risk[v] \in RiskAccount
    BY DEF AccountsTyped
  <2>2. vault'[v] \in VaultAccount
    BY <1>2, <2>1 DEF VaultAccount
  <2>3. risk'[v] \in RiskAccount
    BY <1>2, <2>1 DEF RiskAccount
  <2>4. /\ vault' = [vault EXCEPT ![v] = vault'[v]]
        /\ risk' = [risk EXCEPT ![v] = risk'[v]]
    BY <1>1 DEF AccountsTyped
  <2> QED
    BY <2>2, <2>3, <2>4 DEF AccountsTyped
<1>4. \A u \in Vaults \ {v} : vault'[u] = vault[u] /\ risk'[u] = risk[u]
  BY <1>1 DEF AccountsTyped
<1>5. (vault[v].live => VaultKept(v)) /\ (risk[v].live => RiskKept(v))
  BY <1>1, <1>2
    DEF AccountsTyped, VaultKept, RiskKept, VaultAccount, RiskAccount
<1>6. ASSUME NEW u \in Vaults
      PROVE  (vault[u].live => VaultKept(u)) /\ (risk[u].live => RiskKept(u))
  <2>1. CASE u = v
    BY <1>5, <2>1
  <2>2. CASE u # v
    BY <1>4, <2>2 DEF AccountsTyped, VaultKept, RiskKept, VaultAccount
  <2> QED
    BY <2>1, <2>2
<1> QED
  BY <1>2, <1>3, <1>6 DEF ChainKept

----------------------------------------------------------------------------
(* What was known stays known *)

LEMMA KnownStays ==
    ASSUME DemoTyped, ChainKept, NEW v \in Vaults
    PROVE  /\ IsRegistered(v) => IsRegistered(v)'
           /\ IsProved(v) => IsProved(v)'
           /\ HasDeposit(v) => HasDeposit(v)'
           /\ IsWatched(v) => IsWatched(v)'
           /\ IsTripped(v) => IsTripped(v)'
<1>1. /\ vault[v].deposited_amount \in Nat
      /\ vault'[v].deposited_amount \in Nat
      /\ DEPOSIT_AMOUNT \in Nat
  BY DemoAssumption DEF DemoTyped, AccountsTyped, ChainKept, VaultAccount
<1>2. vault[v].live => VaultKept(v)
  BY DEF ChainKept
<1>3. risk[v].live => RiskKept(v)
  BY DEF ChainKept
<1>4. IsRegistered(v) => IsRegistered(v)'
  BY <1>2 DEF VaultKept, IsRegistered
<1>5. IsProved(v) => IsProved(v)'
  BY <1>2 DEF VaultKept, IsRegistered, IsProved
<1>6. HasDeposit(v) => HasDeposit(v)'
  BY <1>1, <1>2, <1>5 DEF VaultKept, IsRegistered, IsProved, HasDeposit
<1>7. IsWatched(v) => IsWatched(v)'
  BY <1>3, <1>6 DEF RiskKept, IsWatched
<1>8. IsTripped(v) => IsTripped(v)'
  BY <1>2, <1>3, <1>7 DEF VaultKept, RiskKept, IsRegistered, IsProved,
     HasDeposit, IsWatched, IsTripped
<1> QED
  BY <1>4, <1>5, <1>6, <1>7, <1>8

LEMMA TaskStays ==
    ASSUME DemoTyped, ChainKept, misled \subseteq misled',
           NEW t, DemoTask(t)
    PROVE  DemoTask(t)'
  BY KnownStays DEF DemoTask

LEMMA DoneStays ==
    ASSUME DemoTyped, ChainKept, misled \subseteq misled',
           NEW t, DemoTask(t), DemoDone(t)
    PROVE  DemoDone(t)'
<1>1. CASE t.name \in OtherTasks
  BY <1>1 DEF DemoDone, OtherTasks
<1>2. CASE t.v \in Vaults
  BY <1>2, KnownStays DEF DemoDone
<1> QED
  BY <1>1, <1>2 DEF DemoTask

LEMMA PageStays ==
    ASSUME DemoTyped, ChainKept, misled \subseteq misled',
           UNCHANGED <<page, panel>>, PageTrailsChain
    PROVE  PageTrailsChain'
<1>1. ASSUME page.step > 1, page.v \notin misled
      PROVE  (page.v # NoPda /\ TrailOf(page.v))'
  <2>1. page.v \in Vaults /\ TrailOf(page.v) /\ page.v # NoPda
    BY <1>1 DEF DemoTyped, AccountsTyped, PageTrailsChain
  <2>2. page.step \in 1..6
    BY DEF DemoTyped, AccountsTyped
  <2> DEFINE v == page.v
  <2>3. /\ page.step >= 2 => IsRegistered(v)
        /\ page.step >= 3 => IsProved(v)
        /\ page.step >= 4 => HasDeposit(v)
        /\ page.step >= 5 => IsWatched(v)
        /\ page.step = 6 => IsTripped(v)
    BY <2>1, <2>2 DEF TrailOf, IsRegistered, IsProved, HasDeposit, IsWatched,
       IsTripped
  <2>4. PICK u \in Vaults : u = v
    BY <2>1
  <2>5. /\ page.step >= 2 => IsRegistered(u)'
        /\ page.step >= 3 => IsProved(u)'
        /\ page.step >= 4 => HasDeposit(u)'
        /\ page.step >= 5 => IsWatched(u)'
        /\ page.step = 6 => IsTripped(u)'
    BY <2>3, <2>4, KnownStays
  <2>6. page' = page /\ u = page.v
    BY <2>4
  <2> HIDE DEF v
  <2> QED
    BY <2>1, <2>5, <2>6 DEF TrailOf, IsRegistered, IsProved, HasDeposit,
       IsWatched, IsTripped
<1>2. ASSUME panel.v \notin misled \cup {NoPda}, ~panel.mixed
      PROVE  ToldOf(panel.v)'
  <2>1. PICK u \in Vaults : u = panel.v
    BY <1>2 DEF DemoTyped, AccountsTyped
  <2>2. ToldOf(u)
    BY <1>2, <2>1 DEF PageTrailsChain
  <2>3. /\ VaultKept(u)
        /\ vault[u].deposited_amount \in Nat
        /\ vault'[u].deposited_amount \in Nat
        /\ panel.deposited \in Nat
    BY <2>2 DEF ToldOf, ChainKept, DemoTyped, AccountsTyped, VaultAccount
  <2> QED
    BY <2>1, <2>2, <2>3 DEF ToldOf, VaultKept
<1> QED
  BY <1>1, <1>2 DEF PageTrailsChain

----------------------------------------------------------------------------
(* Transactions *)

LEMMA LandsKeeps ==
    ASSUME DemoTyped, NEW t, t.amount \in Nat, DemoTask(t), Lands(t),
           UNCHANGED misled
    PROVE  ChainKept /\ now' = now /\ DemoDone(t)'
<1>0. AccountsTyped
  BY DEF DemoTyped
<1>1. CASE UNCHANGED <<vault, risk, now>>
             /\ t.name \in OtherTasks \cup Experiments
  BY <1>0, <1>1, UnchangedKeeps DEF DemoDone, OtherTasks, Experiments
<1>2. CASE t.name = "register" /\ t.v \in Vaults /\ RegisterVault(t.v, BTC)
  BY <1>0, <1>2, RegisterKeeps
    DEF DemoDone, IsRegistered, RegisterVault, clockVars
<1>3. CASE t.name = "prove" /\ t.v \in Vaults /\ ProveCustody(t.v)
  BY <1>0, <1>3, ProveKeeps DEF DemoDone, IsRegistered, IsProved, ProveCustody,
     VerifyCustodyProof, clockVars
<1>4. CASE /\ t.name \in {"deposit", "attack"} /\ t.v \in Vaults
           /\ DepositCollateral(t.v, Visitor, t.amount)
  <2>1. t.name = "deposit" => t.amount = DEPOSIT_AMOUNT
    BY <1>4 DEF DemoTask, OtherTasks
  <2> QED
    BY <1>0, <1>4, <2>1, DepositKeeps DEF DemoDone, IsRegistered, IsProved,
       HasDeposit, DepositCollateral, clockVars
<1>5. CASE t.name = "set_up_risk" /\ t.v \in Vaults /\ SetUpRisk(t.v)
  <2>1. t.v \notin misled => HasDeposit(t.v)
    BY <1>5 DEF DemoTask, OtherTasks
  <2>2. /\ ChainKept /\ vault' = vault
        /\ risk'[t.v].live /\ risk'[t.v].backing /\ risk'[t.v].threshold
    BY <1>0, <1>5, SetUpRiskKeeps
  <2> QED
    BY <1>5, <2>1, <2>2 DEF DemoDone, IsRegistered, IsProved, HasDeposit,
       IsWatched, SetUpRisk, clockVars
<1>6. CASE /\ t.name = "check" /\ t.v \in Vaults
           /\ TriggerRiskCheck(t.v, Visitor, FALSE)
  <2>1. t.v \notin misled => IsWatched(t.v)
    BY <1>6 DEF DemoTask, OtherTasks
  <2>2. /\ ChainKept
        /\ vault'[t.v].frozen /\ ~risk'[t.v].last_check_result
    <3>1. /\ vault'[t.v] = [vault[t.v] EXCEPT !.frozen = TRUE]
          /\ risk'[t.v] = [risk[t.v] EXCEPT !.last_check_result = FALSE]
          /\ ChainKept
      BY <1>0, <1>6, CheckKeeps
    <3>2. vault[t.v] \in VaultAccount /\ risk[t.v] \in RiskAccount
      BY <1>6 DEF DemoTyped, AccountsTyped
    <3> QED
      BY <3>1, <3>2 DEF VaultAccount, RiskAccount
  <2>3. t.v \notin misled => IsWatched(t.v)'
    BY <1>6, <2>1, <2>2, KnownStays
  <2> QED
    BY <1>6, <2>2, <2>3 DEF DemoDone, IsTripped, TriggerRiskCheck, clockVars
<1>7. t.name \in {"initialize", "unfreeze", "register", "prove", "deposit",
                  "attack", "set_up_risk", "check", "ika_approve",
                  "ika_fallback", "none"}
  BY DEF DemoTask, OtherTasks, VaultTasks, Experiments
<1>8. t.name \in {"register", "prove", "deposit", "attack", "set_up_risk",
                  "check"} => t.v \in Vaults
  BY DEF DemoTask, OtherTasks
<1>9. CASE CustodyTask(t)
  <2>1. CASE t.name \in OtherTasks
    BY <1>1, <1>9, <2>1 DEF CustodyTask, OtherTasks, custodyVars, clockVars,
       InitializeProtocol, UnfreezeProtocolState
  <2> QED
    BY <1>2, <1>3, <1>4, <1>5, <1>6, <1>8, <1>9, <2>1 DEF CustodyTask,
       OtherTasks
<1>10. CASE IkaTask(t) /\ UNCHANGED <<lendGuardVars, approved>>
  BY <1>1, <1>10 DEF IkaTask, Experiments, lendGuardVars, vars, custodyVars,
     clockVars
<1> QED
  BY <1>7, <1>9, <1>10 DEF Lands, LendingTask, BtcTask

----------------------------------------------------------------------------
(* Handlers *)

\* One handler moves, the others stay as they are.
LEMMA HandlerMoves ==
    ASSUME DemoTyped, HandlersTrail, ChainKept, misled \subseteq misled',
           NEW c \in CallIds, NEW next \in Call,
           calls' = [calls EXCEPT ![c] = next],
           DemoTask(next.task)',
           next.sent = "ok" => DemoDone(next.task)'
    PROVE  calls' \in [CallIds -> Call] /\ HandlersTrail'
<1>1. calls' \in [CallIds -> Call] /\ calls'[c] = next
  BY DEF DemoTyped, AccountsTyped
<1>2. ASSUME NEW d \in CallIds
      PROVE  HandlerTrails(d)'
  <2>1. CASE d = c
    BY <1>1, <2>1 DEF HandlerTrails, DemoTask, DemoDone, IsRegistered,
       IsProved, HasDeposit, IsWatched, IsTripped
  <2>2. CASE d # c
    <3>1. PICK t : t = calls[d].task
      OBVIOUS
    <3>2. calls'[d] = calls[d]
      BY <2>2 DEF DemoTyped, AccountsTyped
    <3>3. DemoTask(t) /\ (calls[d].sent = "ok" => DemoDone(t))
      BY <3>1 DEF HandlersTrail, HandlerTrails
    <3>4. DemoTask(t)' /\ (calls[d].sent = "ok" => DemoDone(t)')
      BY <3>3, TaskStays, DoneStays
    <3> QED
      BY <3>1, <3>2, <3>4 DEF HandlerTrails, DemoTask, DemoDone,
         IsRegistered, IsProved, HasDeposit, IsWatched, IsTripped
  <2> QED
    BY <2>1, <2>2
<1> QED
  BY <1>1, <1>2 DEF HandlersTrail

TaskRecord == [name : TaskNames, v : Vaults \cup BtcVaults \cup {NoPda},
               amount : Nat]

\* It goes on with its task, or ends.
GoesOn(c, next) ==
    \/ next = NoCall
    \/ /\ next.task = calls[c].task
       /\ next.sent = "ok" => calls[c].sent = "ok"

LEMMA HandlerGoesOn ==
    ASSUME DemoTyped, HandlersTrail, ChainKept, misled \subseteq misled',
           NEW c \in CallIds, NEW next \in Call,
           calls' = [calls EXCEPT ![c] = next],
           GoesOn(c, next)
    PROVE  calls' \in [CallIds -> Call] /\ HandlersTrail'
<1>1. CASE next = NoCall
  <2>1. DemoTask(next.task)' /\ next.sent # "ok"
    BY <1>1 DEF NoCall, NoTask, DemoTask, OtherTasks
  <2> QED
    BY <2>1, HandlerMoves
<1>2. CASE next # NoCall
  <2>1. /\ next.task = calls[c].task
        /\ next.sent = "ok" => calls[c].sent = "ok"
    BY <1>2 DEF GoesOn
  <2>2. DemoTask(next.task) /\ (next.sent = "ok" => DemoDone(next.task))
    BY <2>1 DEF HandlersTrail, HandlerTrails, DemoTask, DemoDone,
       IsRegistered, IsProved, HasDeposit, IsWatched, IsTripped
  <2>3. DemoTask(next.task)' /\ (next.sent = "ok" => DemoDone(next.task)')
    BY <2>2, TaskStays, DoneStays
  <2> QED
    BY <2>3, HandlerMoves
<1> QED
  BY <1>1, <1>2

\* It begins with another task.
LEMMA HandlerStarts ==
    ASSUME DemoTyped, HandlersTrail, ChainKept, misled \subseteq misled',
           NEW c \in CallIds, NEW t \in TaskRecord, DemoTask(t),
           calls' = [calls EXCEPT ![c] = [NoCall EXCEPT !.stage = "simulating",
                                                       !.task = t]]
    PROVE  calls' \in [CallIds -> Call] /\ HandlersTrail'
<1>1. PICK next : next = [NoCall EXCEPT !.stage = "simulating", !.task = t]
  OBVIOUS
<1>2. next \in Call /\ next.task = t /\ next.sent = "no"
  BY <1>1 DEF NoCall, NoTask, Call, TaskRecord, TaskNames
<1>3. DemoTask(next.task)'
  BY <1>2, TaskStays
<1> QED
  BY <1>1, <1>2, <1>3, HandlerMoves

\* Nothing but handlers and the chain moves.
LEMMA PageRests ==
    ASSUME DemoIInv, ChainKept, now' \in Nat, UNCHANGED <<page, panel>>,
           misled \subseteq misled',
           calls' \in [CallIds -> Call], HandlersTrail'
    PROVE  DemoIInv'
<1>1. PageTrailsChain'
  BY PageStays DEF DemoIInv
<1>2. DemoTyped'
  BY DEF DemoIInv, DemoTyped, AccountsTyped, ChainKept
<1> QED
  BY <1>1, <1>2 DEF DemoIInv

----------------------------------------------------------------------------
(* The visitor *)

LEMMA StartsTrails ==
    ASSUME DemoIInv, NEW t \in TaskRecord, DemoTask(t), Starts(t),
           UNCHANGED demoVars
    PROVE  DemoIInv'
<1>1. /\ ChainKept /\ now' = now /\ now \in Nat
      /\ misled' = misled /\ UNCHANGED <<page, panel>>
  BY UnchangedKeeps DEF Starts, chainVars, lendGuardVars, vars, custodyVars,
     clockVars, demoVars, DemoIInv, DemoTyped, AccountsTyped
<1>2. PICK c \in CallIds :
        calls' = [calls EXCEPT ![c] = [NoCall EXCEPT !.stage = "simulating",
                                                    !.task = t]]
  BY DEF Starts
<1>3. calls' \in [CallIds -> Call] /\ HandlersTrail'
  BY <1>1, <1>2, HandlerStarts DEF DemoIInv
<1> QED
  BY <1>1, <1>3, PageRests

LEMMA FreshIdIsVault ==
    ASSUME IdsLeft PROVE FreshDwalletId \in Vaults
<1>1. (CHOOSE i \in Drawable : TRUE) \in Drawable
  BY DEF IdsLeft
<1>2. Drawable \subseteq DOMAIN DwalletIds
  BY DEF Drawable
<1> QED
  BY <1>1, <1>2, DemoAssumption DEF FreshDwalletId

LEMMA TaskFields ==
    ASSUME NEW name \in TaskNames, NEW v \in Vaults \cup BtcVaults \cup {NoPda},
           NEW amount \in Nat
    PROVE  /\ Task(name, v, amount) \in TaskRecord
           /\ Task(name, v, amount).name = name
           /\ Task(name, v, amount).v = v
           /\ Task(name, v, amount).amount = amount
  BY DEF Task, TaskRecord

LEMMA OtherTaskFits ==
    ASSUME NEW name \in TaskNames, name \in OtherTasks
    PROVE  /\ Task(name, NoPda, 0) \in TaskRecord
           /\ DemoTask(Task(name, NoPda, 0))
  BY TaskFields DEF DemoTask

LEMMA VaultTaskFits ==
    ASSUME NEW name \in TaskNames, name \in VaultTasks, NEW v \in Vaults,
           NEW amount \in Nat,
           name = "deposit" => amount = DEPOSIT_AMOUNT,
           v \notin misled /\ name = "set_up_risk" => HasDeposit(v),
           v \notin misled /\ name = "check" => IsWatched(v)
    PROVE  /\ Task(name, v, amount) \in TaskRecord
           /\ DemoTask(Task(name, v, amount))
<1>1. PICK t : t = Task(name, v, amount)
  OBVIOUS
<1>2. t \in TaskRecord /\ t.name = name /\ t.v = v /\ t.amount = amount
  BY <1>1, TaskFields
<1>3. DemoTask(t)
  BY <1>2 DEF DemoTask
<1> QED
  BY <1>1, <1>2, <1>3

LEMMA RegisterTaskFits ==
    ASSUME FreshDwalletId \in Vaults
    PROVE  RegisterTask \in TaskRecord /\ DemoTask(RegisterTask)
<1>1. "register" \in TaskNames /\ "register" \in VaultTasks
  BY DEF VaultTasks, TaskNames
<1> QED
  BY <1>1, VaultTaskFits DEF RegisterTask

\* A step's transaction is one the trail is ready for.
LEMMA StepTaskFits ==
    ASSUME DemoIInv, HasSession, page.step = 1 => IdsLeft
    PROVE  StepTask \in TaskRecord /\ DemoTask(StepTask)
<1>0. /\ page.step \in 1..6 /\ page.v \in Vaults \cup {NoPda}
      /\ DEPOSIT_AMOUNT \in Nat
  BY DemoAssumption DEF DemoIInv, DemoTyped, AccountsTyped
<1>1. CASE page.step = 1
  <2>1. FreshDwalletId \in Vaults
    BY <1>1, FreshIdIsVault
  <2>2. FirstTask \in TaskRecord /\ DemoTask(FirstTask)
    <3>1. RegisterTask \in TaskRecord /\ DemoTask(RegisterTask)
      BY <2>1, RegisterTaskFits
    <3>2. ASSUME NEW name \in {"initialize", "unfreeze"}
          PROVE  /\ Task(name, NoPda, 0) \in TaskRecord
                 /\ DemoTask(Task(name, NoPda, 0))
      BY OtherTaskFits DEF OtherTasks, TaskNames
    <3> QED
      BY <3>1, <3>2 DEF FirstTask
  <2> QED
    BY <1>1, <2>2 DEF StepTask
<1>2. CASE page.step # 1
  <2>1. page.v \in Vaults
    BY <1>0, <1>2 DEF HasSession
  <2>2. page.v \notin misled =>
          /\ page.step >= 4 => HasDeposit(page.v)
          /\ page.step >= 5 => IsWatched(page.v)
    BY <1>0, <1>2 DEF DemoIInv, PageTrailsChain, TrailOf, HasDeposit,
       IsProved, IsRegistered, IsWatched
  <2>3. CASE page.step = 2
    <3>1. StepTask = Task("prove", page.v, 0)
      BY <2>3 DEF StepTask, ProveTask
    <3>2. "prove" \in TaskNames /\ "prove" \in VaultTasks
      BY DEF VaultTasks, TaskNames
    <3> QED
      BY <2>1, <3>1, <3>2, VaultTaskFits
  <2>4. CASE page.step = 3
    <3>1. StepTask = Task("deposit", page.v, DEPOSIT_AMOUNT)
      BY <2>4 DEF StepTask, DepositTask
    <3>2. "deposit" \in TaskNames /\ "deposit" \in VaultTasks
      BY DEF VaultTasks, TaskNames
    <3> QED
      BY <1>0, <2>1, <2>4, <3>1, <3>2, VaultTaskFits
  <2>5. CASE page.step = 4
    <3>1. StepTask = Task("set_up_risk", page.v, 0)
      BY <2>5 DEF StepTask, RiskTask
    <3>2. "set_up_risk" \in TaskNames /\ "set_up_risk" \in VaultTasks
      BY DEF VaultTasks, TaskNames
    <3> QED
      BY <1>0, <2>1, <2>2, <2>5, <3>1, <3>2, VaultTaskFits
  <2>6. CASE page.step = 5
    <3>1. StepTask = Task("check", page.v, 0)
      BY <2>6 DEF StepTask, CheckTask
    <3>2. "check" \in TaskNames /\ "check" \in VaultTasks
      BY DEF VaultTasks, TaskNames
    <3> QED
      BY <1>0, <2>1, <2>2, <2>6, <3>1, <3>2, VaultTaskFits
  <2>7. CASE page.step = 6
    <3>1. StepTask = Task("attack", page.v, DEPOSIT_AMOUNT)
      BY <2>7 DEF StepTask, AttackTask
    <3>2. "attack" \in TaskNames /\ "attack" \in VaultTasks
      BY DEF VaultTasks, TaskNames
    <3> QED
      BY <1>0, <2>1, <2>7, <3>1, <3>2, VaultTaskFits
  <2> QED
    BY <1>0, <1>2, <2>3, <2>4, <2>5, <2>6, <2>7
<1> QED
  BY <1>1, <1>2

LEMMA ClickTrails ==
    ASSUME DemoIInv, Click PROVE DemoIInv'
<1>1. /\ HasSession /\ (page.step = 1 => IdsLeft)
      /\ Starts(StepTask) /\ UNCHANGED demoVars
  BY DEF Click, HonestClick, AttackerClick
<1>2. PICK t : t = StepTask
  OBVIOUS
<1>3. t \in TaskRecord /\ DemoTask(t)
  BY <1>1, <1>2, StepTaskFits
<1> QED
  BY <1>1, <1>2, <1>3, StartsTrails DEF Starts

LEMMA ExperimentTrails ==
    ASSUME DemoIInv, ClickExperiment PROVE DemoIInv'
<1>1. PICK t : t = Task("ika_approve", page.v, 0)
  OBVIOUS
<1>2. page.v \in Vaults
  BY DEF ClickExperiment, DemoIInv, DemoTyped, AccountsTyped
<1>3. t \in TaskRecord /\ DemoTask(t)
  <2>1. "ika_approve" \in TaskNames /\ "ika_approve" \in VaultTasks
    BY DEF VaultTasks, TaskNames, Experiments
  <2> QED
    BY <1>1, <1>2, <2>1, VaultTaskFits
<1> QED
  BY <1>1, <1>3, StartsTrails DEF ClickExperiment, Starts

LEMMA ResetTrails ==
    ASSUME DemoIInv, Reset PROVE DemoIInv'
<1>1. /\ ChainKept /\ now' = now
      /\ calls' = calls /\ misled' = misled
      /\ page' = FirstPage /\ panel' = NoPanel
  BY UnchangedKeeps DEF Reset, chainVars, lendGuardVars, vars, custodyVars,
     clockVars, DemoIInv, DemoTyped
<1>2. DemoTyped'
  BY <1>1 DEF DemoIInv, DemoTyped, AccountsTyped, ChainKept, FirstPage, NoPanel
<1>3. HandlersTrail'
  BY <1>1, TaskStays, DoneStays DEF DemoIInv, HandlersTrail, HandlerTrails,
     DemoTask, DemoDone, Reset, chainVars, lendGuardVars, vars, custodyVars,
     IsRegistered, IsProved, HasDeposit, IsWatched, IsTripped
<1>4. PageTrailsChain'
  BY <1>1 DEF PageTrailsChain, FirstPage, NoPanel
<1> QED
  BY <1>2, <1>3, <1>4 DEF DemoIInv

----------------------------------------------------------------------------
(* A handler while it waits *)

\* Only its own record moves, and only on with its task or to the end.
LEMMA WaitingTrails ==
    ASSUME DemoIInv, ChainKept, now' \in Nat, UNCHANGED <<page, panel, misled>>,
           NEW c \in CallIds, NEW next \in Call,
           calls' = [calls EXCEPT ![c] = next], GoesOn(c, next)
    PROVE  DemoIInv'
<1>1. calls' \in [CallIds -> Call] /\ HandlersTrail'
  BY HandlerGoesOn DEF DemoIInv
<1> QED
  BY <1>1, PageRests

LEMMA ChainRests ==
    ASSUME DemoIInv, UNCHANGED chainVars
    PROVE  ChainKept /\ now' \in Nat
  BY UnchangedKeeps DEF chainVars, lendGuardVars, vars, custodyVars, clockVars,
     DemoIInv, DemoTyped, AccountsTyped

LEMMA EndedFacts ==
    ASSUME calls \in [CallIds -> Call], NEW c \in CallIds, Ended(c)
    PROVE  \E next \in Call :
             /\ calls' = [calls EXCEPT ![c] = next] /\ GoesOn(c, next)
             /\ \/ /\ next.task = calls[c].task /\ calls[c].sent = "flying"
                   /\ next.stage = "gone" /\ next.sent = "flying"
                \/ next = NoCall
<1>1. calls[c] \in Call /\ NoCall \in Call
  BY DEF NoCall, NoTask, Call, TaskNames
<1>2. CASE calls[c].sent = "flying"
  <2>1. PICK next : next = [calls[c] EXCEPT !.stage = "gone"]
    OBVIOUS
  <2>2. /\ next \in Call /\ next.task = calls[c].task
        /\ next.stage = "gone" /\ next.sent = "flying"
    BY <1>1, <1>2, <2>1 DEF Call
  <2>3. calls' = [calls EXCEPT ![c] = next]
    BY <1>2, <2>1 DEF Ended
  <2> QED
    BY <1>2, <2>2, <2>3 DEF GoesOn
<1>3. CASE calls[c].sent # "flying"
  BY <1>1, <1>3 DEF Ended, GoesOn
<1> QED
  BY <1>2, <1>3

LEMMA ToFacts ==
    ASSUME calls \in [CallIds -> Call], NEW c \in CallIds,
           NEW stage \in
             {"idle", "simulating", "signing", "confirming", "gone"},
           NEW sent \in {"no", "flying"},
           To(c, stage, sent)
    PROVE  \E next \in Call :
             /\ calls' = [calls EXCEPT ![c] = next] /\ GoesOn(c, next)
             /\ next.task = calls[c].task
             /\ next.stage = stage /\ next.sent = sent
<1>1. calls[c] \in Call
  OBVIOUS
<1>2. PICK next : next = [calls[c] EXCEPT !.stage = stage, !.sent = sent]
  OBVIOUS
<1>3. /\ next \in Call /\ next.task = calls[c].task
      /\ next.stage = stage /\ next.sent = sent
  BY <1>1, <1>2 DEF Call
<1>4. calls' = [calls EXCEPT ![c] = next]
  BY <1>2 DEF To
<1> QED
  BY <1>3, <1>4 DEF GoesOn

\* Its transaction has an answer, or never gets one.
LEMMA AnswerFacts ==
    ASSUME calls \in [CallIds -> Call], NEW c \in CallIds,
           NEW sent \in {"ok", "err", "dropped"},
           calls' = [calls EXCEPT ![c] =
             IF @.stage = "gone" THEN NoCall ELSE [@ EXCEPT !.sent = sent]]
    PROVE  \E next \in Call :
             /\ calls' = [calls EXCEPT ![c] = next]
             /\ \/ next = NoCall /\ calls[c].stage = "gone"
                \/ /\ next.task = calls[c].task
                   /\ next.stage = calls[c].stage /\ next.sent = sent
<1>1. calls[c] \in Call /\ NoCall \in Call
  BY DEF NoCall, NoTask, Call, TaskNames
<1>2. CASE calls[c].stage = "gone"
  BY <1>1, <1>2
<1>3. CASE calls[c].stage # "gone"
  <2>1. PICK next : next = [calls[c] EXCEPT !.sent = sent]
    OBVIOUS
  <2>2. /\ next \in Call /\ next.task = calls[c].task
        /\ next.stage = calls[c].stage /\ next.sent = sent
    BY <1>1, <2>1 DEF Call
  <2>3. calls' = [calls EXCEPT ![c] = next]
    BY <1>3, <2>1
  <2> QED
    BY <2>2, <2>3
<1> QED
  BY <1>2, <1>3

LEMMA ThrowsTrail ==
    ASSUME DemoIInv, NEW c \in CallIds, DemoThrows(c)
    PROVE  DemoIInv'
<1>1. UNCHANGED chainVars /\ UNCHANGED <<page, panel, misled>>
  BY DEF DemoThrows, Throws, PostUnanswered
<1>2. CASE Throws(c)
  <2>1. PICK next \in Call :
          calls' = [calls EXCEPT ![c] = next] /\ GoesOn(c, next)
    BY <1>2, EndedFacts DEF Throws, DemoIInv, DemoTyped
  <2> QED
    BY <1>1, <2>1, ChainRests, WaitingTrails
<1>3. CASE PostUnanswered(c)
  <2>1. PICK next \in Call :
          calls' = [calls EXCEPT ![c] = next] /\ GoesOn(c, next)
    BY <1>3, ToFacts DEF PostUnanswered, DemoIInv, DemoTyped
  <2> QED
    BY <1>1, <2>1, ChainRests, WaitingTrails
<1> QED
  BY <1>2, <1>3 DEF DemoThrows

LEMMA ExecutesTrails ==
    ASSUME DemoIInv, NEW c \in CallIds, Executes(c), UNCHANGED demoVars
    PROVE  DemoIInv'
<1>0. /\ calls[c] \in Call /\ NoCall \in Call
      /\ UNCHANGED <<page, panel, misled>>
      /\ now \in Nat
  BY DEF demoVars, DemoIInv, DemoTyped, AccountsTyped, NoCall, NoTask, Call,
    TaskNames
<1>1. CASE /\ Lands(calls[c].task)
           /\ calls' = [calls EXCEPT ![c] =
                IF @.stage = "gone" THEN NoCall ELSE [@ EXCEPT !.sent = "ok"]]
  <2>1. PICK t : t = calls[c].task
    OBVIOUS
  <2>2. t.amount \in Nat /\ DemoTask(t) /\ Lands(t)
    BY <1>0, <1>1, <2>1 DEF Call, DemoIInv, HandlersTrail, HandlerTrails
  <2>3. ChainKept /\ now' = now /\ DemoDone(t)' /\ DemoTask(t)'
    BY <1>0, <2>2, LandsKeeps, TaskStays DEF DemoIInv
  <2>4. PICK next \in Call :
          /\ calls' = [calls EXCEPT ![c] = next]
          /\ next = NoCall \/ (next.task = t /\ next.sent = "ok")
    BY <1>1, <2>1, AnswerFacts DEF DemoIInv, DemoTyped
  <2>5. CASE next = NoCall
    BY <1>0, <2>3, <2>4, <2>5, WaitingTrails DEF GoesOn
  <2>6. CASE next.task = t
    <3>1. calls' \in [CallIds -> Call] /\ HandlersTrail'
      BY <1>0, <2>3, <2>4, <2>6, HandlerMoves DEF DemoIInv
    <3> QED
      BY <1>0, <2>3, <3>1, PageRests
  <2> QED
    BY <2>4, <2>5, <2>6
<1>2. CASE /\ UNCHANGED chainVars
           /\ calls' = [calls EXCEPT ![c] =
                IF @.stage = "gone" THEN NoCall ELSE [@ EXCEPT !.sent = "err"]]
  <2>1. PICK next \in Call :
          calls' = [calls EXCEPT ![c] = next] /\ GoesOn(c, next)
    BY <1>2, AnswerFacts DEF DemoIInv, DemoTyped, GoesOn
  <2> QED
    BY <1>0, <1>2, <2>1, ChainRests, WaitingTrails
<1> QED
  BY <1>1, <1>2 DEF Executes

LEMMA UnderWayTrails ==
    ASSUME DemoIInv, NEW c \in CallIds, UnderWay(c), UNCHANGED demoVars
    PROVE  DemoIInv'
<1>0. UNCHANGED <<page, panel, misled>>
  BY DEF demoVars
<1>1. CASE Simulates(c)
  <2>1. PICK next \in Call :
          calls' = [calls EXCEPT ![c] = next] /\ GoesOn(c, next)
    BY <1>1, ToFacts DEF Simulates, DemoIInv, DemoTyped
  <2> QED
    BY <1>0, <1>1, <2>1, ChainRests, WaitingTrails DEF Simulates
<1>2. CASE Posts(c)
  <2>1. PICK next \in Call :
          calls' = [calls EXCEPT ![c] = next] /\ GoesOn(c, next)
    BY <1>2, ToFacts DEF Posts, DemoIInv, DemoTyped
  <2> QED
    BY <1>0, <1>2, <2>1, ChainRests, WaitingTrails DEF Posts
<1>3. CASE Executes(c)
  BY <1>3, ExecutesTrails
<1>4. CASE Drops(c)
  <2>1. PICK next \in Call :
          calls' = [calls EXCEPT ![c] = next] /\ GoesOn(c, next)
    BY <1>4, AnswerFacts DEF Drops, DemoIInv, DemoTyped, GoesOn
  <2> QED
    BY <1>0, <1>4, <2>1, ChainRests, WaitingTrails DEF Drops
<1> QED
  BY <1>1, <1>2, <1>3, <1>4 DEF UnderWay

LEMMA FallsBackTrails ==
    ASSUME DemoIInv, NEW c \in CallIds, FallsBack(c)
    PROVE  DemoIInv'
<1>1. PICK t : t = Task("ika_fallback", calls[c].task.v, 0)
  OBVIOUS
<1>2. calls[c].task.v \in Vaults
  BY DEF FallsBack, DemoIInv, HandlersTrail, HandlerTrails, DemoTask, OtherTasks
<1>3. "ika_fallback" \in TaskNames /\ "ika_fallback" \in VaultTasks
  BY DEF VaultTasks, TaskNames, Experiments
<1>4. t \in TaskRecord /\ DemoTask(t)
  BY <1>1, <1>2, <1>3, VaultTaskFits
<1>5. /\ calls' = [calls EXCEPT ![c] =
            [NoCall EXCEPT !.stage = "simulating", !.task = t]]
      /\ ChainKept /\ now' \in Nat /\ UNCHANGED <<page, panel, misled>>
  BY <1>1, ChainRests DEF FallsBack, demoVars
<1>6. calls' \in [CallIds -> Call] /\ HandlersTrail'
  BY <1>4, <1>5, HandlerStarts DEF DemoIInv
<1> QED
  BY <1>5, <1>6, PageRests

----------------------------------------------------------------------------
(* A handler that returns *)

\* Where the chain rests, the page is right if its new step is.
PageRight ==
    /\ page'.step > 1 /\ page'.v \notin misled'
         => /\ page'.v # NoPda
            /\ page'.step >= 2 => IsRegistered(page'.v)
            /\ page'.step >= 3 => IsProved(page'.v)
            /\ page'.step >= 4 => HasDeposit(page'.v)
            /\ page'.step >= 5 => IsWatched(page'.v)
            /\ page'.step = 6 => IsTripped(page'.v)

PanelRight ==
    panel'.v \notin misled' \cup {NoPda} /\ ~panel'.mixed
      => /\ vault[panel'.v].live
         /\ panel'.verified => vault[panel'.v].proof_status = VERIFIED
         /\ panel'.deposited <= vault[panel'.v].deposited_amount
         /\ panel'.frozen => vault[panel'.v].frozen

LEMMA PageTrailsMeans ==
    ASSUME DemoTyped, PageTrailsChain, page.step > 1, page.v \notin misled
    PROVE  /\ page.v # NoPda /\ page.v \in Vaults
           /\ page.step >= 2 => IsRegistered(page.v)
           /\ page.step >= 3 => IsProved(page.v)
           /\ page.step >= 4 => HasDeposit(page.v)
           /\ page.step >= 5 => IsWatched(page.v)
           /\ page.step = 6 => IsTripped(page.v)
<1>1. page.v # NoPda /\ TrailOf(page.v) /\ page.step \in 1..6
  BY DEF PageTrailsChain, DemoTyped, AccountsTyped
<1> QED
  BY <1>1 DEF TrailOf, IsRegistered, IsProved, HasDeposit, IsWatched,
     IsTripped, DemoTyped, AccountsTyped

LEMMA RightIsTrailing ==
    ASSUME UNCHANGED <<vault, risk>>, PageRight, PanelRight
    PROVE  PageTrailsChain'
  BY DEF PageRight, PanelRight, PageTrailsChain, TrailOf, ToldOf,
     IsRegistered, IsProved, HasDeposit, IsWatched, IsTripped

LEMMA PageAtFacts ==
    ASSUME NEW step \in 1..6, NEW v \in Vaults, PageAt(step, v)
    PROVE  /\ page'.step = step /\ page'.v = v
           /\ page' \in [step : 1..6, v : Vaults \cup {NoPda},
                         ciphertexts : BOOLEAN]
<1>1. page' = [step |-> step, v |-> v, ciphertexts |-> step > 4]
  BY DEF PageAt
<1>2. (step > 4) \in BOOLEAN
  OBVIOUS
<1> QED
  BY <1>1, <1>2

LEMMA StepDoneIsRight ==
    ASSUME DemoIInv, misled \subseteq misled', NEW t, DemoTask(t),
           t.name \notin Experiments /\ t.v \notin misled' => DemoDone(t),
           t.name = "deposit" /\ t.v # page.v => page.v \in misled',
           StepDone(t)
    PROVE  PageRight /\ page' \in [step : 1..6, v : Vaults \cup {NoPda},
                                   ciphertexts : BOOLEAN]
<1>0. /\ page \in [step : 1..6, v : Vaults \cup {NoPda},
                   ciphertexts : BOOLEAN]
      /\ NoPda \notin Vaults
  BY WebAssumption DEF DemoIInv, DemoTyped, AccountsTyped
<1>1. CASE t.name = "register"
  <2>1. t.v \in Vaults /\ PageAt(2, t.v)
    BY <1>1 DEF StepDone, DemoTask, OtherTasks, Experiments
  <2>3. /\ page'.step = 2 /\ page'.v = t.v
        /\ page' \in [step : 1..6, v : Vaults \cup {NoPda},
                      ciphertexts : BOOLEAN]
    BY <2>1, PageAtFacts
  <2>2. t.v \notin misled' => IsRegistered(t.v)
    BY <1>1 DEF DemoDone, Experiments
  <2> QED
    BY <1>0, <2>1, <2>2, <2>3 DEF PageRight
<1>2. CASE t.name = "prove"
  <2>1. t.v \in Vaults /\ PageAt(3, t.v)
    BY <1>2 DEF StepDone, Proven, DemoTask, OtherTasks, Experiments
  <2>3. /\ page'.step = 3 /\ page'.v = t.v
        /\ page' \in [step : 1..6, v : Vaults \cup {NoPda},
                      ciphertexts : BOOLEAN]
    BY <2>1, PageAtFacts
  <2>2. t.v \notin misled' => IsRegistered(t.v) /\ IsProved(t.v)
    BY <1>2 DEF DemoDone, Experiments, IsProved
  <2> QED
    BY <1>0, <2>1, <2>2, <2>3 DEF PageRight
<1>3. CASE t.name = "deposit"
  <2>1. page' = [page EXCEPT !.step = 4] /\ t.v \in Vaults
    BY <1>3 DEF StepDone, DemoTask, OtherTasks, Experiments
  <2>2. page.v \notin misled' =>
          /\ t.v = page.v
          /\ IsRegistered(t.v) /\ IsProved(t.v) /\ HasDeposit(t.v)
    BY <1>3 DEF DemoDone, Experiments, IsProved, HasDeposit
  <2>3. page'.step = 4 /\ page'.v = page.v
    BY <1>0, <2>1
  <2>4. page' \in [step : 1..6, v : Vaults \cup {NoPda}, ciphertexts : BOOLEAN]
    BY <1>0, <2>1
  <2> QED
    BY <1>0, <2>1, <2>2, <2>3, <2>4 DEF PageRight
<1>4. CASE t.name = "set_up_risk"
  <2>1. t.v \in Vaults /\ PageAt(5, t.v)
    BY <1>4 DEF StepDone, DemoTask, OtherTasks, Experiments
  <2>3. /\ page'.step = 5 /\ page'.v = t.v
        /\ page' \in [step : 1..6, v : Vaults \cup {NoPda},
                      ciphertexts : BOOLEAN]
    BY <2>1, PageAtFacts
  <2>2. t.v \notin misled' =>
          IsRegistered(t.v) /\ IsProved(t.v) /\ HasDeposit(t.v)
            /\ IsWatched(t.v)
    BY <1>4 DEF DemoDone, Experiments, IsProved, HasDeposit, IsWatched
  <2> QED
    BY <1>0, <2>1, <2>2, <2>3 DEF PageRight
<1>5. CASE t.name = "check"
  <2>1. t.v \in Vaults /\ PageAt(6, t.v)
    BY <1>5 DEF StepDone, DemoTask, OtherTasks, Experiments
  <2>3. /\ page'.step = 6 /\ page'.v = t.v
        /\ page' \in [step : 1..6, v : Vaults \cup {NoPda},
                      ciphertexts : BOOLEAN]
    BY <2>1, PageAtFacts
  <2>2. t.v \notin misled' =>
          /\ IsRegistered(t.v) /\ IsProved(t.v) /\ HasDeposit(t.v)
          /\ IsWatched(t.v) /\ IsTripped(t.v)
    BY <1>5
      DEF DemoDone, Experiments, IsProved, HasDeposit, IsWatched, IsTripped
  <2> QED
    BY <1>0, <2>1, <2>2, <2>3 DEF PageRight
<1>6. CASE page' = page
  BY <1>0, <1>6, PageTrailsMeans DEF PageRight, DemoIInv
<1> QED
  BY <1>1, <1>2, <1>3, <1>4, <1>5, <1>6 DEF StepDone

PanelRecord ==
    [v : Vaults \cup {NoPda}, verified : BOOLEAN, deposited : Nat,
     frozen : BOOLEAN, mixed : BOOLEAN]

LEMMA PanelAfterIsRight ==
    ASSUME DemoIInv, misled \subseteq misled', NEW t, t.amount \in Nat,
           DemoTask(t),
           t.name \notin Experiments /\ t.v \notin misled' => DemoDone(t),
           panel' = PanelAfter(t)
    PROVE  PanelRight /\ panel' \in PanelRecord
<1>0. /\ panel \in PanelRecord /\ NoPda \notin Vaults
      /\ vault \in [Vaults -> VaultAccount]
  BY WebAssumption DEF DemoIInv, DemoTyped, AccountsTyped, PanelRecord
<1>1. CASE t.name = "register"
  <2>1. panel' = [NoPanel EXCEPT !.v = t.v] /\ t.v \in Vaults
    BY <1>1 DEF PanelAfter, DemoTask, OtherTasks, Experiments
  <2>2. t.v \notin misled' => vault[t.v].live
    BY <1>1 DEF DemoDone, Experiments, IsRegistered
  <2>3. /\ panel' \in PanelRecord
        /\ panel'.v = t.v /\ panel'.verified = FALSE
        /\ panel'.deposited = 0 /\ panel'.frozen = FALSE
    <3>1. panel' = [v |-> t.v, verified |-> FALSE, deposited |-> 0,
                    frozen |-> FALSE, mixed |-> FALSE]
      BY <2>1 DEF NoPanel
    <3>2. t.v \in Vaults \cup {NoPda} /\ 0 \in Nat
      BY <2>1
    <3> QED
      BY <3>1, <3>2 DEF PanelRecord
  <2>4. vault[t.v].deposited_amount \in Nat
    BY <1>0, <2>1 DEF VaultAccount
  <2> QED
    BY <2>2, <2>3, <2>4 DEF PanelRight
<1>2. CASE t.name # "register" /\ panel.v = NoPda
  BY <1>0, <1>2 DEF PanelAfter, PanelRight
<1>3. CASE t.name # "register" /\ panel.v # NoPda
  <2>1. PICK mixed \in BOOLEAN :
          mixed = (panel.mixed \/ (/\ t.name \in {"prove", "deposit", "check"}
                                  /\ t.v # panel.v))
    OBVIOUS
  <2>2. PICK verified \in BOOLEAN :
          verified = (panel.verified \/ t.name = "prove")
    OBVIOUS
  <2>3. PICK frozen \in BOOLEAN : frozen = (panel.frozen \/ t.name = "check")
    OBVIOUS
  <2>4. PICK deposited \in Nat :
          deposited = IF t.name = "deposit" THEN t.amount ELSE panel.deposited
    BY <1>0 DEF PanelRecord
  <2>5. panel' = [panel EXCEPT !.verified = verified, !.deposited = deposited,
                               !.frozen = frozen, !.mixed = mixed]
    BY <1>3, <2>1, <2>2, <2>3, <2>4 DEF PanelAfter
  <2>6. /\ panel' \in PanelRecord
        /\ panel'.v = panel.v /\ panel'.verified = verified
        /\ panel'.deposited = deposited /\ panel'.frozen = frozen
        /\ panel'.mixed = mixed
    BY <1>0, <2>5 DEF PanelRecord
  <2>7. panel.v \in Vaults
    BY <1>0, <1>3 DEF PanelRecord
  <2>8. ASSUME panel.v \notin misled', ~mixed
        PROVE  /\ vault[panel.v].live
               /\ verified => vault[panel.v].proof_status = VERIFIED
               /\ deposited <= vault[panel.v].deposited_amount
               /\ frozen => vault[panel.v].frozen
    <3>1. ToldOf(panel.v)
      BY <1>3, <2>1, <2>8 DEF DemoIInv, PageTrailsChain
    <3>2. t.name = "prove" => vault[panel.v].proof_status = VERIFIED
      BY <2>1, <2>8 DEF DemoDone, Experiments, IsProved
    <3>3. t.name = "deposit" => t.amount <= vault[panel.v].deposited_amount
      <4>1. SUFFICES ASSUME t.name = "deposit"
                     PROVE  t.amount <= vault[panel.v].deposited_amount
        OBVIOUS
      <4>2. t.v = panel.v /\ t.amount = DEPOSIT_AMOUNT
        BY <2>1, <2>8, <4>1 DEF DemoTask, OtherTasks
      <4>3. HasDeposit(panel.v)
        BY <2>8, <4>1, <4>2 DEF DemoDone, Experiments
      <4>4. vault[panel.v].deposited_amount \in Nat /\ DEPOSIT_AMOUNT \in Nat
        BY <1>0, <2>7, DemoAssumption DEF VaultAccount
      <4> QED
        BY <4>2, <4>3, <4>4 DEF HasDeposit
    <3>4. t.name = "check" => vault[panel.v].frozen
      BY <2>1, <2>8 DEF DemoDone, Experiments, IsTripped
    <3> QED
      BY <2>2, <2>3, <2>4, <3>1, <3>2, <3>3, <3>4 DEF ToldOf
  <2> QED
    BY <2>6, <2>8 DEF PanelRight
<1> QED
  BY <1>1, <1>2, <1>3

LEMMA ReturnsTrail ==
    ASSUME DemoIInv, NEW c \in CallIds, DemoReturns(c)
    PROVE  DemoIInv'
<1> PICK t : t = calls[c].task
  OBVIOUS
<1>0. /\ calls[c] \in Call /\ t.amount \in Nat /\ DemoTask(t)
      /\ calls[c].sent \in {"ok", "err"}
      /\ calls[c].sent = "ok" => DemoDone(t)
  BY DEF DemoIInv, DemoTyped, AccountsTyped, HandlersTrail, HandlerTrails,
    Call, DemoReturns,
     Confirmed
<1>1. UNCHANGED chainVars /\ ChainKept /\ now' \in Nat
  BY ChainRests DEF DemoReturns
<1>2. UNCHANGED <<vault, risk>>
  BY <1>1 DEF chainVars, lendGuardVars, vars, custodyVars
<1>3. misled \subseteq misled'
  BY DEF DemoReturns
<1>4. CASE ThenRegisters(c)
  <2>1. PICK r : r = RegisterTask
    OBVIOUS
  <2>2. r \in TaskRecord /\ DemoTask(r)
    BY <1>4, <2>1, FreshIdIsVault, RegisterTaskFits DEF ThenRegisters
  <2>3. calls' \in [CallIds -> Call] /\ HandlersTrail'
    BY <1>1, <1>3, <1>4, <2>1, <2>2, HandlerStarts DEF ThenRegisters, DemoIInv
  <2> QED
    BY <1>1, <1>3, <1>4, <2>3, PageRests DEF ThenRegisters
<1>5. CASE StepDone(t) /\ panel' = PanelAfter(t) /\ Ended(c)
  <2>1. t.name \notin Experiments /\ t.v \notin misled' => DemoDone(t)
    BY <1>0 DEF DemoReturns
  <2>2. t.name = "deposit" /\ t.v # page.v => page.v \in misled'
    BY DEF DemoReturns, StrayDeposit
  <2>3. /\ PageRight
        /\ page' \in [step : 1..6, v : Vaults \cup {NoPda},
                      ciphertexts : BOOLEAN]
    BY <1>0, <1>3, <1>5, <2>1, <2>2, StepDoneIsRight
  <2>4. PanelRight /\ panel' \in PanelRecord
    BY <1>0, <1>3, <1>5, <2>1, PanelAfterIsRight
  <2>5. PICK next \in Call :
          calls' = [calls EXCEPT ![c] = next] /\ GoesOn(c, next)
    BY <1>5, EndedFacts DEF DemoIInv, DemoTyped
  <2>6. calls' \in [CallIds -> Call] /\ HandlersTrail'
    BY <1>1, <1>3, <2>5, HandlerGoesOn DEF DemoIInv
  <2>7. PageTrailsChain'
    BY <1>2, <2>3, <2>4, RightIsTrailing
  <2>8. DemoTyped'
    BY <1>1, <2>3, <2>4, <2>6
      DEF DemoTyped, AccountsTyped, ChainKept, PanelRecord
  <2> QED
    BY <2>6, <2>7, <2>8 DEF DemoIInv
<1> QED
  BY <1>4, <1>5 DEF DemoReturns

----------------------------------------------------------------------------
(* Everyone else *)

LEMMA OthersTrail ==
    ASSUME DemoIInv, ChainKept, now' \in Nat, UNCHANGED <<calls, demoVars>>
    PROVE  DemoIInv'
<1>1. UNCHANGED <<calls, page, panel, misled>>
  BY DEF demoVars
<1>2. ASSUME NEW c \in CallIds
      PROVE  HandlerTrails(c)'
  <2>1. PICK t : t = calls[c].task
    OBVIOUS
  <2>2. DemoTask(t) /\ (calls[c].sent = "ok" => DemoDone(t))
    BY <2>1 DEF DemoIInv, HandlersTrail, HandlerTrails
  <2>3. DemoTask(t)' /\ (calls[c].sent = "ok" => DemoDone(t)')
    BY <1>1, <2>2, TaskStays, DoneStays DEF DemoIInv
  <2> QED
    BY <1>1, <2>1, <2>3 DEF HandlerTrails, DemoTask, DemoDone, IsRegistered,
       IsProved, HasDeposit, IsWatched, IsTripped
<1>3. calls' \in [CallIds -> Call] /\ HandlersTrail'
  BY <1>1, <1>2 DEF HandlersTrail, DemoIInv, DemoTyped, AccountsTyped
<1> QED
  BY <1>1, <1>3, PageRests

LEMMA StrangersTrail ==
    ASSUME DemoIInv, open = "demo", StrangerStep
    PROVE  ChainKept /\ now' \in Nat
<1>1. CASE TriggerRiskCheck(Theirs, Stranger, FALSE)
  BY <1>1, CheckKeeps, WebAssumption DEF TriggerRiskCheck, clockVars, DemoIInv,
     DemoTyped, AccountsTyped
<1>2. CASE UnfreezeProtocolState(Stranger) /\ UNCHANGED custodyVars
  BY <1>2, UnchangedKeeps DEF UnfreezeProtocolState, clockVars, custodyVars,
     DemoIInv, DemoTyped, AccountsTyped
<1> QED
  BY <1>1, <1>2 DEF StrangerStep

LEMMA TickTrails ==
    ASSUME DemoIInv, Tick, UNCHANGED custodyVars
    PROVE  ChainKept /\ now' \in Nat
<1>1. \A seconds \in ClockSteps : now + seconds \in Nat
  BY ClockAssumption DEF DemoIInv, DemoTyped, AccountsTyped
<1> QED
  BY <1>1, UnchangedKeeps DEF Tick, custodyVars, DemoIInv, DemoTyped

LEMMA DemoStepTrails ==
    ASSUME DemoIInv, DemoStep PROVE DemoIInv'
<1>1. ASSUME NEW c \in CallIds, CallStep(c) PROVE DemoIInv'
  BY <1>1, ReturnsTrail, ThrowsTrail, FallsBackTrails, UnderWayTrails
     DEF CallStep
<1> QED
  BY <1>1, ClickTrails, ExperimentTrails, ResetTrails DEF DemoStep, GivesUp,
     StartsOver

LEMMA WebInitTrails == WebInit => TrailIInv
<1> SUFFICES ASSUME WebInit PROVE TrailIInv
  OBVIOUS
<1>1. /\ page = FirstPage /\ panel = NoPanel /\ misled = {}
      /\ calls = [c \in CallIds |-> NoCall]
  BY DEF WebInit, DemoInit, SendInit
<1>2. /\ NoVault \in VaultAccount /\ NoRisk \in RiskAccount /\ NoCall \in Call
      /\ [NoVault EXCEPT !.live = TRUE, !.frozen = TRUE, !.asset_type = BTC]
           \in VaultAccount
      /\ [Checked EXCEPT !.last_check_result = FALSE] \in RiskAccount
  BY SendAssumption DEF NoVault, VaultAccount, NoRisk, RiskAccount, Checked,
     NoCall, NoTask, Call, TaskNames
<1>3. CASE open = "demo"
  <2>1. /\ now \in Nat /\ vault \in [Vaults -> VaultAccount]
        /\ risk \in [Vaults -> RiskAccount]
    <3>1. CASE DemoStart
      BY <1>2, <3>1 DEF DemoStart, ProtocolInit, CustodyInit
    <3>2. CASE SharedStart
      BY <1>2, <3>2 DEF SharedStart
    <3> QED
      BY <1>3, <3>1, <3>2 DEF WebInit, LendStart, BtcStart
  <2>2. DemoTyped
    BY <1>1, <1>2, <2>1 DEF DemoTyped, AccountsTyped, FirstPage, NoPanel
  <2>3. HandlersTrail
    BY <1>1 DEF HandlersTrail, HandlerTrails, NoCall, NoTask, DemoTask,
       OtherTasks
  <2>4. PageTrailsChain
    BY <1>1 DEF PageTrailsChain, FirstPage, NoPanel
  <2> QED
    BY <1>3, <2>2, <2>3, <2>4 DEF TrailIInv, DemoIInv
<1> QED
  BY <1>1, <1>3 DEF TrailIInv

LEMMA WebNextTrails ==
    ASSUME TrailIInv, [WebNext]_web PROVE TrailIInv'
<1>0. open' = open
  BY DEF WebNext, web
<1>1. CASE open = "demo"
  <2>0. DemoIInv
    BY <1>1 DEF TrailIInv
  <2>5. DemoIInv'
    <3>1. CASE DemoStep
      BY <2>0, <3>1, DemoStepTrails
    <3>2. CASE StrangerStep /\ UNCHANGED <<calls, demoVars>>
      BY <1>1, <2>0, <3>2, StrangersTrail, OthersTrail
    <3>3. CASE Tick /\ UNCHANGED <<custodyVars, calls, demoVars>>
      BY <2>0, <3>3, TickTrails, OthersTrail
    <3>4. CASE UNCHANGED <<chainVars, calls, demoVars>>
      BY <2>0, <3>4, ChainRests, OthersTrail
    <3> QED
      BY <1>1, <3>1, <3>2, <3>3, <3>4 DEF WebNext, web
  <2> QED
    BY <1>0, <1>1, <2>5 DEF TrailIInv
<1>2. CASE open # "demo"
  <2>1. UNCHANGED demoVars
    BY <1>2 DEF WebNext, web
  <2> QED
    BY <1>0, <1>2, <2>1 DEF TrailIInv, demoVars
<1> QED
  BY <1>1, <1>2

\* Neither the demo page nor its panel runs ahead of the chain, for any number
\* of vaults, drawn ids, handlers and mishaps: what a step takes for granted
\* was made so by a transaction before it, and nothing anybody does on the way
\* takes it back.
THEOREM PageTrails == WebSpec => []PageTrailsChain
<1>1. TrailIInv => PageTrailsChain
  BY DEF TrailIInv, DemoIInv, PageTrailsChain, FirstPage, NoPanel
<1> QED
  BY <1>1, WebInitTrails, WebNextTrails, PTL DEF WebSpec

----------------------------------------------------------------------------
(* The chain stays typed, whatever is sent to it.  The types need little   *)
(* of the ledgers: the instructions check every subtraction, and the index *)
(* is never below one.                                                     *)

ChainTyped == TypeOK /\ BtcType

PoolBehind == pool.last_update_slot <= slot /\ pool.borrow_index >= RAY

\* A step of the chain: it stays typed, and the debts only grow older.
ChainAges ==
    /\ ChainTyped' /\ PoolBehind'
    /\ pool'.borrow_index >= pool.borrow_index

LEMMA ChainFacts ==
    ASSUME ChainTyped, PoolBehind
    PROVE  /\ AccountsTyped
           /\ now \in Nat \ {0} /\ slot \in Nat /\ RAY \in Nat \ {0}
           /\ protocol \in ProtocolAccount
           /\ pool \in LendingPool
           /\ pool.borrow_index \in Nat /\ pool.total_borrowed \in Nat
           /\ Accrued \in LendingPool
           /\ Accrued.total_borrowed = pool.total_borrowed
           /\ Accrued.last_update_slot = slot
           /\ Accrued.borrow_index >= pool.borrow_index
           /\ Accrued.borrow_index \in Nat \ {0}
<1>1. ProtocolType /\ PoolType
  BY DEF ChainTyped, TypeOK
<1>2. /\ Accrued \in LendingPool
      /\ Accrued.total_borrowed = pool.total_borrowed
      /\ Accrued.last_update_slot = slot
      /\ Accrued.borrow_index >= pool.borrow_index
      /\ Accrued.borrow_index \in Nat \ {0}
  BY <1>1, AccrualFacts DEF PoolBehind
<1>3. /\ now \in Nat \ {0} /\ slot \in Nat
      /\ protocol \in ProtocolAccount /\ pool \in LendingPool
  BY <1>1, ClockAssumption DEF ProtocolType, PoolType
<1>4. AccountsTyped
  BY <1>3 DEF ChainTyped, TypeOK, CustodyType, AccountsTyped
<1> QED
  BY <1>2, <1>3, <1>4, UnitAssumption DEF LendingPool

LEMMA Untouched ==
    ASSUME ChainTyped
    PROVE  /\ UNCHANGED custodyVars => CustodyType'
           /\ UNCHANGED solVars => SolType'
           /\ UNCHANGED btcVars => BtcType'
  BY DEF ChainTyped, TypeOK, CustodyType, SolType, BtcType, custodyVars,
     solVars, btcVars

\* Nothing is lent or paid.
LEMMA QuietAges ==
    ASSUME ChainTyped, PoolBehind, UNCHANGED clockVars,
           pool' = pool, feed' \in [PriceAssets -> AdminPriceFeed],
           tokens' = tokens,
           protocol' \in ProtocolAccount, CustodyType', SolType', BtcType'
    PROVE  ChainAges
<1>1. ProtocolType' /\ PoolType' /\ PoolBehind'
  BY DEF ChainTyped, TypeOK, ProtocolType, PoolType, clockVars, PoolBehind
<1>2. pool.borrow_index \in Nat
  BY ChainFacts
<1> QED
  BY <1>1, <1>2 DEF ChainAges, ChainTyped, TypeOK

\* Something is: the pool accrues and its debt is replaced.
LEMMA LoanAges ==
    ASSUME ChainTyped, PoolBehind, UNCHANGED <<clockVars, protocol, feed>>,
           NEW n \in Nat, pool' = [Accrued EXCEPT !.total_borrowed = n],
           tokens' \in [Holders -> Nat], CustodyType', SolType', BtcType'
    PROVE  ChainAges
<1>1. /\ Accrued \in LendingPool
      /\ Accrued.last_update_slot = slot
      /\ Accrued.borrow_index >= pool.borrow_index
      /\ Accrued.borrow_index \in Nat /\ pool.borrow_index \in Nat
      /\ slot \in Nat /\ RAY \in Nat
  BY ChainFacts
<1>2. /\ pool' \in LendingPool
      /\ pool'.last_update_slot = slot
      /\ pool'.borrow_index = Accrued.borrow_index
  BY <1>1 DEF LendingPool
<1>3. slot' = slot /\ now' = now
  BY DEF clockVars
<1>4. PoolBehind' /\ pool'.borrow_index >= pool.borrow_index
  BY <1>1, <1>2, <1>3 DEF PoolBehind
<1>5. ProtocolType' /\ PoolType'
  BY <1>2, <1>3 DEF ChainTyped, TypeOK, ProtocolType, PoolType
<1> QED
  BY <1>4, <1>5 DEF ChainAges, ChainTyped, TypeOK

\* A payment between a wallet and the pool.
LEMMA PaidTokens ==
    ASSUME ChainTyped, NEW from \in Holders, NEW to \in Holders,
           NEW amount \in Nat, Pay(from, to, amount)
    PROVE  tokens' \in [Holders -> Nat]
  BY PayKeepsType DEF ChainTyped, TypeOK, PoolType

----------------------------------------------------------------------------
(* Custody *)

LEMMA ProtocolAges ==
    ASSUME ChainTyped, PoolBehind, NEW user \in Users,
           InitializeProtocol(user) \/ UnfreezeProtocolState(user),
           UNCHANGED <<custodyVars, poolVars, solVars, btcVars>>
    PROVE  ChainAges
<1>1. protocol \in ProtocolAccount
  BY ChainFacts
<1>2. CASE InitializeProtocol(user)
  <2>1. protocol' = [live |-> TRUE, admin |-> user, frozen |-> FALSE,
                     total_vaults |-> 0, total_rejected |-> 0,
                     total_collateral_verified |-> 0]
    BY <1>2 DEF InitializeProtocol, NoProtocol
  <2>2. protocol' \in ProtocolAccount
    BY <2>1 DEF ProtocolAccount
  <2> QED
    BY <1>2, <2>2, QuietAges, Untouched DEF InitializeProtocol, poolVars,
       ChainTyped, TypeOK, PoolType
<1>3. CASE UnfreezeProtocolState(user)
  <2>1. protocol' \in ProtocolAccount
    BY <1>1, <1>3 DEF UnfreezeProtocolState, ProtocolAccount
  <2> QED
    BY <1>3, <2>1, QuietAges, Untouched DEF UnfreezeProtocolState, poolVars,
       ChainTyped, TypeOK, PoolType
<1> QED
  BY <1>2, <1>3

\* A step of one vault account, given that its accounts stay accounts.
LEMMA VaultAges ==
    ASSUME ChainTyped, PoolBehind, UNCHANGED clockVars,
           protocol' \in ProtocolAccount,
           vault' \in [Vaults -> VaultAccount], lamports' \in [Vaults -> Nat],
           risk' \in [Vaults -> RiskAccount],
           UNCHANGED <<poolVars, solVars, btcVars>>
    PROVE  ChainAges
<1>1. CustodyType'
  BY DEF CustodyType
<1> QED
  BY <1>1, QuietAges, Untouched DEF poolVars, ChainTyped, TypeOK, PoolType

LEMMA RegisterAges ==
    ASSUME ChainTyped, PoolBehind, NEW v \in Vaults, RegisterVault(v, BTC),
           UNCHANGED <<poolVars, solVars, btcVars>>
    PROVE  ChainAges
<1>1. vault' \in [Vaults -> VaultAccount] /\ risk' \in [Vaults -> RiskAccount]
  BY ChainFacts, RegisterKeeps DEF ChainKept
<1>2. protocol' \in ProtocolAccount
  BY ChainFacts DEF RegisterVault, ProtocolAccount
<1>3. lamports' \in [Vaults -> Nat]
  BY CustodyAssumption DEF RegisterVault, ChainTyped, TypeOK, CustodyType
<1> QED
  BY <1>1, <1>2, <1>3, VaultAges DEF RegisterVault

LEMMA ProveAges ==
    ASSUME ChainTyped, PoolBehind, NEW v \in Vaults,
           VerifyCustodyProof(v, Visitor),
           UNCHANGED <<poolVars, solVars, btcVars>>
    PROVE  ChainAges
<1>1. vault' \in [Vaults -> VaultAccount] /\ risk' \in [Vaults -> RiskAccount]
  BY ChainFacts, ProveKeeps DEF ChainKept
<1> QED
  BY <1>1, ChainFacts, VaultAges DEF VerifyCustodyProof, ChainTyped, TypeOK,
     CustodyType

LEMMA DepositAges ==
    ASSUME ChainTyped, PoolBehind, NEW v \in Vaults, NEW amount \in Nat,
           DepositCollateral(v, Visitor, amount),
           UNCHANGED <<poolVars, solVars, btcVars>>
    PROVE  ChainAges
<1>1. vault' \in [Vaults -> VaultAccount] /\ risk' \in [Vaults -> RiskAccount]
  BY ChainFacts, DepositKeeps DEF ChainKept
<1>2. protocol' \in ProtocolAccount
  BY ChainFacts DEF DepositCollateral, ProtocolAccount
<1> QED
  BY <1>1, <1>2, VaultAges DEF DepositCollateral, ChainTyped, TypeOK,
     CustodyType

LEMMA SetUpRiskAges ==
    ASSUME ChainTyped, PoolBehind, NEW v \in Vaults, SetUpRisk(v),
           UNCHANGED <<poolVars, solVars, btcVars>>
    PROVE  ChainAges
<1>1. vault' \in [Vaults -> VaultAccount] /\ risk' \in [Vaults -> RiskAccount]
  BY ChainFacts, SetUpRiskKeeps DEF ChainKept
<1> QED
  BY <1>1, ChainFacts, VaultAges DEF SetUpRisk, ChainTyped, TypeOK, CustodyType

LEMMA CheckAges ==
    ASSUME ChainTyped, PoolBehind, NEW v \in Vaults, NEW user,
           TriggerRiskCheck(v, user, FALSE),
           UNCHANGED <<poolVars, solVars, btcVars>>
    PROVE  ChainAges
<1>1. vault' \in [Vaults -> VaultAccount] /\ risk' \in [Vaults -> RiskAccount]
  BY ChainFacts, CheckKeeps DEF ChainKept
<1>2. protocol' \in ProtocolAccount
  BY ChainFacts DEF TriggerRiskCheck, ProtocolAccount
<1> QED
  BY <1>1, <1>2, VaultAges DEF TriggerRiskCheck, ChainTyped, TypeOK,
     CustodyType

----------------------------------------------------------------------------
(* Loans against SOL vaults, and the price *)

LEMMA PriceAges ==
    ASSUME ChainTyped, PoolBehind, NEW user, NEW price \in Nat,
           UpdateAdminPrice(user, BTC, price),
           UNCHANGED <<custodyVars, solVars, btcVars>>
    PROVE  ChainAges
<1>1. feed \in [PriceAssets -> AdminPriceFeed] /\ BTC \in PriceAssets
      /\ now \in Nat
  BY ChainFacts, BtcAssumption DEF ChainTyped, TypeOK, PoolType
<1>2. [feed[BTC] EXCEPT !.price_usd = price, !.updated_at = now]
        \in AdminPriceFeed
  BY <1>1 DEF AdminPriceFeed
<1>3. feed' = [feed EXCEPT ![BTC] =
                 [feed[BTC] EXCEPT !.price_usd = price, !.updated_at = now]]
  BY <1>1 DEF UpdateAdminPrice
<1>4. feed' \in [PriceAssets -> AdminPriceFeed]
  BY <1>1, <1>2, <1>3
<1> QED
  BY <1>4, ChainFacts, QuietAges, Untouched DEF UpdateAdminPrice

LEMMA BorrowAges ==
    ASSUME ChainTyped, PoolBehind, NEW v \in Vaults, NEW user \in Users,
           NEW amount \in Nat, BorrowAgainstCollateral(v, user, amount),
           UNCHANGED btcVars
    PROVE  ChainAges
<1>1. PICK scaled : scaled = ToScaled(amount, Accrued.borrow_index)
  OBVIOUS
<1>2. scaled \in Nat
  BY <1>1, ChainFacts, ToScaledIsNat
<1>3. /\ pool' = [Accrued EXCEPT !.total_borrowed = @ + scaled]
      /\ principal' = [principal EXCEPT ![v] = scaled]
      /\ positions' = positions \cup {v}
      /\ Pay(PoolVault, user, amount)
      /\ UNCHANGED <<clockVars, protocol, custodyVars, feed>>
  BY <1>1 DEF BorrowAgainstCollateral
<1>4. PICK n \in Nat : n = Accrued.total_borrowed + scaled
  BY <1>2, ChainFacts
<1>5. pool' = [Accrued EXCEPT !.total_borrowed = n]
  BY <1>3, <1>4, ChainFacts DEF LendingPool
<1>6. SolType'
  BY <1>2, <1>3 DEF ChainTyped, TypeOK, SolType
<1>7. tokens' \in [Holders -> Nat]
  BY <1>3, PaidTokens DEF Holders
<1> QED
  BY <1>3, <1>5, <1>6, <1>7, LoanAges, Untouched

LEMMA DebtTyped ==
    ASSUME ChainTyped, PoolBehind, NEW s \in Nat
    PROVE  DebtOf(s) \in Nat
  BY ChainFacts, CurrentDebtIsNat DEF DebtOf

LEMMA RepayAges ==
    ASSUME ChainTyped, PoolBehind, NEW v \in Vaults, NEW user \in Users,
           NEW amount \in Nat, RepayBorrow(v, user, amount),
           UNCHANGED btcVars
    PROVE  ChainAges
<1>0. principal[v] \in Nat
  BY DEF ChainTyped, TypeOK, SolType
<1>1. PICK owed \in Nat : owed = DebtOf(principal[v])
  BY <1>0, DebtTyped
<1>2. PICK paid \in Nat : paid = Smaller(amount, owed)
  BY DEF Smaller
<1>3. PICK slice : slice = RepaidSlice(paid, owed, principal[v])
  OBVIOUS
<1>4. slice \in 0..principal[v]
  <2>1. ToScaled(paid, Accrued.borrow_index) \in Nat
    BY ChainFacts, ToScaledIsNat
  <2> QED
    BY <1>0, <1>3, <2>1 DEF RepaidSlice, Smaller
<1>5. /\ Pay(user, PoolVault, paid)
      /\ pool.total_borrowed >= slice
      /\ pool' = [Accrued EXCEPT !.total_borrowed = @ - slice]
      /\ principal' = [principal EXCEPT ![v] = @ - slice]
      /\ positions' \subseteq positions
      /\ UNCHANGED <<clockVars, protocol, custodyVars, feed>>
  BY <1>1, <1>2, <1>3 DEF RepayBorrow, MayRepay, PoolWithout, PositionsAfter
<1>6. PICK n \in Nat : n = Accrued.total_borrowed - slice
  BY <1>0, <1>4, <1>5, ChainFacts
<1>7. pool' = [Accrued EXCEPT !.total_borrowed = n]
  BY <1>5, <1>6, ChainFacts DEF LendingPool
<1>8. SolType'
  <2>1. principal[v] - slice \in Nat
    BY <1>0, <1>4
  <2> QED
    BY <1>5, <2>1 DEF ChainTyped, TypeOK, SolType
<1>9. tokens' \in [Holders -> Nat]
  BY <1>5, PaidTokens DEF Holders
<1> QED
  BY <1>5, <1>7, <1>8, <1>9, LoanAges, Untouched

LEMMA LiquidateAges ==
    ASSUME ChainTyped, PoolBehind, NEW v \in Vaults, NEW user \in Users,
           LiquidatePosition(v, user), UNCHANGED btcVars
    PROVE  ChainAges
<1>0. /\ principal[v] \in Nat /\ lamports[v] \in Nat /\ RENT \in Nat
      /\ vault[v] \in VaultAccount /\ vault[v].deposited_amount \in Nat
  BY CustodyAssumption DEF ChainTyped, TypeOK, SolType, CustodyType,
     VaultAccount
<1>1. PICK paid \in Nat : paid = DebtOf(principal[v])
  BY <1>0, DebtTyped
<1>2. PICK seized \in Nat : seized = Seized(v) /\ seized <= lamports[v]
  <2>1. CollateralWithBonus(vault[v].deposited_amount) \in Nat
    BY <1>0, CollateralWithBonusIsNat
  <2> QED
    BY <1>0, <2>1 DEF Seized, Smaller
<1>3. /\ Pay(user, PoolVault, paid)
      /\ seized <= vault[v].deposited_amount
      /\ pool.total_borrowed >= principal[v]
      /\ pool' = [Accrued EXCEPT !.total_borrowed = @ - principal[v]]
      /\ lamports' = [lamports EXCEPT ![v] = @ - seized]
      /\ vault' = [vault EXCEPT ![v] =
                     [vault[v] EXCEPT !.deposited_amount = @ - seized,
                                      !.proof_status = PENDING]]
      /\ positions' = positions \ {v}
      /\ principal' = [principal EXCEPT ![v] = 0]
      /\ UNCHANGED <<clockVars, protocol, risk, feed>>
  BY <1>1, <1>2 DEF LiquidatePosition, PoolWithout
<1>4. PICK n \in Nat : n = Accrued.total_borrowed - principal[v]
  BY <1>0, <1>3, ChainFacts
<1>5. pool' = [Accrued EXCEPT !.total_borrowed = n]
  BY <1>3, <1>4, ChainFacts DEF LendingPool
<1>6. SolType'
  BY <1>3 DEF ChainTyped, TypeOK, SolType
<1>7. CustodyType'
  <2>1. PICK left \in Nat : left = vault[v].deposited_amount - seized
    BY <1>0, <1>3
  <2>2. lamports[v] - seized \in Nat
    BY <1>0, <1>2
  <2>3. [vault[v] EXCEPT !.deposited_amount = left, !.proof_status = PENDING]
          \in VaultAccount
    BY <1>0 DEF VaultAccount
  <2>4. vault' = [vault EXCEPT ![v] =
                    [vault[v] EXCEPT !.deposited_amount = left,
                                     !.proof_status = PENDING]]
    BY <1>0, <1>3, <2>1 DEF VaultAccount
  <2> QED
    BY <1>3, <2>2, <2>3, <2>4 DEF ChainTyped, TypeOK, CustodyType
<1>8. tokens' \in [Holders -> Nat]
  BY <1>3, PaidTokens DEF Holders
<1> QED
  BY <1>3, <1>5, <1>6, <1>7, <1>8, LoanAges, Untouched

----------------------------------------------------------------------------
(* Bitcoin vaults *)

\* A step that moves no LGUSD, given that the vaults' accounts stay accounts.
LEMMA BtcQuietAges ==
    ASSUME ChainTyped, PoolBehind,
           UNCHANGED <<clockVars, poolVars, custodyVars>>,
           UNCHANGED solVars, protocol' \in ProtocolAccount, BtcType'
    PROVE  ChainAges
  BY QuietAges, Untouched DEF poolVars, ChainTyped, TypeOK, PoolType

LEMMA ApprovalsTyped ==
    ASSUME ChainTyped, NEW v \in BtcVaults, ApprovesAtOnce(v)
    PROVE  approvals' \in [BtcVaults ->
             [demo : [DemoPayers -> Nat], ika : BOOLEAN,
              sighash : {"none", "pending", "signed"}]]
<1>1. /\ approvals \in [BtcVaults ->
             [demo : [DemoPayers -> Nat], ika : BOOLEAN,
              sighash : {"none", "pending", "signed"}]]
      /\ now \in Nat
  BY DEF ChainTyped, TypeOK, ProtocolType, BtcType
<1>2. PICK d : d = [approvals[v].demo EXCEPT ![Visitor] = now]
  OBVIOUS
<1>3. d \in [DemoPayers -> Nat]
  BY <1>1, <1>2
<1>4. [approvals[v] EXCEPT !.demo = d]
        \in [demo : [DemoPayers -> Nat], ika : BOOLEAN,
             sighash : {"none", "pending", "signed"}]
  BY <1>1, <1>3
<1>5. approvals' = [approvals EXCEPT ![v] = [approvals[v] EXCEPT !.demo = d]]
  BY <1>1, <1>2 DEF ApprovesAtOnce
<1> QED
  BY <1>1, <1>4, <1>5

LEMMA BtcProvenTyped ==
    ASSUME ChainTyped, NEW account \in BtcVaultAccount
    PROVE  BtcProven(account) \in BtcVaultAccount
<1>1. now \in Nat
  BY DEF ChainTyped, TypeOK, ProtocolType
<1> QED
  BY <1>1 DEF BtcProven, BtcVaultAccount

LEMMA BtcProofAges ==
    ASSUME ChainTyped, PoolBehind, NEW v \in BtcVaults,
           \/ RegisterProvenBtcVault(v)
           \/ ProveBtcCustody(v)
           \/ VerifyBtcCustodyProof(v, Visitor),
           UNCHANGED <<custodyVars, solVars>>
    PROVE  ChainAges
<1>0. /\ btcVault \in [BtcVaults -> BtcVaultAccount]
      /\ [NoBtcVault EXCEPT !.live = TRUE] \in BtcVaultAccount
      /\ NoAttestation \in [satoshis : Nat, attested_at_unix : Nat]
      /\ protocol \in ProtocolAccount
  BY ChainFacts DEF ChainTyped, BtcType, NoBtcVault, BtcVaultAccount,
     NoAttestation
<1>1. CASE RegisterProvenBtcVault(v)
  <2>1. protocol' \in ProtocolAccount
    BY <1>0, <1>1 DEF RegisterProvenBtcVault, ProtocolAccount
  <2>2. btcVault' \in [BtcVaults -> BtcVaultAccount]
    BY <1>0, <1>1, BtcProvenTyped DEF RegisterProvenBtcVault
  <2>3. BtcType'
    BY <1>0, <1>1, <2>2, ApprovalsTyped DEF RegisterProvenBtcVault, ChainTyped,
       BtcType
  <2> QED
    BY <1>1, <2>1, <2>3, BtcQuietAges DEF RegisterProvenBtcVault
<1>2. CASE ProveBtcCustody(v)
  <2>2. btcVault' \in [BtcVaults -> BtcVaultAccount]
    BY <1>0, <1>2, BtcProvenTyped DEF ProveBtcCustody
  <2>3. BtcType'
    BY <1>2, <2>2, ApprovalsTyped DEF ProveBtcCustody, ChainTyped, BtcType
  <2> QED
    BY <1>0, <1>2, <2>3, BtcQuietAges DEF ProveBtcCustody
<1>3. CASE VerifyBtcCustodyProof(v, Visitor)
  <2>1. btcVault' = [btcVault EXCEPT ![v] = BtcProven(btcVault[v])]
    BY <1>0, <1>3 DEF VerifyBtcCustodyProof, BtcProven
  <2>2. btcVault' \in [BtcVaults -> BtcVaultAccount]
    BY <1>0, <2>1, BtcProvenTyped
  <2>3. BtcType'
    BY <1>3, <2>2 DEF VerifyBtcCustodyProof, ChainTyped, BtcType
  <2> QED
    BY <1>0, <1>3, <2>3, BtcQuietAges DEF VerifyBtcCustodyProof
<1> QED
  BY <1>1, <1>2, <1>3

LEMMA AttestAges ==
    ASSUME ChainTyped, PoolBehind, NEW v \in BtcVaults, NEW user,
           NEW satoshis \in Nat, AttestBtcBalance(v, user, satoshis),
           UNCHANGED <<custodyVars, solVars>>
    PROVE  ChainAges
<1>1. [satoshis |-> satoshis, attested_at_unix |-> now]
        \in [satoshis : Nat, attested_at_unix : Nat]
  BY DEF ChainTyped, TypeOK, ProtocolType
<1>2. BtcType'
  BY <1>1 DEF AttestBtcBalance, ChainTyped, BtcType
<1> QED
  BY <1>2, ChainFacts, BtcQuietAges DEF AttestBtcBalance

LEMMA FinalizeAges ==
    ASSUME ChainTyped, PoolBehind, NEW v \in BtcVaults, NEW user,
           NEW confirmations, NEW satoshis \in Nat,
           FinalizeBtcLiquidation(v, user, confirmations, satoshis),
           UNCHANGED <<custodyVars, solVars>>
    PROVE  ChainAges
<1>0. /\ btcVault \in [BtcVaults -> BtcVaultAccount]
      /\ approvals[v] \in [demo : [DemoPayers -> Nat], ika : BOOLEAN,
                           sighash : {"none", "pending", "signed"}]
  BY DEF ChainTyped, BtcType
<1>1. [satoshis |-> satoshis, attested_at_unix |-> now]
        \in [satoshis : Nat, attested_at_unix : Nat]
  BY DEF ChainTyped, TypeOK, ProtocolType
<1>2. btcVault' \in [BtcVaults -> BtcVaultAccount]
  BY <1>0 DEF FinalizeBtcLiquidation, Thawed, BtcVaultAccount
<1>3. approvals' = [approvals EXCEPT ![v] =
                      [approvals[v] EXCEPT !.sighash = "none"]]
  BY DEF FinalizeBtcLiquidation, ChainTyped, BtcType
<1>4. [approvals[v] EXCEPT !.sighash = "none"]
        \in [demo : [DemoPayers -> Nat], ika : BOOLEAN,
             sighash : {"none", "pending", "signed"}]
  BY <1>0
<1>5. BtcType'
  BY <1>1, <1>2, <1>3, <1>4 DEF FinalizeBtcLiquidation, ChainTyped, BtcType
<1> QED
  BY <1>5, ChainFacts, BtcQuietAges DEF FinalizeBtcLiquidation

LEMMA BtcBorrowAges ==
    ASSUME ChainTyped, PoolBehind, NEW v \in BtcVaults, NEW user \in Users,
           NEW amount \in Nat, BorrowAgainstBtcCollateral(v, user, amount),
           UNCHANGED <<custodyVars, solVars>>
    PROVE  ChainAges
<1>1. PICK scaled : scaled = ToScaled(amount, Accrued.borrow_index)
  OBVIOUS
<1>2. scaled \in Nat
  BY <1>1, ChainFacts, ToScaledIsNat
<1>3. /\ pool' = [Accrued EXCEPT !.total_borrowed = @ + scaled]
      /\ btcPrincipal' = [btcPrincipal EXCEPT ![v] = scaled]
      /\ btcPositions' = btcPositions \cup {v}
      /\ Pay(PoolVault, user, amount)
      /\ UNCHANGED <<clockVars, protocol, feed, btcVault, attestation,
           approvals>>
  BY <1>1 DEF BorrowAgainstBtcCollateral
<1>4. PICK n \in Nat : n = Accrued.total_borrowed + scaled
  BY <1>2, ChainFacts
<1>5. pool' = [Accrued EXCEPT !.total_borrowed = n]
  BY <1>3, <1>4, ChainFacts DEF LendingPool
<1>6. BtcType'
  BY <1>2, <1>3 DEF ChainTyped, BtcType
<1>7. tokens' \in [Holders -> Nat]
  BY <1>3, PaidTokens DEF Holders
<1> QED
  BY <1>3, <1>5, <1>6, <1>7, LoanAges, Untouched

LEMMA BtcRepayAges ==
    ASSUME ChainTyped, PoolBehind, NEW v \in BtcVaults, NEW user \in Users,
           NEW amount \in Nat, RepayBtcBorrow(v, user, amount),
           UNCHANGED <<custodyVars, solVars>>
    PROVE  ChainAges
<1>0. /\ btcPrincipal[v] \in Nat /\ tokens[BtcOwnerOf[v]] \in Nat
      /\ user \in Holders
  BY BtcAssumption DEF ChainTyped, TypeOK, PoolType, BtcType, Holders
<1>1. PICK owed \in Nat : owed = DebtOf(btcPrincipal[v])
  BY <1>0, DebtTyped
<1>2. PICK paid \in Nat : paid = BtcPaid(v, amount)
  BY <1>0, <1>1 DEF BtcPaid, Smaller
<1>3. PICK slice : slice = BtcSlice(v, amount)
  OBVIOUS
<1>4. slice \in 0..btcPrincipal[v]
  <2>1. ToScaled(paid, Accrued.borrow_index) \in Nat
    BY ChainFacts, ToScaledIsNat
  <2> QED
    BY <1>0, <1>2, <1>3, <2>1 DEF BtcSlice, Smaller
<1>5. /\ Pay(user, PoolVault, paid)
      /\ pool.total_borrowed >= slice
      /\ pool' = [Accrued EXCEPT !.total_borrowed = @ - slice]
      /\ btcPrincipal' = [btcPrincipal EXCEPT ![v] = @ - slice]
      /\ btcPositions' \subseteq btcPositions
      /\ UNCHANGED <<clockVars, protocol, feed, btcVault, attestation,
           approvals>>
  BY <1>2, <1>3 DEF RepayBtcBorrow, MayRepayBtc, BtcPositionsAfter
<1>6. PICK n \in Nat : n = Accrued.total_borrowed - slice
  BY <1>0, <1>4, <1>5, ChainFacts
<1>7. pool' = [Accrued EXCEPT !.total_borrowed = n]
  BY <1>5, <1>6, ChainFacts DEF LendingPool
<1>8. BtcType'
  <2>1. btcPrincipal[v] - slice \in Nat
    BY <1>0, <1>4
  <2> QED
    BY <1>5, <2>1 DEF ChainTyped, BtcType
<1>9. tokens' \in [Holders -> Nat]
  BY <1>0, <1>5, PaidTokens DEF Holders
<1> QED
  BY <1>5, <1>7, <1>8, <1>9, LoanAges, Untouched

LEMMA BtcLiquidateAges ==
    ASSUME ChainTyped, PoolBehind, NEW v \in BtcVaults, NEW user \in Users,
           LiquidateBtcPosition(v, user), UNCHANGED <<custodyVars, solVars>>
    PROVE  ChainAges
<1>0. /\ btcPrincipal[v] \in Nat /\ now \in Nat
      /\ btcVault \in [BtcVaults -> BtcVaultAccount]
      /\ approvals[v] \in [demo : [DemoPayers -> Nat], ika : BOOLEAN,
                           sighash : {"none", "pending", "signed"}]
  BY DEF ChainTyped, TypeOK, ProtocolType, BtcType
<1>1. PICK paid \in Nat : paid = DebtOf(btcPrincipal[v])
  BY <1>0, DebtTyped
<1>2. /\ Pay(user, PoolVault, paid)
      /\ pool.total_borrowed >= btcPrincipal[v]
      /\ pool' = [Accrued EXCEPT !.total_borrowed = @ - btcPrincipal[v]]
      /\ btcPrincipal' = [btcPrincipal EXCEPT ![v] = 0]
      /\ btcPositions' = btcPositions
      /\ btcVault' = [btcVault EXCEPT ![v] =
                         [@ EXCEPT !.frozen = TRUE,
                                   !.liquidation_initiated_at = now]]
      /\ approvals' = [approvals EXCEPT ![v].sighash = "pending"]
      /\ UNCHANGED <<clockVars, protocol, feed, attestation>>
  BY <1>1 DEF LiquidateBtcPosition, Booked, BtcPositionsLiquidated
<1>3. PICK n \in Nat : n = Accrued.total_borrowed - btcPrincipal[v]
  BY <1>0, <1>2, ChainFacts
<1>4. pool' = [Accrued EXCEPT !.total_borrowed = n]
  BY <1>2, <1>3, ChainFacts DEF LendingPool
<1>5. btcVault' \in [BtcVaults -> BtcVaultAccount]
  BY <1>0, <1>2 DEF BtcVaultAccount
<1>6. approvals' = [approvals EXCEPT ![v] =
                      [approvals[v] EXCEPT !.sighash = "pending"]]
  BY <1>2 DEF ChainTyped, BtcType
<1>7. [approvals[v] EXCEPT !.sighash = "pending"]
        \in [demo : [DemoPayers -> Nat], ika : BOOLEAN,
             sighash : {"none", "pending", "signed"}]
  BY <1>0
<1>8. BtcType'
  BY <1>2, <1>5, <1>6, <1>7 DEF ChainTyped, BtcType
<1>9. tokens' \in [Holders -> Nat]
  BY <1>2, PaidTokens DEF Holders
<1> QED
  BY <1>2, <1>4, <1>8, <1>9, LoanAges, Untouched

----------------------------------------------------------------------------
(* The clock, and nothing *)

LEMMA TickAges ==
    ASSUME ChainTyped, PoolBehind, Tick,
           UNCHANGED <<custodyVars, poolVars, solVars, btcVars>>
    PROVE  ChainAges
<1>1. /\ slot \in 0..MaxSlot /\ now \in Nat \ {0} /\ MaxSlot \in Nat
      /\ protocol \in ProtocolAccount
  BY ClockAssumption DEF ChainTyped, TypeOK, ProtocolType
<1>2. /\ slot' = slot + 1 /\ slot < MaxSlot /\ protocol' = protocol
      /\ pool' = pool /\ now' \in Nat \ {0}
  <2>1. PICK seconds \in ClockSteps : now' = now + seconds
    BY DEF Tick
  <2>2. seconds \in Nat
    BY ClockAssumption
  <2>3. now + seconds \in Nat \ {0}
    BY <1>1, <2>2
  <2> QED
    BY <2>1, <2>3 DEF Tick, poolVars
<1>3. ProtocolType'
  BY <1>1, <1>2 DEF ProtocolType
<1>4. pool.last_update_slot \in Nat /\ pool.borrow_index \in Nat
  BY ChainFacts DEF LendingPool
<1>5. PoolBehind' /\ pool'.borrow_index >= pool.borrow_index
  BY <1>1, <1>2, <1>4 DEF PoolBehind
<1>6. PoolType'
  BY DEF poolVars, ChainTyped, TypeOK, PoolType
<1> QED
  BY <1>3, <1>5, <1>6, Untouched DEF ChainAges, ChainTyped, TypeOK

LEMMA ChainRestsAges ==
    ASSUME ChainTyped, PoolBehind, UNCHANGED lendGuardVars
    PROVE  ChainAges
<1>1. UNCHANGED <<clockVars, protocol, custodyVars, poolVars, solVars, btcVars>>
  BY DEF lendGuardVars, vars
<1> QED
  BY <1>1, ChainFacts, QuietAges, Untouched DEF poolVars, ChainTyped, TypeOK,
     PoolType

----------------------------------------------------------------------------
(* A transaction *)

SolTasks == {"register", "prove", "deposit", "attack", "set_up_risk", "check",
             "borrow", "repay"}

\* Nothing is sent about a SOL vault that is none.
TaskFits(t) == t.amount \in Nat /\ (t.name \in SolTasks => t.v \in Vaults)

LEMMA CustodyTaskAges ==
    ASSUME ChainTyped, PoolBehind, NEW t, TaskFits(t), CustodyTask(t),
           UNCHANGED <<poolVars, solVars, btcVars>>
    PROVE  ChainAges
<1>0. Visitor \in Users /\ t.amount \in Nat
  BY SendAssumption, BtcAssumption DEF TaskFits
<1>1. CASE t.name \in {"initialize", "unfreeze"}
  BY <1>0, <1>1, ProtocolAges DEF CustodyTask
<1>2. CASE t.name \in SolTasks
  <2>1. t.v \in Vaults
    BY <1>2 DEF TaskFits
  <2> QED
    BY <1>0, <1>2, <2>1, RegisterAges, ProveAges, DepositAges, SetUpRiskAges,
       CheckAges DEF CustodyTask, ProveCustody, SolTasks
<1> QED
  BY <1>1, <1>2 DEF CustodyTask, SolTasks

LEMMA LendingTaskAges ==
    ASSUME ChainTyped, PoolBehind, NEW t, TaskFits(t), LendingTask(t),
           UNCHANGED btcVars
    PROVE  ChainAges
<1>1. Visitor \in Users /\ t.amount \in Nat
  BY SendAssumption, BtcAssumption DEF TaskFits
<1>2. t.v \in Vaults
  BY DEF LendingTask
<1> QED
  BY <1>1, <1>2, BorrowAges, RepayAges, LiquidateAges DEF LendingTask

LEMMA BtcTaskAges ==
    ASSUME ChainTyped, PoolBehind, NEW t, TaskFits(t), BtcTask(t),
           UNCHANGED <<custodyVars, solVars>>
    PROVE  ChainAges
<1>1. Visitor \in Users /\ t.amount \in Nat /\ t.v \in BtcVaults
  BY SendAssumption, BtcAssumption DEF TaskFits, BtcTask
<1> QED
  BY <1>1, BtcProofAges, AttestAges, BtcBorrowAges, BtcRepayAges DEF BtcTask

LEMMA LandsAges ==
    ASSUME ChainTyped, PoolBehind, approved \subseteq Vaults, NEW t,
           TaskFits(t), Lands(t)
    PROVE  ChainAges /\ approved' \subseteq Vaults
<1>1. CASE CustodyTask(t) /\ UNCHANGED <<poolVars, solVars, btcVars>>
  <2>1. approved' \subseteq Vaults
    <3>1. CASE t.name = "prove" /\ ProveCustody(t.v)
      BY <3>1 DEF ProveCustody, TaskFits, SolTasks
    <3>2. CASE UNCHANGED approved
      BY <3>2
    <3> QED
      BY <1>1, <3>1, <3>2 DEF CustodyTask
  <2> QED
    BY <1>1, <2>1, CustodyTaskAges
<1>2. CASE LendingTask(t) /\ UNCHANGED <<btcVars, approved>>
  BY <1>2, LendingTaskAges
<1>3. CASE /\ UpdateAdminPrice(Visitor, BTC, t.amount)
           /\ UNCHANGED <<custodyVars, solVars, btcVars, approved>>
  BY <1>3, PriceAges DEF TaskFits
<1>4. CASE BtcTask(t) /\ UNCHANGED <<custodyVars, solVars, approved>>
  BY <1>4, BtcTaskAges
<1>5. CASE UNCHANGED <<lendGuardVars, approved>>
  BY <1>5, ChainRestsAges
<1> QED
  BY <1>1, <1>2, <1>3, <1>4, <1>5 DEF Lands

LEMMA StrangersAge ==
    ASSUME ChainTyped, PoolBehind, StrangerStep
    PROVE  ChainAges
<1>1. CASE /\ TriggerRiskCheck(Theirs, Stranger, FALSE)
           /\ UNCHANGED <<poolVars, solVars, btcVars>>
  BY <1>1, CheckAges, WebAssumption
<1>2. CASE /\ UnfreezeProtocolState(Stranger)
           /\ UNCHANGED <<custodyVars, poolVars, solVars, btcVars>>
  BY <1>2, ProtocolAges, WebAssumption
<1>3. CASE /\ \E price \in Prices : UpdateAdminPrice(Stranger, BTC, price)
           /\ UNCHANGED <<custodyVars, solVars, btcVars>>
  BY <1>3, PriceAges, PoolAssumption
<1>4. CASE /\ \/ \E amount \in RepayAmounts :
                RepayBorrow(Theirs, Stranger, amount)
              \/ LiquidatePosition(Mine, Stranger)
           /\ UNCHANGED btcVars
  BY <1>4, RepayAges, LiquidateAges, WebAssumption, SolAssumption
<1>5. CASE /\ LiquidateBtcPosition(MyBtc, Stranger)
           /\ UNCHANGED <<custodyVars, solVars>>
  BY <1>5, BtcLiquidateAges, WebAssumption
<1>6. CASE /\ \E satoshis \in AttestedBalances :
                FinalizeBtcLiquidation(MyBtc, protocol.admin,
                    BTC_LIQUIDATION_MIN_CONFIRMATIONS, satoshis)
           /\ UNCHANGED <<custodyVars, solVars>>
  BY <1>6, FinalizeAges, WebAssumption, LendGuardAssumption
<1> QED
  BY <1>1, <1>2, <1>3, <1>4, <1>5, <1>6 DEF StrangerStep

----------------------------------------------------------------------------
(* What the pages read *)

\* The program's layouts are those of the lemmas on layouts.
LEMMA SameWire ==
    ASSUME NEW layout, NEW decoder
    PROVE  /\ Program!Reads(layout, decoder) = Wires!Reads(layout, decoder)
           /\ Program!ReadsBack(layout, decoder)
                = Wires!ReadsBack(layout, decoder)
           /\ Program!Bytes(layout) = Wires!Bytes(layout)
  BY DEF Program!ReadsBack, Wires!ReadsBack, Program!Reads, Wires!Reads,
     Program!FieldAt, Wires!FieldAt, Program!OffsetOf, Wires!OffsetOf,
     Program!Bytes, Wires!Bytes, Program!BytesOf, Wires!BytesOf,
     Program!SumOver, Wires!SumOver, Program!UnitsOf, Wires!UnitsOf,
     Program!Units, Wires!Units, Program!Cardinality, Wires!Cardinality,
     Program!IsFiniteSet, Wires!IsFiniteSet

LEMMA ReadsAsItself ==
    ASSUME NEW layout, IsLayout(layout), NEW i \in DOMAIN layout
    PROVE  Program!Reads(layout, layout)[layout[i][1]] = layout[i][1]
  BY ReadsRight, SameWire

\* The six accounts the pages decode.
LEMMA PoolIsLayout == IsLayout(Program!LendingPoolLayout)
<1>1. DOMAIN Program!LendingPoolLayout = 1..16
  BY DEF Program!LendingPoolLayout
<1> QED
  BY <1>1 DEF IsLayout, Program!LendingPoolLayout

LEMMA FeedIsLayout == IsLayout(Program!AdminPriceFeedLayout)
<1>1. DOMAIN Program!AdminPriceFeedLayout = 1..6
  BY DEF Program!AdminPriceFeedLayout
<1> QED
  BY <1>1 DEF IsLayout, Program!AdminPriceFeedLayout

LEMMA VaultIsLayout == IsLayout(Program!VaultLayout)
<1>1. DOMAIN Program!VaultLayout = 1..10
  BY DEF Program!VaultLayout
<1> QED
  BY <1>1 DEF IsLayout, Program!VaultLayout

LEMMA PositionIsLayout == IsLayout(Program!BorrowPositionLayout)
<1>1. DOMAIN Program!BorrowPositionLayout = 1..10
  BY DEF Program!BorrowPositionLayout
<1> QED
  BY <1>1 DEF IsLayout, Program!BorrowPositionLayout

LEMMA BtcVaultIsLayout == IsLayout(Program!BtcVaultLayout)
<1>1. DOMAIN Program!BtcVaultLayout = 1..15
  BY DEF Program!BtcVaultLayout
<1> QED
  BY <1>1 DEF IsLayout, Program!BtcVaultLayout

LEMMA AttestationIsLayout == IsLayout(Program!BtcAttestationLayout)
<1>1. DOMAIN Program!BtcAttestationLayout = 1..11
  BY DEF Program!BtcAttestationLayout
<1> QED
  BY <1>1 DEF IsLayout, Program!BtcAttestationLayout

\* The fields the lending page shows are the ones it means.
LEMMA PagesReadRight ==
    /\ PoolField("borrow_index") = pool.borrow_index
    /\ FeedField("price_usd") = feed[BTC].price_usd
    /\ \A v \in Vaults :
         /\ VaultField(v, "proof_status") = vault[v].proof_status
         /\ VaultField(v, "deposited_amount") = vault[v].deposited_amount
    /\ \A v \in Borrowers : PositionField(v, "principal") = PrincipalOf(v)
    /\ \A v \in BtcVaults :
         /\ BtcVaultField(v, "proof_status") = btcVault[v].proof_status
         /\ BtcVaultField(v, "frozen") = btcVault[v].frozen
         /\ AttestationField(v, "satoshis") = attestation[v].satoshis
    /\ PositionReads["principal"] = "principal"
<1>1. PoolReads["borrow_index"] = "borrow_index"
  <2>1. /\ 12 \in DOMAIN Program!LendingPoolLayout
        /\ Program!LendingPoolLayout[12][1] = "borrow_index"
    BY DEF Program!LendingPoolLayout
  <2>2. PoolReads =
          Program!Reads(Program!LendingPoolLayout,
                        Program!LendingPoolLayout)
    BY DEF PoolReads, Web!DecodeLendingPool, Program!LendingPoolLayout
  <2>3. PICK layout : layout = Program!LendingPoolLayout
    OBVIOUS
  <2>4. \A i \in DOMAIN layout :
          Program!Reads(layout, layout)[layout[i][1]] = layout[i][1]
    BY <2>3, PoolIsLayout, ReadsAsItself
  <2> QED
    BY <2>1, <2>2, <2>3, <2>4
<1>2. FeedReads["price_usd"] = "price_usd"
  <2>1. /\ 3 \in DOMAIN Program!AdminPriceFeedLayout
        /\ Program!AdminPriceFeedLayout[3][1] = "price_usd"
    BY DEF Program!AdminPriceFeedLayout
  <2>2. FeedReads =
          Program!Reads(Program!AdminPriceFeedLayout,
                        Program!AdminPriceFeedLayout)
    BY DEF FeedReads, Web!DecodeAdminPriceFeed, Program!AdminPriceFeedLayout
  <2>3. PICK layout : layout = Program!AdminPriceFeedLayout
    OBVIOUS
  <2>4. \A i \in DOMAIN layout :
          Program!Reads(layout, layout)[layout[i][1]] = layout[i][1]
    BY <2>3, FeedIsLayout, ReadsAsItself
  <2> QED
    BY <2>1, <2>2, <2>3, <2>4
<1>3. /\ DepositReads["proof_status"] = "proof_status"
      /\ DepositReads["deposited_amount"] = "deposited_amount"
  <2>1. /\ 6 \in DOMAIN Program!VaultLayout /\ 7 \in DOMAIN Program!VaultLayout
        /\ Program!VaultLayout[6][1] = "deposited_amount"
        /\ Program!VaultLayout[7][1] = "proof_status"
    BY DEF Program!VaultLayout
  <2>2. DepositReads = Program!Reads(Program!VaultLayout,
                        Program!VaultLayout)
    BY DEF DepositReads, Web!DecodeVaultAccount, Program!VaultLayout
  <2>3. PICK layout : layout = Program!VaultLayout
    OBVIOUS
  <2>4. \A i \in DOMAIN layout :
          Program!Reads(layout, layout)[layout[i][1]] = layout[i][1]
    BY <2>3, VaultIsLayout, ReadsAsItself
  <2> QED
    BY <2>1, <2>2, <2>3, <2>4
<1>4. PositionReads["principal"] = "principal"
  <2>1. /\ 5 \in DOMAIN Program!BorrowPositionLayout
        /\ Program!BorrowPositionLayout[5][1] = "principal"
    BY DEF Program!BorrowPositionLayout
  <2>2. PositionReads =
          Program!Reads(Program!BorrowPositionLayout,
                        Program!BorrowPositionLayout)
    BY DEF PositionReads, Web!DecodeBorrowPosition, Program!BorrowPositionLayout
  <2>3. PICK layout : layout = Program!BorrowPositionLayout
    OBVIOUS
  <2>4. \A i \in DOMAIN layout :
          Program!Reads(layout, layout)[layout[i][1]] = layout[i][1]
    BY <2>3, PositionIsLayout, ReadsAsItself
  <2> QED
    BY <2>1, <2>2, <2>3, <2>4
<1>5. /\ BtcVaultReads["proof_status"] = "proof_status"
      /\ BtcVaultReads["frozen"] = "frozen"
  <2>1. /\ 10 \in DOMAIN Program!BtcVaultLayout
        /\ 12 \in DOMAIN Program!BtcVaultLayout
        /\ Program!BtcVaultLayout[10][1] = "proof_status"
        /\ Program!BtcVaultLayout[12][1] = "frozen"
    BY DEF Program!BtcVaultLayout
  <2>2. BtcVaultReads =
          Program!Reads(Program!BtcVaultLayout,
                        Program!BtcVaultLayout)
    BY DEF BtcVaultReads, Web!DecodeBtcVault, Program!BtcVaultLayout
  <2>3. PICK layout : layout = Program!BtcVaultLayout
    OBVIOUS
  <2>4. \A i \in DOMAIN layout :
          Program!Reads(layout, layout)[layout[i][1]] = layout[i][1]
    BY <2>3, BtcVaultIsLayout, ReadsAsItself
  <2> QED
    BY <2>1, <2>2, <2>3, <2>4
<1>6. AttestationReads["satoshis"] = "satoshis"
  <2>1. /\ 5 \in DOMAIN Program!BtcAttestationLayout
        /\ Program!BtcAttestationLayout[5][1] = "satoshis"
    BY DEF Program!BtcAttestationLayout
  <2>2. AttestationReads =
          Program!Reads(Program!BtcAttestationLayout,
                        Program!BtcAttestationLayout)
    BY DEF AttestationReads, Web!DecodeBitcoinBalanceAttestation,
      Program!BtcAttestationLayout
  <2>3. PICK layout : layout = Program!BtcAttestationLayout
    OBVIOUS
  <2>4. \A i \in DOMAIN layout :
          Program!Reads(layout, layout)[layout[i][1]] = layout[i][1]
    BY <2>3, AttestationIsLayout, ReadsAsItself
  <2> QED
    BY <2>1, <2>2, <2>3, <2>4
<1> QED
  BY <1>1, <1>2, <1>3, <1>4, <1>5, <1>6 DEF PoolField, FeedField, VaultField,
     PositionField, BtcVaultField, AttestationField

----------------------------------------------------------------------------
(* Handlers, on whichever page *)

\* The Bitcoin page's tasks are of Bitcoin vaults, but for liquidations.
Belongs(t) == open = "btc" /\ t.name # "liquidate" => t.v \in BtcAddresses

\* Every handler's task can be sent.
CallsFit ==
    /\ calls \in [CallIds -> Call]
    /\ \A c \in CallIds : TaskFits(calls[c].task) /\ Belongs(calls[c].task)

LEMMA CallMoves ==
    ASSUME CallsFit, open' = open, NEW c \in CallIds, NEW next \in Call,
           calls' = [calls EXCEPT ![c] = next],
           TaskFits(next.task), Belongs(next.task)
    PROVE  CallsFit'
<1>1. calls' \in [CallIds -> Call] /\ calls'[c] = next
  BY DEF CallsFit
<1>2. ASSUME NEW d \in CallIds
      PROVE  TaskFits(calls'[d].task) /\ Belongs(calls'[d].task)
  <2>1. CASE d = c
    BY <1>1, <2>1
  <2>2. CASE d # c
    BY <2>2 DEF CallsFit
  <2> QED
    BY <2>1, <2>2
<1>3. \A d \in CallIds : Belongs(calls'[d].task) => Belongs(calls[d].task)'
  BY DEF Belongs, BtcAddresses
<1> QED
  BY <1>1, <1>2, <1>3 DEF CallsFit, TaskFits

LEMMA NoCallFits ==
    NoCall \in Call /\ TaskFits(NoCall.task) /\ Belongs(NoCall.task)
  BY DEF NoCall, NoTask, Call, TaskNames, TaskFits, SolTasks, Belongs,
     BtcAddresses

LEMMA CallGoesOn ==
    ASSUME CallsFit, open' = open, NEW c \in CallIds, NEW next \in Call,
           calls' = [calls EXCEPT ![c] = next],
           next = NoCall \/ next.task = calls[c].task
    PROVE  CallsFit'
  BY CallMoves, NoCallFits DEF CallsFit

LEMMA StartsFit ==
    ASSUME CallsFit, open' = open, NEW t \in TaskRecord, TaskFits(t),
           Belongs(t), Starts(t)
    PROVE  CallsFit' /\ running' \in BOOLEAN
<1>1. PICK c \in CallIds :
        calls' = [calls EXCEPT ![c] = [NoCall EXCEPT !.stage = "simulating",
                                                    !.task = t]]
  BY DEF Starts
<1>2. PICK next : next = [NoCall EXCEPT !.stage = "simulating", !.task = t]
  OBVIOUS
<1>3. next \in Call /\ next.task = t
  BY <1>2 DEF NoCall, NoTask, Call, TaskRecord, TaskNames
<1>4. CallsFit'
  BY <1>1, <1>2, <1>3, CallMoves
<1> QED
  BY <1>4 DEF Starts

LEMMA EndedFits ==
    ASSUME CallsFit, open' = open, NEW c \in CallIds, Ended(c)
    PROVE  CallsFit' /\ running' \in BOOLEAN
<1>1. PICK next \in Call :
        calls' = [calls EXCEPT ![c] = next] /\ GoesOn(c, next)
  BY EndedFacts DEF CallsFit
<1> QED
  BY <1>1, CallGoesOn DEF GoesOn, Ended

\* What sendIx keeps in order beside its calls.
SendFits ==
    /\ running \in BOOLEAN
    /\ mishaps \in 0..MaxMishaps
    /\ approved \subseteq Vaults

LEMMA MishapFits ==
    ASSUME mishaps \in 0..MaxMishaps, Mishap
    PROVE  mishaps' \in 0..MaxMishaps
  BY SendAssumption DEF Mishap

\* A handler that is not done with its page yet.
LEMMA FaresFits ==
    ASSUME ChainTyped, PoolBehind, CallsFit, SendFits, open' = open,
           NEW c \in CallIds, Fares(c)
    PROVE  ChainAges /\ CallsFit' /\ SendFits'
<1>1. ASSUME UNCHANGED chainVars
      PROVE  ChainAges /\ approved' \subseteq Vaults
  BY <1>1, ChainRestsAges DEF chainVars, SendFits
<1>2. CASE Throws(c)
  BY <1>1, <1>2, EndedFits, MishapFits DEF Throws, SendFits
<1>3. CASE PostUnanswered(c)
  <2>1. PICK next \in Call :
          calls' = [calls EXCEPT ![c] = next] /\ GoesOn(c, next)
    BY <1>3, ToFacts DEF PostUnanswered, CallsFit
  <2> QED
    BY <1>1, <1>3, <2>1, CallGoesOn, MishapFits DEF PostUnanswered, GoesOn,
       SendFits
<1>4. CASE Simulates(c) \/ Posts(c)
  <2>1. PICK next \in Call :
          calls' = [calls EXCEPT ![c] = next] /\ GoesOn(c, next)
    BY <1>4, ToFacts DEF Simulates, Posts, CallsFit
  <2>2. /\ UNCHANGED chainVars /\ running' = running
        /\ mishaps' = mishaps \/ Mishap
    BY <1>4 DEF Simulates, Posts
  <2> QED
    BY <1>1, <2>1, <2>2, CallGoesOn, MishapFits DEF GoesOn, SendFits
<1>5. CASE Executes(c)
  <2>1. PICK next \in Call :
          /\ calls' = [calls EXCEPT ![c] = next]
          /\ next = NoCall \/ next.task = calls[c].task
    BY <1>5, AnswerFacts DEF Executes, CallsFit
  <2>2. ChainAges /\ approved' \subseteq Vaults
    <3>1. CASE Lands(calls[c].task)
      BY <3>1, LandsAges DEF CallsFit, SendFits
    <3>2. CASE UNCHANGED chainVars
      BY <1>1, <3>2
    <3> QED
      BY <1>5, <3>1, <3>2 DEF Executes
  <2> QED
    BY <1>5, <2>1, <2>2, CallGoesOn DEF Executes, SendFits
<1>6. CASE Drops(c)
  <2>1. PICK next \in Call :
          /\ calls' = [calls EXCEPT ![c] = next]
          /\ next = NoCall \/ next.task = calls[c].task
    BY <1>6, AnswerFacts DEF Drops, CallsFit
  <2> QED
    BY <1>1, <1>6, <2>1, CallGoesOn, MishapFits DEF Drops, SendFits
<1> QED
  BY <1>2, <1>3, <1>4, <1>5, <1>6 DEF Fares, UnderWay

----------------------------------------------------------------------------
(* The lending page *)

\* A step of a page, as far as the chain and its transactions go.
Proceeds == ChainAges /\ CallsFit' /\ SendFits'

LEMMA OnlyReads ==
    ASSUME ChainTyped, PoolBehind, CallsFit, SendFits, open' = open,
           UNCHANGED <<chainVars, calls, running, mishaps>>
    PROVE  Proceeds
<1>1. ChainAges
  BY ChainRestsAges DEF chainVars
<1>2. CallsFit'
  BY DEF CallsFit, Belongs
<1> QED
  BY <1>1, <1>2 DEF Proceeds, SendFits, chainVars

\* A button is clicked.
LEMMA Clicked ==
    ASSUME ChainTyped, PoolBehind, CallsFit, SendFits, open' = open,
           NEW name \in TaskNames, NEW v \in Vaults \cup BtcVaults \cup {NoPda},
           NEW amount \in Nat, name \in SolTasks => v \in Vaults,
           open = "btc" /\ name # "liquidate" => v \in BtcAddresses,
           Starts(Task(name, v, amount))
    PROVE  Proceeds
<1>1. PICK t : t = Task(name, v, amount)
  OBVIOUS
<1>2. t \in TaskRecord /\ TaskFits(t) /\ Belongs(t)
  BY <1>1, TaskFields DEF TaskFits, Belongs
<1>3. CallsFit' /\ running' \in BOOLEAN
  BY <1>1, <1>2, StartsFit
<1>4. ChainAges /\ approved' = approved /\ mishaps' = mishaps
  BY ChainRestsAges DEF Starts, chainVars
<1> QED
  BY <1>3, <1>4 DEF Proceeds, SendFits

LEMMA WebDebtIsNat ==
    ASSUME NEW s \in Nat, NEW i \in Nat PROVE WebCurrentDebt(s, i) \in Nat
  BY CurrentDebtIsNat DEF WebCurrentDebt, CurrentDebt

LEMMA SharedClickProceeds ==
    ASSUME ChainTyped, PoolBehind, CallsFit, SendFits, open' = open, SharedClick
    PROVE  Proceeds
<1>1. /\ "price" \in TaskNames \ SolTasks /\ "unfreeze" \in TaskNames \ SolTasks
      /\ NoPda \in BtcAddresses /\ 0 \in Nat
  BY DEF TaskNames, SolTasks, BtcAddresses
<1>2. CASE ClickSetPrice
  <2>1. PICK price \in NewPrices : Starts(Task("price", NoPda, price))
    BY <1>2 DEF ClickSetPrice
  <2> QED
    BY <1>1, <2>1, Clicked, LendAssumption
<1>3. CASE ClickUnfreeze
  BY <1>1, <1>3, Clicked DEF ClickUnfreeze
<1> QED
  BY <1>2, <1>3 DEF SharedClick

LEMMA LendClickProceeds ==
    ASSUME ChainTyped, PoolBehind, CallsFit, SendFits, open' = open,
           open = "lend", view \in View, NEW v \in Vaults,
           ClickBorrow(v) \/ ClickRepay(v)
    PROVE  Proceeds
<1>1. "borrow" \in TaskNames /\ "repay" \in TaskNames
  BY DEF TaskNames
<1>2. CASE ClickBorrow(v)
  <2>1. PICK amount \in TypedAmounts : Starts(Task("borrow", v, amount))
    BY <1>2 DEF ClickBorrow
  <2> QED
    BY <1>1, <2>1, Clicked, LendAssumption
<1>3. CASE ClickRepay(v)
  <2>1. PICK all \in BOOLEAN, typed \in TypedAmounts :
          Starts(Task("repay", v, RepayAmount(all, typed)))
    BY <1>3 DEF ClickRepay
  <2>2. DebtShown \in Nat
    BY WebDebtIsNat DEF DebtShown, View
  <2>3. RepayAmount(all, typed) \in Nat
    BY <2>2, LendAssumption, BtcAssumption DEF RepayAmount, Smaller
  <2> QED
    BY <1>1, <2>1, <2>3, Clicked
<1> QED
  BY <1>2, <1>3

LEMMA LiquidateClickProceeds ==
    ASSUME ChainTyped, PoolBehind, CallsFit, SendFits, open' = open,
           NEW v \in Borrowers, ClickLiquidate(v)
    PROVE  Proceeds
<1>1. "liquidate" \in TaskNames \ SolTasks /\ 0 \in Nat
  BY DEF TaskNames, SolTasks
<1> QED
  BY <1>1, Clicked DEF ClickLiquidate, Borrowers

\* What the page shows is as old as the chain or older.
ViewFits == view \in View /\ view.index <= pool.borrow_index

LEMMA ReadMarketFits ==
    ASSUME ChainTyped, PoolBehind, ViewFits, ReadMarket
    PROVE  ViewFits'
<1>1. /\ pool.borrow_index \in Nat /\ feed[BTC].price_usd \in Nat
      /\ \A v \in Borrowers : PrincipalOf(v) \in Nat
  BY ChainFacts, BtcAssumption DEF ChainTyped, TypeOK, PoolType, SolType,
     BtcType, AdminPriceFeed, Borrowers, PrincipalOf
<1>2. PICK debts \in [Borrowers -> Nat] :
        debts = [v \in Borrowers |-> PositionField(v, "principal")]
  BY <1>1, PagesReadRight
<1>3. PICK found \in SUBSET Borrowers : found = positions \cup btcPositions
  BY DEF ChainTyped, TypeOK, SolType, BtcType, Borrowers
<1>4. view' = [view EXCEPT !.loaded = TRUE, !.index = pool.borrow_index,
                           !.price = feed[BTC].price_usd,
                           !.positions = found, !.principal = debts]
  BY <1>2, <1>3, PagesReadRight DEF ReadMarket
<1>5. view' \in View /\ view'.index = pool.borrow_index
  BY <1>1, <1>4 DEF ViewFits, View
<1>6. pool' = pool
  BY DEF ReadMarket, chainVars, lendGuardVars, vars, poolVars
<1> QED
  BY <1>1, <1>5, <1>6 DEF ViewFits

LEMMA ReadVaultsFits ==
    ASSUME ChainTyped, ViewFits, ReadVaults
    PROVE  ViewFits'
<1>1. vault \in [Vaults -> VaultAccount]
  BY DEF ChainTyped, TypeOK, CustodyType
<1>2. PICK live \in SUBSET Borrowers :
        live = {v \in Vaults : vault[v].live}
                 \cup {v \in BtcVaults : btcVault[v].live}
  BY DEF Borrowers
<1>3. PICK owned \in SUBSET Vaults :
        owned = {v \in Vaults : /\ vault[v].live
                                /\ OwnersFilter /\ OwnerOf[v] = Visitor}
  OBVIOUS
<1>4. PICK verified \in SUBSET Vaults :
        verified = {v \in owned : VaultField(v, "proof_status") = VERIFIED}
  OBVIOUS
<1>5. PICK deposits \in [Borrowers -> Nat] :
        deposits = [u \in Borrowers |-> DepositRead(u)]
  BY <1>1, PagesReadRight, LendAssumption
     DEF VaultAccount, DepositRead, Borrowers
<1>6. PICK listed \in SUBSET Borrowers :
        listed = owned \cup (live \cap view.positions)
  BY <1>2, <1>3 DEF Borrowers
<1>7. PICK v \in Preferred(owned, verified) :
        view' = [view EXCEPT !.vaults = listed, !.verified = verified,
                             !.deposited = deposits, !.selected = v]
  BY <1>2, <1>3, <1>4, <1>5, <1>6 DEF ReadVaults
<1>8. v \in Vaults \cup {NoPda}
  BY <1>7 DEF Preferred
<1>9. view' \in View /\ view'.index = view.index
  BY <1>7, <1>8 DEF ViewFits, View
<1>10. pool' = pool
  BY DEF ReadVaults, chainVars, lendGuardVars, vars, poolVars
<1> QED
  BY <1>9, <1>10 DEF ViewFits

LEMMA ReadPositionFits ==
    ASSUME ChainTyped, ViewFits, ReadPosition
    PROVE  ViewFits'
<1>1. PICK debt \in Nat :
        debt = IF view.selected \in positions
               THEN PositionField(view.selected, "principal") ELSE 0
  BY PagesReadRight DEF ChainTyped, TypeOK, SolType, Borrowers, PrincipalOf
<1>2. view' = [view EXCEPT !.position = debt]
  BY <1>1 DEF ReadPosition
<1>3. view' \in View /\ view'.index = view.index
  BY <1>2 DEF ViewFits, View
<1>4. pool' = pool
  BY DEF ReadPosition, chainVars, lendGuardVars, vars, poolVars
<1> QED
  BY <1>3, <1>4 DEF ViewFits

\* An index the page has read only grows older.
LEMMA ViewAges ==
    ASSUME ChainTyped, PoolBehind, ViewFits, ChainAges, view' = view
    PROVE  ViewFits'
<1>1. pool.borrow_index \in Nat /\ pool'.borrow_index \in Nat
  BY ChainFacts DEF ChainAges, ChainTyped, TypeOK, PoolType, LendingPool
<1> QED
  BY <1>1 DEF ViewFits, View, ChainAges

LEMMA LendStepFits ==
    ASSUME ChainTyped, PoolBehind, CallsFit, SendFits, ViewFits, open' = open,
           open = "lend", LendStep
    PROVE  Proceeds /\ ViewFits'
<1>1. CASE ReadMarket
  BY <1>1, OnlyReads, ReadMarketFits DEF ReadMarket
<1>2. CASE ReadVaults
  BY <1>2, OnlyReads, ReadVaultsFits DEF ReadVaults
<1>3. CASE ReadPosition
  BY <1>3, OnlyReads, ReadPositionFits DEF ReadPosition
<1>4. ASSUME NEW v \in Vaults, ClickPick(v) PROVE Proceeds /\ ViewFits'
  <2>1. view' = [view EXCEPT !.selected = v] /\ pool' = pool
    BY <1>4 DEF ClickPick, chainVars, lendGuardVars, vars, poolVars
  <2>2. ViewFits'
    BY <2>1 DEF ViewFits, View
  <2> QED
    BY <1>4, <2>2, OnlyReads DEF ClickPick
<1>5. CASE UNCHANGED view
  <2>1. Proceeds
    <3>1. CASE SharedClick
      BY <3>1, SharedClickProceeds
    <3>2. ASSUME NEW v \in Vaults, ClickBorrow(v) \/ ClickRepay(v)
          PROVE  Proceeds
      BY <3>2, LendClickProceeds DEF ViewFits
    <3>7. ASSUME NEW v \in Borrowers, ClickLiquidate(v) PROVE Proceeds
      BY <3>7, LiquidateClickProceeds
    <3>3. ASSUME NEW c \in CallIds, LendReturns(c) PROVE Proceeds
      <4>1. CallsFit' /\ running' \in BOOLEAN
        BY <3>3, EndedFits DEF LendReturns
      <4>2. ChainAges /\ approved' = approved /\ mishaps' = mishaps
        BY <3>3, ChainRestsAges DEF LendReturns, chainVars
      <4> QED
        BY <4>1, <4>2 DEF Proceeds, SendFits
    <3>4. ASSUME NEW c \in CallIds, Fares(c) PROVE Proceeds
      BY <3>4, FaresFits DEF Proceeds
    <3>5. CASE ReadMarket \/ ReadVaults \/ ReadPosition
      BY <3>5, OnlyReads DEF ReadMarket, ReadVaults, ReadPosition
    <3>6. ASSUME NEW v \in Vaults, ClickPick(v) PROVE Proceeds
      BY <1>4, <3>6
    <3> QED
      BY <3>1, <3>2, <3>3, <3>4, <3>5, <3>6, <3>7 DEF LendStep
  <2> QED
    BY <1>5, <2>1, ViewAges DEF Proceeds
<1> QED
  BY <1>1, <1>2, <1>3, <1>4, <1>5 DEF LendStep

----------------------------------------------------------------------------
(* Its Bitcoin half *)

Shown == [v : BtcAddresses, live : BOOLEAN,
          status : {PENDING, VERIFIED, EXPIRED}, frozen : BOOLEAN,
          satoshis : Nat, principal : Nat]

LEMMA ReadBtcVaultFits ==
    ASSUME ChainTyped, NEW v \in BtcAddresses
    PROVE  ReadBtcVault(v) \in Shown
<1>1. CASE v = NoPda \/ ~btcVault[v].live
  BY <1>1 DEF ReadBtcVault, NoShown, Shown, BtcAddresses
<1>2. CASE v \in BtcVaults /\ btcVault[v].live /\ v # NoPda
  <2>1. /\ btcVault[v] \in BtcVaultAccount
        /\ attestation[v].satoshis \in Nat /\ btcPrincipal[v] \in Nat
    BY <1>2 DEF ChainTyped, BtcType
  <2>2. ReadBtcVault(v)
          = [v |-> v, live |-> TRUE, status |-> btcVault[v].proof_status,
             frozen |-> btcVault[v].frozen,
             satoshis |-> attestation[v].satoshis,
             principal |-> btcPrincipal[v]]
    <3>1. [principal |-> btcPrincipal[v]][PositionReads["principal"]]
            = btcPrincipal[v]
      BY PagesReadRight
    <3> QED
      BY <1>2, <3>1, PagesReadRight DEF ReadBtcVault
  <2> QED
    BY <1>2, <2>1, <2>2 DEF BtcVaultAccount, Shown
<1> QED
  BY <1>1, <1>2 DEF BtcAddresses

LEMMA LoadsFits ==
    ASSUME ChainTyped, BtcPanelType, NEW v \in BtcAddresses, Loads(v)
    PROVE  pda' \in BtcAddresses /\ shown' \in Shown
  BY ReadBtcVaultFits DEF Loads, BtcPanelType

LEMMA BtcClickProceeds ==
    ASSUME ChainTyped, PoolBehind, CallsFit, SendFits, open' = open,
           BtcPanelType, view \in View, BtcClick
    PROVE  Proceeds
<1>1. /\ "btc_register" \in TaskNames \ SolTasks
      /\ "btc_prove" \in TaskNames \ SolTasks
      /\ "btc_verify" \in TaskNames \ SolTasks
      /\ "btc_borrow" \in TaskNames \ SolTasks
      /\ "btc_repay" \in TaskNames \ SolTasks
      /\ "btc_attest" \in TaskNames \ SolTasks
      /\ 0 \in Nat /\ MOCK_SATOSHIS \in Nat
  BY BtcPanelAssumption DEF TaskNames, SolTasks
<1>2. /\ form \in BtcAddresses /\ pda \in BtcAddresses /\ NoPda \in BtcAddresses
      /\ BtcAddresses \subseteq Vaults \cup BtcVaults \cup {NoPda}
  BY DEF BtcPanelType, BtcAddresses
<1>3. CASE ClickRegister
  BY <1>1, <1>2, <1>3, Clicked DEF ClickRegister
<1>4. CASE ClickProve
  <2>1. PICK v \in BtcAddresses : Starts(Task("btc_prove", v, 0))
    BY <1>2, <1>4 DEF ClickProve
  <2> QED
    BY <1>1, <1>2, <2>1, Clicked
<1>5. CASE ClickVerify
  BY <1>1, <1>2, <1>5, Clicked DEF ClickVerify
<1>6. CASE ClickBorrowBtc
  <2>1. PICK amount \in TypedAmounts : Starts(Task("btc_borrow", pda, amount))
    BY <1>6 DEF ClickBorrowBtc
  <2> QED
    BY <1>1, <1>2, <2>1, Clicked, LendAssumption
<1>7. CASE ClickRepayBtc
  <2>1. PICK all \in BOOLEAN, typed \in TypedAmounts :
          Starts(Task("btc_repay", pda, BtcRepayAmount(all, typed)))
    BY <1>7 DEF ClickRepayBtc
  <2>2. BtcDebtShown \in Nat
    BY WebDebtIsNat DEF BtcDebtShown, View, BtcPanelType
  <2>3. BtcRepayAmount(all, typed) \in Nat
    BY <2>2, LendAssumption, BtcAssumption DEF BtcRepayAmount, Smaller
  <2> QED
    BY <1>1, <1>2, <2>1, <2>3, Clicked
<1>8. CASE ClickAttest
  BY <1>1, <1>2, <1>8, Clicked DEF ClickAttest
<1> QED
  BY <1>3, <1>4, <1>5, <1>6, <1>7, <1>8 DEF BtcClick

LEMMA BtcPanelStepFits ==
    ASSUME ChainTyped, PoolBehind, CallsFit, SendFits, ViewFits, BtcPanelType,
           open' = open, open = "btc", BtcPanelStep
    PROVE  Proceeds /\ ViewFits' /\ BtcPanelType'
<1>0. UNCHANGED btcPanelVars => BtcPanelType'
  BY DEF btcPanelVars, BtcPanelType
<1>1. CASE (ReadMarket \/ ReadVaults) /\ UNCHANGED btcPanelVars
  BY <1>0, <1>1, OnlyReads, ReadMarketFits, ReadVaultsFits
     DEF ReadMarket, ReadVaults
<1>2. ASSUME NEW v \in BtcAddresses, ClickLoad(v)
      PROVE  Proceeds /\ BtcPanelType'
  BY <1>2, OnlyReads, LoadsFits DEF ClickLoad, BtcPanelType, Shown
<1>3. ASSUME NEW v \in BtcVaults, ClickGenerate(v)
      PROVE  Proceeds /\ BtcPanelType'
  BY <1>3, OnlyReads DEF ClickGenerate, BtcPanelType, BtcAddresses
<1>4. ASSUME TimerReads PROVE Proceeds /\ BtcPanelType'
  BY <1>4, OnlyReads DEF TimerReads, BtcPanelType
<1>5. ASSUME TimerReturns PROVE Proceeds /\ BtcPanelType'
  <2>1. shown' \in Shown
    BY <1>5, ReadBtcVaultFits DEF TimerReturns, BtcPanelType
  <2> QED
    BY <1>5, <2>1, OnlyReads DEF TimerReturns, BtcPanelType, Shown, BtcAddresses
<1>6. ASSUME NEW c \in CallIds, BtcReturns(c)
      PROVE  Proceeds /\ BtcPanelType'
  <2>1. CallsFit' /\ running' \in BOOLEAN
    BY <1>6, EndedFits DEF BtcReturns
  <2>2. ChainAges /\ approved' = approved /\ mishaps' = mishaps
    BY <1>6, ChainRestsAges DEF BtcReturns, chainVars
  <2>3. pda' \in BtcAddresses /\ shown' \in Shown
    <3>1. calls[c].task.name # "liquidate" => calls[c].task.v \in BtcAddresses
      BY DEF CallsFit, Belongs
    <3>2. ASSUME NEW v \in BtcAddresses, Loads(v)
          PROVE  pda' \in BtcAddresses /\ shown' \in Shown
      BY <3>2, LoadsFits
    <3>3. CASE UNCHANGED <<pda, shown>>
      BY <3>3 DEF BtcPanelType, Shown
    <3> QED
      BY <1>6, <3>1, <3>2, <3>3 DEF BtcReturns
  <2> QED
    BY <1>6, <2>1, <2>2, <2>3 DEF Proceeds, SendFits, BtcReturns, BtcPanelType,
       Shown
<1>7. ASSUME \/ SharedClick \/ BtcClick
             \/ \E v \in Borrowers : ClickLiquidate(v)
             \/ \E c \in CallIds : Fares(c),
             UNCHANGED btcPanelVars
      PROVE  Proceeds /\ BtcPanelType'
  <2>1. Proceeds
    BY <1>7, SharedClickProceeds, BtcClickProceeds, LiquidateClickProceeds,
       FaresFits DEF Proceeds, ViewFits
  <2> QED
    BY <1>0, <1>7, <2>1
<1>8. Proceeds /\ view' = view => ViewFits'
  BY ViewAges DEF Proceeds
<1> QED
  BY <1>1, <1>2, <1>3, <1>4, <1>5, <1>6, <1>7, <1>8 DEF BtcPanelStep

----------------------------------------------------------------------------
(* The demo page *)

LEMMA DemoCallsFit ==
    ASSUME DemoIInv', open' = "demo" PROVE CallsFit'
<1>1. calls' \in [CallIds -> Call]
  BY DEF DemoIInv, DemoTyped
<1>2. ASSUME NEW c \in CallIds
      PROVE  TaskFits(calls'[c].task)
  <2>1. /\ calls'[c].task.amount \in Nat
        /\ \/ calls'[c].task.name \in OtherTasks
           \/ calls'[c].task.v \in Vaults
    BY <1>1 DEF DemoIInv, HandlersTrail, HandlerTrails, DemoTask, Call
  <2> QED
    BY <2>1 DEF TaskFits, SolTasks, OtherTasks
<1> QED
  BY <1>1, <1>2 DEF CallsFit, TaskFits, Belongs

\* What the demo page records for good.
Records ==
    /\ blocked' \in BOOLEAN /\ overtaken' \in BOOLEAN
    /\ misled' \subseteq Vaults \cup {NoPda}

LEMMA DemoStepFits ==
    ASSUME ChainTyped, PoolBehind, CallsFit, SendFits, DemoType, DemoIInv,
           open' = open, open = "demo", DemoStep
    PROVE  Proceeds /\ DemoType'
<1>1. DemoIInv' /\ CallsFit'
  BY DemoStepTrails, DemoCallsFit
<1>2. UNCHANGED chainVars => ChainAges /\ approved' = approved
  BY ChainRestsAges DEF chainVars
<1>3. UNCHANGED demoVars => Records
  BY DEF demoVars, Records, DemoType
<1>4. CASE Click \/ ClickExperiment
  BY <1>1, <1>2, <1>3, <1>4 DEF Click, HonestClick, AttackerClick,
     ClickExperiment, Starts, Proceeds, SendFits, Records, DemoType, DemoIInv,
     DemoTyped
<1>5. CASE GivesUp \/ StartsOver
  <2>1. mishaps' \in 0..MaxMishaps
    BY <1>5, MishapFits DEF GivesUp, StartsOver, SendFits
  <2>2. overtaken' \in BOOLEAN
    BY <1>5 DEF GivesUp, StartsOver, Reset, DemoType, SendFits
  <2> QED
    BY <1>1, <1>2, <1>5, <2>1, <2>2 DEF GivesUp, StartsOver, Reset, Proceeds,
       SendFits, DemoType, DemoIInv, DemoTyped
<1>6. ASSUME NEW c \in CallIds, DemoReturns(c) PROVE Proceeds /\ Records
  <2>1. running' \in BOOLEAN
    BY <1>6 DEF DemoReturns, ThenRegisters, Ended, SendFits
  <2>2. calls[c].task.v \in Vaults \cup {NoPda}
    BY DEF DemoIInv, HandlersTrail, HandlerTrails, DemoTask
  <2>3. page.v \in Vaults \cup {NoPda}
    BY DEF DemoType
  <2>4. misled' \subseteq Vaults \cup {NoPda}
    BY <1>6, <2>2, <2>3 DEF DemoReturns, DemoType
  <2> QED
    BY <1>1, <1>2, <1>6, <2>1, <2>4 DEF DemoReturns, Proceeds, SendFits,
       Records, DemoType
<1>7. ASSUME NEW c \in CallIds, DemoThrows(c) PROVE Proceeds /\ Records
  <2>1. Proceeds
    BY <1>7, FaresFits DEF DemoThrows, Fares, Proceeds
  <2> QED
    BY <1>7, <2>1 DEF DemoThrows, Records, DemoType
<1>8. ASSUME NEW c \in CallIds, FallsBack(c) PROVE Proceeds /\ Records
  BY <1>1, <1>2, <1>3, <1>8 DEF FallsBack, Proceeds, SendFits
<1>9. ASSUME NEW c \in CallIds, UnderWay(c), UNCHANGED demoVars
      PROVE  Proceeds /\ Records
  BY <1>3, <1>9, FaresFits DEF Fares, Proceeds
<1>10. Records => DemoType'
  BY <1>1 DEF Records, DemoType, DemoIInv, DemoTyped
<1> QED
  BY <1>4, <1>5, <1>6, <1>7, <1>8, <1>9, <1>10 DEF DemoStep, CallStep

----------------------------------------------------------------------------
(* The inductive invariant of the web application *)

WebIInv ==
    /\ ChainTyped /\ PoolBehind
    /\ CallsFit /\ SendFits
    /\ DemoType /\ GateType /\ BtcPanelType /\ ViewFits
    /\ open \in {"demo", "lend", "btc"}
    /\ TrailIInv

LEMMA WebIInvTyped == WebIInv => WebTypeOK
  BY DEF WebIInv, WebTypeOK, ChainTyped, CallsFit, SendFits, SendType, ViewFits

\* The pages rest while the chain moves on.
LEMMA PagesRest ==
    ASSUME WebIInv, ChainAges, open' = open, approved' = approved,
           mishaps' \in 0..MaxMishaps,
           UNCHANGED <<calls, running, demoVars, view, btcPanelVars>>
    PROVE  /\ Proceeds /\ ViewFits' /\ DemoType' /\ BtcPanelType'
<1>1. CallsFit' /\ SendFits'
  BY DEF WebIInv, CallsFit, SendFits, Belongs
<1>2. ViewFits'
  BY ViewAges DEF WebIInv
<1> QED
  BY <1>1, <1>2 DEF WebIInv, Proceeds, DemoType, demoVars, BtcPanelType,
     btcPanelVars

LEMMA WebNextIInv ==
    ASSUME WebIInv, [WebNext]_web PROVE WebIInv'
<1>0. /\ open' = open /\ TrailIInv'
      /\ mishaps \in 0..MaxMishaps
  BY WebNextTrails DEF WebNext, web, WebIInv, SendFits
<1>1. CASE open = "demo" /\ DemoStep /\ UNCHANGED <<view, btcPanelVars, gate>>
  <2>1. Proceeds /\ DemoType'
    BY <1>0, <1>1, DemoStepFits DEF WebIInv, TrailIInv
  <2>2. ViewFits'
    BY <1>1, <2>1, ViewAges DEF WebIInv, Proceeds
  <2> QED
    BY <1>0, <1>1, <2>1, <2>2 DEF WebIInv, Proceeds, ChainAges, BtcPanelType,
       btcPanelVars, GateType
<1>2. CASE open = "lend" /\ LendStep
             /\ UNCHANGED <<demoVars, btcPanelVars, gate>>
  <2>1. Proceeds /\ ViewFits'
    BY <1>0, <1>2, LendStepFits DEF WebIInv
  <2> QED
    BY <1>0, <1>2, <2>1 DEF WebIInv, Proceeds, ChainAges, BtcPanelType,
       btcPanelVars, GateType, DemoType, demoVars
<1>3. CASE open = "btc" /\ BtcPanelStep /\ UNCHANGED <<demoVars, gate>>
  <2>1. Proceeds /\ ViewFits' /\ BtcPanelType'
    BY <1>0, <1>3, BtcPanelStepFits DEF WebIInv
  <2> QED
    BY <1>0, <1>3, <2>1 DEF WebIInv, Proceeds, ChainAges, GateType, DemoType,
       demoVars
<1>4. CASE /\ StrangerStep
           /\ UNCHANGED <<approved, calls, running, demoVars, view,
                          btcPanelVars, gate>>
  <2>1. ChainAges
    BY <1>4, StrangersAge DEF WebIInv
  <2>2. mishaps' \in 0..MaxMishaps
    BY <1>0, <1>4, MishapFits DEF StrangerStep
  <2>3. Proceeds /\ ViewFits' /\ DemoType' /\ BtcPanelType'
    BY <1>0, <1>4, <2>1, <2>2, PagesRest
  <2> QED
    BY <1>0, <1>4, <2>3 DEF WebIInv, Proceeds, ChainAges, GateType
<1>5. CASE /\ Tick
           /\ UNCHANGED <<custodyVars, poolVars, solVars, btcVars, approved,
                          calls, running, mishaps, demoVars, view,
                          btcPanelVars, gate>>
  <2>1. ChainAges
    BY <1>5, TickAges DEF WebIInv
  <2>2. Proceeds /\ ViewFits' /\ DemoType' /\ BtcPanelType'
    BY <1>0, <1>5, <2>1, PagesRest
  <2> QED
    BY <1>0, <1>5, <2>2 DEF WebIInv, Proceeds, ChainAges, GateType
<1>6. CASE UNCHANGED <<chainVars, calls, running, mishaps, demoVars, view,
                       btcPanelVars>>
  <2>1. ChainAges /\ approved' = approved
    BY <1>6, ChainRestsAges DEF WebIInv, chainVars
  <2>2. Proceeds /\ ViewFits' /\ DemoType' /\ BtcPanelType'
    BY <1>0, <1>6, <2>1, PagesRest
  <2>3. GateType'
    <3>1. page.v # NoPda => page.v \in Vaults
      BY DEF WebIInv, DemoType
    <3>2. gate \subseteq Vaults
      BY DEF WebIInv, GateType
    <3>3. gate' =
            gate \/ gate' \in SUBSET gate \/ gate' \in {{v} : v \in Vaults}
      BY <1>6, <3>1 DEF WebNext, web, AskGate, GateAllows, GateRefuses
    <3> QED
      BY <3>2, <3>3 DEF GateType
  <2> QED
    BY <1>0, <2>2, <2>3 DEF WebIInv, Proceeds, ChainAges
<1> QED
  BY <1>1, <1>2, <1>3, <1>4, <1>5, <1>6 DEF WebNext, web

LEMMA MarketPoolTyped ==
    ASSUME NEW m \in Market, MarketPool(m), now \in Nat
    PROVE  PoolType /\ pool.last_update_slot = 0 /\ pool.borrow_index = RAY
<1>1. /\ m.liquidity \in Nat /\ m.loan \in Nat /\ m.price \in Nat
      /\ m.loan <= m.liquidity /\ m.feedAdmin \in Users
  BY WebAssumption
<1>2. pool = [live |-> TRUE, total_liquidity |-> m.liquidity,
              total_borrowed |-> m.loan, borrow_index |-> RAY,
              last_update_slot |-> 0]
  BY DEF MarketPool, NoPool
<1>3. pool \in LendingPool
  BY <1>1, <1>2, UnitAssumption DEF LendingPool
<1>4. feed \in [PriceAssets -> AdminPriceFeed]
  <2>1. FeedAt(m.price, m.feedAdmin) \in AdminPriceFeed
    BY <1>1 DEF FeedAt, AdminPriceFeed
  <2> QED
    BY <2>1 DEF MarketPool
<1>5. tokens \in [Holders -> Nat]
  <2>1. PICK left \in Nat : left = m.liquidity - m.loan
    BY <1>1
  <2>2. \A h \in Holders : InitialTokens[h] \in Nat
          /\ InitialTokens[h] + m.loan \in Nat
    BY <1>1, PoolAssumption
  <2>3. tokens = [h \in Holders |->
           CASE h = PoolVault -> left
             [] h = Stranger -> InitialTokens[h] + m.loan
             [] OTHER -> InitialTokens[h]]
    BY <2>1 DEF MarketPool
  <2> QED
    BY <2>2, <2>3
<1> QED
  BY <1>2, <1>3, <1>4, <1>5 DEF PoolType

LEMMA InitialPool ==
    ASSUME PoolInit
    PROVE  PoolType /\ pool.last_update_slot = 0 /\ pool.borrow_index = RAY
  BY UnitAssumption, PoolAssumption DEF PoolInit, PoolType, NoPool, LendingPool,
     NoFeed, AdminPriceFeed

LEMMA InitialAccounts ==
    /\ ProtocolInit => ProtocolType /\ slot = 0
    /\ CustodyInit => CustodyType
    /\ SolInit => SolType
    /\ BtcInit => BtcType
<1>1. ProtocolInit => ProtocolType /\ slot = 0
  BY ClockAssumption DEF ProtocolInit, ProtocolType, NoProtocol, ProtocolAccount
<1>2. CustodyInit => CustodyType
  BY DEF CustodyInit, CustodyType, NoVault, VaultAccount, NoRisk, RiskAccount
<1>3. SolInit => SolType
  BY DEF SolInit, SolType
<1>4. BtcInit => BtcType
  BY DEF BtcInit, BtcType, NoBtcVault, BtcVaultAccount, NoAttestation,
     NoApprovals
<1> QED
  BY <1>1, <1>2, <1>3, <1>4

LEMMA SharedStartTyped ==
    ASSUME SharedStart
    PROVE  ProtocolType /\ CustodyType /\ slot = 0
<1>1. protocol = [live |-> TRUE, admin |-> Stranger, frozen |-> TRUE,
                  total_vaults |-> 1, total_rejected |-> 0,
                  total_collateral_verified |-> 0]
  BY DEF SharedStart, NoProtocol
<1>2. ProtocolType
  <2>1. now = 1 /\ slot = 0 /\ Stranger \in Users
    BY WebAssumption DEF SharedStart
  <2>2. protocol \in ProtocolAccount
    BY <1>1, <2>1 DEF ProtocolAccount
  <2> QED
    BY <2>1, <2>2, ClockAssumption DEF ProtocolType
<1>3. /\ NoVault \in VaultAccount /\ NoRisk \in RiskAccount
      /\ [NoVault EXCEPT !.live = TRUE, !.frozen = TRUE, !.asset_type = BTC]
           \in VaultAccount
      /\ [Checked EXCEPT !.last_check_result = FALSE] \in RiskAccount
  BY SendAssumption DEF NoVault, VaultAccount, NoRisk, RiskAccount, Checked
<1>4. CustodyType
  BY <1>3, CustodyAssumption DEF SharedStart, CustodyType
<1> QED
  BY <1>2, <1>4 DEF SharedStart

LEMMA LendStartTyped ==
    ASSUME LendStart
    PROVE  /\ ProtocolType /\ CustodyType /\ PoolType /\ SolType /\ slot = 0
           /\ pool.last_update_slot = 0 /\ pool.borrow_index = RAY
<1>1. PICK m \in Market :
        /\ protocol = [NoProtocol EXCEPT
             !.live = TRUE, !.admin = Stranger, !.total_vaults = 2,
             !.total_collateral_verified = 2 * m.deposit]
        /\ vault = [v \in Vaults |->
             IF v = Theirs THEN Deposited(m.asset, m.deposit)
             ELSE IF v = Mine THEN Deposited(BTC, m.deposit)
             ELSE NoVault]
        /\ lamports = [v \in Vaults |->
             IF v \in {Theirs, Mine} THEN RENT + m.deposit ELSE 0]
        /\ MarketPool(m)
        /\ principal = [v \in Vaults |-> IF v = Theirs THEN m.loan ELSE 0]
  BY DEF LendStart
<1>2. /\ m.deposit \in Nat /\ m.loan \in Nat /\ m.asset \in Assets
      /\ BTC \in Assets /\ RENT + m.deposit \in Nat /\ 2 * m.deposit \in Nat
      /\ Stranger \in Users /\ Theirs \in Vaults
  BY WebAssumption, SendAssumption, CustodyAssumption
<1>3. ProtocolType
  <2>1. PICK total \in Nat : total = 2 * m.deposit
    BY <1>2
  <2>2. protocol = [live |-> TRUE, admin |-> Stranger, frozen |-> FALSE,
                    total_vaults |-> 2, total_rejected |-> 0,
                    total_collateral_verified |-> total]
    BY <1>1, <2>1 DEF NoProtocol
  <2>3. protocol \in ProtocolAccount
    BY <1>2, <2>2 DEF ProtocolAccount
  <2> QED
    BY <2>3, ClockAssumption DEF LendStart, ProtocolType
<1>4. CustodyType
  <2>1. /\ Deposited(m.asset, m.deposit) \in VaultAccount
        /\ Deposited(BTC, m.deposit) \in VaultAccount
        /\ NoVault \in VaultAccount
        /\ Checked \in RiskAccount /\ NoRisk \in RiskAccount
    BY <1>2 DEF Deposited, Checked, NoVault, VaultAccount, NoRisk, RiskAccount
  <2>2. risk = [v \in Vaults |-> IF v = Theirs THEN Checked ELSE NoRisk]
    BY DEF LendStart
  <2> QED
    BY <1>1, <1>2, <2>1, <2>2 DEF CustodyType
<1>5. SolType
  BY <1>1, <1>2 DEF LendStart, SolType
<1>6. PoolType /\ pool.last_update_slot = 0 /\ pool.borrow_index = RAY
  BY <1>1, MarketPoolTyped DEF LendStart
<1> QED
  BY <1>3, <1>4, <1>5, <1>6 DEF LendStart

LEMMA BtcStartTyped ==
    ASSUME BtcStart
    PROVE  /\ ProtocolType /\ PoolType /\ BtcType
           /\ pool.last_update_slot = 0 /\ pool.borrow_index = RAY
<1>1. PICK registered \in BOOLEAN :
        /\ protocol = [NoProtocol EXCEPT
             !.live = TRUE, !.admin = IF registered THEN Visitor ELSE Stranger,
             !.total_vaults = IF registered THEN 2 ELSE 1]
        /\ btcVault = [v \in BtcVaults |->
             CASE v = TheirBtc -> [NoBtcVault EXCEPT !.live = TRUE,
                                     !.proof_status = VERIFIED,
                                     !.proof_timestamp = 1]
               [] v = MyBtc -> [NoBtcVault EXCEPT !.live = registered]
               [] OTHER -> NoBtcVault]
        /\ approvals = [v \in BtcVaults |->
             [NoApprovals EXCEPT
                !.ika = v = TheirBtc \/ (v = MyBtc /\ registered)]]
  BY DEF BtcStart
<1>2. PICK m \in Market :
        /\ MarketPool(m)
        /\ attestation = [v \in BtcVaults |->
             IF v = TheirBtc
             THEN [satoshis |-> m.deposit, attested_at_unix |-> 1]
             ELSE NoAttestation]
        /\ btcPrincipal =
             [v \in BtcVaults |-> IF v = TheirBtc THEN m.loan ELSE 0]
  BY DEF BtcStart
<1>3. /\ m.deposit \in Nat /\ m.loan \in Nat
      /\ Stranger \in Users /\ Visitor \in Users /\ TheirBtc \in BtcVaults
  BY WebAssumption, SendAssumption, BtcAssumption
<1>4. ProtocolType
  <2>1. PICK admin \in Users : admin = IF registered THEN Visitor ELSE Stranger
    BY <1>3
  <2>2. PICK total \in Nat : total = IF registered THEN 2 ELSE 1
    OBVIOUS
  <2>3. protocol = [live |-> TRUE, admin |-> admin, frozen |-> FALSE,
                    total_vaults |-> total, total_rejected |-> 0,
                    total_collateral_verified |-> 0]
    BY <1>1, <2>1, <2>2 DEF NoProtocol
  <2>4. protocol \in ProtocolAccount
    BY <2>3 DEF ProtocolAccount
  <2> QED
    BY <2>4, ClockAssumption DEF BtcStart, ProtocolType
<1>5. BtcType
  <2>1. /\ [NoBtcVault EXCEPT !.live = TRUE, !.proof_status = VERIFIED,
                              !.proof_timestamp = 1] \in BtcVaultAccount
        /\ [NoBtcVault EXCEPT !.live = registered] \in BtcVaultAccount
        /\ NoBtcVault \in BtcVaultAccount
    BY DEF NoBtcVault, BtcVaultAccount
  <2>2. btcVault \in [BtcVaults -> BtcVaultAccount]
    BY <1>1, <2>1
  <2>3. /\ attestation \in
             [BtcVaults -> [satoshis : Nat, attested_at_unix : Nat]]
        /\ btcPrincipal \in [BtcVaults -> Nat]
    BY <1>2, <1>3 DEF NoAttestation
  <2>4. ASSUME NEW v \in BtcVaults
        PROVE  approvals[v] \in [demo : [DemoPayers -> Nat], ika : BOOLEAN,
                                 sighash : {"none", "pending", "signed"}]
    <3>1. PICK ika \in BOOLEAN :
            ika = (v = TheirBtc \/ (v = MyBtc /\ registered))
      OBVIOUS
    <3>2. approvals[v] = [NoApprovals EXCEPT !.ika = ika]
      BY <1>1, <3>1
    <3> QED
      BY <3>2 DEF NoApprovals
  <2>5. approvals \in [BtcVaults -> [demo : [DemoPayers -> Nat], ika : BOOLEAN,
                                     sighash : {"none", "pending", "signed"}]]
    BY <1>1, <2>4
  <2> QED
    BY <1>3, <2>2, <2>3, <2>5 DEF BtcStart, BtcType
<1>6. PoolType /\ pool.last_update_slot = 0 /\ pool.borrow_index = RAY
  BY <1>2, MarketPoolTyped DEF BtcStart
<1> QED
  BY <1>4, <1>5, <1>6

LEMMA WebInitIInv == WebInit => WebIInv
<1> SUFFICES ASSUME WebInit PROVE WebIInv
  OBVIOUS
<1>1. /\ ChainTyped
      /\ pool.last_update_slot = 0 /\ pool.borrow_index = RAY
      /\ open \in {"demo", "lend", "btc"} /\ mishaps \in 0..MaxMishaps
  <2>1. CASE DemoStart
    BY <2>1, InitialPool, InitialAccounts, SendAssumption DEF DemoStart,
       ChainTyped, TypeOK
  <2>2. CASE SharedStart
    BY <2>2, InitialPool, InitialAccounts, SharedStartTyped, SendAssumption
       DEF SharedStart, ChainTyped, TypeOK
  <2>3. CASE LendStart
    <3>1. BtcInit /\ open = "lend" /\ mishaps = MaxMishaps
      BY <2>3 DEF LendStart
    <3> QED
      BY <2>3, <3>1, InitialAccounts, LendStartTyped, SendAssumption
         DEF ChainTyped, TypeOK
  <2>4. CASE BtcStart
    <3>1. CustodyInit /\ SolInit /\ open = "btc" /\ mishaps = 0
      BY <2>4 DEF BtcStart
    <3> QED
      BY <2>4, <3>1, InitialAccounts, BtcStartTyped, SendAssumption
         DEF ChainTyped, TypeOK
  <2> QED
    BY <2>1, <2>2, <2>3, <2>4 DEF WebInit
<1>2. PoolBehind
  BY <1>1, UnitAssumption DEF PoolBehind, ChainTyped, TypeOK, ProtocolType
<1>3. CallsFit
  BY NoCallFits DEF WebInit, SendInit, CallsFit
<1>4. SendFits
  BY <1>1 DEF WebInit, SendInit, SendFits
<1>5. DemoType
  <2>1. DemoInit
    BY DEF WebInit
  <2>2. page \in [step : 1..6, v : Vaults \cup {NoPda}, ciphertexts : BOOLEAN]
    BY <2>1 DEF DemoInit, FirstPage
  <2>3. panel \in PanelRecord
    BY <2>1 DEF DemoInit, NoPanel, PanelRecord
  <2> QED
    BY <2>1, <2>2, <2>3 DEF DemoInit, DemoType, PanelRecord
<1>6. GateType /\ BtcPanelType
  BY DEF WebInit, GateType, BtcPanelInit, BtcPanelType, NoShown, BtcAddresses
<1>7. ViewFits
  BY <1>1, UnitAssumption DEF WebInit, NoView, View, ViewFits
<1> QED
  BY <1>1, <1>2, <1>3, <1>4, <1>5, <1>6, <1>7, WebInitTrails DEF WebIInv

LEMMA WebInvariant == WebSpec => []WebIInv
<1> QED
  BY WebInitIInv, WebNextIInv, PTL DEF WebSpec

\* Whatever page is open and whatever goes wrong, every account of the chain,
\* every handler's request and everything the pages keep of what they read or
\* did stays a value of its type.
THEOREM WebTypeCorrect == WebSpec => []WebTypeOK
<1> QED
  BY WebInvariant, WebIInvTyped, PTL

----------------------------------------------------------------------------
(* What the panels say is owed *)

\* A debt by an old index is at most the debt.
LEMMA AgedDebt ==
    ASSUME WebIInv, NEW s \in Nat
    PROVE  /\ WebCurrentDebt(s, view.index) \in Nat
           /\ DebtOf(s) \in Nat
           /\ WebCurrentDebt(s, view.index) <= DebtOf(s)
<1>1. PICK old \in Nat : old = view.index
  BY DEF WebIInv, ViewFits, View
<1>2. PICK new \in Nat : new = Accrued.borrow_index
  BY ChainFacts DEF WebIInv
<1>3. old <= new
  BY <1>1, <1>2, ChainFacts DEF WebIInv, ViewFits
<1>4. s * old <= s * new /\ s * old \in Nat /\ s * new \in Nat
  BY <1>3, TimesMonotone, TimesIsNat
<1>5. (s * old) \div RAY <= (s * new) \div RAY
  BY <1>4, DivMonotone, UnitAssumption
<1>6. WebCurrentDebt(s, old) <= CurrentDebt(s, new)
  BY <1>5 DEF WebCurrentDebt, CurrentDebt
<1> QED
  BY <1>1, <1>2, <1>6, WebDebtIsNat, CurrentDebtIsNat DEF DebtOf

LEMMA LiquidationValueIsNat ==
    ASSUME NEW c \in Nat, NEW p \in Nat, NEW u \in Nat \ {0}
    PROVE  LiquidationValue(c, p, u) \in Nat
<1>1. CollateralValueUsd(c, p, u) \in Nat
  BY TimesIsNat, DivBounds DEF CollateralValueUsd
<1>2. PICK usd \in Nat : usd = CollateralValueUsd(c, p, u)
  BY <1>1
<1>3. PICK units \in Nat :
        units = (usd * BORROW_ASSET_DECIMALS) \div PRICE_DECIMALS
  BY TimesIsNat, DivBounds, UnitAssumption
<1>4. (units * ThresholdBps) \div BASIS_POINTS \in Nat
  BY TimesIsNat, DivBounds, UnitAssumption, RateAssumption
<1> QED
  BY <1>2, <1>3, <1>4 DEF LiquidationValue

LEMMA EarlyByMistake == WebIInv => EarlyOnlyByMistake
<1> SUFFICES ASSUME WebIInv PROVE EarlyOnlyByMistake
  OBVIOUS
<1>1. ASSUME NEW v \in Borrowers, PanelLiquidatable(v), StillOwed(v),
             feed[BTC].price_usd = view.price,
             v \in Vaults => vault[v].deposited_amount = view.deposited[v],
             ~Mistaken(v)
      PROVE  IsLiquidatable(vault[v].deposited_amount, feed[BTC].price_usd,
                            DebtOf(principal[v]), COLLATERAL_DECIMALS)
  <2>1. /\ view.principal[v] \in Nat /\ view.deposited[v] \in Nat
        /\ view.price \in Nat /\ COLLATERAL_DECIMALS \in Nat \ {0}
    BY SolAssumption DEF WebIInv, ViewFits, View
  <2>2. /\ principal[v] = view.principal[v]
        /\ vault[v].deposited_amount = view.deposited[v]
    BY <1>1 DEF Mistaken, Borrowers, StillOwed, PrincipalOf
  <2>3. PICK debt \in Nat : debt = WebCurrentDebt(view.principal[v], view.index)
    BY <2>1, AgedDebt
  <2>4. PICK owed \in Nat : owed = DebtOf(principal[v]) /\ debt <= owed
    BY <2>1, <2>2, <2>3, AgedDebt
  <2>5. PICK limit \in Nat :
          limit = LiquidationValue(view.deposited[v], view.price,
                                   COLLATERAL_DECIMALS)
    BY <2>1, LiquidationValueIsNat
  <2>6. debt = CachedDebt(v)
    BY <1>1, <2>3 DEF PanelLiquidatable, CachedDebt
  <2>7. debt > limit
    BY <1>1, <2>5, <2>6 DEF PanelLiquidatable, WebIsLiquidatable,
       LiquidationValue, CollateralValueUsd
  <2>8. owed > limit
    BY <2>4, <2>7
  <2> QED
    BY <1>1, <2>2, <2>4, <2>5, <2>8 DEF IsLiquidatable
<1>2. ASSUME NEW v \in Borrowers, StillOwed(v)
      PROVE  CachedDebt(v) <= DebtOf(PrincipalOf(v))
  <2>1. PICK scaled \in Nat :
          scaled = view.principal[v] /\ scaled = PrincipalOf(v)
    BY <1>2 DEF StillOwed, WebIInv, ViewFits, View
  <2>2. /\ WebCurrentDebt(scaled, view.index) <= DebtOf(scaled)
        /\ DebtOf(scaled) \in Nat
    BY <2>1, AgedDebt
  <2> QED
    BY <2>1, <2>2 DEF CachedDebt
<1>3. DebtShown <= DebtOf(view.position)
  BY AgedDebt DEF DebtShown, WebIInv, ViewFits, View
<1>4. BtcDebtShown <= DebtOf(shown.principal)
  BY AgedDebt DEF BtcDebtShown, WebIInv, BtcPanelType
<1> QED
  BY <1>1, <1>2, <1>3, <1>4 DEF EarlyOnlyByMistake

\* The lending page offers a vault for liquidation before the program would
\* only if it takes it for what it is not, a Bitcoin vault or one of another
\* asset, and neither half of it takes a loan for more debt than is owed, for
\* any prices, debts, amounts and keys and however many of its reads are under
\* way: the index it read is never ahead of the pool's, and debts are monotone
\* in the index.
THEOREM PanelIsEarlyOnlyByMistake == WebSpec => []EarlyOnlyByMistake
<1> QED
  BY WebInvariant, EarlyByMistake, PTL

----------------------------------------------------------------------------
(* What nobody takes back on the demo page *)

\* The types the proofs about the demo rest on.
LEMMA DemoFacts ==
    ASSUME WebIInv, open = "demo"
    PROVE  /\ DemoIInv /\ DemoTyped /\ AccountsTyped
           /\ protocol \in ProtocolAccount
           /\ calls \in [CallIds -> Call]
           /\ page.step \in 1..6 /\ page.v \in Vaults \cup {NoPda}
           /\ mishaps \in Nat /\ MaxMishaps \in Nat /\ mishaps <= MaxMishaps
           /\ DEPOSIT_AMOUNT \in Nat \ {0} /\ NoPda \notin Vaults
           /\ overtaken \in BOOLEAN /\ running \in BOOLEAN
  BY DemoAssumption, SendAssumption, WebAssumption DEF WebIInv, TrailIInv,
     DemoIInv, DemoTyped, SendFits, DemoType, ChainTyped, TypeOK, ProtocolType

\* What a handler sends.
LEMMA TaskTyped ==
    ASSUME WebIInv, open = "demo", NEW c \in CallIds
    PROVE  /\ calls[c] \in Call /\ calls[c].task \in TaskRecord
           /\ DemoTask(calls[c].task) /\ calls[c].task.amount \in Nat
  BY DemoFacts DEF DemoIInv, HandlersTrail, HandlerTrails, Call, TaskRecord

\* The protocol account is never closed and its admin never replaced.
ProtocolKept ==
    protocol.live => protocol'.live /\ protocol'.admin = protocol.admin

\* No step undoes what another one relies on.
Keeps == ChainKept /\ ProtocolKept

LEMMA LandsKeepsProtocol ==
    ASSUME protocol \in ProtocolAccount, NEW t, DemoTask(t), Lands(t)
    PROVE  ProtocolKept
<1>1. CASE protocol' = protocol
  BY <1>1 DEF ProtocolKept
<1>2. CASE CustodyTask(t)
  BY <1>2 DEF CustodyTask, InitializeProtocol, UnfreezeProtocolState,
     ProveCustody, VerifyCustodyProof, RegisterVault, DepositCollateral,
     SetUpRisk, TriggerRiskCheck, ProtocolAccount, ProtocolKept
<1>3. CASE UNCHANGED lendGuardVars
  BY <1>1, <1>3 DEF lendGuardVars, vars
<1>4. t.name \in OtherTasks \cup VaultTasks
  BY DEF DemoTask
<1> QED
  BY <1>2, <1>3, <1>4 DEF Lands, LendingTask, BtcTask, OtherTasks, VaultTasks,
     Experiments

LEMMA ChainRestsKeeps ==
    ASSUME WebIInv, open = "demo", UNCHANGED <<protocol, vault, risk>>
    PROVE  Keeps
  BY UnchangedKeeps, DemoFacts DEF Keeps, ProtocolKept

LEMMA LandingKeeps ==
    ASSUME WebIInv, open = "demo", NEW c \in CallIds, Lands(calls[c].task),
           UNCHANGED misled
    PROVE  Keeps
<1>1. PICK t : t = calls[c].task
  OBVIOUS
<1> QED
  BY <1>1, TaskTyped, DemoFacts, LandsKeeps, LandsKeepsProtocol DEF Keeps

LEMMA StrangersKeep ==
    ASSUME WebIInv, open = "demo", StrangerStep PROVE Keeps
<1>1. ChainKept
  BY StrangersTrail, DemoFacts
<1>2. ProtocolKept
  BY DemoFacts DEF StrangerStep, TriggerRiskCheck, UnfreezeProtocolState,
     ProtocolAccount, ProtocolKept
<1> QED
  BY <1>1, <1>2 DEF Keeps

\* Whatever a step of the demo does beside, it executes a transaction or leaves
\* the chain alone.
LEMMA DemoStepKeeps ==
    ASSUME WebIInv, open = "demo", DemoStep PROVE Keeps
<1>1. CASE UNCHANGED chainVars
  BY <1>1, ChainRestsKeeps DEF chainVars, lendGuardVars, vars, custodyVars
<1>2. ASSUME NEW c \in CallIds, Executes(c), UNCHANGED demoVars PROVE Keeps
  BY <1>1, <1>2, LandingKeeps DEF Executes, demoVars
<1>3. ASSUME NEW c \in CallIds, CallStep(c) PROVE Keeps
  BY <1>1, <1>2, <1>3 DEF CallStep, DemoReturns, DemoThrows, Throws,
     PostUnanswered, FallsBack, UnderWay, Simulates, Posts, Drops
<1> QED
  BY <1>1, <1>3 DEF DemoStep, Click, HonestClick, AttackerClick,
     ClickExperiment, Starts, GivesUp, StartsOver, Reset

LEMMA WebNextKeeps ==
    ASSUME WebIInv, open = "demo", [WebNext]_web PROVE Keeps
<1>1. CASE UNCHANGED <<protocol, vault, risk>>
  BY <1>1, ChainRestsKeeps
<1> QED
  BY <1>1, DemoStepKeeps, StrangersKeep DEF WebNext, web, Tick, chainVars,
     lendGuardVars, vars, custodyVars

----------------------------------------------------------------------------
(* The trap.  A risk check that a node has taken does not fail: nobody can *)
(* undo what it requires.  So step 6 and its deposit are only ever reached *)
(* with a vault that is frozen, even by a page that moved on in error.     *)

IsBarred(v) == vault[v].live /\ vault[v].frozen

CallIsSafe(call) ==
    /\ call.task.name = "check" =>
         /\ call.sent = "flying" => MayCheck(call.task.v, Visitor)
         /\ call.sent # "err"
         /\ call.sent = "ok" => IsBarred(call.task.v)
    /\ call.task.name = "attack" => IsBarred(call.task.v)

PageIsSafe == page.step = 6 => page.v \in Vaults /\ IsBarred(page.v)

TrapIInv == PageIsSafe /\ \A c \in CallIds : CallIsSafe(calls[c])

\* A vault stays frozen, and a check that could be made still can.
LEMMA SafetyStays ==
    ASSUME Keeps, NEW v \in Vaults
    PROVE  /\ IsBarred(v) => IsBarred(v)'
           /\ MayCheck(v, Visitor) => MayCheck(v, Visitor)'
<1>1. /\ vault[v].live => VaultKept(v)
      /\ risk[v].live => RiskKept(v)
  BY DEF Keeps, ChainKept
<1>2. IsBarred(v) => IsBarred(v)'
  BY <1>1 DEF VaultKept, IsBarred
<1>3. MayCheck(v, Visitor) => MayCheck(v, Visitor)'
  BY <1>1 DEF Keeps, ProtocolKept, VaultKept, RiskKept, MayCheck, IsAdmin
<1> QED
  BY <1>2, <1>3

LEMMA SafeCallStays ==
    ASSUME WebIInv, open = "demo", TrapIInv, Keeps, NEW c \in CallIds,
           NEW call, call = calls[c]
    PROVE  CallIsSafe(call)'
<1>1. CallIsSafe(call) /\ DemoTask(call.task)
  BY TaskTyped DEF TrapIInv
<1>2. call.task.name \in {"check", "attack"} => call.task.v \in Vaults
  BY <1>1 DEF DemoTask, OtherTasks
<1>3. PICK v : v = call.task.v
  OBVIOUS
<1>4. call.task.name \in {"check", "attack"} =>
        /\ IsBarred(v) => IsBarred(v)'
        /\ MayCheck(v, Visitor) => MayCheck(v, Visitor)'
  BY <1>2, <1>3, SafetyStays
<1> QED
  BY <1>1, <1>3, <1>4 DEF CallIsSafe, IsBarred, MayCheck, IsAdmin

LEMMA SafePageStays ==
    ASSUME TrapIInv, Keeps, page' = page PROVE PageIsSafe'
<1>1. PICK v : v = page.v
  OBVIOUS
<1>2. page.step = 6 => v \in Vaults /\ IsBarred(v)
  BY <1>1 DEF TrapIInv, PageIsSafe
<1>3. page.step = 6 => vault'[v].live /\ vault'[v].frozen
  BY <1>2, SafetyStays DEF IsBarred
<1> QED
  BY <1>1, <1>2, <1>3 DEF PageIsSafe, IsBarred

\* One record moves.
LEMMA CallMovesSafely ==
    ASSUME WebIInv, open = "demo", TrapIInv, Keeps, PageIsSafe',
           NEW c \in CallIds, NEW next,
           calls' = [calls EXCEPT ![c] = next],
           \/ next.task.name \notin {"check", "attack"}
           \/ CallIsSafe(next)'
    PROVE  TrapIInv'
<1>1. calls \in [CallIds -> Call]
  BY DemoFacts
<1>2. CallIsSafe(next)'
  BY DEF CallIsSafe
<1>3. ASSUME NEW d \in CallIds PROVE CallIsSafe(calls[d])'
  <2>1. PICK call : call = calls[d]
    OBVIOUS
  <2>2. calls'[d] = IF d = c THEN next ELSE call
    BY <1>1, <2>1
  <2>3. CallIsSafe(call)'
    BY <2>1, SafeCallStays
  <2> QED
    BY <1>2, <2>2, <2>3 DEF CallIsSafe, IsBarred, MayCheck, IsAdmin
<1> QED
  BY <1>3 DEF TrapIInv

\* A handler waits on, or ends.
LEMMA HandlerStaysSafe ==
    ASSUME WebIInv, open = "demo", TrapIInv, UNCHANGED <<protocol, vault, risk>>,
           page' = page, NEW c \in CallIds, NEW next,
           calls' = [calls EXCEPT ![c] = next],
           \/ next.task.name \notin {"check", "attack"}
           \/ /\ next.task = calls[c].task
              /\ \/ next.sent \in {"no", "dropped"}
                 \/ /\ next.sent = "flying"
                    /\ calls[c].sent = "flying" \/ WouldLand(calls[c].task)
    PROVE  TrapIInv'
<1>1. Keeps /\ PageIsSafe'
  BY ChainRestsKeeps, SafePageStays
<1>2. CASE next.task.name \notin {"check", "attack"}
  BY <1>1, <1>2, CallMovesSafely
<1>3. CASE /\ next.task = calls[c].task
           /\ \/ next.sent \in {"no", "dropped"}
              \/ /\ next.sent = "flying"
                 /\ calls[c].sent = "flying" \/ WouldLand(calls[c].task)
  <2>1. PICK call : call = calls[c]
    OBVIOUS
  <2>2. CallIsSafe(call) /\ CallIsSafe(call)'
    BY <1>1, <2>1, SafeCallStays DEF TrapIInv
  <2>3. PICK v : v = next.task.v
    OBVIOUS
  <2>4. next.task.name = "check" /\ next.sent = "flying"
          => MayCheck(v, Visitor)
    BY <1>3, <2>1, <2>2, <2>3 DEF CallIsSafe, WouldLand
  <2>5. MayCheck(v, Visitor) => MayCheck(v, Visitor)'
    BY DEF MayCheck, IsAdmin
  <2>6. CallIsSafe(next)'
    BY <1>3, <2>1, <2>2, <2>3, <2>4, <2>5 DEF CallIsSafe, IsBarred, MayCheck,
       IsAdmin
  <2> QED
    BY <1>1, <2>6, CallMovesSafely
<1> QED
  BY <1>2, <1>3

LEMMA StartsSafely ==
    ASSUME WebIInv, open = "demo", TrapIInv, NEW t \in TaskRecord, Starts(t),
           UNCHANGED demoVars,
           t.name = "attack" => t.v \in Vaults /\ IsBarred(t.v)
    PROVE  TrapIInv'
<1>1. PICK next : next = [NoCall EXCEPT !.stage = "simulating", !.task = t]
  OBVIOUS
<1>2. PICK c \in CallIds : calls' = [calls EXCEPT ![c] = next]
  BY <1>1 DEF Starts
<1>3. next.task = t /\ next.sent = "no"
  BY <1>1 DEF NoCall, NoTask
<1>4. UNCHANGED <<protocol, vault, risk>> /\ page' = page
  BY DEF Starts, chainVars, lendGuardVars, vars, custodyVars, demoVars
<1>5. Keeps /\ PageIsSafe'
  BY <1>4, ChainRestsKeeps, SafePageStays
<1>6. CallIsSafe(next)'
  BY <1>3, <1>4 DEF CallIsSafe, IsBarred
<1> QED
  BY <1>2, <1>5, <1>6, CallMovesSafely

LEMMA ClickIsSafe ==
    ASSUME WebIInv, open = "demo", TrapIInv, Click PROVE TrapIInv'
<1>1. /\ HasSession /\ (page.step = 1 => IdsLeft)
      /\ Starts(StepTask) /\ UNCHANGED demoVars
  BY DEF Click, HonestClick, AttackerClick
<1>2. PICK t : t = StepTask
  OBVIOUS
<1>3. t \in TaskRecord
  BY <1>1, <1>2, StepTaskFits, DemoFacts
<1>4. t.name = "attack" => page.step = 6 /\ t.v = page.v
  BY <1>2, DemoFacts DEF StepTask, FirstTask, RegisterTask, ProveTask,
     DepositTask, RiskTask, CheckTask, AttackTask, Task
<1>5. t.name = "attack" => t.v \in Vaults /\ IsBarred(t.v)
  BY <1>4 DEF TrapIInv, PageIsSafe
<1>6. Starts(t)
  BY <1>1, <1>2
<1> QED
  BY <1>1, <1>3, <1>5, <1>6, StartsSafely

LEMMA ExperimentIsSafe ==
    ASSUME WebIInv, open = "demo", TrapIInv, ClickExperiment PROVE TrapIInv'
<1>1. PICK t : t = Task("ika_approve", page.v, 0)
  OBVIOUS
<1>2. page.v \in Vaults
  BY DemoFacts DEF ClickExperiment
<1>3. t \in TaskRecord /\ t.name = "ika_approve"
  BY <1>1, <1>2, TaskFields DEF TaskNames
<1>4. Starts(t) /\ UNCHANGED demoVars
  BY <1>1 DEF ClickExperiment
<1> QED
  BY <1>3, <1>4, StartsSafely

\* With the step shown back at the first, or none of the handlers moving.
LEMMA HandlersRestSafe ==
    ASSUME WebIInv, open = "demo", TrapIInv, Keeps, calls' = calls,
           page' = page \/ page' = FirstPage
    PROVE  TrapIInv'
<1>1. PageIsSafe'
  BY SafePageStays DEF FirstPage, PageIsSafe
<1>2. ASSUME NEW c \in CallIds PROVE CallIsSafe(calls[c])'
  <2>1. PICK call : call = calls[c]
    OBVIOUS
  <2>2. CallIsSafe(call)'
    BY <2>1, SafeCallStays
  <2> QED
    BY <2>1, <2>2 DEF CallIsSafe, IsBarred, MayCheck, IsAdmin
<1> QED
  BY <1>1, <1>2 DEF TrapIInv

\* The page reaches step 6 only by a check that succeeded.
LEMMA ReturnIsSafe ==
    ASSUME WebIInv, open = "demo", TrapIInv, NEW c \in CallIds, DemoReturns(c)
    PROVE  TrapIInv'
<1>1. /\ calls[c].sent \in {"ok", "err"}
      /\ UNCHANGED <<protocol, vault, risk>> /\ calls \in [CallIds -> Call]
  BY DemoFacts DEF DemoReturns, Confirmed, chainVars, lendGuardVars, vars,
     custodyVars
<1>2. Keeps
  BY <1>1, ChainRestsKeeps
<1>3. PICK t : t = calls[c].task
  OBVIOUS
<1>4. CASE ThenRegisters(c)
  <2>1. PICK next : next = [NoCall EXCEPT !.stage = "simulating",
                                         !.task = RegisterTask]
    OBVIOUS
  <2>2. next.task.name = "register"
    BY <2>1 DEF NoCall, RegisterTask, Task
  <2>3. calls' = [calls EXCEPT ![c] = next] /\ page' = page
    BY <1>4, <2>1 DEF ThenRegisters
  <2> QED
    BY <1>1, <2>2, <2>3, HandlerStaysSafe
<1>5. CASE StepDone(t) /\ Ended(c)
  <2>1. calls' = [calls EXCEPT ![c] = NoCall] /\ NoCall.task.name = "none"
    BY <1>1, <1>5 DEF Ended, NoCall, NoTask
  <2>2. PageIsSafe'
    <3>1. CASE page' = page
      BY <1>2, <3>1, SafePageStays
    <3>2. CASE t.name = "check" /\ PageAt(6, t.v)
      <4>1. PICK v : v = t.v
        OBVIOUS
      <4>2. v \in Vaults
        BY <1>3, <3>2, <4>1, TaskTyped DEF DemoTask, OtherTasks
      <4>3. IsBarred(v)
        BY <1>1, <1>3, <3>2, <4>1 DEF TrapIInv, CallIsSafe
      <4>4. page'.v = v
        BY <3>2, <4>1 DEF PageAt
      <4> QED
        BY <1>1, <4>2, <4>3, <4>4 DEF PageIsSafe, IsBarred
    <3>3. CASE page'.step # 6
      BY <3>3 DEF PageIsSafe
    <3> QED
      BY <1>5, <3>1, <3>2, <3>3, DemoFacts DEF StepDone, PageAt, Proven,
         DemoTyped
  <2> QED
    BY <1>2, <2>1, <2>2, CallMovesSafely
<1> QED
  BY <1>3, <1>4, <1>5 DEF DemoReturns

LEMMA ThrowIsSafe ==
    ASSUME WebIInv, open = "demo", TrapIInv, NEW c \in CallIds, DemoThrows(c)
    PROVE  TrapIInv'
<1>1. UNCHANGED <<protocol, vault, risk>> /\ page' = page
  BY DEF DemoThrows, Throws, PostUnanswered, chainVars, lendGuardVars, vars,
     custodyVars
<1>2. CASE Throws(c)
  <2>1. PICK next \in Call :
          /\ calls' = [calls EXCEPT ![c] = next]
          /\ \/ /\ next.task = calls[c].task /\ calls[c].sent = "flying"
                /\ next.sent = "flying"
             \/ next = NoCall
    BY <1>2, EndedFacts, DemoFacts DEF Throws
  <2>2. NoCall.task.name = "none"
    BY DEF NoCall, NoTask
  <2> QED
    BY <1>1, <2>1, <2>2, HandlerStaysSafe
<1>3. CASE PostUnanswered(c)
  <2>1. PICK next \in Call :
          /\ calls' = [calls EXCEPT ![c] = next]
          /\ next.task = calls[c].task /\ next.sent = "flying"
    BY <1>3, ToFacts, DemoFacts DEF PostUnanswered
  <2> QED
    BY <1>1, <1>3, <2>1, HandlerStaysSafe DEF PostUnanswered
<1> QED
  BY <1>2, <1>3 DEF DemoThrows

LEMMA FallBackIsSafe ==
    ASSUME WebIInv, open = "demo", TrapIInv, NEW c \in CallIds, FallsBack(c)
    PROVE  TrapIInv'
<1>1. PICK next :
        next = [NoCall EXCEPT !.stage = "simulating",
                  !.task = Task("ika_fallback", calls[c].task.v, 0)]
  OBVIOUS
<1>2. /\ calls' = [calls EXCEPT ![c] = next]
      /\ UNCHANGED <<protocol, vault, risk>> /\ page' = page
  BY <1>1 DEF FallsBack, chainVars, lendGuardVars, vars, custodyVars, demoVars
<1>3. next.task.name = "ika_fallback"
  BY <1>1 DEF NoCall, Task
<1> QED
  BY <1>2, <1>3, HandlerStaysSafe

\* What is posted would land then and there; what executes is what was posted.
LEMMA UnderWayIsSafe ==
    ASSUME WebIInv, open = "demo", TrapIInv, NEW c \in CallIds, UnderWay(c),
           UNCHANGED demoVars
    PROVE  TrapIInv'
<1>1. page' = page /\ misled' = misled /\ calls \in [CallIds -> Call]
      /\ NoCall.task.name = "none"
  BY DemoFacts DEF demoVars, NoCall, NoTask
<1>2. UNCHANGED chainVars => UNCHANGED <<protocol, vault, risk>>
  BY DEF chainVars, lendGuardVars, vars, custodyVars
<1>3. CASE Simulates(c) \/ Posts(c)
  <2>1. PICK next \in Call :
          /\ calls' = [calls EXCEPT ![c] = next]
          /\ next.task = calls[c].task
          /\ \/ next.sent = "no"
             \/ next.sent = "flying" /\ WouldLand(calls[c].task)
    BY <1>1, <1>3, ToFacts DEF Simulates, Posts
  <2> QED
    BY <1>1, <1>2, <1>3, <2>1, HandlerStaysSafe DEF Simulates, Posts
<1>4. CASE Drops(c)
  <2>1. PICK next \in Call :
          /\ calls' = [calls EXCEPT ![c] = next]
          /\ \/ next = NoCall
             \/ next.task = calls[c].task /\ next.sent = "dropped"
    BY <1>1, <1>4, AnswerFacts DEF Drops
  <2> QED
    BY <1>1, <1>2, <1>4, <2>1, HandlerStaysSafe DEF Drops
<1>5. CASE Executes(c)
  <2>0. calls \in [CallIds -> Call]
    BY <1>1
  <2>1. PICK t : t = calls[c].task
    OBVIOUS
  <2>2. PICK sent \in {"ok", "err", "dropped"} :
          /\ calls' = [calls EXCEPT ![c] =
               IF @.stage = "gone" THEN NoCall ELSE [@ EXCEPT !.sent = sent]]
          /\ \/ sent = "ok" /\ Lands(t)
             \/ sent = "err" /\ ~WouldLand(t) /\ UNCHANGED chainVars
    BY <1>5, <2>1 DEF Executes
  <2>3. PICK next \in Call :
          /\ calls' = [calls EXCEPT ![c] = next]
          /\ \/ next = NoCall /\ calls[c].stage = "gone"
             \/ /\ next.task = calls[c].task
                /\ next.stage = calls[c].stage /\ next.sent = sent
    BY <2>0, <2>2, AnswerFacts
  <2>4. Keeps
    BY <1>1, <1>2, <2>1, <2>2, LandingKeeps, ChainRestsKeeps
  <2>5. PageIsSafe'
    BY <1>1, <2>4, SafePageStays
  <2>6. PICK call : call = calls[c]
    OBVIOUS
  <2>7. CallIsSafe(call) /\ CallIsSafe(call)' /\ DemoTask(t)
    BY <2>1, <2>4, <2>6, SafeCallStays, TaskTyped DEF TrapIInv
  <2>8. CASE next.task = t /\ next.sent = sent
    <3>1. ASSUME t.name = "check" PROVE sent = "ok" /\ IsBarred(t.v)'
      <4>1. t.v \in Vaults
        BY <2>7, <3>1 DEF DemoTask, OtherTasks
      <4>2. WouldLand(t)
        BY <1>5, <2>1, <2>6, <2>7, <3>1 DEF CallIsSafe, Executes, WouldLand
      <4>3. TriggerRiskCheck(t.v, Visitor, FALSE)
        BY <2>2, <3>1, <4>2 DEF Lands, CustodyTask, LendingTask, BtcTask,
           IkaTask
      <4>4. PICK v \in Vaults : v = t.v
        BY <4>1
      <4>5. vault'[v] = [vault[v] EXCEPT !.frozen = TRUE]
        BY <4>3, <4>4, CheckKeeps, DemoFacts
      <4>6. vault[v].live /\ vault[v] \in VaultAccount
        BY <4>3, <4>4, DemoFacts DEF TriggerRiskCheck, MayCheck, AccountsTyped
      <4>7. vault'[v].live /\ vault'[v].frozen
        BY <4>5, <4>6 DEF VaultAccount
      <4> QED
        BY <2>2, <4>2, <4>4, <4>7 DEF IsBarred
    <3>2. CallIsSafe(next)'
      BY <2>1, <2>6, <2>7, <2>8, <3>1 DEF CallIsSafe, IsBarred
    <3> QED
      BY <2>3, <2>4, <2>5, <3>2, CallMovesSafely
  <2>9. CASE next = NoCall
    BY <1>1, <2>3, <2>4, <2>5, <2>9, CallMovesSafely
  <2> QED
    BY <2>1, <2>3, <2>8, <2>9
<1> QED
  BY <1>3, <1>4, <1>5 DEF UnderWay

LEMMA WebInitIsSafe ==
    ASSUME WebInit PROVE TrapIInv
<1>1. page.step = 1 /\ \A c \in CallIds : calls[c] = NoCall
  BY DEF WebInit, SendInit, DemoInit, FirstPage
<1>2. NoCall.task.name = "none"
  BY DEF NoCall, NoTask
<1> QED
  BY <1>1, <1>2 DEF TrapIInv, PageIsSafe, CallIsSafe

LEMMA WebNextIsSafe ==
    ASSUME WebIInv, open = "demo", TrapIInv, [WebNext]_web PROVE TrapIInv'
<1>1. CASE UNCHANGED <<calls, demoVars>>
  BY <1>1, WebNextKeeps, HandlersRestSafe DEF demoVars
<1>2. CASE DemoStep
  <2>1. ASSUME NEW c \in CallIds, CallStep(c) PROVE TrapIInv'
    BY <2>1, ReturnIsSafe, ThrowIsSafe, FallBackIsSafe, UnderWayIsSafe
       DEF CallStep
  <2>2. CASE GivesUp \/ StartsOver
    BY <1>2, <2>2, DemoStepKeeps, HandlersRestSafe DEF GivesUp, StartsOver,
       Reset
  <2> QED
    BY <1>2, <2>1, <2>2, ClickIsSafe, ExperimentIsSafe DEF DemoStep
<1> QED
  BY <1>1, <1>2 DEF WebNext, web

----------------------------------------------------------------------------
(* What a deposit costs.  A vault is charged for what was deposited and for *)
(* the deposits on their way whose handlers have ended.                     *)

Awake(call) == call.stage \in {"simulating", "signing", "confirming"}

Live(c) == Awake(calls[c])

Answered(call) ==
    /\ Awake(call) /\ call.task.name = "deposit"
    /\ call.sent \in {"ok", "err"}

IsLate(call, v) ==
    call.stage = "gone" /\ call.task.name = "deposit" /\ call.task.v = v

Late(v) == {c \in CallIds : IsLate(calls[c], v)}

Paid(v) ==
    vault[v].deposited_amount + DEPOSIT_AMOUNT * Cardinality(Late(v))

Budget == DEPOSIT_AMOUNT * (MaxMishaps - mishaps)

AtDeposit(v) == page.v = v /\ page.step \in {2, 3}

\* The page has yet to see its deposit.
Due(v) ==
    /\ AtDeposit(v)
    /\ \A c \in CallIds : ~Answered(calls[c])

Balanced(v) ==
    /\ Paid(v) <= DEPOSIT_AMOUNT + Budget
    /\ Due(v) => Paid(v) <= Budget

\* The handler is the only one, and of the session shown.
Alone(c) == running /\ \A d \in CallIds : Live(d) => d = c

OfSession(t) ==
    /\ t.name \in {"initialize", "unfreeze", "register"} => page.v = NoPda
    /\ t.name = "register" =>
         /\ vault[t.v].deposited_amount = 0
         /\ \A d \in CallIds :
              calls[d].task.name \in {"deposit", "attack"}
                => calls[d].task.v # t.v
    /\ t.name \in {"prove", "deposit"} => AtDeposit(t.v)

InTurn == \A c \in CallIds : Live(c) => Alone(c) /\ OfSession(calls[c].task)

\* A transaction is on its way or answered only once it was posted.
StageFits(call) ==
    /\ call.stage \in {"idle", "simulating", "signing"} => call.sent = "no"
    /\ call.stage = "gone" => call.sent = "flying"

StagesFit == \A c \in CallIds : StageFits(calls[c])

Unborn == \A v \in Vaults : ~vault[v].live => vault[v].deposited_amount = 0

FewLate == \A v \in Vaults : IsFiniteSet(Late(v))

CostIInv ==
    /\ StagesFit /\ Unborn /\ FewLate
    /\ page.step = 1 => page.v = NoPda
    /\ ~overtaken => InTurn /\ \A v \in Vaults : Balanced(v)

----------------------------------------------------------------------------

\* One record moves in or out of a vault's late deposits.
LEMMA LateMoves ==
    ASSUME calls \in [CallIds -> Call], NEW c \in CallIds, NEW next,
           calls' = [calls EXCEPT ![c] = next],
           NEW v, IsFiniteSet(Late(v))
    PROVE  /\ IsFiniteSet(Late(v)')
           /\ Cardinality(Late(v)) \in Nat /\ Cardinality(Late(v)') \in Nat
           /\ (IsLate(next, v) <=> IsLate(calls[c], v))
                => Cardinality(Late(v)') = Cardinality(Late(v))
           /\ IsLate(next, v) /\ ~IsLate(calls[c], v)
                => Cardinality(Late(v)') = Cardinality(Late(v)) + 1
           /\ ~IsLate(next, v) /\ IsLate(calls[c], v)
                => Cardinality(Late(v)') + 1 = Cardinality(Late(v))
<1>1. PICK S : S = Late(v)
  OBVIOUS
<1>2. PICK T : T = Late(v)'
  OBVIOUS
<1>3. \A d \in CallIds : calls'[d] = IF d = c THEN next ELSE calls[d]
  OBVIOUS
<1>4. CASE IsLate(next, v) <=> IsLate(calls[c], v)
  <2>1. T = S
    BY <1>1, <1>2, <1>3, <1>4 DEF Late, IsLate
  <2> QED
    BY <1>1, <1>2, <1>4, <2>1, FS_CardinalityType
<1>5. CASE IsLate(next, v) /\ ~IsLate(calls[c], v)
  <2>1. T = S \cup {c} /\ c \notin S
    BY <1>1, <1>2, <1>3, <1>5 DEF Late, IsLate
  <2> QED
    BY <1>1, <1>2, <1>5, <2>1, FS_CardinalityType, FS_AddElement
<1>6. CASE ~IsLate(next, v) /\ IsLate(calls[c], v)
  <2>1. T = S \ {c} /\ c \in S
    BY <1>1, <1>2, <1>3, <1>6 DEF Late, IsLate
  <2>2. IsFiniteSet(S) /\ Cardinality(S) \in Nat
    BY <1>1, FS_CardinalityType
  <2>3. IsFiniteSet(T) /\ Cardinality(T) \in Nat
    BY <2>1, <2>2, FS_CardinalityType, FS_RemoveElement
  <2>4. Cardinality(T) = Cardinality(S) - 1
    BY <2>1, <2>2, FS_RemoveElement
  <2>5. Cardinality(T) + 1 = Cardinality(S)
    BY <2>2, <2>3, <2>4
  <2> QED
    BY <1>1, <1>2, <1>6, <2>2, <2>3, <2>5
<1> QED
  BY <1>4, <1>5, <1>6

\* Amounts are natural, and a charge more is a deposit more.
LEMMA ChargeFacts ==
    ASSUME NEW D \in Nat, NEW k \in Nat
    PROVE  D * k \in Nat /\ D * (k + 1) = D * k + D
  BY TimesIsNat

\* How a step may change what is charged against what is granted.
LEMMA BalanceMoves ==
    ASSUME NEW v \in Vaults, Balanced(v),
           NEW paid \in Nat, paid = Paid(v),
           NEW budget \in Nat, budget = Budget,
           NEW paid2 \in Nat, paid2 = Paid(v)',
           NEW budget2 \in Nat, budget2 = Budget', DEPOSIT_AMOUNT \in Nat,
           \/ paid2 <= paid /\ budget2 >= budget /\ (Due(v)' => Due(v))
           \/ paid2 <= paid /\ budget2 >= budget + DEPOSIT_AMOUNT
           \/ /\ Due(v)
              /\ paid2 <= paid + DEPOSIT_AMOUNT
              /\ budget2 >= budget + DEPOSIT_AMOUNT
           \/ /\ Due(v) /\ ~Due(v)'
              /\ paid2 <= paid + DEPOSIT_AMOUNT
              /\ budget2 >= budget
    PROVE  Balanced(v)'
  BY DEF Balanced

----------------------------------------------------------------------------
(* What a transaction deposits *)

Still(v) ==
    /\ vault'[v].deposited_amount = vault[v].deposited_amount
    /\ ~vault'[v].live => vault'[v].deposited_amount = 0

Grown(v, amount) ==
    /\ vault'[v].deposited_amount = vault[v].deposited_amount + amount
    /\ vault'[v].live /\ ~vault[v].frozen

\* A step that leaves the vaults alone leaves each of them still.
LEMMA UnchangedIsStill ==
    ASSUME Unborn, vault' = vault PROVE \A v \in Vaults : Still(v)
  BY DEF Unborn, Still

LEMMA OneVaultMoves ==
    ASSUME Unborn, AccountsTyped, NEW v \in Vaults, NEW next,
           vault' = [vault EXCEPT ![v] = next]
    PROVE  /\ vault'[v] = next
           /\ \A u \in Vaults \ {v} : Still(u)
<1>1. \A u \in Vaults \ {v} : vault'[u] = vault[u]
  BY DEF AccountsTyped
<1> QED
  BY <1>1 DEF AccountsTyped, Unborn, Still

\* Registering creates a vault that holds nothing.
LEMMA RegisterIsStill ==
    ASSUME Unborn, AccountsTyped, NEW v \in Vaults, RegisterVault(v, BTC)
    PROVE  \A u \in Vaults : Still(u)
<1>1. PICK next :
        next = [NoVault EXCEPT !.live = TRUE, !.asset_type = BTC]
  OBVIOUS
<1>2. vault' = [vault EXCEPT ![v] = next] /\ ~vault[v].live
  BY <1>1 DEF RegisterVault
<1>3. vault'[v] = next /\ \A u \in Vaults \ {v} : Still(u)
  BY <1>2, OneVaultMoves
<1>4. next.live /\ next.deposited_amount = 0
  BY <1>1 DEF NoVault
<1>5. vault[v].deposited_amount = 0
  BY <1>2 DEF Unborn
<1> QED
  BY <1>2, <1>3, <1>4, <1>5 DEF Still

\* A custody proof moves no deposit and thaws no vault.
LEMMA ProveIsStill ==
    ASSUME Unborn, AccountsTyped, NEW v \in Vaults,
           VerifyCustodyProof(v, Visitor)
    PROVE  \A u \in Vaults : Still(u)
<1>1. PICK next :
        next = [vault[v] EXCEPT !.proof_status = VERIFIED,
                                !.proof_timestamp = now]
  OBVIOUS
<1>2. vault' = [vault EXCEPT ![v] = next] /\ vault[v].live
  BY <1>1 DEF VerifyCustodyProof
<1>3. vault'[v] = next /\ \A u \in Vaults \ {v} : Still(u)
  BY <1>2, OneVaultMoves
<1>4. /\ next.live = vault[v].live /\ next.frozen = vault[v].frozen
      /\ next.deposited_amount = vault[v].deposited_amount
  BY <1>1 DEF AccountsTyped, VaultAccount
<1> QED
  BY <1>2, <1>3, <1>4 DEF Still

\* A risk check moves no deposit and can only freeze.
LEMMA CheckIsStill ==
    ASSUME Unborn, AccountsTyped, NEW v \in Vaults, NEW user,
           TriggerRiskCheck(v, user, FALSE)
    PROVE  \A u \in Vaults : Still(u)
<1>1. PICK next : next = [vault[v] EXCEPT !.frozen = TRUE]
  OBVIOUS
<1>2. vault' = [vault EXCEPT ![v] = next] /\ vault[v].live
  BY <1>1 DEF TriggerRiskCheck, MayCheck
<1>3. vault'[v] = next /\ \A u \in Vaults \ {v} : Still(u)
  BY <1>2, OneVaultMoves
<1>4. /\ next.live = vault[v].live /\ next.frozen
      /\ next.deposited_amount = vault[v].deposited_amount
  BY <1>1 DEF AccountsTyped, VaultAccount
<1> QED
  BY <1>2, <1>3, <1>4 DEF Still

\* A deposit goes to a vault that is not frozen, and to no other.
LEMMA DepositGrows ==
    ASSUME Unborn, AccountsTyped, NEW v \in Vaults, NEW amount \in Nat,
           DepositCollateral(v, Visitor, amount)
    PROVE  Grown(v, amount) /\ \A u \in Vaults \ {v} : Still(u)
<1>1. PICK sum : sum = vault[v].deposited_amount + amount
  OBVIOUS
<1>2. PICK next : next = [vault[v] EXCEPT !.deposited_amount = sum]
  OBVIOUS
<1>3. /\ vault' = [vault EXCEPT ![v] = next]
      /\ vault[v].live /\ ~vault[v].frozen
  BY <1>1, <1>2 DEF DepositCollateral, MayDeposit, AccountsTyped
<1>4. vault'[v] = next /\ \A u \in Vaults \ {v} : Still(u)
  BY <1>3, OneVaultMoves
<1>5. next.live = vault[v].live /\ next.deposited_amount = sum
  BY <1>2 DEF AccountsTyped, VaultAccount
<1> QED
  BY <1>1, <1>3, <1>4, <1>5 DEF Grown

\* Of what the demo sends, only its two deposits move one.
LEMMA LandsGrows ==
    ASSUME Unborn, AccountsTyped, NEW t, t.amount \in Nat, DemoTask(t), Lands(t)
    PROVE  \A v \in Vaults :
             \/ Still(v)
             \/ /\ t.name \in {"deposit", "attack"} /\ t.v = v
                /\ Grown(v, t.amount)
<1>1. CASE vault' = vault
  BY <1>1, UnchangedIsStill
<1>2. /\ t.name \in {"initialize", "unfreeze", "register", "prove", "deposit",
                     "attack", "set_up_risk", "check", "ika_approve",
                     "ika_fallback", "none"}
      /\ t.name \in {"register", "prove", "deposit", "attack", "set_up_risk",
                     "check"} => t.v \in Vaults
  BY DEF DemoTask, OtherTasks, VaultTasks, Experiments
<1>3. CASE t.name = "register" /\ RegisterVault(t.v, BTC)
  BY <1>2, <1>3, RegisterIsStill
<1>4. CASE t.name = "prove" /\ ProveCustody(t.v)
  BY <1>2, <1>4, ProveIsStill DEF ProveCustody
<1>5. CASE /\ t.name \in {"deposit", "attack"}
           /\ DepositCollateral(t.v, Visitor, t.amount)
  BY <1>2, <1>5, DepositGrows
<1>6. CASE t.name = "check" /\ TriggerRiskCheck(t.v, Visitor, FALSE)
  BY <1>2, <1>6, CheckIsStill
<1>7. CASE CustodyTask(t)
  BY <1>1, <1>3, <1>4, <1>5, <1>6, <1>7 DEF CustodyTask, custodyVars,
     SetUpRisk, InitializeProtocol, UnfreezeProtocolState
<1>8. CASE IkaTask(t) /\ UNCHANGED <<lendGuardVars, approved>>
  BY <1>1, <1>8 DEF lendGuardVars, vars, custodyVars
<1> QED
  BY <1>1, <1>2, <1>7, <1>8 DEF Lands, LendingTask, BtcTask

----------------------------------------------------------------------------
(* One record moves: what it does to the charges *)

LEMMA StillIsUnborn ==
    ASSUME \A v \in Vaults : Still(v) \/ \E n : Grown(v, n) PROVE Unborn'
  BY DEF Unborn, Still, Grown

\* The parts of the invariant that hold whatever Reset did.
LEMMA RecordMoves ==
    ASSUME WebIInv, open = "demo", CostIInv, Unborn',
           NEW c \in CallIds, NEW next \in Call,
           calls' = [calls EXCEPT ![c] = next], StageFits(next)
    PROVE  StagesFit' /\ FewLate'
<1>1. calls \in [CallIds -> Call]
  BY DemoFacts
<1>2. \A d \in CallIds : calls'[d] = IF d = c THEN next ELSE calls[d]
  BY <1>1
<1>3. StagesFit'
  BY <1>2 DEF CostIInv, StagesFit, StageFits
<1>4. FewLate'
  BY <1>1, LateMoves DEF CostIInv, FewLate
<1> QED
  BY <1>3, <1>4

\* What is owed for a vault after a record has moved.
LEMMA Charges ==
    ASSUME WebIInv, open = "demo", FewLate, NEW v \in Vaults,
           vault'[v].deposited_amount \in Nat,
           NEW c \in CallIds, NEW next \in Call,
           calls' = [calls EXCEPT ![c] = next]
    PROVE  /\ Paid(v) \in Nat /\ Paid(v)' \in Nat
           /\ /\ vault'[v].deposited_amount = vault[v].deposited_amount
              /\ ~IsLate(next, v)
              => Paid(v)' <= Paid(v)
           /\ /\ vault'[v].deposited_amount = vault[v].deposited_amount
              => Paid(v)' <= Paid(v) + DEPOSIT_AMOUNT
           /\ /\ vault'[v].deposited_amount
                   = vault[v].deposited_amount + DEPOSIT_AMOUNT
              /\ ~IsLate(next, v)
              => Paid(v)' <= Paid(v) + DEPOSIT_AMOUNT
           /\ /\ vault'[v].deposited_amount
                   = vault[v].deposited_amount + DEPOSIT_AMOUNT
              /\ IsLate(calls[c], v) /\ ~IsLate(next, v)
              => Paid(v)' <= Paid(v)
<1>1. /\ calls \in [CallIds -> Call] /\ DEPOSIT_AMOUNT \in Nat
      /\ vault[v].deposited_amount \in Nat
  BY DemoFacts DEF AccountsTyped, VaultAccount
<1>2. PICK D \in Nat : D = DEPOSIT_AMOUNT
  BY <1>1
<1>3. PICK dep \in Nat : dep = vault[v].deposited_amount
  BY <1>1
<1>4. PICK dep2 \in Nat : dep2 = vault'[v].deposited_amount
  OBVIOUS
<1>5. PICK n \in Nat : n = Cardinality(Late(v))
  BY <1>1, LateMoves DEF FewLate
<1>6. PICK n2 \in Nat : n2 = Cardinality(Late(v)')
  BY <1>1, LateMoves DEF FewLate
<1>7. /\ ~IsLate(next, v) => n2 = n \/ n2 + 1 = n
      /\ n2 = n \/ n2 + 1 = n \/ n2 = n + 1
      /\ IsLate(calls[c], v) /\ ~IsLate(next, v) => n2 + 1 = n
  BY <1>1, <1>5, <1>6, LateMoves DEF FewLate
<1>8. /\ D * n \in Nat /\ D * n2 \in Nat
      /\ D * (n + 1) = D * n + D /\ D * (n2 + 1) = D * n2 + D
  BY ChargeFacts
<1>9. Paid(v) = dep + D * n /\ Paid(v)' = dep2 + D * n2
  BY <1>2, <1>3, <1>4, <1>5, <1>6 DEF Paid
<1>10. PICK a \in Nat : a = D * n
  BY <1>8
<1>11. PICK b \in Nat : b = D * n2
  BY <1>8
<1>12. /\ n2 = n => b = a
       /\ n2 + 1 = n => a = b + D
       /\ n2 = n + 1 => b = a + D
  BY <1>8, <1>10, <1>11
<1>13. Paid(v) = dep + a /\ Paid(v)' = dep2 + b
  BY <1>9, <1>10, <1>11
<1> QED
  BY <1>2, <1>3, <1>4, <1>7, <1>12, <1>13

\* A mishap grants one deposit.
LEMMA Grants ==
    ASSUME WebIInv, open = "demo"
    PROVE  /\ Budget \in Nat
           /\ mishaps' = mishaps => Budget' = Budget
           /\ Mishap => Budget' = Budget + DEPOSIT_AMOUNT
<1>1. /\ mishaps \in Nat /\ MaxMishaps \in Nat /\ mishaps <= MaxMishaps
      /\ DEPOSIT_AMOUNT \in Nat
  BY DemoFacts
<1>2. PICK f \in Nat : f = MaxMishaps - mishaps
  BY <1>1
<1>3. DEPOSIT_AMOUNT * f \in Nat
      /\ DEPOSIT_AMOUNT * (f + 1) = DEPOSIT_AMOUNT * f + DEPOSIT_AMOUNT
  BY <1>1, ChargeFacts
<1>4. Mishap => MaxMishaps - mishaps' = f + 1
  BY <1>1, <1>2 DEF Mishap
<1> QED
  BY <1>2, <1>3, <1>4 DEF Budget

\* A record that moves while its handler is the only one.
LEMMA DueAfter ==
    ASSUME calls \in [CallIds -> Call], NEW c \in CallIds, NEW next,
           calls' = [calls EXCEPT ![c] = next],
           \A d \in CallIds : Live(d) => d = c, NEW v
    PROVE  /\ Due(v) <=> AtDeposit(v) /\ ~Answered(calls[c])
           /\ Due(v)' <=> AtDeposit(v)' /\ ~Answered(next)
<1>1. \A d \in CallIds : calls'[d] = IF d = c THEN next ELSE calls[d]
  OBVIOUS
<1>2. \A d \in CallIds \ {c} : ~Answered(calls[d])
  BY DEF Live, Answered
<1>3. Answered(next) <=> \E d \in CallIds : Answered(calls'[d])
  BY <1>1, <1>2
<1>4. Due(v)' <=> AtDeposit(v)' /\ \A d \in CallIds : ~Answered(calls'[d])
  BY DEF Due, Answered, Awake
<1> QED
  BY <1>2, <1>3, <1>4 DEF Due

\* A handler that ends leaves nobody under way.
LEMMA TurnEnds ==
    ASSUME calls \in [CallIds -> Call], NEW c \in CallIds, NEW next,
           calls' = [calls EXCEPT ![c] = next],
           \A d \in CallIds : Live(d) => d = c, ~Awake(next)
    PROVE  InTurn'
<1>1. \A d \in CallIds : calls'[d] = IF d = c THEN next ELSE calls[d]
  OBVIOUS
<1> QED
  BY <1>1 DEF InTurn, Live, Awake

\* A handler that goes on stays alone, and of the session shown.
LEMMA TurnGoesOn ==
    ASSUME calls \in [CallIds -> Call], NEW c \in CallIds, NEW next,
           calls' = [calls EXCEPT ![c] = next],
           \A d \in CallIds : Live(d) => d = c, running',
           OfSession(next.task)'
    PROVE  InTurn'
<1>1. \A d \in CallIds : calls'[d] = IF d = c THEN next ELSE calls[d]
  OBVIOUS
<1>2. \A d \in CallIds : Live(d)' => d = c
  BY <1>1 DEF Live, Awake
<1>3. OfSession(calls[c].task)'
  BY <1>1 DEF OfSession, AtDeposit
<1> QED
  BY <1>2, <1>3 DEF InTurn, Alone, Live, Awake

\* The deposits of a vault and the mishaps stay balanced when a record moves.
LEMMA BalanceAfter ==
    ASSUME WebIInv, open = "demo", CostIInv, NEW v \in Vaults, Balanced(v),
           vault'[v].deposited_amount \in Nat,
           NEW c \in CallIds, NEW next \in Call,
           calls' = [calls EXCEPT ![c] = next],
           mishaps' = mishaps \/ Mishap,
           LET same ==
                 vault'[v].deposited_amount = vault[v].deposited_amount
               grown ==
                 vault'[v].deposited_amount
                   = vault[v].deposited_amount + DEPOSIT_AMOUNT
           IN  \/ same /\ ~IsLate(next, v) /\ ((Due(v)' => Due(v)) \/ Mishap)
               \/ same /\ Due(v) /\ Mishap
               \/ grown /\ ~IsLate(next, v) /\ Due(v) /\ ~Due(v)'
               \/ /\ grown /\ IsLate(calls[c], v) /\ ~IsLate(next, v)
                  /\ Due(v)' => Due(v)
    PROVE  Balanced(v)'
<1>0. FewLate /\ DEPOSIT_AMOUNT \in Nat
  BY DemoFacts DEF CostIInv
<1>1. Paid(v) \in Nat /\ Paid(v)' \in Nat
  BY <1>0, Charges
<1>2. PICK paid \in Nat : paid = Paid(v)
  BY <1>1
<1>3. PICK paid2 \in Nat : paid2 = Paid(v)'
  BY <1>1
<1>4. PICK budget \in Nat : budget = Budget
  BY Grants
<1>5. PICK budget2 \in Nat :
        /\ budget2 = Budget' /\ budget2 >= budget
        /\ Mishap => budget2 = budget + DEPOSIT_AMOUNT
  BY <1>0, <1>4, Grants
<1>6. \/ paid2 <= paid /\ ((Due(v)' => Due(v)) \/ Mishap)
      \/ paid2 <= paid + DEPOSIT_AMOUNT /\ Due(v) /\ (Mishap \/ ~Due(v)')
  <2> HIDE DEF Due
  <2> QED
    BY <1>0, <1>2, <1>3, Charges
<1> QED
  BY <1>0, <1>2, <1>3, <1>4, <1>5, <1>6, BalanceMoves

\* And when none does.
LEMMA BalanceRests ==
    ASSUME WebIInv, open = "demo", CostIInv, NEW v \in Vaults, Balanced(v),
           calls' = calls,
           vault'[v].deposited_amount = vault[v].deposited_amount,
           mishaps' = mishaps \/ Mishap, Due(v)' => Due(v)
    PROVE  Balanced(v)'
<1>1. Paid(v)' = Paid(v)
  BY DEF Paid, Late
<1>2. FewLate /\ Cardinality(Late(v)) \in Nat
  BY FS_CardinalityType DEF CostIInv, FewLate
<1>3. vault[v].deposited_amount \in Nat /\ DEPOSIT_AMOUNT \in Nat
  BY DemoFacts DEF AccountsTyped, VaultAccount
<1>4. PICK paid \in Nat : paid = Paid(v)
  BY <1>2, <1>3, TimesIsNat DEF Paid
<1>5. PICK budget \in Nat : budget = Budget
  BY Grants
<1>6. PICK budget2 \in Nat : budget2 = Budget' /\ budget2 >= budget
  BY <1>3, <1>5, Grants
<1> QED
  BY <1>1, <1>3, <1>4, <1>5, <1>6, BalanceMoves

LEMMA DepositsTyped ==
    ASSUME vault' \in [Vaults -> VaultAccount]
    PROVE  \A v \in Vaults : vault'[v].deposited_amount \in Nat
  BY DEF VaultAccount

----------------------------------------------------------------------------
(* The visitor clicks *)

\* A click starts the one handler, for the session shown.
LEMMA StartsSettled ==
    ASSUME WebIInv, open = "demo", CostIInv, NEW t \in TaskRecord, Starts(t),
           UNCHANGED demoVars, ~overtaken => OfSession(t)
    PROVE  CostIInv'
<1>1. /\ calls \in [CallIds -> Call] /\ AccountsTyped
      /\ \A v \in Vaults : vault[v].deposited_amount \in Nat
  BY DemoFacts DEF AccountsTyped, VaultAccount
<1>2. PICK c \in CallIds :
        /\ calls[c] = NoCall
        /\ calls' = [calls EXCEPT ![c] = [NoCall EXCEPT !.stage = "simulating",
                                                       !.task = t]]
  BY DEF Starts
<1>3. PICK next : next = [NoCall EXCEPT !.stage = "simulating", !.task = t]
  OBVIOUS
<1>4. /\ next \in Call /\ next.task = t /\ next.sent = "no"
      /\ next.stage = "simulating"
  BY <1>3 DEF NoCall, NoTask, Call, TaskRecord, TaskNames
<1>5. /\ calls' = [calls EXCEPT ![c] = next]
      /\ vault' = vault /\ mishaps' = mishaps
      /\ page' = page /\ overtaken' = overtaken /\ ~running /\ running'
  BY <1>2, <1>3 DEF Starts, chainVars, lendGuardVars, vars, custodyVars,
     demoVars
<1>6. Unborn'
  BY <1>5 DEF CostIInv, Unborn
<1>7. StagesFit' /\ Unborn' /\ FewLate'
  BY <1>4, <1>5, <1>6, RecordMoves DEF StageFits
<1>8. ASSUME ~overtaken
      PROVE  InTurn' /\ \A v \in Vaults : Balanced(v)'
  <2>1. \A d \in CallIds : ~Live(d)
    BY <1>5, <1>8 DEF CostIInv, InTurn, Alone
  <2>2. OfSession(t)
    BY <1>8
  <2>3. OfSession(t)'
    BY <1>1, <1>4, <1>5, <2>2 DEF OfSession, AtDeposit
  <2>4. InTurn'
    BY <1>1, <1>4, <1>5, <2>1, <2>3, TurnGoesOn
  <2>5. ASSUME NEW v \in Vaults PROVE Balanced(v)'
    <3>1. Balanced(v)
      BY <1>8, <2>5 DEF CostIInv
    <3>2. Due(v)' => Due(v)
      <4>1. /\ Due(v) <=> AtDeposit(v) /\ ~Answered(calls[c])
            /\ Due(v)' <=> AtDeposit(v)' /\ ~Answered(next)
        BY <1>1, <1>5, <2>1, DueAfter
      <4>2. ~Answered(calls[c])
        BY <1>2 DEF Answered, Awake, NoCall
      <4>3. AtDeposit(v)' => AtDeposit(v)
        BY <1>5 DEF AtDeposit
      <4> QED
        BY <4>1, <4>2, <4>3
    <3>3. ~IsLate(next, v)
      BY <1>4 DEF IsLate
    <3> QED
      BY <1>1, <1>4, <1>5, <3>1, <3>2, <3>3, BalanceAfter
  <2> QED
    BY <2>4, <2>5
<1> QED
  BY <1>5, <1>7, <1>8 DEF CostIInv

\* A drawn vault holds nothing and has nothing on its way.
LEMMA FreshIsUnborn ==
    ASSUME CostIInv, IdsLeft
    PROVE  /\ FreshDwalletId \in Vaults
           /\ vault[FreshDwalletId].deposited_amount = 0
           /\ \A d \in CallIds : calls[d].task.v # FreshDwalletId
<1>1. FreshDwalletId \in Vaults
  BY FreshIdIsVault
<1>2. Undrawn(FreshDwalletId)
  BY DEF IdsLeft, Drawable, FreshDwalletId
<1> QED
  BY <1>1, <1>2 DEF Undrawn, CostIInv, Unborn

LEMMA RegisterOfSession ==
    ASSUME WebIInv, open = "demo", CostIInv, IdsLeft, page.v = NoPda
    PROVE  /\ RegisterTask \in TaskRecord /\ RegisterTask.name = "register"
           /\ OfSession(RegisterTask)
<1>1. PICK v \in Vaults : v = FreshDwalletId
  BY FreshIsUnborn
<1>2. PICK t : t = RegisterTask
  OBVIOUS
<1>3. t \in TaskRecord /\ t.name = "register" /\ t.v = v
  BY <1>1, <1>2, TaskFields DEF RegisterTask, TaskNames
<1>4. OfSession(t)
  BY <1>1, <1>3, FreshIsUnborn DEF OfSession
<1> QED
  BY <1>2, <1>3, <1>4

LEMMA ClickSettled ==
    ASSUME WebIInv, open = "demo", CostIInv, Click PROVE CostIInv'
<1>0. /\ page.step \in 1..6 /\ page.v \in Vaults \cup {NoPda} /\ DemoIInv
      /\ DEPOSIT_AMOUNT \in Nat /\ NoPda \notin Vaults
  BY DemoFacts
<1>1. /\ HasSession /\ (page.step = 1 => IdsLeft)
      /\ Starts(StepTask) /\ UNCHANGED demoVars
  BY DEF Click, HonestClick, AttackerClick
<1>2. PICK t : t = StepTask
  OBVIOUS
<1>3. t \in TaskRecord
  BY <1>0, <1>1, <1>2, StepTaskFits
<1>4. OfSession(t)
  <2>1. CASE page.step = 1
    <3>1. page.v = NoPda
      BY <2>1 DEF CostIInv
    <3>2. t = FirstTask
      BY <1>2, <2>1 DEF StepTask
    <3>3. CASE t = RegisterTask
      BY <1>1, <2>1, <3>1, <3>3, RegisterOfSession
    <3>4. CASE t \in {Task("initialize", NoPda, 0), Task("unfreeze", NoPda, 0)}
      <4>1. t.name \in {"initialize", "unfreeze"}
        BY <3>4 DEF Task
      <4> QED
        BY <3>1, <4>1 DEF OfSession
    <3> QED
      BY <3>2, <3>3, <3>4 DEF FirstTask
  <2>2. CASE page.step \in {2, 3}
    <3>1. t.name \in {"prove", "deposit"} /\ t.v = page.v
      BY <1>2, <2>2 DEF StepTask, ProveTask, DepositTask, Task
    <3> QED
      BY <2>2, <3>1 DEF OfSession, AtDeposit
  <2>3. CASE page.step \in {4, 5}
    <3>1. t.name \in {"set_up_risk", "check"}
      BY <1>2, <2>3 DEF StepTask, RiskTask, CheckTask, Task
    <3> QED
      BY <3>1 DEF OfSession
  <2>4. CASE page.step = 6
    <3>1. t.name = "attack"
      BY <1>2, <2>4 DEF StepTask, AttackTask, Task
    <3> QED
      BY <3>1 DEF OfSession
  <2> QED
    BY <1>0, <2>1, <2>2, <2>3, <2>4
<1>5. Starts(t)
  BY <1>1, <1>2
<1> QED
  BY <1>1, <1>3, <1>4, <1>5, StartsSettled

LEMMA ExperimentSettled ==
    ASSUME WebIInv, open = "demo", CostIInv, ClickExperiment PROVE CostIInv'
<1>1. PICK t : t = Task("ika_approve", page.v, 0)
  OBVIOUS
<1>2. page.v \in Vaults
  BY DemoFacts DEF ClickExperiment
<1>3. t \in TaskRecord /\ t.name = "ika_approve"
  BY <1>1, <1>2, TaskFields DEF TaskNames
<1>4. Starts(t) /\ UNCHANGED demoVars
  BY <1>1 DEF ClickExperiment
<1>5. OfSession(t)
  BY <1>3 DEF OfSession
<1> QED
  BY <1>3, <1>4, <1>5, StartsSettled

\* Without a handler under it, Reset only forgets.
LEMMA ResetSettled ==
    ASSUME WebIInv, open = "demo", CostIInv, Reset, mishaps' = mishaps \/ Mishap
    PROVE  CostIInv'
<1>1. /\ calls' = calls /\ vault' = vault
      /\ page' = FirstPage /\ ~running' /\ overtaken' = (overtaken \/ running)
  BY DEF Reset, chainVars, lendGuardVars, vars, custodyVars
<1>2. StagesFit' /\ Unborn' /\ FewLate'
  BY <1>1 DEF CostIInv, StagesFit, Unborn, FewLate, Late
<1>3. (page.step = 1 => page.v = NoPda)'
  BY <1>1 DEF FirstPage
<1>4. ASSUME ~overtaken'
      PROVE  InTurn' /\ \A v \in Vaults : Balanced(v)'
  <2>1. /\ ~overtaken /\ ~running
    BY <1>1, <1>4, DemoFacts
  <2>2. \A d \in CallIds : ~Live(d)
    BY <2>1 DEF CostIInv, InTurn, Alone
  <2>3. InTurn'
    BY <1>1, <2>2 DEF InTurn, Live
  <2>4. ASSUME NEW v \in Vaults PROVE Balanced(v)'
    <3>1. ~Due(v)'
      BY <1>1, DemoFacts DEF Due, AtDeposit, FirstPage
    <3>2. Balanced(v)
      BY <2>1, <2>4 DEF CostIInv
    <3> QED
      BY <1>1, <3>1, <3>2, BalanceRests
  <2> QED
    BY <2>3, <2>4
<1> QED
  BY <1>1, <1>2, <1>3, <1>4 DEF CostIInv

----------------------------------------------------------------------------
(* The handlers go on *)

\* Nothing has been deposited for a vault that is being registered.
LEMMA RegisteringOwesNothing ==
    ASSUME WebIInv, open = "demo", CostIInv, NEW t, OfSession(t),
           t.name = "register", t.v \in Vaults
    PROVE  Paid(t.v) = 0
<1>1. vault[t.v].deposited_amount = 0
  BY DEF OfSession
<1>2. Late(t.v) = {}
  BY DEF OfSession, Late, IsLate
<1>3. Cardinality(Late(t.v)) = 0
  BY <1>2, FS_EmptySet
<1>4. DEPOSIT_AMOUNT * 0 = 0
  BY DemoFacts
<1> QED
  BY <1>1, <1>3, <1>4 DEF Paid

\* The page moves on: with its deposit answered, it asks for no other.
LEMMA ReturnsSettled ==
    ASSUME WebIInv, open = "demo", CostIInv, NEW c \in CallIds, DemoReturns(c)
    PROVE  CostIInv'
<1>0. /\ calls \in [CallIds -> Call] /\ AccountsTyped
      /\ page.v \in Vaults \cup {NoPda} /\ NoPda \notin Vaults
      /\ DEPOSIT_AMOUNT \in Nat
      /\ \A v \in Vaults : vault[v].deposited_amount \in Nat
  BY DemoFacts DEF AccountsTyped, VaultAccount
<1>1. /\ vault' = vault /\ mishaps' = mishaps /\ overtaken' = overtaken
      /\ calls[c].stage = "confirming" /\ calls[c].sent \in {"ok", "err"}
      /\ Live(c)
  BY DEF DemoReturns, Confirmed, chainVars, lendGuardVars, vars, custodyVars,
     Live, Awake
<1>2. PICK t : t = calls[c].task
  OBVIOUS
<1>3. t \in TaskRecord /\ DemoTask(t)
  BY <1>2, TaskTyped
<1>4. Unborn'
  BY <1>1 DEF CostIInv, Unborn
<1>5. ~overtaken =>
        /\ \A d \in CallIds : Live(d) => d = c
        /\ running /\ OfSession(t)
  BY <1>1, <1>2 DEF CostIInv, InTurn, Alone
<1>6. CASE ThenRegisters(c)
  <2>1. PICK next : next = [NoCall EXCEPT !.stage = "simulating",
                                         !.task = RegisterTask]
    OBVIOUS
  <2>2. /\ t.name \in {"initialize", "unfreeze"} /\ IdsLeft
        /\ calls' = [calls EXCEPT ![c] = next]
        /\ page' = page /\ running' = running
    BY <1>2, <1>6, <2>1 DEF ThenRegisters
  <2>3. PICK task \in TaskRecord : task = RegisterTask
    BY <2>2, FreshIdIsVault, RegisterTaskFits
  <2>4. task.name = "register"
    BY <2>3 DEF RegisterTask, Task
  <2>5. /\ next \in Call /\ next.task = task /\ next.sent = "no"
        /\ next.stage = "simulating"
    BY <2>1, <2>3 DEF NoCall, NoTask, Call, TaskRecord, TaskNames
  <2>6. StagesFit' /\ Unborn' /\ FewLate'
    BY <1>1, <1>4, <2>2, <2>4, <2>5, RecordMoves DEF StageFits
  <2>7. ASSUME ~overtaken
        PROVE  InTurn' /\ \A v \in Vaults : Balanced(v)'
    <3>1. page.v = NoPda
      BY <1>5, <2>2, <2>7 DEF OfSession
    <3>2. OfSession(task)
      BY <2>2, <2>3, <3>1, RegisterOfSession
    <3>3. OfSession(task)'
      BY <1>0, <1>1, <2>2, <2>4, <2>5, <3>2 DEF OfSession, AtDeposit
    <3>4. InTurn'
      BY <1>0, <1>5, <2>2, <2>5, <2>7, <3>3, TurnGoesOn
    <3>5. ASSUME NEW v \in Vaults PROVE Balanced(v)'
      <4>1. Balanced(v)
        BY <1>1, <2>7, <3>5 DEF CostIInv
      <4>2. ~Due(v)'
        BY <1>0, <2>2, <3>1 DEF Due, AtDeposit
      <4>3. ~IsLate(next, v)
        BY <2>5 DEF IsLate
      <4> QED
        BY <1>0, <1>1, <2>2, <2>5, <4>1, <4>2, <4>3, BalanceAfter
    <3> QED
      BY <3>4, <3>5
  <2> QED
    BY <1>1, <2>2, <2>6, <2>7 DEF CostIInv
<1>7. CASE /\ StepDone(t) /\ Ended(c)
  <2>1. calls' = [calls EXCEPT ![c] = NoCall] /\ NoCall \in Call
    BY <1>1, <1>7 DEF Ended, NoCall, NoTask, Call, TaskNames
  <2>2. /\ NoCall.task.name = "none" /\ StageFits(NoCall) /\ ~Awake(NoCall)
        /\ \A v \in Vaults : ~IsLate(NoCall, v)
    BY DEF NoCall, NoTask, StageFits, Awake, IsLate
  <2>3. StagesFit' /\ Unborn' /\ FewLate'
    BY <1>1, <1>4, <2>1, <2>2, RecordMoves
  <2>4. /\ t.name = "register" => page'.step = 2 /\ page'.v = t.v
        /\ t.name = "prove" => page'.step = 3 /\ page'.v = t.v
        /\ t.name = "deposit" => page'.step = 4
        /\ t.name = "set_up_risk" => page'.step = 5
        /\ t.name = "check" => page'.step = 6
        /\ t.name \notin {"register", "prove", "deposit", "set_up_risk",
                          "check"} => page' = page
    BY <1>7, DemoFacts DEF StepDone, PageAt, Proven, Experiments, DemoIInv,
       DemoTyped
  <2>5. (page.step = 1 => page.v = NoPda)'
    BY <2>4 DEF CostIInv
  <2>6. ASSUME ~overtaken
        PROVE  InTurn' /\ \A v \in Vaults : Balanced(v)'
    <3>1. InTurn'
      BY <1>0, <1>5, <2>1, <2>2, <2>6, TurnEnds
    <3>2. ASSUME NEW v \in Vaults PROVE Balanced(v)'
      <4>1. Balanced(v)
        BY <1>1, <2>6, <3>2 DEF CostIInv
      <4>2. /\ Due(v) <=> AtDeposit(v) /\ ~Answered(calls[c])
            /\ Due(v)' => AtDeposit(v)'
        BY <1>0, <1>5, <2>1, <2>6, DueAfter
      <4>3. CASE t.name = "register" /\ t.v = v
        <5>1. PICK paid \in Nat : paid = Paid(v) /\ paid = 0
          BY <1>5, <2>6, <4>3, RegisteringOwesNothing
        <5>2. PICK paid2 \in Nat : paid2 = Paid(v)' /\ paid2 <= paid
          BY <1>0, <1>1, <2>1, <2>2, <5>1, Charges DEF CostIInv
        <5>3. PICK budget \in Nat : budget = Budget'
          BY <1>1, Grants
        <5> QED
          BY <1>0, <5>1, <5>2, <5>3 DEF Balanced
      <4>4. CASE ~(t.name = "register" /\ t.v = v)
        <5>1. Due(v)' => Due(v)
          <6>1. CASE t.name = "prove"
            <7>1. AtDeposit(t.v) /\ ~Answered(calls[c])
              BY <1>2, <1>5, <2>6, <6>1 DEF OfSession, Answered
            <7>2. AtDeposit(v)' => v = t.v
              BY <2>4, <6>1 DEF AtDeposit
            <7> QED
              BY <4>2, <7>1, <7>2
          <6>2. CASE t.name \in {"register", "deposit", "set_up_risk", "check"}
            <7>1. ~AtDeposit(v)'
              BY <2>4, <4>4, <6>2 DEF AtDeposit
            <7> QED
              BY <4>2, <7>1
          <6>3. CASE t.name \notin {"register", "prove", "deposit",
                                    "set_up_risk", "check"}
            <7>1. ~Answered(calls[c])
              BY <1>2, <6>3 DEF Answered
            <7>2. AtDeposit(v)' => AtDeposit(v)
              BY <2>4, <6>3 DEF AtDeposit
            <7> QED
              BY <4>2, <7>1, <7>2
          <6> QED
            BY <6>1, <6>2, <6>3
        <5> QED
          BY <1>0, <1>1, <2>1, <2>2, <4>1, <5>1, BalanceAfter
      <4> QED
        BY <4>3, <4>4
    <3> QED
      BY <3>1, <3>2
  <2> QED
    BY <1>1, <2>3, <2>5, <2>6 DEF CostIInv
<1> QED
  BY <1>2, <1>6, <1>7 DEF DemoReturns

\* What the step of a transaction, if it is one, does to a vault.
DepositLands(c, v) ==
    /\ calls[c].sent = "flying"
    /\ calls[c].task.name \in {"deposit", "attack"} /\ calls[c].task.v = v
    /\ Grown(v, calls[c].task.amount)

\* A deposit that grows a vault is the visitor's, and of the usual amount.
LEMMA DepositsAreUsual ==
    ASSUME WebIInv, open = "demo", TrapIInv, CostIInv, NEW c \in CallIds,
           NEW v \in Vaults, DepositLands(c, v)
    PROVE  /\ calls[c].task.name = "deposit" /\ calls[c].task.v = v
           /\ vault'[v].deposited_amount
                = vault[v].deposited_amount + DEPOSIT_AMOUNT
<1>1. calls[c].task.name # "attack"
  BY DEF DepositLands, Grown, TrapIInv,
    CallIsSafe, IsBarred
<1>2. calls[c].task.name = "deposit" /\ calls[c].task.v = v
  BY <1>1 DEF DepositLands
<1>3. calls[c].task.amount = DEPOSIT_AMOUNT
  BY <1>2, TaskTyped DEF DemoTask, OtherTasks
<1> QED
  BY <1>2, <1>3 DEF DepositLands, Grown

LEMMA DepositsAge ==
    ASSUME \A v \in Vaults : Still(v) \/ \E c \in CallIds : DepositLands(c, v)
    PROVE  Unborn'
  BY StillIsUnborn DEF DepositLands

\* The handler of a session goes on, ends, or sees its transaction answered.
LEMMA HandlerSettled ==
    ASSUME WebIInv, open = "demo", TrapIInv, CostIInv, NEW c \in CallIds, Live(c),
           NEW next \in Call, calls' = [calls EXCEPT ![c] = next],
           page' = page, overtaken' = overtaken,
           vault' \in [Vaults -> VaultAccount],
           mishaps' = mishaps \/ Mishap,
           StageFits(next), Awake(next) => running' = running,
           \/ next.task = calls[c].task
           \/ next.task.name \in {"none", "ika_fallback"},
           next.stage = "gone" => ~Answered(calls[c]) /\ Mishap,
           ~Answered(calls[c]) \/ Mishap,
           \A v \in Vaults : Still(v) \/ (DepositLands(c, v) /\ next.sent = "ok"
                                   /\ Awake(next) /\ next.task = calls[c].task)
    PROVE  CostIInv'
<1>0. /\ calls \in [CallIds -> Call] /\ AccountsTyped
      /\ DEPOSIT_AMOUNT \in Nat
      /\ \A v \in Vaults : vault'[v].deposited_amount \in Nat
  BY DemoFacts, DepositsTyped
<1>1. Unborn'
  BY DepositsAge
<1>2. StagesFit' /\ Unborn' /\ FewLate'
  BY <1>1, RecordMoves
<1>3. PICK t : t = calls[c].task
  OBVIOUS
<1>4. ASSUME ~overtaken
      PROVE  InTurn' /\ \A v \in Vaults : Balanced(v)'
  <2>1. /\ running /\ \A d \in CallIds : Live(d) => d = c
        /\ OfSession(t)
    BY <1>3, <1>4 DEF CostIInv, InTurn, Alone
  <2>2. InTurn'
    <3>1. CASE ~Awake(next)
      BY <1>0, <2>1, <3>1, TurnEnds
    <3>2. CASE Awake(next) /\ next.task.name \in {"none", "ika_fallback"}
      <4>1. OfSession(next.task)'
        BY <3>2 DEF OfSession
      <4> QED
        BY <1>0, <2>1, <3>2, <4>1, TurnGoesOn
    <3>3. CASE Awake(next) /\ next.task = t
      <4>1. ASSUME t.name = "register"
            PROVE  vault'[t.v].deposited_amount = 0
        <5>1. t.v \in Vaults /\ DemoTask(t)
          BY <1>3, <4>1, TaskTyped DEF DemoTask, OtherTasks
        <5>2. Still(t.v)
          BY <1>3, <4>1, <5>1 DEF DepositLands
        <5> QED
          BY <2>1, <4>1, <5>2 DEF OfSession, Still
      <4>2. \A d \in CallIds : calls'[d].task = calls[d].task
        BY <1>0, <1>3, <3>3
      <4>3. OfSession(t)'
        BY <2>1, <4>1, <4>2 DEF OfSession, AtDeposit
      <4>4. OfSession(next.task)'
        BY <3>3, <4>3 DEF OfSession, AtDeposit
      <4> QED
        BY <1>0, <2>1, <3>3, <4>4, TurnGoesOn
    <3> QED
      BY <1>3, <3>1, <3>2, <3>3
  <2>3. ASSUME NEW v \in Vaults PROVE Balanced(v)'
    <3>1. Balanced(v)
      BY <1>4, <2>3 DEF CostIInv
    <3>2. /\ Due(v) <=> AtDeposit(v) /\ ~Answered(calls[c])
          /\ Due(v)' <=> AtDeposit(v)' /\ ~Answered(next)
      BY <1>0, <2>1, DueAfter
    <3>3. AtDeposit(v)' <=> AtDeposit(v)
      BY DEF AtDeposit
    <3>4. CASE Still(v) /\ ~IsLate(next, v)
      <4>1. (Due(v)' => Due(v)) \/ Mishap
        BY <3>2, <3>3
      <4> QED
        BY <1>0, <3>1, <3>4, <4>1, BalanceAfter DEF Still
    <3>5. CASE Still(v) /\ IsLate(next, v)
      <4>1. t.name = "deposit" /\ t.v = v /\ Mishap /\ ~Answered(calls[c])
        BY <1>3, <3>5 DEF IsLate
      <4>2. Due(v)
        BY <2>1, <3>2, <4>1 DEF OfSession
      <4> QED
        BY <1>0, <3>1, <3>5, <4>1, <4>2, BalanceAfter DEF Still
    <3>6. CASE /\ DepositLands(c, v) /\ next.sent = "ok" /\ Awake(next)
               /\ next.task = t
      <4>1. /\ t.name = "deposit" /\ t.v = v
            /\ vault'[v].deposited_amount
                 = vault[v].deposited_amount + DEPOSIT_AMOUNT
        BY <1>3, <2>3, <3>6, DepositsAreUsual
      <4>2. ~Answered(calls[c])
        BY <3>6 DEF DepositLands, Answered
      <4>3. Due(v)
        BY <2>1, <3>2, <4>1, <4>2 DEF OfSession
      <4>4. ~Due(v)'
        BY <3>2, <3>6, <4>1 DEF Answered
      <4>5. ~IsLate(next, v)
        BY <3>6 DEF IsLate, Awake
      <4> QED
        BY <1>0, <3>1, <4>1, <4>3, <4>4, <4>5, BalanceAfter
    <3> QED
      BY <1>3, <3>4, <3>5, <3>6
  <2> QED
    BY <2>2, <2>3
<1> QED
  BY <1>2, <1>4 DEF CostIInv

\* A transaction whose handler has ended meets its fate.
LEMMA GoneSettled ==
    ASSUME WebIInv, open = "demo", TrapIInv, CostIInv, NEW c \in CallIds,
           calls[c].stage = "gone", calls' = [calls EXCEPT ![c] = NoCall],
           page' = page, overtaken' = overtaken,
           running' = running,
           vault' \in [Vaults -> VaultAccount],
           mishaps' = mishaps \/ Mishap,
           \A v \in Vaults : Still(v) \/ DepositLands(c, v)
    PROVE  CostIInv'
<1>0. /\ calls \in [CallIds -> Call] /\ AccountsTyped
      /\ DEPOSIT_AMOUNT \in Nat
      /\ \A v \in Vaults : vault'[v].deposited_amount \in Nat
  BY DemoFacts, DepositsTyped
<1>1. Unborn'
  BY DepositsAge
<1>2. /\ NoCall \in Call /\ NoCall.task.name = "none" /\ StageFits(NoCall)
      /\ ~Awake(NoCall) /\ ~Answered(NoCall)
      /\ \A v \in Vaults : ~IsLate(NoCall, v)
  BY DEF NoCall, NoTask, Call, TaskNames, StageFits, Awake, Answered, IsLate
<1>3. StagesFit' /\ Unborn' /\ FewLate'
  BY <1>1, <1>2, RecordMoves
<1>4. \A d \in CallIds : calls'[d] = IF d = c THEN NoCall ELSE calls[d]
  BY <1>0
<1>5. ~Awake(calls[c]) /\ ~Answered(calls[c])
  BY DEF Awake, Answered
<1>6. \A v \in Vaults : Due(v)' => Due(v)
  BY <1>4, <1>5 DEF Due, AtDeposit, Answered, Awake
<1>7. ASSUME ~overtaken
      PROVE  InTurn' /\ \A v \in Vaults : Balanced(v)'
  <2>1. ASSUME NEW d \in CallIds, Live(d)'
        PROVE  Alone(d)' /\ OfSession(calls[d].task)'
    <3>1. d # c /\ calls'[d] = calls[d] /\ Live(d)
      BY <1>2, <1>4, <2>1 DEF Live, Awake
    <3>2. Alone(d) /\ OfSession(calls[d].task)
      BY <1>7, <3>1 DEF CostIInv, InTurn
    <3>3. Alone(d)'
      BY <1>2, <1>4, <3>2 DEF Alone, Live, Awake
    <3>4. PICK t : t = calls[d].task
      OBVIOUS
    <3>5. ASSUME t.name = "register"
          PROVE  vault'[t.v].deposited_amount = 0
      <4>1. t.v \in Vaults
        BY <3>4, <3>5, TaskTyped DEF DemoTask, OtherTasks
      <4>2. ~DepositLands(c, t.v)
        BY <3>2, <3>4, <3>5 DEF OfSession, DepositLands
      <4> QED
        BY <3>2, <3>4, <3>5, <4>1, <4>2 DEF OfSession, Still
    <3>6. \A e \in CallIds : calls'[e].task.name \in {"deposit", "attack"}
            => calls'[e].task = calls[e].task
      BY <1>2, <1>4
    <3>7. OfSession(t)'
      BY <3>2, <3>4, <3>5, <3>6 DEF OfSession, AtDeposit
    <3> QED
      BY <3>1, <3>3, <3>4, <3>7 DEF OfSession, AtDeposit
  <2>2. InTurn'
    BY <1>2, <1>4, <2>1 DEF InTurn, Live, Awake, OfSession, AtDeposit
  <2>3. ASSUME NEW v \in Vaults PROVE Balanced(v)'
    <3>1. Balanced(v)
      BY <1>7, <2>3 DEF CostIInv
    <3>2. CASE Still(v)
      BY <1>0, <1>2, <1>6, <3>1, <3>2, BalanceAfter DEF Still
    <3>3. CASE DepositLands(c, v)
      <4>1. /\ IsLate(calls[c], v)
            /\ vault'[v].deposited_amount
                 = vault[v].deposited_amount + DEPOSIT_AMOUNT
        BY <2>3, <3>3, DepositsAreUsual DEF IsLate
      <4> QED
        BY <1>0, <1>2, <1>6, <3>1, <4>1, BalanceAfter
    <3> QED
      BY <3>2, <3>3
  <2> QED
    BY <2>2, <2>3
<1> QED
  BY <1>3, <1>7 DEF CostIInv

\* What a step of sendIx leaves alone.
LEMMA ChainRestsStill ==
    ASSUME WebIInv, open = "demo", CostIInv, UNCHANGED chainVars
    PROVE  /\ vault' \in [Vaults -> VaultAccount]
           /\ \A v \in Vaults : Still(v)
<1>1. vault' = vault
  BY DEF chainVars, lendGuardVars, vars, custodyVars
<1>2. vault \in [Vaults -> VaultAccount]
  BY DemoFacts DEF AccountsTyped
<1> QED
  BY <1>1, <1>2, UnchangedIsStill DEF CostIInv

\* A transaction on its way is not yet answered.
LEMMA Flying ==
    ASSUME CostIInv, WebIInv, open = "demo", NEW c \in CallIds,
           calls[c].sent = "flying"
    PROVE  /\ ~Answered(calls[c])
           /\ Live(c) \/ calls[c].stage = "gone"
  BY TaskTyped DEF CostIInv, StagesFit, StageFits, Answered, Live, Awake, Call

\* A handler that throws with its transaction on its way cost a mishap.
LEMMA ThrowsSettled ==
    ASSUME WebIInv, open = "demo", TrapIInv, CostIInv, NEW c \in CallIds, DemoThrows(c)
    PROVE  CostIInv'
<1>1. /\ UNCHANGED chainVars
      /\ page' = page /\ overtaken' = overtaken
  BY DEF DemoThrows, Throws, PostUnanswered
<1>2. vault' \in [Vaults -> VaultAccount] /\ \A v \in Vaults : Still(v)
  BY <1>1, ChainRestsStill
<1>3. CASE Throws(c)
  <2>1. /\ mishaps' = mishaps \/ Mishap
        /\ Live(c) /\ Ended(c)
        /\ \/ Mishap
           \/ calls[c].sent \in {"no", "dropped"}
    BY <1>3 DEF Throws, Refused, Expires, Live, Awake, CostIInv, StagesFit,
       StageFits
  <2>2. PICK next \in Call :
          /\ calls' = [calls EXCEPT ![c] = next]
          /\ \/ /\ next.task = calls[c].task /\ calls[c].sent = "flying"
                /\ next.stage = "gone" /\ next.sent = "flying"
             \/ next = NoCall
    BY <2>1, EndedFacts, DemoFacts
  <2>3. /\ ~Awake(next) /\ StageFits(next)
        /\ \/ next.task = calls[c].task
           \/ next.task.name = "none" /\ next.stage # "gone"
        /\ next.stage = "gone" => ~Answered(calls[c]) /\ Mishap
    BY <2>1, <2>2, Flying DEF Awake, StageFits, NoCall, NoTask
  <2>4. ~Answered(calls[c]) \/ Mishap
    BY <2>1 DEF Answered
  <2> QED
    BY <1>1, <1>2, <2>1, <2>2, <2>3, <2>4, HandlerSettled
<1>4. CASE PostUnanswered(c)
  <2>1. /\ Mishap /\ Live(c) /\ calls[c].sent = "no" /\ To(c, "gone", "flying")
    BY <1>4 DEF PostUnanswered, Live, Awake, CostIInv, StagesFit, StageFits
  <2>2. PICK next \in Call :
          /\ calls' = [calls EXCEPT ![c] = next]
          /\ next.task = calls[c].task
          /\ next.stage = "gone" /\ next.sent = "flying"
    BY <2>1, ToFacts, DemoFacts
  <2>3. ~Awake(next) /\ StageFits(next) /\ ~Answered(calls[c])
    BY <2>1, <2>2 DEF Awake, StageFits, Answered
  <2> QED
    BY <1>1, <1>2, <2>1, <2>2, <2>3, HandlerSettled
<1> QED
  BY <1>3, <1>4 DEF DemoThrows

LEMMA FallsBackSettled ==
    ASSUME WebIInv, open = "demo", TrapIInv, CostIInv, NEW c \in CallIds, FallsBack(c)
    PROVE  CostIInv'
<1>1. /\ UNCHANGED chainVars /\ mishaps' = mishaps /\ running' = running
      /\ page' = page /\ overtaken' = overtaken
      /\ Live(c) /\ ~Answered(calls[c])
  BY DEF FallsBack, demoVars, Live, Awake, Answered
<1>2. vault' \in [Vaults -> VaultAccount] /\ \A v \in Vaults : Still(v)
  BY <1>1, ChainRestsStill
<1>3. PICK t : t = Task("ika_fallback", calls[c].task.v, 0)
  OBVIOUS
<1>4. calls[c].task.v \in Vaults \cup BtcVaults \cup {NoPda}
  BY TaskTyped DEF TaskRecord
<1>5. t \in TaskRecord /\ t.name = "ika_fallback"
  BY <1>3, <1>4, TaskFields DEF TaskNames
<1>6. PICK next : next = [NoCall EXCEPT !.stage = "simulating", !.task = t]
  OBVIOUS
<1>7. /\ next \in Call /\ next.task = t /\ next.stage = "simulating"
      /\ next.sent = "no"
  BY <1>5, <1>6 DEF NoCall, NoTask, Call, TaskRecord, TaskNames
<1>8. calls' = [calls EXCEPT ![c] = next]
  BY <1>3, <1>6 DEF FallsBack
<1>9. StageFits(next)
  BY <1>7 DEF StageFits
<1> QED
  BY <1>1, <1>2, <1>5, <1>7, <1>8, <1>9, HandlerSettled

LEMMA PostsSettled ==
    ASSUME WebIInv, open = "demo", TrapIInv, CostIInv, NEW c \in CallIds,
           Simulates(c) \/ Posts(c), UNCHANGED demoVars
    PROVE  CostIInv'
<1>1. /\ UNCHANGED chainVars /\ running' = running
      /\ mishaps' = mishaps \/ Mishap
      /\ page' = page /\ overtaken' = overtaken
      /\ Live(c) /\ calls[c].sent = "no"
  BY DEF Simulates, Posts, demoVars, Live, Awake, CostIInv, StagesFit,
     StageFits
<1>2. vault' \in [Vaults -> VaultAccount] /\ \A v \in Vaults : Still(v)
  BY <1>1, ChainRestsStill
<1>3. PICK next \in Call :
        /\ calls' = [calls EXCEPT ![c] = next]
        /\ next.task = calls[c].task
        /\ \/ next.stage = "signing" /\ next.sent = "no"
           \/ next.stage = "confirming" /\ next.sent = "flying"
  BY ToFacts, DemoFacts DEF Simulates, Posts
<1>4. StageFits(next) /\ next.stage # "gone" /\ ~Answered(calls[c])
  BY <1>1, <1>3 DEF StageFits, Answered
<1> QED
  BY <1>1, <1>2, <1>3, <1>4, HandlerSettled

\* A transaction lands, fails or is dropped.
LEMMA ExecutesSettled ==
    ASSUME WebIInv, open = "demo", TrapIInv, CostIInv, NEW c \in CallIds,
           Executes(c) \/ Drops(c), UNCHANGED demoVars,
           vault' \in [Vaults -> VaultAccount]
    PROVE  CostIInv'
<1>1. /\ running' = running
      /\ mishaps' = mishaps \/ Mishap
      /\ page' = page /\ overtaken' = overtaken
      /\ calls[c].sent = "flying"
  BY DEF Executes, Drops, demoVars
<1>2. ~Answered(calls[c]) /\ (Live(c) \/ calls[c].stage = "gone")
  BY <1>1, Flying
<1>3. PICK sent \in {"ok", "err", "dropped"} :
        /\ calls' = [calls EXCEPT ![c] =
             IF @.stage = "gone" THEN NoCall ELSE [@ EXCEPT !.sent = sent]]
        /\ IF sent = "ok" THEN Lands(calls[c].task) ELSE UNCHANGED chainVars
  BY DEF Executes, Drops
<1>4. \A v \in Vaults : Still(v) \/ (DepositLands(c, v) /\ sent = "ok")
  <2>1. CASE sent = "ok"
    BY <1>1, <1>3, <2>1, LandsGrows, TaskTyped, DemoFacts DEF DepositLands,
       CostIInv
  <2>2. CASE sent # "ok"
    BY <1>3, <2>2, ChainRestsStill
  <2> QED
    BY <2>1, <2>2
<1>5. CASE calls[c].stage = "gone"
  <2>1. calls' = [calls EXCEPT ![c] = NoCall]
    BY <1>3, <1>5
  <2> QED
    BY <1>1, <1>4, <1>5, <2>1, GoneSettled
<1>6. CASE calls[c].stage # "gone"
  <2>0. calls \in [CallIds -> Call]
    BY DemoFacts
  <2>1. PICK next \in Call :
          /\ calls' = [calls EXCEPT ![c] = next]
          /\ \/ next = NoCall /\ calls[c].stage = "gone"
             \/ /\ next.task = calls[c].task
                /\ next.stage = calls[c].stage /\ next.sent = sent
    BY <1>3, <2>0, AnswerFacts
  <2>2. calls[c].stage = "confirming"
    BY <1>1, <1>2, <1>6 DEF Live, Awake, CostIInv, StagesFit, StageFits
  <2>3. Awake(next) /\ StageFits(next) /\ next.stage # "gone" /\ Live(c)
    BY <1>6, <2>1, <2>2 DEF Awake, StageFits, Live
  <2> QED
    BY <1>1, <1>2, <1>4, <1>6, <2>1, <2>3, HandlerSettled
<1> QED
  BY <1>5, <1>6

----------------------------------------------------------------------------
(* The rest of the world, and the theorem *)

\* Nobody else deposits into the visitor's vaults.
LEMMA OthersSettled ==
    ASSUME WebIInv, open = "demo", CostIInv,
           UNCHANGED <<calls, running, demoVars>>,
           mishaps' = mishaps \/ Mishap,
           \A v \in Vaults : Still(v)
    PROVE  CostIInv'
<1>1. page' = page /\ overtaken' = overtaken
  BY DEF demoVars
<1>2. Unborn'
  BY DEF Unborn, Still
<1>3. StagesFit' /\ FewLate'
  BY DEF CostIInv, StagesFit, FewLate, Late
<1>4. ASSUME ~overtaken
      PROVE  InTurn' /\ \A v \in Vaults : Balanced(v)'
  <2>1. ASSUME NEW c \in CallIds, Live(c)
        PROVE  Alone(c)' /\ OfSession(calls[c].task)'
    <3>1. Alone(c) /\ OfSession(calls[c].task)
      BY <1>4, <2>1 DEF CostIInv, InTurn
    <3>2. Alone(c)'
      BY <3>1 DEF Alone, Live
    <3>3. PICK t : t = calls[c].task
      OBVIOUS
    <3>4. ASSUME t.name = "register"
          PROVE  vault'[t.v].deposited_amount = 0
      <4>1. t.v \in Vaults
        BY <3>3, <3>4, TaskTyped DEF DemoTask, OtherTasks
      <4> QED
        BY <3>1, <3>3, <3>4, <4>1 DEF OfSession, Still
    <3>5. OfSession(t)'
      BY <1>1, <3>1, <3>3, <3>4 DEF OfSession, AtDeposit
    <3> QED
      BY <3>2, <3>3, <3>5 DEF OfSession, AtDeposit
  <2>2. InTurn'
    BY <2>1 DEF InTurn, Live
  <2>3. ASSUME NEW v \in Vaults PROVE Balanced(v)'
    <3>1. Balanced(v) /\ vault'[v].deposited_amount = vault[v].deposited_amount
      BY <1>4, <2>3 DEF CostIInv, Still
    <3>2. Due(v)' => Due(v)
      BY <1>1 DEF Due, AtDeposit
    <3> QED
      BY <3>1, <3>2, BalanceRests
  <2> QED
    BY <2>2, <2>3
<1> QED
  BY <1>1, <1>2, <1>3, <1>4 DEF CostIInv

LEMMA StrangersSettled ==
    ASSUME WebIInv, open = "demo", CostIInv, StrangerStep,
           UNCHANGED <<calls, running, demoVars>>
    PROVE  CostIInv'
<1>1. Unborn /\ AccountsTyped
  BY DemoFacts DEF CostIInv
<1>2. \A v \in Vaults : Still(v)
  <2>1. CASE TriggerRiskCheck(Theirs, Stranger, FALSE)
    BY <1>1, <2>1, CheckIsStill, WebAssumption
  <2>2. CASE UNCHANGED custodyVars
    BY <1>1, <2>2, UnchangedIsStill DEF custodyVars
  <2> QED
    BY <2>1, <2>2 DEF StrangerStep
<1>3. mishaps' = mishaps \/ Mishap
  BY DEF StrangerStep
<1> QED
  BY <1>2, <1>3, OthersSettled

LEMMA WebInitSettled ==
    ASSUME WebInit, open = "demo" PROVE CostIInv
<1>0. /\ calls = [c \in CallIds |-> NoCall] /\ running = FALSE
      /\ page = FirstPage
  BY DEF WebInit, SendInit, DemoInit
<1>1. WebIInv
  BY WebInitIInv
<1>2. \A v \in Vaults : vault[v].deposited_amount = 0
  <2>1. CASE DemoStart
    BY <2>1 DEF DemoStart, CustodyInit, NoVault
  <2>2. CASE SharedStart
    <3>1. PICK frozen : frozen = [NoVault EXCEPT !.live = TRUE, !.frozen = TRUE,
                                                 !.asset_type = BTC]
      OBVIOUS
    <3>2. vault = [v \in Vaults |-> IF v = Theirs THEN frozen ELSE NoVault]
      BY <2>2, <3>1 DEF SharedStart
    <3>3. frozen.deposited_amount = 0 /\ NoVault.deposited_amount = 0
      BY <3>1 DEF NoVault
    <3> QED
      BY <3>2, <3>3
  <2> QED
    BY <2>1, <2>2 DEF WebInit, LendStart, BtcStart
<1>3. \A c \in CallIds : /\ calls[c] = NoCall /\ ~Live(c)
                         /\ StageFits(calls[c])
                         /\ calls[c].task.name = "none"
                         /\ calls[c].stage = "idle"
  BY <1>0 DEF Live, Awake, StageFits, NoCall, NoTask
<1>4. \A v \in Vaults : Late(v) = {}
  BY <1>3 DEF Late, IsLate
<1>5. StagesFit /\ InTurn
  BY <1>3 DEF StagesFit, InTurn
<1>6. Unborn
  BY <1>2 DEF Unborn
<1>7. FewLate
  BY <1>4, FS_EmptySet DEF FewLate
<1>8. page.step = 1 /\ page.v = NoPda
  BY <1>0 DEF FirstPage
<1>9. ASSUME NEW v \in Vaults PROVE Balanced(v)
  <2>1. Cardinality(Late(v)) = 0
    BY <1>4, FS_EmptySet
  <2>2. DEPOSIT_AMOUNT \in Nat /\ DEPOSIT_AMOUNT * 0 = 0
    BY <1>1, DemoFacts
  <2>3. Paid(v) = 0
    BY <1>2, <2>1, <2>2 DEF Paid
  <2>4. PICK budget \in Nat : budget = Budget
    BY <1>1, Grants
  <2> QED
    BY <2>2, <2>3, <2>4 DEF Balanced
<1> QED
  BY <1>5, <1>6, <1>7, <1>8, <1>9 DEF CostIInv

LEMMA WebNextSettled ==
    ASSUME WebIInv, open = "demo", TrapIInv, CostIInv, [WebNext]_web
    PROVE  CostIInv'
<1>1. WebIInv' /\ open' = open
  BY WebNextIInv DEF WebNext, web
<1>2. vault' \in [Vaults -> VaultAccount]
  BY <1>1 DEF WebIInv, TrailIInv, DemoIInv, DemoTyped, AccountsTyped
<1>3. CASE DemoStep
  <2>1. CASE Click \/ ClickExperiment
    BY <2>1, ClickSettled, ExperimentSettled
  <2>2. CASE GivesUp \/ StartsOver
    BY <2>2, ResetSettled DEF GivesUp, StartsOver
  <2>3. ASSUME NEW c \in CallIds, CallStep(c) PROVE CostIInv'
    <3>1. CASE DemoReturns(c)
      BY <3>1, ReturnsSettled
    <3>2. CASE DemoThrows(c) \/ FallsBack(c)
      BY <3>2, ThrowsSettled, FallsBackSettled
    <3>3. CASE UnderWay(c) /\ UNCHANGED demoVars
      BY <1>2, <3>3, PostsSettled, ExecutesSettled DEF UnderWay
    <3> QED
      BY <2>3, <3>1, <3>2, <3>3 DEF CallStep
  <2> QED
    BY <1>3, <2>1, <2>2, <2>3 DEF DemoStep
<1>4. CASE StrangerStep /\ UNCHANGED <<calls, running, demoVars>>
  BY <1>4, StrangersSettled
<1>5. CASE UNCHANGED <<custodyVars, calls, running, mishaps, demoVars>>
  <2>1. \A v \in Vaults : Still(v)
    BY <1>5, UnchangedIsStill DEF CostIInv, custodyVars
  <2> QED
    BY <1>5, <2>1, OthersSettled
<1> QED
  BY <1>3, <1>4, <1>5 DEF WebNext, web, chainVars, lendGuardVars, vars

\* What the invariant is for.
LEMMA Affordable ==
    ASSUME WebIInv, open = "demo", CostIInv, ~overtaken,
           NEW v \in Vaults
    PROVE  FaultsPayFor(v)
<1>1. /\ mishaps \in Nat /\ MaxMishaps \in Nat /\ mishaps <= MaxMishaps
      /\ DEPOSIT_AMOUNT \in Nat
      /\ vault[v].deposited_amount \in Nat
  BY DemoFacts DEF AccountsTyped, VaultAccount
<1>2. PICK n \in Nat : n = Cardinality(Late(v))
  BY FS_CardinalityType DEF CostIInv, FewLate
<1>3. PICK f \in Nat : f = MaxMishaps - mishaps
  BY <1>1
<1>4. PICK late \in Nat : late = DEPOSIT_AMOUNT * n
  BY <1>1, TimesIsNat
<1>5. PICK budget \in Nat :
        /\ budget = DEPOSIT_AMOUNT * f
        /\ DEPOSIT_AMOUNT * (f + 1) = budget + DEPOSIT_AMOUNT
  BY <1>1, ChargeFacts
<1>6. vault[v].deposited_amount + late <= DEPOSIT_AMOUNT + budget
  BY <1>2, <1>3, <1>4, <1>5 DEF CostIInv, Balanced, Paid, Budget
<1>7. 1 + MaxMishaps - mishaps = f + 1
  BY <1>1, <1>3
<1> QED
  BY <1>1, <1>4, <1>5, <1>6, <1>7 DEF FaultsPayFor

LEMMA TrapInvariant == WebSpec => [](open = "demo" => TrapIInv)
<1> DEFINE Safe == open = "demo" => TrapIInv
<1>1. WebInit => Safe
  BY WebInitIsSafe
<1>2. ASSUME WebIInv, Safe, [WebNext]_web PROVE Safe'
  <2>1. open' = open
    BY <1>2 DEF WebNext, web
  <2> QED
    BY <1>2, <2>1, WebNextIsSafe
<1> HIDE DEF Safe
<1>3. WebSpec => []Safe
  BY <1>1, <1>2, WebInvariant, PTL DEF WebSpec
<1> QED
  BY <1>3, PTL DEF Safe

\* However many handlers, mishaps and vaults there are: as long as Reset was
\* never clicked under a handler, whatever a vault of the demo holds beyond one
\* deposit was paid for by mishaps, a deposit each, even if the page moved on
\* in error with it.
THEOREM DepositsArePaidFor == WebSpec => []DepositsCostFaults
<1> DEFINE Safe == open = "demo" => TrapIInv
           Settled == open = "demo" => CostIInv
<1>1. WebInit => Settled
  BY WebInitSettled
<1>2. ASSUME WebIInv, Safe, Settled, [WebNext]_web PROVE Settled'
  <2>1. open' = open
    BY <1>2 DEF WebNext, web
  <2> QED
    BY <1>2, <2>1, WebNextSettled
<1>3. WebIInv /\ Settled => DepositsCostFaults
  BY Affordable DEF DepositsCostFaults
<1>4. WebSpec => []Safe
  BY TrapInvariant
<1> HIDE DEF Safe, Settled
<1> QED
  BY <1>1, <1>2, <1>3, <1>4, WebInvariant, PTL DEF WebSpec

----------------------------------------------------------------------------
(* The lender *)

\* An answer is due only of a gate that found the protocol, on the one page
\* beside which the model has a lender.
GateInformed == gate = {} \/ (open = "demo" /\ protocol.live)

LEMMA WebNextInforms ==
    ASSUME WebIInv, GateInformed, [WebNext]_web PROVE GateInformed'
<1>1. open' = open
  BY DEF WebNext, web
<1>2. CASE open = "demo" /\ protocol.live
  BY <1>1, <1>2, WebNextKeeps DEF Keeps, ProtocolKept, GateInformed
<1>3. CASE gate = {}
  <2>1. \/ gate' = {}
        \/ open = "demo" /\ protocol.live /\ UNCHANGED chainVars
    BY <1>3 DEF WebNext, web, AskGate, GateAllows, GateRefuses
  <2>2. UNCHANGED chainVars => protocol' = protocol
    BY DEF chainVars, lendGuardVars, vars
  <2> QED
    BY <1>1, <2>1, <2>2 DEF GateInformed
<1> QED
  BY <1>2, <1>3 DEF GateInformed

\* The gate decodes the vault's fields at the offsets the program keeps them.
LEMMA GateReadsRight ==
    /\ VaultReads["proof_status"] = "proof_status"
    /\ VaultReads["frozen"] = "frozen"
<1>1. /\ 7 \in DOMAIN Program!VaultLayout /\ 9 \in DOMAIN Program!VaultLayout
      /\ Program!VaultLayout[7][1] = "proof_status"
      /\ Program!VaultLayout[9][1] = "frozen"
  BY DEF Program!VaultLayout
<1>2. VaultReads = Program!Reads(Program!VaultLayout, Program!VaultLayout)
  BY DEF VaultReads, Web!DecodeVaultAccount, Program!VaultLayout
<1>3. PICK layout : layout = Program!VaultLayout
  OBVIOUS
<1>4. \A i \in DOMAIN layout :
        Program!Reads(layout, layout)[layout[i][1]] = layout[i][1]
  BY <1>3, VaultIsLayout, ReadsAsItself
<1> QED
  BY <1>1, <1>2, <1>3, <1>4

\* What stands behind the accounts the gate reads on the demo's deployment.
Backed ==
    \A v \in Vaults :
      /\ vault[v].proof_status = VERIFIED => v \in approved
      /\ risk[v].live => vault[v].live
      /\ risk[v].live /\ ~risk[v].last_check_result => vault[v].frozen

\* A step that says something new of an account has put something behind it.
BacksNew ==
    /\ approved \subseteq approved'
    /\ \A v \in Vaults :
         /\ vault'[v].proof_status = VERIFIED
              => vault[v].proof_status = VERIFIED \/ v \in approved'
         /\ risk'[v].live => risk[v].live \/ vault'[v].live
         /\ risk'[v].live /\ ~risk'[v].last_check_result
              => \/ risk[v].live /\ ~risk[v].last_check_result
                 \/ vault'[v].frozen

LEMMA BackedStays ==
    ASSUME Backed, Keeps, BacksNew PROVE Backed'
<1>1. ASSUME NEW v \in Vaults
      PROVE  /\ vault'[v].proof_status = VERIFIED => v \in approved'
             /\ risk'[v].live => vault'[v].live
             /\ risk'[v].live /\ ~risk'[v].last_check_result
                  => vault'[v].frozen
  <2>1. vault[v].live => VaultKept(v)
    BY DEF Keeps, ChainKept
  <2> QED
    BY <2>1 DEF Backed, BacksNew, VaultKept
<1> QED
  BY <1>1 DEF Backed

LEMMA QuietBacks ==
    ASSUME UNCHANGED <<vault, risk, approved>> PROVE BacksNew
  BY DEF BacksNew

LEMMA CheckBacks ==
    ASSUME AccountsTyped, NEW v \in Vaults, NEW user,
           TriggerRiskCheck(v, user, FALSE), approved' = approved
    PROVE  BacksNew
<1>1. /\ vault'[v] = [vault[v] EXCEPT !.frozen = TRUE]
      /\ risk'[v] = [risk[v] EXCEPT !.last_check_result = FALSE]
  BY CheckKeeps
<1>2. vault[v] \in VaultAccount /\ risk[v] \in RiskAccount
  BY DEF AccountsTyped
<1>3. risk[v].live
  BY DEF TriggerRiskCheck, MayCheck
<1>4. /\ vault'[v].frozen /\ vault'[v].proof_status = vault[v].proof_status
      /\ risk'[v].live /\ ~risk'[v].last_check_result
  BY <1>1, <1>2, <1>3 DEF VaultAccount, RiskAccount
<1>5. \A u \in Vaults \ {v} : vault'[u] = vault[u] /\ risk'[u] = risk[u]
  BY DEF TriggerRiskCheck, AccountsTyped
<1> QED
  BY <1>3, <1>4, <1>5 DEF BacksNew

LEMMA RegisterBacks ==
    ASSUME AccountsTyped, NEW v \in Vaults, RegisterVault(v, BTC),
           approved' = approved
    PROVE  BacksNew
<1>1. vault' = [vault EXCEPT ![v] =
                  [NoVault EXCEPT !.live = TRUE, !.asset_type = BTC]]
  BY DEF RegisterVault
<1>2. vault'[v].live /\ vault'[v].proof_status # VERIFIED
  BY <1>1 DEF AccountsTyped, NoVault, PENDING, VERIFIED
<1>3. \A u \in Vaults \ {v} : vault'[u] = vault[u]
  BY <1>1 DEF AccountsTyped
<1>4. risk' = risk
  BY DEF RegisterVault, AccountsTyped
<1> QED
  BY <1>2, <1>3, <1>4 DEF BacksNew

LEMMA LandingBacks ==
    ASSUME AccountsTyped, NEW t, DemoTask(t), t.amount \in Nat, Lands(t)
    PROVE  BacksNew
<1>1. CASE t.name \in {"initialize", "unfreeze"}
  BY <1>1, QuietBacks DEF Lands, CustodyTask, LendingTask, BtcTask, IkaTask,
     custodyVars
<1>2. CASE t.name = "register"
  BY <1>2, RegisterBacks DEF Lands, CustodyTask, LendingTask, BtcTask, IkaTask,
     DemoTask, OtherTasks
<1>3. CASE t.name = "prove"
  <2>1. ProveCustody(t.v) /\ t.v \in Vaults
    BY <1>3 DEF Lands, CustodyTask, LendingTask, BtcTask, IkaTask, DemoTask,
       OtherTasks
  <2>2. /\ approved' = approved \cup {t.v} /\ risk' = risk
        /\ \A u \in Vaults \ {t.v} : vault'[u] = vault[u]
    BY <2>1 DEF ProveCustody, VerifyCustodyProof, AccountsTyped
  <2> QED
    BY <2>1, <2>2 DEF BacksNew
<1>4. CASE t.name \in {"deposit", "attack"}
  <2>1. /\ DepositCollateral(t.v, Visitor, t.amount) /\ t.v \in Vaults
        /\ approved' = approved
    BY <1>4 DEF Lands, CustodyTask, LendingTask, BtcTask, IkaTask, DemoTask,
       OtherTasks
  <2>2. /\ vault' = [vault EXCEPT ![t.v].deposited_amount = @ + t.amount]
        /\ risk' = risk
    BY <2>1 DEF DepositCollateral
  <2>3. \A u \in Vaults : vault'[u].proof_status = vault[u].proof_status
    BY <2>2 DEF AccountsTyped, VaultAccount
  <2>4. \A u \in Vaults : vault'[u].frozen = vault[u].frozen
    BY <2>2 DEF AccountsTyped, VaultAccount
  <2> QED
    BY <2>1, <2>2, <2>3, <2>4 DEF BacksNew
<1>5. CASE t.name = "set_up_risk"
  <2>1. SetUpRisk(t.v) /\ t.v \in Vaults /\ approved' = approved
    BY <1>5 DEF Lands, CustodyTask, LendingTask, BtcTask, IkaTask, DemoTask,
       OtherTasks
  <2>2. /\ vault' = vault /\ vault[t.v].live
        /\ risk'[t.v].last_check_result
        /\ \A u \in Vaults \ {t.v} : risk'[u] = risk[u]
    BY <2>1 DEF SetUpRisk, AccountsTyped
  <2> QED
    BY <2>1, <2>2 DEF BacksNew
<1>6. CASE t.name = "check"
  <2>1. /\ TriggerRiskCheck(t.v, Visitor, FALSE) /\ t.v \in Vaults
        /\ approved' = approved
    BY <1>6 DEF Lands, CustodyTask, LendingTask, BtcTask, IkaTask, DemoTask,
       OtherTasks
  <2> QED
    BY <2>1, CheckBacks
<1>7. CASE t.name \in Experiments \cup {"none"}
  BY <1>7, QuietBacks DEF Experiments, Lands, CustodyTask, LendingTask, BtcTask,
     IkaTask, lendGuardVars, vars, custodyVars
<1> QED
  BY <1>1, <1>2, <1>3, <1>4, <1>5, <1>6, <1>7 DEF DemoTask, OtherTasks,
     VaultTasks

LEMMA StrangersBack ==
    ASSUME WebIInv, open = "demo", StrangerStep, approved' = approved
    PROVE  BacksNew
<1>1. CASE TriggerRiskCheck(Theirs, Stranger, FALSE)
  BY <1>1, CheckBacks, DemoFacts, WebAssumption
<1>2. CASE UNCHANGED custodyVars
  BY <1>2, QuietBacks DEF custodyVars
<1> QED
  BY <1>1, <1>2 DEF StrangerStep

LEMMA DemoStepBacks ==
    ASSUME WebIInv, open = "demo", DemoStep PROVE BacksNew
<1>1. CASE UNCHANGED chainVars
  BY <1>1, QuietBacks DEF chainVars, lendGuardVars, vars, custodyVars
<1>2. ASSUME NEW c \in CallIds, Executes(c) PROVE BacksNew
  <2>1. PICK t : t = calls[c].task
    OBVIOUS
  <2>2. CASE Lands(t)
    BY <2>1, <2>2, TaskTyped, DemoFacts, LandingBacks
  <2> QED
    BY <1>1, <1>2, <2>1, <2>2 DEF Executes
<1>3. ASSUME NEW c \in CallIds, CallStep(c) PROVE BacksNew
  BY <1>1, <1>2, <1>3 DEF CallStep, DemoReturns, DemoThrows, Throws,
     PostUnanswered, FallsBack, UnderWay, Simulates, Posts, Drops
<1> QED
  BY <1>1, <1>3 DEF DemoStep, Click, HonestClick, AttackerClick,
     ClickExperiment, Starts, GivesUp, StartsOver, Reset

LEMMA WebNextBacks ==
    ASSUME WebIInv, open = "demo", Backed, [WebNext]_web PROVE Backed'
<1>1. CASE UNCHANGED <<vault, risk, approved>>
  BY <1>1, QuietBacks, WebNextKeeps, BackedStays
<1>2. BacksNew \/ UNCHANGED <<vault, risk, approved>>
  BY DemoStepBacks, StrangersBack DEF WebNext, web, Tick, chainVars,
     lendGuardVars, vars, custodyVars
<1> QED
  BY <1>1, <1>2, WebNextKeeps, BackedStays

LEMMA WebInitBacked == ASSUME WebInit, open = "demo" PROVE Backed
<1>1. CASE DemoStart
  BY <1>1 DEF DemoStart, ProtocolInit, CustodyInit, NoProtocol, NoVault, NoRisk,
     PENDING, VERIFIED, Backed
<1>2. CASE SharedStart
  <2>1. Theirs \in Vaults
    BY WebAssumption
  <2>2. ASSUME NEW v \in Vaults
        PROVE  /\ vault[v].proof_status # VERIFIED
               /\ risk[v].live => v = Theirs
               /\ v = Theirs => /\ vault[v].live /\ vault[v].frozen
                                /\ risk[v].live /\ ~risk[v].last_check_result
    BY <1>2 DEF SharedStart, NoVault, NoRisk, Checked, PENDING, VERIFIED
  <2> QED
    BY <2>1, <2>2 DEF Backed
<1> QED
  BY <1>1, <1>2 DEF WebInit, LendStart, BtcStart

LEMMA YesIsBacked ==
    ASSUME GateInformed, open = "demo" => Backed, NEW v \in Vaults,
           GateAllows(v)
    PROVE  /\ v \in approved
           /\ risk[v].live => risk[v].last_check_result
<1>1. Backed
  BY DEF GateInformed, GateAllows
<1>2. ~vault[v].frozen /\ vault[v].proof_status = VERIFIED
  BY GateReadsRight DEF GateAllows, Accepts, VaultRead
<1> QED
  BY <1>1, <1>2 DEF Backed

\* Whatever the page, strangers and the clock do between the two reads of the
\* gate: a vault it accepts has an approval of its dWallet and no failed risk
\* check.
THEOREM GateBacksEveryYes == WebSpec => GateBacksItsYes
<1> DEFINE Stands == open = "demo" => Backed
<1>1. WebInit => GateInformed /\ Stands
  BY WebInitBacked DEF WebInit, GateInformed
<1>2. WebIInv /\ GateInformed /\ Stands /\ [WebNext]_web
        => GateInformed' /\ Stands'
  <2> SUFFICES ASSUME WebIInv, GateInformed, Stands, [WebNext]_web
               PROVE  GateInformed' /\ Stands'
    OBVIOUS
  <2>1. open' = open
    BY DEF WebNext, web
  <2> QED
    BY <2>1, WebNextInforms, WebNextBacks
<1>3. GateInformed /\ Stands /\ [WebNext]_web =>
        [\A v \in Vaults :
           GateAllows(v) =>
             /\ v \in approved
             /\ risk[v].live => risk[v].last_check_result
        ]_<<CustodyTouched, approved, gate>>
  BY YesIsBacked
<1> HIDE DEF Stands
<1> QED
  BY <1>1, <1>2, <1>3, WebInvariant, PTL DEF WebSpec, GateBacksItsYes

----------------------------------------------------------------------------
(* What the clients ask for.  Both build an instruction as the program     *)
(* declares it, account for account.                                       *)

\* The web application builds the custody instructions as they are declared,
LEMMA WebBuildsCustody ==
    /\ Web!BuildInitializeProtocolIx = Program!initialize_protocol
    /\ Web!BuildUnfreezeProtocolStateIx = Program!unfreeze_protocol_state
    /\ Web!BuildRegisterVaultIx = Program!register_vault
    /\ Web!BuildDemoCreateMessageApprovalIx
         = Program!demo_create_message_approval
    /\ Web!BuildVerifyCustodyProofIx = Program!verify_custody_proof
    /\ Web!BuildDepositCollateralIx = Program!deposit_collateral
    /\ Web!BuildInitializeRiskStateIx = Program!initialize_risk_state
    /\ Web!BuildUpdateBackingStateIx = Program!update_backing_state
    /\ Web!BuildDemoCreateCiphertextIx = Program!demo_create_ciphertext
    /\ Web!BuildTriggerRiskCheckIx = Program!trigger_risk_check
    /\ Web!BuildApproveCustodySignatureIx = Program!approve_custody_signature
  BY Zenon DEF Web!BuildInitializeProtocolIx, Program!initialize_protocol,
     Program!InitializeProtocolAccounts, Web!BuildUnfreezeProtocolStateIx,
     Program!unfreeze_protocol_state, Program!UnfreezeProtocolStateAccounts,
     Web!BuildRegisterVaultIx, Program!register_vault,
     Program!RegisterVaultAccounts, Web!BuildDemoCreateMessageApprovalIx,
     Program!demo_create_message_approval,
     Program!DemoCreateMessageApprovalAccounts, Web!BuildVerifyCustodyProofIx,
     Program!verify_custody_proof, Program!VerifyCustodyProofAccounts,
     Web!BuildDepositCollateralIx, Program!deposit_collateral,
     Program!DepositCollateralAccounts, Web!BuildInitializeRiskStateIx,
     Program!initialize_risk_state, Program!InitializeRiskStateAccounts,
     Web!BuildUpdateBackingStateIx, Program!update_backing_state,
     Program!UpdateBackingStateAccounts, Web!BuildDemoCreateCiphertextIx,
     Program!demo_create_ciphertext, Program!DemoCreateCiphertextAccounts,
     Web!BuildTriggerRiskCheckIx, Program!trigger_risk_check,
     Program!TriggerRiskCheckAccounts, Web!BuildApproveCustodySignatureIx,
     Program!approve_custody_signature,
     Program!ApproveCustodySignatureAccounts, Web!Instruction, Web!Meta,
     Web!R, Web!W, Web!S, Web!WS, Program!Instruction, Program!Meta,
     Program!R, Program!W, Program!S, Program!WS

\* and the lending ones,
LEMMA WebBuildsLending ==
    /\ Web!BuildCreateAssociatedTokenAccountIx = Program!create_idempotent
    /\ Web!BuildBorrowAgainstCollateralIx = Program!borrow_against_collateral
    /\ Web!BuildRepayBorrowIx = Program!repay_borrow
    /\ Web!BuildLiquidatePositionIx = Program!liquidate_position
    /\ Web!BuildUpdateAdminPriceIx = Program!update_admin_price
    /\ Web!BuildRegisterBtcVaultIx = Program!register_btc_vault
    /\ Web!BuildVerifyBtcCustodyProofIx = Program!verify_btc_custody_proof
    /\ Web!BuildBorrowAgainstBtcCollateralIx
         = Program!borrow_against_btc_collateral
    /\ Web!BuildRepayBtcBorrowIx = Program!repay_btc_borrow
    /\ Web!BuildAttestBtcBalanceIx = Program!attest_btc_balance
  BY Zenon DEF Web!BuildCreateAssociatedTokenAccountIx,
     Program!create_idempotent, Web!BuildBorrowAgainstCollateralIx,
     Program!borrow_against_collateral,
     Program!BorrowAgainstCollateralAccounts, Web!BuildRepayBorrowIx,
     Program!repay_borrow, Program!RepayBorrowAccounts,
     Web!BuildLiquidatePositionIx, Program!liquidate_position,
     Program!LiquidatePositionAccounts, Web!BuildUpdateAdminPriceIx,
     Program!update_admin_price, Program!UpdateAdminPriceAccounts,
     Web!BuildRegisterBtcVaultIx, Program!register_btc_vault,
     Program!RegisterBtcVaultAccounts, Web!BuildVerifyBtcCustodyProofIx,
     Program!verify_btc_custody_proof, Program!VerifyBtcCustodyProofAccounts,
     Web!BuildBorrowAgainstBtcCollateralIx,
     Program!borrow_against_btc_collateral,
     Program!BorrowAgainstBtcCollateralAccounts, Web!BuildRepayBtcBorrowIx,
     Program!repay_btc_borrow, Program!RepayBtcBorrowAccounts,
     Web!BuildAttestBtcBalanceIx, Program!attest_btc_balance,
     Program!AttestBtcBalanceAccounts, Web!Instruction, Web!Meta, Web!R,
     Web!W, Web!S, Web!WS, Program!Instruction, Program!Meta, Program!R,
     Program!W, Program!S, Program!WS

\* which the SDK builds as well.
LEMMA SdkBuildsLending ==
    /\ Sdk!BuildCreateAssociatedTokenAccountIx = Program!create_idempotent
    /\ Sdk!BuildBorrowAgainstCollateralIx = Program!borrow_against_collateral
    /\ Sdk!BuildRepayBorrowIx = Program!repay_borrow
    /\ Sdk!BuildLiquidatePositionIx = Program!liquidate_position
    /\ Sdk!BuildUpdateAdminPriceIx = Program!update_admin_price
    /\ Sdk!BuildRegisterBtcVaultIx = Program!register_btc_vault
    /\ Sdk!BuildVerifyBtcCustodyProofIx = Program!verify_btc_custody_proof
    /\ Sdk!BuildBorrowAgainstBtcCollateralIx
         = Program!borrow_against_btc_collateral
    /\ Sdk!BuildRepayBtcBorrowIx = Program!repay_btc_borrow
    /\ Sdk!BuildAttestBtcBalanceIx = Program!attest_btc_balance
  BY Zenon DEF Sdk!BuildCreateAssociatedTokenAccountIx,
     Program!create_idempotent, Sdk!BuildBorrowAgainstCollateralIx,
     Program!borrow_against_collateral,
     Program!BorrowAgainstCollateralAccounts, Sdk!BuildRepayBorrowIx,
     Program!repay_borrow, Program!RepayBorrowAccounts,
     Sdk!BuildLiquidatePositionIx, Program!liquidate_position,
     Program!LiquidatePositionAccounts, Sdk!BuildUpdateAdminPriceIx,
     Program!update_admin_price, Program!UpdateAdminPriceAccounts,
     Sdk!BuildRegisterBtcVaultIx, Program!register_btc_vault,
     Program!RegisterBtcVaultAccounts, Sdk!BuildVerifyBtcCustodyProofIx,
     Program!verify_btc_custody_proof, Program!VerifyBtcCustodyProofAccounts,
     Sdk!BuildBorrowAgainstBtcCollateralIx,
     Program!borrow_against_btc_collateral,
     Program!BorrowAgainstBtcCollateralAccounts, Sdk!BuildRepayBtcBorrowIx,
     Program!repay_btc_borrow, Program!RepayBtcBorrowAccounts,
     Sdk!BuildAttestBtcBalanceIx, Program!attest_btc_balance,
     Program!AttestBtcBalanceAccounts, Sdk!Instruction, Sdk!Meta, Sdk!R,
     Sdk!W, Sdk!S, Sdk!WS, Program!Instruction, Program!Meta, Program!R,
     Program!W, Program!S, Program!WS

\* An instruction built as it is declared reaches the program as it was meant.
LEMMA FitsItself == ASSUME NEW request PROVE Program!Fits(request, request)
  BY DEF Program!Fits

\* The accounts whose tokens and books a loan of either kind changes.
LoanRoles == {"lending_pool", "borrow_position", "pool_token_vault",
              "signer_tokens"}

BtcLoanRoles == {"lending_pool", "btc_borrow_position", "pool_token_vault",
                 "signer_tokens"}

\* What the custody instructions declare as writable.
LEMMA CustodyPasses ==
    /\ {"protocol_state"}
         \subseteq Program!Writable(Program!initialize_protocol)
    /\ {"protocol_state"}
         \subseteq Program!Writable(Program!unfreeze_protocol_state)
    /\ {"vault", "protocol_state"}
         \subseteq Program!Writable(Program!register_vault)
    /\ {"message_approval"}
         \subseteq Program!Writable(Program!demo_create_message_approval)
    /\ {"vault"} \subseteq Program!Writable(Program!verify_custody_proof)
    /\ {"vault", "protocol_state"}
         \subseteq Program!Writable(Program!deposit_collateral)
    /\ {"risk_state"} \subseteq Program!Writable(Program!initialize_risk_state)
    /\ {"vault", "risk_state", "protocol_state"}
         \subseteq Program!Writable(Program!trigger_risk_check)
<1> USE DEF Program!Writable, Program!Instruction, Program!Meta, Program!R,
       Program!W, Program!S, Program!WS, LoanRoles, BtcLoanRoles
<1>1. {"protocol_state"} \subseteq Program!Writable(Program!initialize_protocol)
  BY DEF Program!initialize_protocol, Program!InitializeProtocolAccounts
<1>2. {"protocol_state"}
       \subseteq Program!Writable(Program!unfreeze_protocol_state)
  BY DEF Program!unfreeze_protocol_state, Program!UnfreezeProtocolStateAccounts
<1>3. {"vault", "protocol_state"}
       \subseteq Program!Writable(Program!register_vault)
  BY DEF Program!register_vault, Program!RegisterVaultAccounts
<1>4. {"message_approval"}
       \subseteq Program!Writable(Program!demo_create_message_approval)
  BY DEF Program!demo_create_message_approval,
     Program!DemoCreateMessageApprovalAccounts
<1>5. {"vault"} \subseteq Program!Writable(Program!verify_custody_proof)
  BY DEF Program!verify_custody_proof, Program!VerifyCustodyProofAccounts
<1>6. {"vault", "protocol_state"}
       \subseteq Program!Writable(Program!deposit_collateral)
  BY DEF Program!deposit_collateral, Program!DepositCollateralAccounts
<1>7. {"risk_state"} \subseteq Program!Writable(Program!initialize_risk_state)
  BY DEF Program!initialize_risk_state, Program!InitializeRiskStateAccounts
<1>8. {"vault", "risk_state", "protocol_state"}
       \subseteq Program!Writable(Program!trigger_risk_check)
  BY DEF Program!trigger_risk_check, Program!TriggerRiskCheckAccounts
<1> HIDE DEF Program!Writable
<1> QED
  BY <1>1, <1>2, <1>3, <1>4, <1>5, <1>6, <1>7, <1>8

\* And those of the two lending halves.
LEMMA LendingPasses ==
    /\ {"price_feed"} \subseteq Program!Writable(Program!update_admin_price)
    /\ LoanRoles \subseteq Program!Writable(Program!borrow_against_collateral)
    /\ LoanRoles \subseteq Program!Writable(Program!repay_borrow)
    /\ LoanRoles \cup {"vault"}
         \subseteq Program!Writable(Program!liquidate_position)
    /\ {"btc_vault", "btc_attestation", "protocol_state"}
         \subseteq Program!Writable(Program!register_btc_vault)
    /\ {"btc_vault"}
         \subseteq Program!Writable(Program!verify_btc_custody_proof)
    /\ BtcLoanRoles
         \subseteq Program!Writable(Program!borrow_against_btc_collateral)
    /\ BtcLoanRoles \subseteq Program!Writable(Program!repay_btc_borrow)
    /\ {"btc_attestation"}
         \subseteq Program!Writable(Program!attest_btc_balance)
<1> USE DEF Program!Writable, Program!Instruction, Program!Meta, Program!R,
       Program!W, Program!S, Program!WS, LoanRoles, BtcLoanRoles
<1>1. {"price_feed"} \subseteq Program!Writable(Program!update_admin_price)
  BY DEF Program!update_admin_price, Program!UpdateAdminPriceAccounts
<1>2. LoanRoles \subseteq Program!Writable(Program!borrow_against_collateral)
  BY DEF Program!borrow_against_collateral,
     Program!BorrowAgainstCollateralAccounts
<1>3. LoanRoles \subseteq Program!Writable(Program!repay_borrow)
  BY DEF Program!repay_borrow, Program!RepayBorrowAccounts
<1>4. LoanRoles \cup {"vault"}
       \subseteq Program!Writable(Program!liquidate_position)
  BY DEF Program!liquidate_position, Program!LiquidatePositionAccounts
<1>5. {"btc_vault", "btc_attestation", "protocol_state"}
       \subseteq Program!Writable(Program!register_btc_vault)
  BY DEF Program!register_btc_vault, Program!RegisterBtcVaultAccounts
<1>6. {"btc_vault"} \subseteq Program!Writable(Program!verify_btc_custody_proof)
  BY DEF Program!verify_btc_custody_proof, Program!VerifyBtcCustodyProofAccounts
<1>7. BtcLoanRoles
       \subseteq Program!Writable(Program!borrow_against_btc_collateral)
  BY DEF Program!borrow_against_btc_collateral,
     Program!BorrowAgainstBtcCollateralAccounts
<1>8. BtcLoanRoles \subseteq Program!Writable(Program!repay_btc_borrow)
  BY DEF Program!repay_btc_borrow, Program!RepayBtcBorrowAccounts
<1>9. {"btc_attestation"} \subseteq Program!Writable(Program!attest_btc_balance)
  BY DEF Program!attest_btc_balance, Program!AttestBtcBalanceAccounts
<1> HIDE DEF Program!Writable
<1> QED
  BY <1>1, <1>2, <1>3, <1>4, <1>5, <1>6, <1>7, <1>8, <1>9

\* The accounts a task's transaction changes.
Writes(name) ==
    CASE name \in {"initialize", "unfreeze"} -> {"protocol_state"}
      [] name \in {"register", "deposit", "attack"} ->
           {"vault", "protocol_state"}
      [] name = "prove" -> {"vault", "message_approval"}
      [] name = "set_up_risk" -> {"risk_state"}
      [] name = "check" -> {"vault", "risk_state", "protocol_state"}
      [] name \in {"borrow", "repay"} -> LoanRoles
      [] name = "liquidate" -> LoanRoles \cup {"vault"}
      [] name = "price" -> {"price_feed"}
      [] name = "btc_register" ->
           {"btc_vault", "btc_attestation", "protocol_state",
            "message_approval"}
      [] name = "btc_prove" -> {"btc_vault", "message_approval"}
      [] name = "btc_verify" -> {"btc_vault"}
      [] name \in {"btc_borrow", "btc_repay"} -> BtcLoanRoles
      [] name = "btc_attest" -> {"btc_attestation"}
      [] OTHER -> {}

\* A role is counted as changed for what changed of it.
LEMMA ChangedMeans ==
    /\ "protocol_state" \in Changed => protocol' # protocol
    /\ "vault" \in Changed => vault' # vault \/ lamports' # lamports
    /\ "risk_state" \in Changed => risk' # risk
    /\ "lending_pool" \in Changed => pool' # pool
    /\ "price_feed" \in Changed => feed' # feed
    /\ "borrow_position" \in Changed
         => positions' # positions \/ principal' # principal
    /\ "btc_borrow_position" \in Changed
         => btcPositions' # btcPositions \/ btcPrincipal' # btcPrincipal
    /\ "pool_token_vault" \in Changed => tokens' # tokens
    /\ "signer_tokens" \in Changed => tokens' # tokens
    /\ "message_approval" \in Changed
         => approved' # approved \/ approvals' # approvals
    /\ "btc_vault" \in Changed => btcVault' # btcVault
    /\ "btc_attestation" \in Changed => attestation' # attestation
    /\ Changed \subseteq
         {"protocol_state", "vault", "risk_state", "lending_pool",
          "price_feed", "borrow_position", "btc_borrow_position",
          "pool_token_vault", "signer_tokens", "message_approval",
          "btc_vault", "btc_attestation"}
  BY DEF Changed

\* A task that lands changes the accounts listed for it, and no other.
LEMMA CustodyTaskWrites ==
    ASSUME NEW t, CustodyTask(t), UNCHANGED <<poolVars, solVars, btcVars>>
    PROVE  Changed \subseteq Writes(t.name)
<1> USE DEF poolVars, solVars, btcVars, custodyVars
<1>1. CASE t.name \in {"initialize", "unfreeze"}
  BY <1>1, ChangedMeans DEF CustodyTask, InitializeProtocol,
     UnfreezeProtocolState, Writes
<1>2. CASE t.name = "prove"
  BY <1>2, ChangedMeans DEF CustodyTask, ProveCustody, VerifyCustodyProof,
     Writes
<1>3. CASE t.name = "register"
  BY <1>3, ChangedMeans DEF CustodyTask, RegisterVault, Writes
<1>4. CASE t.name \in {"deposit", "attack"}
  BY <1>4, ChangedMeans DEF CustodyTask, DepositCollateral, Writes
<1>5. CASE t.name = "set_up_risk"
  BY <1>5, ChangedMeans DEF CustodyTask, SetUpRisk, Writes
<1>6. CASE t.name = "check"
  BY <1>6, ChangedMeans DEF CustodyTask, TriggerRiskCheck, Writes
<1> QED
  BY <1>1, <1>2, <1>3, <1>4, <1>5, <1>6 DEF CustodyTask

LEMMA LendingTaskWrites ==
    ASSUME NEW t, LendingTask(t), UNCHANGED <<btcVars, approved>>
    PROVE  Changed \subseteq Writes(t.name)
<1> USE DEF btcVars, custodyVars
<1>1. CASE t.name = "borrow"
  BY <1>1, ChangedMeans DEF LendingTask, BorrowAgainstCollateral, Writes,
     LoanRoles
<1>2. CASE t.name = "repay"
  BY <1>2, ChangedMeans DEF LendingTask, RepayBorrow, Writes, LoanRoles
<1>3. CASE t.name = "liquidate"
  BY <1>3, ChangedMeans DEF LendingTask, LiquidatePosition, Writes, LoanRoles
<1> QED
  BY <1>1, <1>2, <1>3 DEF LendingTask

LEMMA BtcTaskWrites ==
    ASSUME NEW t, BtcTask(t), UNCHANGED <<custodyVars, solVars, approved>>
    PROVE  Changed \subseteq Writes(t.name)
<1> USE DEF custodyVars, solVars, poolVars
<1>1. CASE t.name = "btc_register"
  BY <1>1, ChangedMeans DEF BtcTask, RegisterProvenBtcVault, Writes
<1>2. CASE t.name = "btc_prove"
  BY <1>2, ChangedMeans DEF BtcTask, ProveBtcCustody, Writes
<1>3. CASE t.name = "btc_verify"
  BY <1>3, ChangedMeans DEF BtcTask, VerifyBtcCustodyProof, Writes
<1>4. CASE t.name = "btc_borrow"
  BY <1>4, ChangedMeans DEF BtcTask, BorrowAgainstBtcCollateral, Writes,
     BtcLoanRoles
<1>5. CASE t.name = "btc_repay"
  BY <1>5, ChangedMeans DEF BtcTask, RepayBtcBorrow, Writes, BtcLoanRoles
<1>6. CASE t.name = "btc_attest"
  BY <1>6, ChangedMeans DEF BtcTask, AttestBtcBalance, Writes
<1> QED
  BY <1>1, <1>2, <1>3, <1>4, <1>5, <1>6 DEF BtcTask

LEMMA LandsWrites ==
    ASSUME NEW t, Lands(t) PROVE Changed \subseteq Writes(t.name)
<1>1. CASE CustodyTask(t) /\ UNCHANGED <<poolVars, solVars, btcVars>>
  BY <1>1, CustodyTaskWrites
<1>2. CASE LendingTask(t) /\ UNCHANGED <<btcVars, approved>>
  BY <1>2, LendingTaskWrites
<1>3. CASE /\ t.name = "price"
           /\ UpdateAdminPrice(Visitor, BTC, t.amount)
           /\ UNCHANGED <<custodyVars, solVars, btcVars, approved>>
  BY <1>3, ChangedMeans
     DEF UpdateAdminPrice, Writes, custodyVars, solVars, btcVars
<1>4. CASE BtcTask(t) /\ UNCHANGED <<custodyVars, solVars, approved>>
  BY <1>4, BtcTaskWrites
<1>5. CASE UNCHANGED <<lendGuardVars, approved>>
  BY <1>5, ChangedMeans DEF lendGuardVars, vars, custodyVars, poolVars,
     solVars, btcVars
<1> QED
  BY <1>1, <1>2, <1>3, <1>4, <1>5 DEF Lands

\* The accounts the instructions of a transaction pass as writable.
Asked(requests) == UNION {Program!Writable(r[1]) : r \in requests}

\* What a page sends as its own, the program declares; and what a task changes
\* it has asked for.
LEMMA WebTaskServes ==
    ASSUME NEW name \in TaskNames \ {"none"}
    PROVE  /\ \A r \in WebRequests(name) : r[1] = r[2]
           /\ Writes(name) \subseteq Asked(WebRequests(name))
<1> USE DEF WebRequests, Writes, Asked
<1>1. CASE name = "initialize"
  BY <1>1, WebBuildsCustody, CustodyPasses
<1>2. CASE name = "unfreeze"
  BY <1>2, WebBuildsCustody, CustodyPasses
<1>3. CASE name = "register"
  BY <1>3, WebBuildsCustody, CustodyPasses
<1>4. CASE name = "prove"
  BY <1>4, WebBuildsCustody, CustodyPasses
<1>5. CASE name = "deposit"
  BY <1>5, WebBuildsCustody, CustodyPasses
<1>6. CASE name = "attack"
  BY <1>6, WebBuildsCustody, CustodyPasses
<1>7. CASE name = "set_up_risk"
  BY <1>7, WebBuildsCustody, CustodyPasses
<1>8. CASE name = "check"
  BY <1>8, WebBuildsCustody, CustodyPasses
<1>9. CASE name = "borrow"
  BY <1>9, WebBuildsLending, LendingPasses
<1>10. CASE name = "repay"
  BY <1>10, WebBuildsLending, LendingPasses
<1>11. CASE name = "liquidate"
  BY <1>11, WebBuildsLending, LendingPasses
<1>12. CASE name = "price"
  BY <1>12, WebBuildsLending, LendingPasses
<1>13. CASE name = "ika_approve"
  BY <1>13, WebBuildsCustody
<1>14. CASE name = "ika_fallback"
  BY <1>14, WebBuildsCustody
<1>15. CASE name = "btc_register"
  BY <1>15, WebBuildsCustody, WebBuildsLending, CustodyPasses,
     LendingPasses
<1>16. CASE name = "btc_prove"
  BY <1>16, WebBuildsCustody, WebBuildsLending, CustodyPasses,
     LendingPasses
<1>17. CASE name = "btc_verify"
  BY <1>17, WebBuildsCustody, WebBuildsLending, CustodyPasses,
     LendingPasses
<1>18. CASE name = "btc_borrow"
  BY <1>18, WebBuildsLending, LendingPasses
<1>19. CASE name = "btc_repay"
  BY <1>19, WebBuildsLending, LendingPasses
<1>20. CASE name = "btc_attest"
  BY <1>20, WebBuildsLending, LendingPasses
<1> HIDE DEF WebRequests, Writes, Asked
<1> QED
  BY <1>1, <1>2, <1>3, <1>4, <1>5, <1>6, <1>7, <1>8, <1>9, <1>10, <1>11,
     <1>12, <1>13, <1>14, <1>15, <1>16, <1>17, <1>18, <1>19, <1>20 DEF
     TaskNames

\* The SDK asks for the same.
LEMMA SdkAsksAlike ==
    ASSUME NEW name \in TaskNames \ {"none"}
    PROVE  SdkRequests(name) = WebRequests(name)
<1> USE SdkBuildsLending, WebBuildsLending DEF SdkRequests
<1>1. CASE name \in {"borrow", "repay", "liquidate", "price"}
  BY <1>1 DEF WebRequests
<1>2. CASE name \in {"btc_register", "btc_verify", "btc_borrow", "btc_repay",
                     "btc_attest"}
  BY <1>2 DEF WebRequests
<1>3. CASE name \notin {"borrow", "repay", "liquidate", "price",
                        "btc_register", "btc_verify", "btc_borrow",
                        "btc_repay", "btc_attest"}
  BY <1>3
<1> QED
  BY <1>1, <1>2, <1>3

----------------------------------------------------------------------------
(* What the clients have copied by hand *)

\* Both clients derive an account's address from the program's own seeds, and
\* the web application cuts a dWallet's key into seeds that fit.
LEMMA SameAddresses == AddressesAgree
<1>1. Program!Derives(Web!Pdas, Program!Pdas)
  BY DEF Program!Derives, Web!Pdas, Program!Pdas,
     Web!DeriveProtocolStatePda, Web!DeriveVaultPda, Web!DeriveRiskStatePda,
     Web!DeriveLendingPoolPda, Web!DeriveAdminPriceFeedPda,
     Web!DeriveBorrowPositionPda, Web!DeriveBtcVaultPda,
     Web!DeriveBtcAttestationPda, Web!DeriveBtcBorrowPositionPda,
     Web!DeriveDemoMessageApprovalPda, Web!DeriveDemoCiphertextPda,
     Web!DeriveIkaCpiAuthority, Web!DeriveDwalletCoordinatorPda,
     Web!DeriveMessageApprovalPda, Web!DeriveAssociatedTokenAddress,
     Program!ProtocolStatePda, Program!VaultPda, Program!RiskStatePda,
     Program!LendingPoolPda, Program!AdminPriceFeedPda,
     Program!BorrowPositionPda, Program!BtcVaultPda,
     Program!BtcAttestationPda, Program!BtcBorrowPositionPda,
     Program!DemoMessageApprovalPda, Program!DemoCiphertextPda,
     Program!CpiAuthorityPda, Program!DWalletCoordinatorPda,
     Program!IkaMessageApprovalPda, Program!AssociatedTokenAddress,
     Web!Text, Web!Key, Program!Text, Program!Key
<1>2. Program!Derives(Sdk!Pdas, Program!Pdas)
  <2>1. Sdk!Pdas =
          [protocol_state |-> Program!ProtocolStatePda,
           vault |-> Program!VaultPda, risk_state |-> Program!RiskStatePda,
           lending_pool |-> Program!LendingPoolPda,
           price_feed |-> Program!AdminPriceFeedPda,
           borrow_position |-> Program!BorrowPositionPda,
           btc_vault |-> Program!BtcVaultPda,
           btc_attestation |-> Program!BtcAttestationPda,
           btc_borrow_position |-> Program!BtcBorrowPositionPda,
           cpi_authority |-> Program!CpiAuthorityPda,
           signer_tokens |-> Program!AssociatedTokenAddress]
    BY Zenon DEF Sdk!Pdas, Sdk!DeriveProtocolStatePda, Sdk!DeriveVaultPda,
       Sdk!DeriveRiskStatePda, Sdk!DeriveLendingPoolPda,
       Sdk!DeriveAdminPriceFeedPda, Sdk!DeriveBorrowPositionPda,
       Sdk!DeriveBtcVaultPda, Sdk!DeriveBtcAttestationPda,
       Sdk!DeriveBtcBorrowPositionPda, Sdk!DeriveIkaCpiAuthority,
       Sdk!DeriveAssociatedTokenAddress, Program!ProtocolStatePda,
       Program!VaultPda, Program!RiskStatePda, Program!LendingPoolPda,
       Program!AdminPriceFeedPda, Program!BorrowPositionPda,
       Program!BtcVaultPda, Program!BtcAttestationPda,
       Program!BtcBorrowPositionPda, Program!CpiAuthorityPda,
       Program!AssociatedTokenAddress, Sdk!Text, Sdk!Key, Program!Text,
       Program!Key
  <2> QED
    BY <2>1 DEF Program!Derives, Program!Pdas
<1>3. ASSUME NEW length \in {32, 33}
      PROVE  Program!Covers(Web!DeriveDwalletPda(length), length + 1)
  <2>1. PICK pieces : pieces = Web!DeriveDwalletPda(length)
    OBVIOUS
  <2>2. pieces = [k \in 1..2 |->
          <<"piece", 32 * (k - 1), IF k = 1 THEN 32 ELSE length + 1>>]
    <3>1. ((1 + length) + 31) \div 32 = 2
      OBVIOUS
    <3>2. \A k \in 1..2 :
            (IF 32 * k < 1 + length THEN 32 * k ELSE 1 + length)
              = IF k = 1 THEN 32 ELSE length + 1
      OBVIOUS
    <3> QED
      BY <2>1, <3>1, <3>2 DEF Web!DeriveDwalletPda, Web!Piece
  <2>3. /\ DOMAIN pieces = 1..2 /\ Len(pieces) = 2
        /\ pieces[1] = <<"piece", 0, 32>>
        /\ pieces[2] = <<"piece", 32, length + 1>>
    BY <2>2
  <2>4. \A i \in DOMAIN pieces :
          /\ pieces[i][3] - pieces[i][2] \in 1..32
          /\ pieces[i][2] = IF i = 1 THEN 0 ELSE pieces[i - 1][3]
          /\ i = Len(pieces) => pieces[i][3] = length + 1
    BY <2>3
  <2> QED
    BY <2>1, <2>4 DEF Program!Covers, Program!MAX_SEED_LEN
<1> QED
  BY <1>1, <1>2, <1>3 DEF AddressesAgree

\* The demo page's table of errors is the beginning of the program's.
LEMMA ErrorsAreNamedRight == ErrorsNamedRight
<1>1. /\ DOMAIN Web!NamedErrors = 1..20
      /\ DOMAIN Program!LendGuardError = 1..48
  BY DEF Web!NamedErrors, Program!LendGuardError
<1>2. \A i \in 1..20 : Web!NamedErrors[i] = Program!LendGuardError[i]
  BY DEF Web!NamedErrors, Program!LendGuardError
<1>3. \A i \in 1..48 :
        (Program!CodeOf(i) - Web!FIRST_NAMED_ERROR) + 1 = i
  BY DEF Program!CodeOf, Program!ERROR_CODE_OFFSET, Web!FIRST_NAMED_ERROR
<1> QED
  BY <1>1, <1>2, <1>3 DEF ErrorsNamedRight, Web!ParseAnchorError

LEMMA ApprovalIsLayout == IsLayout(Program!DemoMessageApprovalLayout)
<1>1. DOMAIN Program!DemoMessageApprovalLayout = 1..4
  BY DEF Program!DemoMessageApprovalLayout
<1> QED
  BY <1>1 DEF IsLayout, Program!DemoMessageApprovalLayout

\* A layout, read by its own copy.
LEMMA LayoutReadsBack ==
    ASSUME NEW layout, IsLayout(layout) PROVE Program!ReadsBack(layout, layout)
  BY ReadsItselfBack, SameWire

\* Who reads an approval and who writes one agree with the program on it.
LEMMA ApprovalsAreReadBack == ApprovalsReadBack
<1>1. PICK layout : layout = Program!DemoMessageApprovalLayout
  OBVIOUS
<1>2. /\ Program!parse_demo = layout /\ Web!ReadMessageApproval = layout
      /\ Web!MockMessageApprovalData = layout
  BY <1>1 DEF Program!parse_demo, Web!ReadMessageApproval,
     Web!MockMessageApprovalData, Program!DemoMessageApprovalLayout
<1>3. Program!ReadsBack(layout, layout)
  BY <1>1, ApprovalIsLayout, LayoutReadsBack
<1> QED
  BY <1>1, <1>2, <1>3 DEF ApprovalsReadBack

\* The bytes of a loan's account, field by field.
LEMMA PositionBytes == Program!Bytes(Program!BorrowPositionLayout) = 177
<1>1. PICK layout : layout = Program!BorrowPositionLayout
  OBVIOUS
<1>2. IsLayout(layout) /\ DOMAIN layout = 1..10
  BY <1>1, PositionIsLayout DEF Program!BorrowPositionLayout
<1>3. /\ layout[1][2] = 8 /\ layout[2][2] = 32 /\ layout[3][2] = 32
      /\ layout[4][2] = 32 /\ layout[5][2] = 8 /\ layout[6][2] = 8
      /\ layout[7][2] = 8 /\ layout[8][2] = 16 /\ layout[9][2] = 32
      /\ layout[10][2] = 1
  BY <1>1 DEF Program!BorrowPositionLayout
<1>4. Wires!OffsetOf(layout, 1) = 0
  BY FirstOffset
<1>5. \A i \in 1..10 :
        Wires!OffsetOf(layout, i + 1)
          = Wires!OffsetOf(layout, i) + layout[i][2]
  BY <1>2, NextOffset
<1>6. Wires!OffsetOf(layout, 2) = 8 /\ Wires!OffsetOf(layout, 3) = 40
        /\ Wires!OffsetOf(layout, 4) = 72 /\ Wires!OffsetOf(layout, 5) = 104
  BY <1>3, <1>4, <1>5
<1>7. Wires!OffsetOf(layout, 6) = 112 /\ Wires!OffsetOf(layout, 7) = 120
        /\ Wires!OffsetOf(layout, 8) = 128 /\ Wires!OffsetOf(layout, 9) = 144
  BY <1>3, <1>5, <1>6
<1>8. Wires!OffsetOf(layout, 11) = 177
  BY <1>3, <1>5, <1>7
<1>9. Wires!Bytes(layout) = Wires!OffsetOf(layout, 10 + 1)
  BY <1>2, BytesAreLastOffset
<1> QED
  BY <1>1, <1>8, <1>9, SameWire

\* What a loan depends on, both clients read for what it is.
LEMMA LoansAreReadBack == LendingAccountsReadBack
<1>1. Program!ReadsBack(Program!LendingPoolLayout, Program!LendingPoolLayout)
  <2>1. PICK layout : layout = Program!LendingPoolLayout
    OBVIOUS
  <2> QED
    BY <2>1, PoolIsLayout, LayoutReadsBack
<1>2. Program!ReadsBack(Program!AdminPriceFeedLayout,
                        Program!AdminPriceFeedLayout)
  <2>1. PICK layout : layout = Program!AdminPriceFeedLayout
    OBVIOUS
  <2> QED
    BY <2>1, FeedIsLayout, LayoutReadsBack
<1>3. Program!ReadsBack(Program!BorrowPositionLayout,
                        Program!BorrowPositionLayout)
  <2>1. PICK layout : layout = Program!BorrowPositionLayout
    OBVIOUS
  <2> QED
    BY <2>1, PositionIsLayout, LayoutReadsBack
<1>4. /\ Web!ReadDefaultLendingPool = Program!LendingPoolAccount
      /\ Sdk!ReadLendingPool = Program!LendingPoolAccount
      /\ Web!ReadBtcPriceFeed = Program!AdminPriceFeedAccount
      /\ Sdk!ReadAdminPriceFeed = Program!AdminPriceFeedAccount
      /\ Web!ReadBorrowPosition = Program!BorrowPositionAccount
      /\ Sdk!ReadBorrowPosition = Program!BorrowPositionAccount
  BY Zenon DEF Web!ReadDefaultLendingPool, Sdk!ReadLendingPool,
     Program!LendingPoolAccount, Web!ReadBtcPriceFeed, Sdk!ReadAdminPriceFeed,
     Program!AdminPriceFeedAccount, Web!ReadBorrowPosition,
     Sdk!ReadBorrowPosition, Program!BorrowPositionAccount, Web!Account,
     Sdk!Account, Program!Account, Web!DeriveLendingPoolPda,
     Sdk!DeriveLendingPoolPda, Program!LendingPoolPda,
     Web!DeriveAdminPriceFeedPda, Sdk!DeriveAdminPriceFeedPda,
     Program!AdminPriceFeedPda, Web!DeriveBorrowPositionPda,
     Sdk!DeriveBorrowPositionPda, Program!BorrowPositionPda,
     Web!DecodeLendingPool, Sdk!DecodeLendingPool, Program!LendingPoolLayout,
     Web!DecodeAdminPriceFeed, Sdk!DecodeAdminPriceFeed,
     Program!AdminPriceFeedLayout, Web!DecodeBorrowPosition,
     Sdk!DecodeBorrowPosition, Program!BorrowPositionLayout, Web!Text,
     Web!Key, Sdk!Text, Sdk!Key, Program!Text, Program!Key
<1>5. /\ Program!Finds(Program!LendingPoolAccount, Program!LendingPoolAccount)
      /\ Program!Finds(Program!AdminPriceFeedAccount,
                       Program!AdminPriceFeedAccount)
      /\ Program!Finds(Program!BorrowPositionAccount,
                       Program!BorrowPositionAccount)
  BY <1>1, <1>2, <1>3 DEF Program!Finds, Program!LendingPoolAccount,
     Program!AdminPriceFeedAccount, Program!BorrowPositionAccount,
     Program!Account
<1>6. Sdk!BORROW_POSITION_LEN = 177
  BY DEF Sdk!BORROW_POSITION_LEN
<1> QED
  BY <1>4, <1>5, <1>6, PositionBytes DEF LendingAccountsReadBack

----------------------------------------------------------------------------
(* Handlers and what became of their transactions *)

\* Whoever has got anywhere has a task.
IsOrderly(call) ==
    StageFits(call) /\ (call.stage # "idle" => call.task.name # "none")

Orderly == \A c \in CallIds : IsOrderly(calls[c])

\* A transaction leaves the network by executing, or it is a mishap.
Resolved(c) ==
    \/ mishaps' # mishaps
    \/ Lands(calls[c].task)
    \/ UNCHANGED chainVars

\* One handler moves.
Moves(c, next) ==
    /\ calls' = [calls EXCEPT ![c] = next]
    /\ IsOrderly(next)
    /\ calls[c].sent = "flying" /\ next.sent # "flying" => Resolved(c)

OneMoves == \E c \in CallIds : \E next : Moves(c, next)

LEMMA MovesMeans ==
    ASSUME calls \in [CallIds -> Call], Orderly, OneMoves \/ calls' = calls
    PROVE  /\ Orderly'
           /\ \A c \in CallIds :
                calls[c].sent = "flying" /\ calls'[c].sent # "flying"
                  => Resolved(c)
<1>1. CASE calls' = calls
  BY <1>1 DEF Orderly
<1>2. CASE OneMoves
  <2>1. PICK c \in CallIds : \E next : Moves(c, next)
    BY <1>2 DEF OneMoves
  <2>2. PICK next : Moves(c, next)
    BY <2>1
  <2>3. calls'[c] = next /\ \A d \in CallIds \ {c} : calls'[d] = calls[d]
    BY <2>2 DEF Moves
  <2>4. \A d \in CallIds : IsOrderly(calls'[d])
    BY <2>2, <2>3 DEF Orderly, Moves
  <2> QED
    BY <2>2, <2>3, <2>4 DEF Orderly, Moves, IsOrderly, StageFits
<1> QED
  BY <1>1, <1>2

LEMMA StartMoves ==
    ASSUME NEW t, t.name # "none", Starts(t) PROVE OneMoves
<1>1. PICK c \in CallIds :
        /\ calls[c] = NoCall
        /\ calls' = [calls EXCEPT ![c] = [NoCall EXCEPT !.stage = "simulating",
                                                       !.task = t]]
  BY DEF Starts
<1>2. PICK next : next = [NoCall EXCEPT !.stage = "simulating", !.task = t]
  OBVIOUS
<1>3. next.stage = "simulating" /\ next.sent = "no" /\ next.task = t
  BY <1>2 DEF NoCall
<1>4. calls[c].sent = "no"
  BY <1>1 DEF NoCall
<1>5. Moves(c, next)
  BY <1>1, <1>2, <1>3, <1>4 DEF Moves, IsOrderly, StageFits
<1> QED
  BY <1>5 DEF OneMoves

LEMMA TaskMoves ==
    ASSUME NEW name, name # "none", NEW v, NEW amount,
           Starts(Task(name, v, amount))
    PROVE  OneMoves
<1>1. PICK t : t = Task(name, v, amount)
  OBVIOUS
<1> QED
  BY <1>1, StartMoves DEF Task

LEMMA NoCallIsOrderly == IsOrderly(NoCall) /\ NoCall.sent = "no"
  BY DEF IsOrderly, StageFits, NoCall

LEMMA EndMoves ==
    ASSUME calls \in [CallIds -> Call], Orderly, NEW c \in CallIds, Ended(c)
    PROVE  OneMoves
<1> USE DEF StageFits
<1>1. PICK call \in Call : call = calls[c]
  OBVIOUS
<1>2. PICK next : next = IF call.sent = "flying"
                         THEN [call EXCEPT !.stage = "gone"] ELSE NoCall
  OBVIOUS
<1>3. calls' = [calls EXCEPT ![c] = next]
  BY <1>1, <1>2 DEF Ended
<1>4. /\ IsOrderly(next)
      /\ call.sent = "flying" => next.sent = "flying"
  <2>1. CASE call.sent = "flying"
    <3>1. next = [call EXCEPT !.stage = "gone"]
      BY <1>2, <2>1
    <3>2. next.stage = "gone" /\ next.sent = call.sent /\ next.task = call.task
      BY <3>1 DEF Call
    <3> QED
      BY <1>1, <2>1, <3>2 DEF IsOrderly, Orderly, Call
  <2>2. CASE call.sent # "flying"
    BY <1>2, <2>2, NoCallIsOrderly
  <2> QED
    BY <2>1, <2>2
<1>5. Moves(c, next)
  BY <1>1, <1>3, <1>4 DEF Moves
<1> QED
  BY <1>5 DEF OneMoves

LEMMA ToMoves ==
    ASSUME calls \in [CallIds -> Call], Orderly, NEW c \in CallIds,
           calls[c].stage \in {"simulating", "signing"},
           NEW stage, NEW sent, To(c, stage, sent),
           \/ stage = "signing" /\ sent = "no"
           \/ stage \in {"confirming", "gone"} /\ sent = "flying"
    PROVE  OneMoves
<1> USE DEF StageFits
<1>1. PICK call \in Call : call = calls[c]
  OBVIOUS
<1>2. PICK next : next = [call EXCEPT !.stage = stage, !.sent = sent]
  OBVIOUS
<1>3. calls' = [calls EXCEPT ![c] = next]
  BY <1>1, <1>2 DEF To
<1>4. next.stage = stage /\ next.sent = sent /\ next.task = call.task
  BY <1>2 DEF Call
<1>5. call.task.name # "none" /\ call.sent = "no"
  BY <1>1 DEF Orderly, IsOrderly
<1>6. IsOrderly(next)
  BY <1>4, <1>5 DEF IsOrderly
<1>7. Moves(c, next)
  BY <1>1, <1>3, <1>5, <1>6 DEF Moves
<1> QED
  BY <1>7 DEF OneMoves

\* The answer to a transaction that has left the network.
LEMMA AnswerMoves ==
    ASSUME calls \in [CallIds -> Call], Orderly, NEW c \in CallIds,
           calls[c].sent = "flying", Resolved(c),
           NEW sent \in {"ok", "err", "dropped"},
           calls' = [calls EXCEPT ![c] =
             IF calls[c].stage = "gone" THEN NoCall
             ELSE [calls[c] EXCEPT !.sent = sent]]
    PROVE  OneMoves
<1> USE DEF StageFits
<1>1. PICK call \in Call : call = calls[c]
  OBVIOUS
<1>2. PICK next : next = IF call.stage = "gone" THEN NoCall
                         ELSE [call EXCEPT !.sent = sent]
  OBVIOUS
<1>3. calls' = [calls EXCEPT ![c] = next]
  BY <1>1, <1>2
<1>4. IsOrderly(next)
  <2>1. CASE call.stage = "gone"
    BY <1>2, <2>1, NoCallIsOrderly
  <2>2. CASE call.stage # "gone"
    <3>1. next = [call EXCEPT !.sent = sent]
      BY <1>2, <2>2
    <3>2. /\ next.stage = call.stage /\ next.sent = sent
          /\ next.task = call.task
      BY <3>1 DEF Call
    <3>3. IsOrderly(call) /\ call.sent = "flying"
      BY <1>1 DEF Orderly
    <3> QED
      BY <2>2, <3>2, <3>3 DEF IsOrderly
  <2> QED
    BY <2>1, <2>2
<1>5. Moves(c, next)
  BY <1>1, <1>3, <1>4 DEF Moves
<1> QED
  BY <1>5 DEF OneMoves

\* A handler that is not done with its page yet.
LEMMA FaresMoves ==
    ASSUME calls \in [CallIds -> Call], Orderly, mishaps \in Nat,
           NEW c \in CallIds, Fares(c)
    PROVE  OneMoves
<1>1. CASE Throws(c)
  BY <1>1, EndMoves DEF Throws
<1>2. CASE PostUnanswered(c)
  BY <1>2, ToMoves DEF PostUnanswered
<1>3. CASE Simulates(c)
  BY <1>3, ToMoves DEF Simulates
<1>4. CASE Posts(c)
  BY <1>4, ToMoves DEF Posts
<1>5. CASE Executes(c)
  <2>1. Resolved(c) /\ calls[c].sent = "flying"
    BY <1>5 DEF Executes, Resolved
  <2>2. PICK sent \in {"ok", "err"} :
          calls' = [calls EXCEPT ![c] =
            IF calls[c].stage = "gone" THEN NoCall
            ELSE [calls[c] EXCEPT !.sent = sent]]
    BY <1>5 DEF Executes
  <2> QED
    BY <2>1, <2>2, AnswerMoves
<1>6. CASE Drops(c)
  <2>1. Resolved(c)
    BY <1>6 DEF Drops, Mishap, Resolved
  <2> QED
    BY <1>6, <2>1, AnswerMoves DEF Drops
<1> QED
  BY <1>1, <1>2, <1>3, <1>4, <1>5, <1>6 DEF Fares, UnderWay

\* A handler that goes on to another task.
LEMMA TurnMoves ==
    ASSUME NEW c \in CallIds, calls[c].sent # "flying",
           NEW t, t.name # "none",
           calls' = [calls EXCEPT ![c] = [NoCall EXCEPT !.stage = "simulating",
                                                       !.task = t]]
    PROVE  OneMoves
<1>1. PICK next : next = [NoCall EXCEPT !.stage = "simulating", !.task = t]
  OBVIOUS
<1>2. next.stage = "simulating" /\ next.sent = "no" /\ next.task = t
  BY <1>1 DEF NoCall
<1>3. Moves(c, next)
  BY <1>1, <1>2 DEF Moves, IsOrderly, StageFits
<1> QED
  BY <1>3 DEF OneMoves

LEMMA DemoMoves ==
    ASSUME calls \in [CallIds -> Call], Orderly, mishaps \in Nat, DemoType,
           DemoStep
    PROVE  OneMoves \/ calls' = calls
<1>1. CASE Click
  <2>1. page.step \in 1..6
    BY DEF DemoType
  <2>2. StepTask.name # "none"
    BY <2>1 DEF StepTask, FirstTask, RegisterTask, ProveTask, DepositTask,
       RiskTask, CheckTask, AttackTask, Task
  <2> QED
    BY <1>1, <2>2, StartMoves DEF Click, HonestClick, AttackerClick
<1>2. CASE ClickExperiment
  <2>1. PICK t : t = Task("ika_approve", page.v, 0)
    OBVIOUS
  <2> QED
    BY <1>2, <2>1, StartMoves DEF ClickExperiment, Task
<1>3. CASE GivesUp \/ StartsOver
  BY <1>3 DEF GivesUp, StartsOver, Reset
<1>4. ASSUME NEW c \in CallIds, DemoReturns(c) PROVE OneMoves
  <2>1. CASE Ended(c)
    BY <2>1, EndMoves
  <2>2. CASE ThenRegisters(c)
    <3>1. RegisterTask.name # "none"
      BY DEF RegisterTask, Task
    <3>2. calls[c].sent # "flying"
      BY <1>4 DEF DemoReturns, Confirmed
    <3> QED
      BY <2>2, <3>1, <3>2, TurnMoves DEF ThenRegisters
  <2> QED
    BY <1>4, <2>1, <2>2 DEF DemoReturns
<1>5. ASSUME NEW c \in CallIds, DemoThrows(c) PROVE OneMoves
  BY <1>5, FaresMoves DEF DemoThrows, Fares
<1>6. ASSUME NEW c \in CallIds, FallsBack(c) PROVE OneMoves
  <2>1. PICK t : t = Task("ika_fallback", calls[c].task.v, 0)
    OBVIOUS
  <2>2. calls[c].sent # "flying"
    BY <1>6 DEF FallsBack, Orderly, IsOrderly, StageFits
  <2>3. t.name # "none"
    BY <2>1 DEF Task
  <2> QED
    BY <1>6, <2>1, <2>2, <2>3, TurnMoves DEF FallsBack
<1>7. ASSUME NEW c \in CallIds, UnderWay(c) PROVE OneMoves
  BY <1>7, FaresMoves DEF Fares
<1> QED
  BY <1>1, <1>2, <1>3, <1>4, <1>5, <1>6, <1>7 DEF DemoStep, CallStep

LEMMA LendMoves ==
    ASSUME calls \in [CallIds -> Call], Orderly, mishaps \in Nat, LendStep
    PROVE  OneMoves \/ calls' = calls
<1>1. CASE SharedClick
  <2>1. \/ \E price \in NewPrices : Starts(Task("price", NoPda, price))
        \/ Starts(Task("unfreeze", NoPda, 0))
    BY <1>1 DEF SharedClick, ClickSetPrice, ClickUnfreeze
  <2> QED
    BY <2>1, TaskMoves
<1>2. ASSUME NEW v, ClickBorrow(v) \/ ClickRepay(v) \/ ClickLiquidate(v)
      PROVE  OneMoves
  <2>1. \E name \in {"borrow", "repay", "liquidate"} : \E amount :
          Starts(Task(name, v, amount))
    BY <1>2 DEF ClickBorrow, ClickRepay, ClickLiquidate
  <2> QED
    BY <2>1, TaskMoves
<1>3. ASSUME NEW c \in CallIds, LendReturns(c) \/ Fares(c) PROVE OneMoves
  BY <1>3, EndMoves, FaresMoves DEF LendReturns
<1>4. ReadMarket \/ ReadVaults \/ ReadPosition
        \/ (\E v \in Vaults : ClickPick(v))
        => calls' = calls
  BY DEF ReadMarket, ReadVaults, ReadPosition, ClickPick
<1> QED
  BY <1>1, <1>2, <1>3, <1>4 DEF LendStep

LEMMA BtcMoves ==
    ASSUME calls \in [CallIds -> Call], Orderly, mishaps \in Nat, BtcPanelStep
    PROVE  OneMoves \/ calls' = calls
<1>1. CASE SharedClick
  <2>1. \/ \E price \in NewPrices : Starts(Task("price", NoPda, price))
        \/ Starts(Task("unfreeze", NoPda, 0))
    BY <1>1 DEF SharedClick, ClickSetPrice, ClickUnfreeze
  <2> QED
    BY <2>1, TaskMoves
<1>2. CASE BtcClick
  <2>1. \E name \in {"btc_register", "btc_prove", "btc_verify", "btc_borrow",
                      "btc_repay", "btc_attest"} :
          \E v, amount : Starts(Task(name, v, amount))
    BY <1>2 DEF BtcClick, ClickRegister, ClickProve, ClickVerify,
       ClickBorrowBtc, ClickRepayBtc, ClickAttest
  <2> QED
    BY <2>1, TaskMoves
<1>3. ASSUME NEW c \in CallIds, BtcReturns(c) \/ Fares(c) PROVE OneMoves
  BY <1>3, EndMoves, FaresMoves DEF BtcReturns
<1>4. ASSUME NEW v, ClickLiquidate(v) PROVE OneMoves
  BY <1>4, TaskMoves DEF ClickLiquidate
<1>5. \/ ReadMarket \/ ReadVaults \/ TimerReads \/ TimerReturns
      \/ \E v \in BtcAddresses : ClickLoad(v)
      \/ \E v \in BtcVaults : ClickGenerate(v)
      => calls' = calls
  BY DEF ReadMarket, ReadVaults, TimerReads, TimerReturns, ClickLoad,
     ClickGenerate
<1> QED
  BY <1>1, <1>2, <1>3, <1>4, <1>5 DEF BtcPanelStep

LEMMA WebMoves ==
    ASSUME WebIInv, Orderly, [WebNext]_web
    PROVE  /\ Orderly'
           /\ \A c \in CallIds :
                calls[c].sent = "flying" /\ calls'[c].sent # "flying"
                  => Resolved(c)
<1>1. calls \in [CallIds -> Call] /\ mishaps \in Nat /\ DemoType
  BY SendAssumption DEF WebIInv, CallsFit, SendFits
<1>2. OneMoves \/ calls' = calls
  BY <1>1, DemoMoves, LendMoves, BtcMoves DEF WebNext, web
<1> QED
  BY <1>1, <1>2, MovesMeans

\* What both clients ask for covers what the transaction changes.
LEMMA TasksServe ==
    ASSUME NEW t, t.name \in TaskNames \ {"none"},
           Lands(t) \/ UNCHANGED chainVars
    PROVE  Serves(WebRequests(t.name)) /\ Serves(SdkRequests(t.name))
<1>1. PICK name \in TaskNames \ {"none"} : name = t.name
  OBVIOUS
<1>2. Changed \subseteq Writes(name)
  <2>1. CASE Lands(t)
    BY <1>1, <2>1, LandsWrites
  <2>2. CASE UNCHANGED chainVars
    BY <2>2, ChangedMeans DEF chainVars, lendGuardVars, vars, custodyVars,
       poolVars, solVars, btcVars
  <2> QED
    BY <2>1, <2>2
<1>3. Changed \subseteq Asked(WebRequests(name))
  BY <1>2, WebTaskServes
<1>4. \A r \in WebRequests(name) : Program!Fits(r[1], r[2])
  BY WebTaskServes, FitsItself
<1>5. Serves(WebRequests(name))
  BY <1>3, <1>4 DEF Serves, Asked
<1> QED
  BY <1>1, <1>5, SdkAsksAlike

\* Whatever a transaction of the pages changes, both clients asked for, and it
\* finds its accounts and arguments where it looks for them.
THEOREM RequestsAreServed == WebSpec => RequestsServe
<1>1. WebInit => Orderly
  BY DEF WebInit, SendInit, Orderly, IsOrderly, StageFits, NoCall
<1>2. WebIInv /\ Orderly /\ [WebNext]_web => Orderly'
  BY WebMoves
<1>3. WebIInv /\ Orderly /\ [WebNext]_web =>
        [\A c \in CallIds :
           /\ calls[c].sent = "flying" /\ calls'[c].sent # "flying"
           /\ mishaps' = mishaps
           => /\ AddressesAgree /\ ErrorsNamedRight
              /\ Serves(WebRequests(calls[c].task.name))
              /\ Serves(SdkRequests(calls[c].task.name))
              /\ calls[c].task.name \in {"prove", "btc_prove"}
                   => ApprovalsReadBack
              /\ calls[c].task.name = "borrow" => LendingAccountsReadBack]_web
  <2> SUFFICES ASSUME WebIInv, Orderly, [WebNext]_web, NEW c \in CallIds,
                      calls[c].sent = "flying", calls'[c].sent # "flying",
                      mishaps' = mishaps
               PROVE  /\ Serves(WebRequests(calls[c].task.name))
                      /\ Serves(SdkRequests(calls[c].task.name))
    BY SameAddresses, ErrorsAreNamedRight, ApprovalsAreReadBack,
       LoansAreReadBack
  <2>1. Lands(calls[c].task) \/ UNCHANGED chainVars
    BY WebMoves DEF Resolved
  <2>2. calls[c].task.name \in TaskNames \ {"none"}
    <3>1. calls[c] \in Call
      BY DEF WebIInv, CallsFit
    <3> QED
      BY <3>1 DEF Call, Orderly, IsOrderly, StageFits
  <2> QED
    BY <2>1, <2>2, TasksServe
<1> QED
  BY <1>1, <1>2, <1>3, WebInvariant, PTL DEF WebSpec, RequestsServe
=============================================================================
