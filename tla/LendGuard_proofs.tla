-------------------------- MODULE LendGuard_proofs --------------------------
(***************************************************************************)
(* The whole program, for any number of vaults of both kinds and every     *)
(* value of the rates, units and limits.  Each side's invariant is kept by *)
(* its own steps (SolLending_proofs, BtcLending_proofs); what is left is   *)
(* that the other side's steps disturb nothing it relies on, and that the  *)
(* two ledgers add up.                                                     *)
(***************************************************************************)
EXTENDS LendGuard, SolLending_proofs, BtcLending_proofs

GInv == IInv /\ BtcIInv /\ TotalLedger

LEMMA LendGuardInitGInv == LendGuardInit => GInv
<1> SUFFICES ASSUME LendGuardInit PROVE GInv
  OBVIOUS
<1>1. IInv
  BY InitIInv DEF LendGuardInit
<1>2. BtcIInv
  BY BtcInitIInv DEF LendGuardInit, Init
<1>3. TotalLedger
  <2>1. /\ principal \in [Vaults -> Nat] /\ \A v \in Vaults : principal[v] = 0
        /\ btcPrincipal \in [BtcVaults -> Nat]
        /\ \A v \in BtcVaults : btcPrincipal[v] = 0
        /\ pool.total_borrowed = 0
    BY DEF LendGuardInit, Init, SolInit, PoolInit, NoPool, BtcInit
  <2>2. SumOver(Vaults, principal) = 0 /\ SumOver(BtcVaults, btcPrincipal) = 0
    BY <2>1, SumOfZeros, CustodyAssumption, BtcAssumption
  <2> QED
    BY <2>1, <2>2 DEF TotalLedger
<1> QED
  BY <1>1, <1>2, <1>3 DEF GInv

----------------------------------------------------------------------------
(* What a SOL-side step leaves of the Bitcoin side's assumptions *)

\* Neither the clock nor the existence of the shared accounts goes back.
LEMMA SolStepShared ==
    ASSUME IInv, Next
    PROVE  /\ now' >= now
           /\ protocol.live => protocol'.live
           /\ pool.live => pool'.live
<1>1. pool.live => pool'.live
  BY PoolChanges DEF PoolCreated, PoolMoved
<1>2. now \in Nat /\ protocol \in ProtocolAccount
  BY DEF IInv, TypeOK, ProtocolType
<1>3. CASE Tick
  <2>1. \A seconds \in ClockSteps : now + seconds >= now
    BY <1>2, ClockAssumption
  <2> QED
    BY <1>1, <1>3, <2>1 DEF Tick
<1>4. CASE ProtocolStep
  <2>1. now' = now
    BY <1>4 DEF ProtocolStep, InitializeProtocol, UnfreezeProtocolState,
       clockVars
  <2>2. protocol.live => protocol'.live
    BY <1>2, <1>4 DEF ProtocolStep, InitializeProtocol,
       UnfreezeProtocolState, ProtocolAccount
  <2> QED
    BY <1>1, <1>2, <2>1, <2>2
<1>5. ASSUME NEW v \in Vaults, VaultStep(v)
      PROVE  now' >= now /\ protocol'.live = protocol.live
  <2>1. UNCHANGED clockVars /\ protocol'.live = protocol.live
    BY <1>5, VaultStepEffects, VaultStepKeepsProtocol
       DEF IInv, TypeOK, VaultStaysFunded, Funded
  <2> QED
    BY <1>2, <2>1 DEF clockVars
<1>6. CASE PoolStep
  BY <1>1, <1>2, <1>6, PoolStepFrame DEF IInv, TypeOK
<1>7. ASSUME NEW v \in Vaults, LendingStep(v)
      PROVE  UNCHANGED <<now, protocol>>
  BY <1>7 DEF LendingStep, BorrowAgainstCollateral, RepayBorrow,
     LiquidatePosition, clockVars
<1> QED
  BY <1>1, <1>2, <1>3, <1>4, <1>5, <1>6, <1>7 DEF Next, CustodyNext

LEMMA SolStepFramesBtc ==
    ASSUME IInv, BtcIInv, IInv', Next, UNCHANGED btcVars
    PROVE  BtcIInv'
<1>0. /\ UNCHANGED <<btcVault, attestation, btcPositions, btcPrincipal, approvals>>
      /\ now \in Nat /\ now' \in Nat
      /\ now' >= now
      /\ protocol.live => protocol'.live
      /\ pool.live => pool'.live
  BY SolStepShared DEF btcVars, IInv, TypeOK, ProtocolType
<1>1. BtcTypeOK'
  BY <1>0 DEF IInv, TypeOK, BtcIInv, BtcTypeOK, BtcType
<1>2. BtcClocksBehind'
  <2>1. \A v \in BtcVaults :
          /\ btcVault[v].proof_timestamp \in Nat
          /\ btcVault[v].liquidation_initiated_at \in Nat
          /\ attestation[v].attested_at_unix \in Nat
    BY BtcFacts DEF BtcIInv, BtcVaultAccount
  <2>2. \A v \in BtcVaults :
          /\ btcVault[v].proof_timestamp <= now'
          /\ btcVault[v].liquidation_initiated_at <= now'
          /\ attestation[v].attested_at_unix <= now'
    BY <1>0, <2>1 DEF BtcIInv, BtcClocksBehind
  <2> QED
    BY <1>0, <2>2, BtcAssumption DEF IInv, ClocksBehind, BtcClocksBehind
<1>3. BtcDebtHasAPosition' /\ UnbornPool'
  BY <1>0 DEF BtcIInv, BtcDebtHasAPosition, IInv
<1>4. FrozenIsRecoverable'
  BY <1>0 DEF BtcIInv, FrozenIsRecoverable, MayFinalize, IsAdmin
<1> QED
  BY <1>1, <1>2, <1>3, <1>4 DEF BtcIInv

----------------------------------------------------------------------------
(* What a Bitcoin-side step leaves of the SOL side's assumptions *)

\* A step of the whole program on a Bitcoin vault is one of BtcLending.
LEMMA BtcStepIsBtcNext ==
    ASSUME NEW v \in BtcVaults, BtcStep(v)
    PROVE  BtcNext
<1>1. BTC_LIQUIDATION_MIN_CONFIRMATIONS \in Nat /\ AttestedBalances \subseteq Nat
  BY BtcAssumption, LendGuardAssumption
<1> QED
  BY <1>1 DEF BtcStep, BtcNext

\* It touches neither clock nor prices; of the protocol it counts vaults, and
\* it never removes the pool.
LEMMA BtcStepShared ==
    ASSUME BtcIInv, NEW v \in BtcVaults, BtcStep(v)
    PROVE  /\ UNCHANGED <<now, slot, feed>>
           /\ protocol'.live = protocol.live
           /\ protocol'.total_collateral_verified
                = protocol.total_collateral_verified
           /\ pool.live => pool'.live
<1>0. protocol \in ProtocolAccount
  BY BtcFacts DEF BtcIInv
<1>1. CASE RegisterBtcVault(v)
  <2>1. protocol' = [protocol EXCEPT !.total_vaults = protocol.total_vaults + 1]
    BY <1>1 DEF RegisterBtcVault
  <2> QED
    BY <1>0, <1>1, <2>1 DEF RegisterBtcVault, ProtocolAccount, clockVars,
       poolVars
<1>2. CASE ~RegisterBtcVault(v)
  <2>1. UNCHANGED <<now, slot, feed, protocol>>
    BY <1>2 DEF BtcStep, BtcVaultStep, IkaCustodyApproval, IkaSignsSighash,
       DemoCreateMessageApproval, VerifyBtcCustodyProof,
       RefreshBtcCustodyProof, AttestBtcBalance, BorrowAgainstBtcCollateral,
       RepayBtcBorrow, LiquidateBtcPosition, FinalizeBtcLiquidation,
       clockVars, poolVars
  <2>2. ASSUME NEW signer \in Users, NEW amount \in BtcBorrowAmounts,
               BorrowAgainstBtcCollateral(v, signer, amount)
        PROVE  pool'.live
    <3>1. pool.live
      BY <2>2 DEF BorrowAgainstBtcCollateral
    <3> QED
      BY <2>2, <3>1, BtcBorrowFacts, LoanStep
  <2>3. ASSUME NEW signer \in Users, NEW amount \in BtcRepayAmounts,
               RepayBtcBorrow(v, signer, amount)
        PROVE  pool'.live
    <3>1. pool.live
      BY <2>3 DEF RepayBtcBorrow, MayRepayBtc
    <3> QED
      BY <2>3, <3>1, BtcRepayFacts, LoanStep
  <2>4. ASSUME NEW user \in Users, LiquidateBtcPosition(v, user)
        PROVE  pool'.live
    <3>1. pool.live
      BY <2>4 DEF LiquidateBtcPosition
    <3> QED
      BY <2>4, <3>1, BtcLiquidateFacts, LoanStep
  <2>5. pool.live => pool'.live
    BY <1>2, <2>2, <2>3, <2>4 DEF BtcStep, BtcVaultStep, IkaCustodyApproval,
       IkaSignsSighash, DemoCreateMessageApproval, VerifyBtcCustodyProof,
       RefreshBtcCustodyProof, AttestBtcBalance, FinalizeBtcLiquidation,
       poolVars
  <2> QED
    BY <2>1, <2>5
<1> QED
  BY <1>1, <1>2

LEMMA BtcStepFramesSol ==
    ASSUME IInv, BtcIInv, BtcIInv', NEW v \in BtcVaults, BtcStep(v),
           UNCHANGED <<custodyVars, solVars>>
    PROVE  IInv'
<1>0. /\ UNCHANGED <<vault, lamports, risk, positions, principal>>
      /\ UNCHANGED <<now, slot, feed>>
      /\ protocol'.live = protocol.live
      /\ protocol'.total_collateral_verified
           = protocol.total_collateral_verified
      /\ pool.live => pool'.live
  BY BtcStepShared DEF custodyVars, solVars
<1>1. TypeOK'
  BY <1>0 DEF IInv, TypeOK, CustodyType, SolType, BtcIInv, BtcTypeOK
<1>2. ClocksBehind' /\ UnbornPool'
  BY <1>0 DEF IInv, ClocksBehind, BtcIInv, BtcClocksBehind
<1>3. DebtHasAPosition' /\ VaultStaysFunded' /\ CollateralLedger'
  BY <1>0 DEF IInv, DebtHasAPosition, VaultStaysFunded, CollateralLedger,
     Deposits
<1> QED
  BY <1>1, <1>2, <1>3 DEF IInv

----------------------------------------------------------------------------
(* The invariant of the whole program *)

LEMMA TotalLedgerStep ==
    ASSUME GInv, TypeOK', BtcTypeOK',
           \/ LedgerKept /\ UNCHANGED btcPrincipal
           \/ BtcLedgerKept /\ UNCHANGED principal
    PROVE  TotalLedger'
<1>1. /\ pool.total_borrowed \in Nat /\ pool'.total_borrowed \in Nat
      /\ SumOver(Vaults, principal) \in Nat
      /\ SumOver(Vaults, principal') \in Nat
      /\ SumOver(BtcVaults, btcPrincipal) \in Nat
      /\ SumOver(BtcVaults, btcPrincipal') \in Nat
  BY SumIsNat, CustodyAssumption, BtcAssumption
     DEF GInv, IInv, BtcIInv, TypeOK, BtcTypeOK, PoolType, LendingPool,
         SolType, BtcType
<1> QED
  BY <1>1 DEF GInv, TotalLedger, LedgerKept, BtcLedgerKept

LEMMA LendGuardNextGInv ==
    ASSUME GInv, [LendGuardNext]_lendGuardVars
    PROVE  GInv'
<1>1. CASE Next /\ UNCHANGED btcVars
  <2>1. IInv' /\ LedgerKept
    BY <1>1, NextIInv DEF GInv
  <2>2. BtcIInv'
    BY <1>1, <2>1, SolStepFramesBtc DEF GInv
  <2>3. TotalLedger'
    BY <1>1, <2>1, <2>2, TotalLedgerStep DEF IInv, BtcIInv, btcVars
  <2> QED
    BY <2>1, <2>2, <2>3 DEF GInv
<1>2. ASSUME NEW v \in BtcVaults, BtcStep(v),
             UNCHANGED <<custodyVars, solVars>>
      PROVE  GInv'
  <2>1. BtcIInv' /\ BtcLedgerKept
    BY <1>2, BtcStepIsBtcNext, BtcNextIInv DEF GInv
  <2>2. IInv'
    BY <1>2, <2>1, BtcStepFramesSol DEF GInv
  <2>3. TotalLedger'
    BY <1>2, <2>1, <2>2, TotalLedgerStep DEF IInv, BtcIInv, solVars
  <2> QED
    BY <2>1, <2>2, <2>3 DEF GInv
<1>3. CASE UNCHANGED lendGuardVars
  <2>1. UNCHANGED vars /\ UNCHANGED btcVars
    BY <1>3 DEF lendGuardVars
  <2>2. UNCHANGED btcAll
    BY <2>1 DEF vars, btcAll
  <2>3. IInv' /\ LedgerKept /\ BtcIInv'
    BY <2>1, <2>2, NextIInv, BtcNextIInv DEF GInv
  <2>4. TotalLedger'
    BY <2>1, <2>3, TotalLedgerStep DEF IInv, BtcIInv, btcVars
  <2> QED
    BY <2>3, <2>4 DEF GInv
<1> QED
  BY <1>1, <1>2, <1>3 DEF LendGuardNext

\* Each side keeps its own invariant in the whole program, and the two ledgers
\* add up to the pool's total.
THEOREM LendGuardInvariant == LendGuardSpec => []GInv
<1>1. GInv /\ [LendGuardNext]_lendGuardVars => GInv'
  BY LendGuardNextGInv
<1> QED
  BY <1>1, LendGuardInitGInv, PTL DEF LendGuardSpec

\* The pool's scaled debt is the sum of the principals of both kinds of loan,
\* for any number of vaults of either: the checked_sub on total_borrowed in
\* lending.rs and btc_lending.rs never rejects an honest repayment.
THEOREM TotalLedgerHolds == LendGuardSpec => []TotalLedger
<1>1. GInv => TotalLedger
  BY DEF GInv
<1> QED
  BY <1>1, LendGuardInvariant, PTL

\* No principal of either kind exceeds the pool's total.
LEMMA EachLoanIsCovered ==
    ASSUME GInv
    PROVE  /\ \A v \in Vaults : principal[v] <= pool.total_borrowed
           /\ \A v \in BtcVaults : btcPrincipal[v] <= pool.total_borrowed
<1>1. principal \in [Vaults -> Nat] /\ btcPrincipal \in [BtcVaults -> Nat]
  BY DEF GInv, IInv, TypeOK, SolType, BtcIInv, BtcTypeOK, BtcType
<1>2. /\ SumOver(Vaults, principal) \in Nat
      /\ SumOver(BtcVaults, btcPrincipal) \in Nat
  BY <1>1, SumIsNat, CustodyAssumption, BtcAssumption
<1>3. /\ \A v \in Vaults : principal[v] <= SumOver(Vaults, principal)
      /\ \A v \in BtcVaults :
           btcPrincipal[v] <= SumOver(BtcVaults, btcPrincipal)
  BY <1>1, SumCoversEach, CustodyAssumption, BtcAssumption
<1> QED
  BY <1>1, <1>2, <1>3 DEF GInv, TotalLedger

\* repay_borrow: the slice a repayment removes is in the principal, and so in
\* the pool's total.
LEMMA SolRepayIsOpen ==
    ASSUME GInv, NEW v \in positions, vault[v].live, DebtOf(principal[v]) > 0,
           NEW amount \in 1..tokens[OwnerOf[v]]
    PROVE  MayRepay(v, OwnerOf[v], amount)
<1> DEFINE owed == DebtOf(principal[v])
           paid == Smaller(amount, owed)
           slice == RepaidSlice(paid, owed, principal[v])
<1>0. TypeOK /\ ClocksBehind
  BY DEF GInv, IInv
<1>1. /\ v \in Vaults /\ principal[v] \in Nat
      /\ pool.total_borrowed \in Nat
      /\ tokens[OwnerOf[v]] \in Nat
  BY <1>0, CustodyAssumption DEF TypeOK, SolType, PoolType, LendingPool, Holders
<1>2. owed \in Nat \ {0}
  BY <1>0, <1>1, DebtOfIsNat
<1>3. paid \in Nat /\ paid <= amount
  BY <1>1, <1>2 DEF Smaller
<1>4. slice \in 0..principal[v]
  BY <1>0, <1>1, <1>2, <1>3, RepaidSliceFacts
<1>5. principal[v] # 0
  BY <1>1, BtcDebtIsNat DEF GInv, BtcIInv
<1>6. pool.live
  BY <1>1, <1>5 DEF GInv, IInv, DebtHasAPosition
<1>7. slice <= pool.total_borrowed
  BY <1>1, <1>4, EachLoanIsCovered
<1>8. tokens[OwnerOf[v]] >= paid
  BY <1>1, <1>3
<1> HIDE DEF owed, paid, slice
<1>9. /\ owed > 0 /\ pool.total_borrowed >= slice /\ amount > 0
  BY <1>1, <1>2, <1>4, <1>7
<1> USE DEF owed, paid, slice
<1> QED
  BY <1>6, <1>8, <1>9 DEF MayRepay, OwnsLoan

\* repay_btc_borrow, where a request for everything pays what there is.
LEMMA BtcRepayIsOpen ==
    ASSUME GInv, NEW v \in btcPositions, DebtOf(btcPrincipal[v]) > 0,
           tokens[BtcOwnerOf[v]] > 0,
           NEW amount \in (1..tokens[BtcOwnerOf[v]]) \cup {U64_MAX}
    PROVE  MayRepayBtc(v, BtcOwnerOf[v], amount)
<1>0. BtcTypeOK /\ BtcClocksBehind
  BY DEF GInv, BtcIInv
<1>1. /\ v \in BtcVaults /\ btcPrincipal[v] \in Nat
      /\ pool.total_borrowed \in Nat
      /\ tokens[BtcOwnerOf[v]] \in Nat
  BY <1>0, BtcFacts, BtcAssumption DEF Holders
<1>2. DebtOf(btcPrincipal[v]) \in Nat \ {0}
  BY <1>0, <1>1, BtcDebtIsNat
<1>3. amount \in Nat \ {0}
  BY <1>1, BtcAssumption
<1>4. /\ BtcPaid(v, amount) \in Nat \ {0}
      /\ BtcPaid(v, amount) <= tokens[BtcOwnerOf[v]]
  BY <1>1, <1>2, <1>3 DEF BtcPaid, Smaller
<1>5. BtcSlice(v, amount) \in 0..btcPrincipal[v]
  <2>1. Accrued.borrow_index \in Nat \ {0}
    BY <1>0, BtcAccrued
  <2>2. ToScaled(BtcPaid(v, amount), Accrued.borrow_index) \in Nat
    BY <1>4, <2>1, ToScaledIsNat
  <2> QED
    BY <1>1, <2>2 DEF BtcSlice, Smaller
<1>6. pool.live /\ btcVault[v].live
  BY <1>1 DEF GInv, BtcIInv, BtcDebtHasAPosition
<1>7. pool.total_borrowed >= BtcSlice(v, amount)
  BY <1>1, <1>5, EachLoanIsCovered
<1> QED
  BY <1>1, <1>2, <1>3, <1>4, <1>6, <1>7 DEF MayRepayBtc

\* Frozen or not, and whatever borrowers of the other kind do: an owner who
\* owes a debt on a vault that is still there can pay with every token it has,
\* as neither the pool's total nor its existence can be in the way
\* (repay_borrow, repay_btc_borrow).
THEOREM RepayIsOpen == LendGuardSpec => []RepayStaysOpen
<1>1. GInv => RepayStaysOpen
  BY SolRepayIsOpen, BtcRepayIsOpen DEF RepayStaysOpen, RepayNeverFrozenOut
<1> QED
  BY <1>1, LendGuardInvariant, PTL

\* The recorded SOL deposits never exceed protocol.total_collateral_verified,
\* Bitcoin vaults or not.
THEOREM LendGuardCollateralLedger == LendGuardSpec => []CollateralLedger
<1>1. GInv => CollateralLedger
  BY DEF GInv, IInv
<1> QED
  BY <1>1, LendGuardInvariant, PTL

\* A frozen Bitcoin vault stays recoverable whatever SOL-side users do.
THEOREM LendGuardFrozenIsRecoverable == LendGuardSpec => []FrozenIsRecoverable
<1>1. GInv => FrozenIsRecoverable
  BY DEF GInv, BtcIInv
<1> QED
  BY <1>1, LendGuardInvariant, PTL

----------------------------------------------------------------------------
(* Refinement.  A step of one side is a step of that side's book, which    *)
(* becomes one of the common book because the other side's loans stand     *)
(* still.                                                                  *)

LEMMA SolOwedMoves ==
    ASSUME GInv, NEW v \in Vaults, NEW x, UNCHANGED btcPrincipal,
           principal' = [principal EXCEPT ![v] = x]
    PROVE  /\ v \in Vaults \cup BtcVaults
           /\ Owed' = [Owed EXCEPT ![v] = x]
           /\ Owed[v] = principal[v]
           /\ Owed'[v] = x /\ principal'[v] = x
<1>1. principal \in [Vaults -> Nat]
  BY DEF GInv, IInv, TypeOK, SolType
<1> QED
  BY <1>1 DEF Owed

LEMMA BtcOwedMoves ==
    ASSUME GInv, NEW v \in BtcVaults, NEW x, UNCHANGED principal,
           btcPrincipal' = [btcPrincipal EXCEPT ![v] = x]
    PROVE  /\ v \in Vaults \cup BtcVaults
           /\ Owed' = [Owed EXCEPT ![v] = x]
           /\ Owed[v] = btcPrincipal[v]
           /\ Owed'[v] = x /\ btcPrincipal'[v] = x
<1>1. btcPrincipal \in [BtcVaults -> Nat]
  BY DEF GInv, BtcIInv, BtcTypeOK, BtcType
<1>2. v \notin Vaults
  BY LendGuardAssumption
<1> QED
  BY <1>1, <1>2 DEF Owed

LEMMA SolStepIsBooked ==
    ASSUME GInv, [Next]_vars, UNCHANGED btcVars
    PROVE  [Book!BookNext]_(Book!bookVars)
<1>0. UNCHANGED btcPrincipal
  BY DEF btcVars
<1>1. [SolBook!BookNext]_(SolBook!bookVars)
  BY StepIsBooked DEF GInv
<1>2. ASSUME UNCHANGED principal
      PROVE  UNCHANGED Owed
  BY <1>0, <1>2 DEF Owed
<1>3. CASE UNCHANGED (SolBook!bookVars)
  BY <1>2, <1>3 DEF SolBook!bookVars, Book!bookVars
<1>4. CASE SolBook!Endow
  BY <1>2, <1>4 DEF SolBook!Endow, Book!Endow, Book!BookNext
<1>5. ASSUME NEW v \in Vaults, SolBook!Lend(v)
      PROVE  Book!BookNext
  <2> DEFINE x == ((tokens[PoolVault] - tokens'[PoolVault]) * RAY)
                     \div pool'.borrow_index
  <2>1. /\ tokens'[PoolVault] < tokens[PoolVault]
        /\ principal[v] = 0
        /\ principal' = [principal EXCEPT ![v] = x]
        /\ pool'.total_borrowed = pool.total_borrowed + principal'[v]
        /\ pool'.borrow_index >= pool.borrow_index
    BY <1>5 DEF SolBook!Lend, SolBook!ToScaled
  <2> HIDE DEF x
  <2>2. /\ v \in Vaults \cup BtcVaults
        /\ Owed[v] = 0
        /\ Owed' = [Owed EXCEPT ![v] = x]
        /\ pool'.total_borrowed = pool.total_borrowed + Owed'[v]
    BY <1>0, <2>1, SolOwedMoves
  <2>3. Book!Lend(v)
    BY <2>1, <2>2 DEF x, Book!Lend, Book!ToScaled
  <2> QED
    BY <2>2, <2>3 DEF Book!BookNext
<1>6. ASSUME NEW v \in Vaults, SolBook!Settle(v)
      PROVE  Book!BookNext
  <2> DEFINE x == principal'[v]
  <2>1. /\ tokens'[PoolVault] > tokens[PoolVault]
        /\ principal[v] > 0
        /\ x \in 0..principal[v]
        /\ principal' = [principal EXCEPT ![v] = x]
        /\ pool'.total_borrowed = pool.total_borrowed - (principal[v] - x)
        /\ pool'.borrow_index >= pool.borrow_index
    BY <1>6 DEF SolBook!Settle
  <2> HIDE DEF x
  <2>2. /\ v \in Vaults \cup BtcVaults
        /\ Owed[v] = principal[v] /\ Owed'[v] = x
        /\ Owed' = [Owed EXCEPT ![v] = x]
    BY <1>0, <2>1, SolOwedMoves
  <2>3. Book!Settle(v)
    BY <2>1, <2>2 DEF Book!Settle
  <2> QED
    BY <2>2, <2>3 DEF Book!BookNext
<1> QED
  BY <1>1, <1>3, <1>4, <1>5, <1>6 DEF SolBook!BookNext

LEMMA BtcSideIsBooked ==
    ASSUME GInv, [BtcNext]_btcAll, UNCHANGED solVars
    PROVE  [Book!BookNext]_(Book!bookVars)
<1>0. UNCHANGED principal
  BY DEF solVars
<1>1. [BtcBook!BookNext]_(BtcBook!bookVars)
  BY BtcStepIsBooked DEF GInv
<1>2. ASSUME UNCHANGED btcPrincipal
      PROVE  UNCHANGED Owed
  BY <1>0, <1>2 DEF Owed
<1>3. CASE UNCHANGED (BtcBook!bookVars)
  BY <1>2, <1>3 DEF BtcBook!bookVars, Book!bookVars
<1>4. CASE BtcBook!Endow
  BY <1>2, <1>4 DEF BtcBook!Endow, Book!Endow, Book!BookNext
<1>5. ASSUME NEW v \in BtcVaults, BtcBook!Lend(v)
      PROVE  Book!BookNext
  <2> DEFINE x == ((tokens[PoolVault] - tokens'[PoolVault]) * RAY)
                     \div pool'.borrow_index
  <2>1. /\ tokens'[PoolVault] < tokens[PoolVault]
        /\ btcPrincipal[v] = 0
        /\ btcPrincipal' = [btcPrincipal EXCEPT ![v] = x]
        /\ pool'.total_borrowed = pool.total_borrowed + btcPrincipal'[v]
        /\ pool'.borrow_index >= pool.borrow_index
    BY <1>5 DEF BtcBook!Lend, BtcBook!ToScaled
  <2> HIDE DEF x
  <2>2. /\ v \in Vaults \cup BtcVaults
        /\ Owed[v] = 0
        /\ Owed' = [Owed EXCEPT ![v] = x]
        /\ pool'.total_borrowed = pool.total_borrowed + Owed'[v]
    BY <1>0, <2>1, BtcOwedMoves
  <2>3. Book!Lend(v)
    BY <2>1, <2>2 DEF x, Book!Lend, Book!ToScaled
  <2> QED
    BY <2>2, <2>3 DEF Book!BookNext
<1>6. ASSUME NEW v \in BtcVaults, BtcBook!Settle(v)
      PROVE  Book!BookNext
  <2> DEFINE x == btcPrincipal'[v]
  <2>1. /\ tokens'[PoolVault] > tokens[PoolVault]
        /\ btcPrincipal[v] > 0
        /\ x \in 0..btcPrincipal[v]
        /\ btcPrincipal' = [btcPrincipal EXCEPT ![v] = x]
        /\ pool'.total_borrowed = pool.total_borrowed - (btcPrincipal[v] - x)
        /\ pool'.borrow_index >= pool.borrow_index
    BY <1>6 DEF BtcBook!Settle
  <2> HIDE DEF x
  <2>2. /\ v \in Vaults \cup BtcVaults
        /\ Owed[v] = btcPrincipal[v] /\ Owed'[v] = x
        /\ Owed' = [Owed EXCEPT ![v] = x]
    BY <1>0, <2>1, BtcOwedMoves
  <2>3. Book!Settle(v)
    BY <2>1, <2>2 DEF Book!Settle
  <2> QED
    BY <2>2, <2>3 DEF Book!BookNext
<1> QED
  BY <1>1, <1>3, <1>4, <1>5, <1>6 DEF BtcBook!BookNext

\* The whole program implements the loan book for every value of the
\* constants: in no interleaving of SOL-side and Bitcoin-side transactions is
\* a loan paid out without being booked, topped up, or written down without
\* cash, and none touches two loans.
THEOREM ProgramImplementsLoanBook == LendGuardSpec => LendsByTheBook
<1>1. LendGuardInit => Book!BookInit
  <2> SUFFICES ASSUME LendGuardInit PROVE Book!BookInit
    OBVIOUS
  <2>1. pool.total_borrowed = 0 /\ pool.borrow_index = RAY
    BY DEF LendGuardInit, Init, PoolInit, NoPool
  <2>2. tokens[PoolVault] \in Nat
    BY PoolAssumption DEF LendGuardInit, Init, PoolInit, Holders
  <2>3. Owed = [b \in Vaults \cup BtcVaults |-> 0]
    BY DEF LendGuardInit, Init, SolInit, BtcInit, Owed
  <2> QED
    BY <2>1, <2>2, <2>3 DEF Book!BookInit
<1>2. ASSUME GInv, [LendGuardNext]_lendGuardVars
      PROVE  [Book!BookNext]_(Book!bookVars)
  <2>1. CASE Next /\ UNCHANGED btcVars
    BY <1>2, <2>1, SolStepIsBooked
  <2>2. ASSUME NEW v \in BtcVaults, BtcStep(v),
               UNCHANGED <<custodyVars, solVars>>
        PROVE  [Book!BookNext]_(Book!bookVars)
    BY <1>2, <2>2, BtcStepIsBtcNext, BtcSideIsBooked
  <2>3. CASE UNCHANGED lendGuardVars
    BY <1>2, <2>3, SolStepIsBooked DEF lendGuardVars
  <2> QED
    BY <1>2, <2>1, <2>2, <2>3 DEF LendGuardNext
<1> QED
  BY <1>1, <1>2, LendGuardInvariant, PTL
     DEF LendGuardSpec, LendsByTheBook, Book!BookSpec

----------------------------------------------------------------------------
(* The frozen program *)

\* A SOL loan shrinks during a freeze only because its owner pays.
LEMMA FrozenSolStep ==
    ASSUME IInv, Next, protocol.frozen
    PROVE  /\ tokens'[PoolVault] >= tokens[PoolVault]
           /\ positions' \subseteq positions
           /\ \A v \in Vaults :
                principal'[v] # principal[v]
                  => tokens'[OwnerOf[v]] < tokens[OwnerOf[v]]
<1>1. Still
  BY FrozenStep
<1>2. ASSUME NEW v \in Vaults, NEW signer \in Users, NEW amount \in RepayAmounts,
             RepayBorrow(v, signer, amount)
      PROVE  \A u \in Vaults :
               principal'[u] # principal[u]
                 => tokens'[OwnerOf[u]] < tokens[OwnerOf[u]]
  <2>1. tokens'[OwnerOf[v]] < tokens[OwnerOf[v]]
    BY <1>2, FrozenRepay
  <2>2. principal \in [Vaults -> Nat]
    BY DEF IInv, TypeOK, SolType
  <2>3. \A u \in Vaults \ {v} : principal'[u] = principal[u]
    BY <1>2, <2>2 DEF RepayBorrow
  <2> QED
    BY <2>1, <2>3
<1>3. CASE UNCHANGED principal
  BY <1>1, <1>3 DEF Still
<1> QED
  BY <1>1, <1>2, <1>3 DEF Still, Next, LendingStep, solVars,
     BorrowAgainstCollateral, LiquidatePosition

\* A Bitcoin loan shrinks during a freeze only because its owner pays, and a
\* position disappears only by that or with a finalized liquidation.
LEMMA FrozenBtcStep ==
    ASSUME BtcIInv, NEW v \in BtcVaults, BtcStep(v), protocol.frozen
    PROVE  /\ tokens'[PoolVault] >= tokens[PoolVault]
           /\ btcPositions' \subseteq btcPositions
           /\ \A u \in BtcVaults :
                btcPrincipal'[u] # btcPrincipal[u]
                  => tokens'[BtcOwnerOf[u]] < tokens[BtcOwnerOf[u]]
<1> DEFINE Quiet ==
      /\ tokens'[PoolVault] >= tokens[PoolVault]
      /\ btcPositions' \subseteq btcPositions
      /\ \A u \in BtcVaults :
           btcPrincipal'[u] # btcPrincipal[u]
             => tokens'[BtcOwnerOf[u]] < tokens[BtcOwnerOf[u]]
<1>0. /\ tokens \in [Holders -> Nat] /\ tokens[PoolVault] \in Nat
      /\ btcPrincipal \in [BtcVaults -> Nat]
      /\ btcPositions \subseteq BtcVaults
  BY BtcFacts DEF BtcIInv, Holders
<1>1. ASSUME NEW signer \in Users, NEW amount \in BtcRepayAmounts,
             RepayBtcBorrow(v, signer, amount)
      PROVE  Quiet
  <2> DEFINE paid == BtcPaid(v, amount)
  <2>1. /\ paid \in Nat \ {0}
        /\ btcPositions' \in {btcPositions \ {v}, btcPositions \cup {v}}
        /\ \E d \in Nat : btcPrincipal' = [btcPrincipal EXCEPT ![v] = d]
    BY <1>1, BtcRepayFacts
  <2>2. /\ v \in btcPositions /\ signer = BtcOwnerOf[v]
        /\ Pay(signer, PoolVault, paid)
    BY <1>1 DEF RepayBtcBorrow, MayRepayBtc
  <2> HIDE DEF paid
  <2>3. /\ tokens'[PoolVault] = tokens[PoolVault] + paid
        /\ tokens'[signer] = tokens[signer] - paid
        /\ tokens[signer] \in Nat
    BY <1>0, <2>1, <2>2, PayMovesCash DEF BtcIInv, BtcTypeOK, Holders
  <2>4. /\ tokens'[PoolVault] >= tokens[PoolVault]
        /\ tokens'[BtcOwnerOf[v]] < tokens[BtcOwnerOf[v]]
    BY <1>0, <2>1, <2>2, <2>3
  <2>5. \A u \in BtcVaults \ {v} : btcPrincipal'[u] = btcPrincipal[u]
    BY <1>0, <2>1
  <2>6. btcPositions' \subseteq btcPositions
    BY <2>1, <2>2
  <2> QED
    BY <2>4, <2>5, <2>6
<1>2. ASSUME UNCHANGED <<tokens, btcPrincipal>>, btcPositions' \subseteq btcPositions
      PROVE  Quiet
  BY <1>0, <1>2
<1> HIDE DEF Quiet
<1>3. ASSUME NEW user \in Users, NEW amount \in BtcBorrowAmounts
      PROVE  ~BorrowAgainstBtcCollateral(v, user, amount)
  BY DEF BorrowAgainstBtcCollateral, MayBorrow
<1>4. ASSUME NEW user \in Users
      PROVE  ~LiquidateBtcPosition(v, user)
  BY DEF LiquidateBtcPosition
<1>5. Quiet
  BY <1>1, <1>2, <1>3, <1>4 DEF BtcStep, BtcVaultStep, RegisterBtcVault,
     IkaCustodyApproval, IkaSignsSighash, DemoCreateMessageApproval,
     VerifyBtcCustodyProof, RefreshBtcCustodyProof, AttestBtcBalance,
     FinalizeBtcLiquidation, poolVars
<1> QED
  BY <1>5 DEF Quiet

\* While the protocol stays frozen the pool pays nothing out on either side, no
\* loan is granted and none shrinks but by its owner's payment: the frozen
\* checks of borrow and liquidate in lending.rs and btc_lending.rs.
THEOREM FreezeStopsBothSidesHolds == LendGuardSpec => FreezeStopsBothSides
<1> DEFINE Stopped ==
      /\ tokens'[PoolVault] >= tokens[PoolVault]
      /\ positions' \subseteq positions
      /\ btcPositions' \subseteq btcPositions
      /\ \A v \in Vaults :
           principal'[v] # principal[v]
             => tokens'[OwnerOf[v]] < tokens[OwnerOf[v]]
      /\ \A v \in BtcVaults :
           btcPrincipal'[v] # btcPrincipal[v]
             => tokens'[BtcOwnerOf[v]] < tokens[BtcOwnerOf[v]]
<1>1. ASSUME GInv, LendGuardNext, protocol.frozen
      PROVE  Stopped
  <2>1. CASE Next /\ UNCHANGED btcVars
    BY <1>1, <2>1, FrozenSolStep DEF GInv, btcVars
  <2>2. ASSUME NEW v \in BtcVaults, BtcStep(v),
               UNCHANGED <<custodyVars, solVars>>
        PROVE  Stopped
    BY <1>1, <2>2, FrozenBtcStep DEF GInv, solVars
  <2> QED
    BY <1>1, <2>1, <2>2 DEF LendGuardNext
<1>2. GInv /\ [LendGuardNext]_lendGuardVars
        => [protocol.frozen /\ protocol'.frozen => Stopped]_lendGuardVars
  BY <1>1
<1> QED
  BY <1>2, LendGuardInvariant, PTL DEF LendGuardSpec, FreezeStopsBothSides
=============================================================================
