-------------------------- MODULE BtcLending_proofs --------------------------
(***************************************************************************)
(* Bitcoin lending, for any number of vaults and users and every value of  *)
(* the rates, units and limits: its types, its ledger, that no frozen      *)
(* vault is stuck, and that it implements the loan book.                   *)
(***************************************************************************)
EXTENDS BtcLending, Pool_proofs

----------------------------------------------------------------------------
(* The inductive invariant.  FrozenIsRecoverable needs the types alone,    *)
(* for the clock starts at one and a zero time means "none".  The ledger   *)
(* is kept by every step from it: SOL loans are booked in the same total,  *)
(* so what a step of this side owes the ledger is to move the total by as  *)
(* much as the principals.  That needs that a vault without a position     *)
(* owes nothing, since a loan overwrites the principal, and that nothing   *)
(* is booked in a pool that does not exist.                                *)

BtcIInv ==
    /\ BtcTypeOK
    /\ BtcClocksBehind
    /\ UnbornPool
    /\ BtcDebtHasAPosition
    /\ FrozenIsRecoverable

BtcLedgerKept ==
    pool'.total_borrowed - SumOver(BtcVaults, btcPrincipal')
      = pool.total_borrowed - SumOver(BtcVaults, btcPrincipal)

LEMMA BtcFacts ==
    ASSUME BtcTypeOK
    PROVE  /\ now \in Nat \ {0} /\ slot \in Nat
           /\ protocol \in ProtocolAccount
           /\ pool \in LendingPool
           /\ pool.total_borrowed \in Nat /\ pool.borrow_index \in Nat
           /\ feed \in [PriceAssets -> AdminPriceFeed]
           /\ tokens \in [Holders -> Nat]
           /\ btcVault \in [BtcVaults -> BtcVaultAccount]
           /\ attestation
                \in [BtcVaults -> [satoshis : Nat, attested_at_unix : Nat]]
           /\ btcPrincipal \in [BtcVaults -> Nat]
           /\ btcPositions \subseteq BtcVaults
  BY ClockAssumption DEF BtcTypeOK, ProtocolType, PoolType, BtcType, LendingPool

LEMMA BtcAccrued ==
    ASSUME BtcTypeOK, BtcClocksBehind
    PROVE  /\ Accrued \in LendingPool
           /\ Accrued.live = pool.live
           /\ Accrued.total_liquidity = pool.total_liquidity
           /\ Accrued.total_borrowed = pool.total_borrowed
           /\ Accrued.last_update_slot = slot
           /\ Accrued.borrow_index >= pool.borrow_index
           /\ Accrued.borrow_index \in Nat \ {0}
  BY AccrualFacts DEF BtcTypeOK, BtcClocksBehind

LEMMA BtcDebtIsNat ==
    ASSUME BtcTypeOK, BtcClocksBehind, NEW s \in Nat
    PROVE  /\ DebtOf(s) \in Nat
           /\ s = 0 => DebtOf(s) = 0
<1>1. Accrued.borrow_index \in Nat
  BY BtcAccrued
<1>2. DebtOf(s) \in Nat
  BY <1>1, CurrentDebtIsNat DEF DebtOf
<1>3. ASSUME s = 0
      PROVE  DebtOf(s) = 0
  <2>1. 0 * Accrued.borrow_index = 0
    BY <1>1
  <2>2. 0 \div RAY = 0
    BY UnitAssumption
  <2> QED
    BY <1>3, <2>1, <2>2 DEF DebtOf, CurrentDebt
<1> QED
  BY <1>2, <1>3

LEMMA BtcInitIInv == ProtocolInit /\ PoolInit /\ BtcInit => BtcIInv
<1> SUFFICES ASSUME ProtocolInit, PoolInit, BtcInit PROVE BtcIInv
  OBVIOUS
<1>1. ProtocolType
  BY ClockAssumption DEF ProtocolInit, ProtocolType, ProtocolAccount, NoProtocol
<1>2. PoolType
  BY PoolAssumption, UnitAssumption
     DEF PoolInit, PoolType, LendingPool, AdminPriceFeed, NoPool, NoFeed
<1>3. BtcType
  <2>1. NoBtcVault \in BtcVaultAccount
    BY DEF NoBtcVault, BtcVaultAccount, PENDING, VERIFIED, EXPIRED
  <2>2. NoApprovals \in [demo : [DemoPayers -> Nat], ika : BOOLEAN,
                         sighash : {"none", "pending", "signed"}]
    BY DEF NoApprovals
  <2>3. NoAttestation \in [satoshis : Nat, attested_at_unix : Nat]
    BY DEF NoAttestation
  <2> QED
    BY <2>1, <2>2, <2>3 DEF BtcInit, BtcType
<1>4. BtcTypeOK
  BY <1>1, <1>2, <1>3 DEF BtcTypeOK
<1>5. BtcClocksBehind
  BY UnitAssumption, BtcAssumption DEF BtcClocksBehind, ProtocolInit, PoolInit, BtcInit,
     NoPool, NoFeed, NoBtcVault, NoAttestation
<1>6. UnbornPool /\ BtcDebtHasAPosition
  BY DEF UnbornPool, PoolInit, BtcDebtHasAPosition, BtcInit
<1>7. FrozenIsRecoverable
  BY DEF FrozenIsRecoverable, BtcInit, NoBtcVault
<1> QED
  BY <1>4, <1>5, <1>6, <1>7 DEF BtcIInv

----------------------------------------------------------------------------
(* Steps that lend nothing *)

\* What the owner of a vault, Ika or the keeper does to it outside of loans
\* and liquidations.
Upkeep(v) ==
    \/ RegisterBtcVault(v)
    \/ IkaCustodyApproval(v)
    \/ IkaSignsSighash(v)
    \/ \E signer \in Users :
         \/ DemoCreateMessageApproval(v, signer)
         \/ VerifyBtcCustodyProof(v, signer)
         \/ RefreshBtcCustodyProof(v, signer)
         \/ \E satoshis \in Nat : AttestBtcBalance(v, signer, satoshis)

LEMMA UpkeepFrame ==
    ASSUME NEW v \in BtcVaults, Upkeep(v)
    PROVE  UNCHANGED <<now, slot, pool, feed, tokens, btcPositions, btcPrincipal>>
  BY DEF Upkeep, RegisterBtcVault, IkaCustodyApproval, IkaSignsSighash,
     DemoCreateMessageApproval, VerifyBtcCustodyProof, RefreshBtcCustodyProof,
     AttestBtcBalance, clockVars, poolVars

\* Nothing of the kind freezes or thaws a vault, or unregisters one.
LEMMA UpkeepVault ==
    ASSUME BtcTypeOK, FrozenIsRecoverable, NEW v \in BtcVaults, Upkeep(v)
    PROVE  /\ btcVault' \in [BtcVaults -> BtcVaultAccount]
           /\ \A u \in BtcVaults \ {v} : btcVault'[u] = btcVault[u]
           /\ btcVault'[v].frozen <=> btcVault[v].frozen
           /\ btcVault'[v].liquidation_initiated_at
                = btcVault[v].liquidation_initiated_at
           /\ btcVault[v].live => btcVault'[v].live
           /\ btcVault'[v].proof_timestamp
                \in {0, now, btcVault[v].proof_timestamp}
<1> DEFINE Kept ==
      /\ btcVault' \in [BtcVaults -> BtcVaultAccount]
      /\ \A u \in BtcVaults \ {v} : btcVault'[u] = btcVault[u]
      /\ btcVault'[v].frozen <=> btcVault[v].frozen
      /\ btcVault'[v].liquidation_initiated_at
           = btcVault[v].liquidation_initiated_at
      /\ btcVault[v].live => btcVault'[v].live
      /\ btcVault'[v].proof_timestamp \in {0, now, btcVault[v].proof_timestamp}
<1>0. btcVault \in [BtcVaults -> BtcVaultAccount] /\ now \in Nat
  BY BtcFacts
<1> USE <1>0 DEF BtcVaultAccount, PENDING, VERIFIED, EXPIRED
<1>1. ASSUME RegisterBtcVault(v)
      PROVE  Kept
  <2>1. ~btcVault[v].frozen /\ btcVault[v].liquidation_initiated_at = 0
    BY <1>1 DEF RegisterBtcVault, FrozenIsRecoverable, MayFinalize
  <2> QED
    BY <1>1, <2>1 DEF RegisterBtcVault, NoBtcVault
<1>2. ASSUME NEW signer \in Users, VerifyBtcCustodyProof(v, signer)
      PROVE  Kept
  BY <1>2 DEF VerifyBtcCustodyProof
<1>3. ASSUME NEW signer \in Users, RefreshBtcCustodyProof(v, signer)
      PROVE  Kept
  BY <1>3 DEF RefreshBtcCustodyProof
<1>4. ASSUME UNCHANGED btcVault
      PROVE  Kept
  BY <1>4
<1> HIDE DEF Kept, BtcVaultAccount
<1>5. Kept
  BY <1>1, <1>2, <1>3, <1>4 DEF Upkeep, IkaCustodyApproval, IkaSignsSighash,
     DemoCreateMessageApproval, AttestBtcBalance
<1> QED
  BY <1>5 DEF Kept

LEMMA UpkeepAttestation ==
    ASSUME BtcTypeOK, NEW v \in BtcVaults, Upkeep(v)
    PROVE  /\ attestation'
                \in [BtcVaults -> [satoshis : Nat, attested_at_unix : Nat]]
           /\ \A u \in BtcVaults :
                attestation'[u].attested_at_unix
                  \in {0, now, attestation[u].attested_at_unix}
<1> DEFINE Kept ==
      /\ attestation' \in [BtcVaults -> [satoshis : Nat, attested_at_unix : Nat]]
      /\ \A u \in BtcVaults :
           attestation'[u].attested_at_unix
             \in {0, now, attestation[u].attested_at_unix}
<1>0. /\ attestation \in [BtcVaults -> [satoshis : Nat, attested_at_unix : Nat]]
      /\ now \in Nat
  BY BtcFacts
<1>1. ASSUME RegisterBtcVault(v)
      PROVE  Kept
  BY <1>0, <1>1 DEF RegisterBtcVault, NoAttestation
<1>2. ASSUME NEW signer \in Users, NEW satoshis \in Nat,
             AttestBtcBalance(v, signer, satoshis)
      PROVE  Kept
  BY <1>0, <1>2 DEF AttestBtcBalance
<1>3. ASSUME UNCHANGED attestation
      PROVE  Kept
  BY <1>0, <1>3
<1> HIDE DEF Kept
<1>4. Kept
  BY <1>1, <1>2, <1>3 DEF Upkeep, IkaCustodyApproval, IkaSignsSighash,
     DemoCreateMessageApproval, VerifyBtcCustodyProof, RefreshBtcCustodyProof
<1> QED
  BY <1>4 DEF Kept

LEMMA UpkeepApprovals ==
    ASSUME BtcTypeOK, NEW v \in BtcVaults, Upkeep(v)
    PROVE  approvals'
             \in [BtcVaults -> [demo : [DemoPayers -> Nat], ika : BOOLEAN,
                                sighash : {"none", "pending", "signed"}]]
<1> DEFINE Kind == [demo : [DemoPayers -> Nat], ika : BOOLEAN,
                    sighash : {"none", "pending", "signed"}]
           Typed == approvals' \in [BtcVaults -> Kind]
<1>0. approvals \in [BtcVaults -> Kind] /\ now \in Nat
  BY BtcFacts DEF BtcTypeOK, BtcType
<1>1. ASSUME IkaCustodyApproval(v) \/ IkaSignsSighash(v)
      PROVE  Typed
  <2>1. /\ [approvals[v] EXCEPT !.ika = TRUE] \in Kind
        /\ [approvals[v] EXCEPT !.sighash = "signed", !.ika = TRUE] \in Kind
    BY <1>0
  <2>2. \/ approvals' = [approvals EXCEPT ![v].ika = TRUE]
        \/ approvals' = [approvals EXCEPT ![v] =
                           [@ EXCEPT !.sighash = "signed", !.ika = TRUE]]
    BY <1>1 DEF IkaCustodyApproval, IkaSignsSighash
  <2> HIDE DEF Kind
  <2> QED
    BY <1>0, <2>1, <2>2
<1>2. ASSUME NEW signer \in Users, DemoCreateMessageApproval(v, signer)
      PROVE  Typed
  BY <1>0, <1>2 DEF DemoCreateMessageApproval
<1>3. ASSUME UNCHANGED approvals
      PROVE  Typed
  BY <1>0, <1>3
<1> HIDE DEF Typed
<1>4. Typed
  BY <1>1, <1>2, <1>3 DEF Upkeep, RegisterBtcVault, VerifyBtcCustodyProof,
     RefreshBtcCustodyProof, AttestBtcBalance
<1> QED
  BY <1>4 DEF Typed

LEMMA UpkeepProtocol ==
    ASSUME BtcTypeOK, NEW v \in BtcVaults, Upkeep(v)
    PROVE  /\ protocol' \in ProtocolAccount
           /\ protocol'.live = protocol.live
<1>0. protocol \in ProtocolAccount
  BY BtcFacts
<1>1. ASSUME RegisterBtcVault(v)
      PROVE  protocol' \in ProtocolAccount /\ protocol'.live = protocol.live
  <2>1. protocol' = [protocol EXCEPT !.total_vaults = protocol.total_vaults + 1]
    BY <1>1 DEF RegisterBtcVault
  <2>2. protocol.total_vaults + 1 \in Nat
    BY <1>0 DEF ProtocolAccount
  <2>3. protocol' \in ProtocolAccount
    BY <1>0, <2>1, <2>2 DEF ProtocolAccount
  <2>4. protocol'.live = protocol.live
    BY <1>0, <2>1 DEF ProtocolAccount
  <2> QED
    BY <2>3, <2>4
<1>2. ASSUME UNCHANGED protocol
      PROVE  protocol' \in ProtocolAccount /\ protocol'.live = protocol.live
  BY <1>0, <1>2
<1> QED
  BY <1>1, <1>2 DEF Upkeep, IkaCustodyApproval, IkaSignsSighash,
     DemoCreateMessageApproval, VerifyBtcCustodyProof, RefreshBtcCustodyProof,
     AttestBtcBalance

LEMMA UpkeepIInv ==
    ASSUME BtcIInv, NEW v \in BtcVaults, Upkeep(v)
    PROVE  BtcIInv' /\ BtcLedgerKept
<1> USE DEF BtcIInv
<1>1. UNCHANGED <<now, slot, pool, feed, tokens, btcPositions, btcPrincipal>>
  BY UpkeepFrame
<1>2. /\ btcVault' \in [BtcVaults -> BtcVaultAccount]
      /\ \A u \in BtcVaults \ {v} : btcVault'[u] = btcVault[u]
      /\ btcVault'[v].frozen <=> btcVault[v].frozen
      /\ btcVault'[v].liquidation_initiated_at
           = btcVault[v].liquidation_initiated_at
      /\ btcVault[v].live => btcVault'[v].live
      /\ btcVault'[v].proof_timestamp \in {0, now, btcVault[v].proof_timestamp}
  BY UpkeepVault
<1>3. /\ attestation' \in [BtcVaults -> [satoshis : Nat, attested_at_unix : Nat]]
      /\ \A u \in BtcVaults :
           attestation'[u].attested_at_unix
             \in {0, now, attestation[u].attested_at_unix}
  BY UpkeepAttestation
<1>4. protocol' \in ProtocolAccount /\ protocol'.live = protocol.live
  BY UpkeepProtocol
<1>5. BtcTypeOK'
  BY <1>1, <1>2, <1>3, <1>4, UpkeepApprovals
     DEF BtcTypeOK, ProtocolType, PoolType, BtcType
<1>6. BtcClocksBehind'
  <2>1. now \in Nat
    BY BtcFacts
  <2>2. \A u \in BtcVaults :
          /\ btcVault'[u].proof_timestamp <= now
          /\ btcVault'[u].liquidation_initiated_at <= now
    BY <1>2, <2>1 DEF BtcClocksBehind
  <2>3. \A u \in BtcVaults : attestation'[u].attested_at_unix <= now
    BY <1>3, <2>1 DEF BtcClocksBehind
  <2> QED
    BY <1>1, <2>2, <2>3 DEF BtcClocksBehind
<1>7. UnbornPool' /\ BtcDebtHasAPosition' /\ BtcLedgerKept
  BY <1>1, <1>2 DEF UnbornPool, BtcDebtHasAPosition, BtcLedgerKept
<1>8. FrozenIsRecoverable'
  BY <1>1, <1>2, <1>4 DEF FrozenIsRecoverable, MayFinalize, IsAdmin
<1> QED
  BY <1>5, <1>6, <1>7, <1>8

\* The clock, the protocol's singleton and the pool's administration.
LEMMA SharedStepIInv ==
    ASSUME BtcIInv, UNCHANGED btcVars,
           \/ Tick /\ UNCHANGED poolVars
           \/ /\ UNCHANGED poolVars
              /\ \E user \in Users :
                   InitializeProtocol(user) \/ UnfreezeProtocolState(user)
           \/ PoolStep
    PROVE  BtcIInv' /\ BtcLedgerKept
<1> USE DEF BtcIInv
<1>0. /\ UNCHANGED <<btcVault, attestation, btcPositions, btcPrincipal, approvals>>
      /\ now \in Nat /\ slot \in Nat
      /\ BtcType'
  BY BtcFacts DEF btcVars, BtcTypeOK, BtcType
<1>1. CASE Tick /\ UNCHANGED poolVars
  <2>1. /\ UNCHANGED <<protocol, pool, feed, tokens>>
        /\ now' \in Nat \ {0} /\ now <= now'
        /\ slot' \in 0..MaxSlot /\ slot <= slot'
    BY <1>0, <1>1, ClockAssumption
       DEF Tick, poolVars, BtcTypeOK, ProtocolType
  <2>2. BtcTypeOK'
    BY <1>0, <2>1 DEF BtcTypeOK, ProtocolType, PoolType
  <2>3. BtcClocksBehind'
    <3>1. /\ pool.last_update_slot \in Nat /\ feed[BTC].updated_at \in Nat
          /\ slot' \in Nat
      BY <2>1, ClockAssumption, BtcFacts, BtcAssumption
         DEF LendingPool, AdminPriceFeed
    <3>2. \A v \in BtcVaults :
            /\ btcVault[v].proof_timestamp \in Nat
            /\ btcVault[v].liquidation_initiated_at \in Nat
            /\ attestation[v].attested_at_unix \in Nat
      BY BtcFacts DEF BtcVaultAccount
    <3> QED
      BY <1>0, <2>1, <3>1, <3>2 DEF BtcClocksBehind
  <2> QED
    BY <1>0, <2>1, <2>2, <2>3 DEF UnbornPool, BtcDebtHasAPosition,
       FrozenIsRecoverable, MayFinalize, IsAdmin, BtcLedgerKept
<1>2. CASE /\ UNCHANGED poolVars
           /\ \E user \in Users :
                InitializeProtocol(user) \/ UnfreezeProtocolState(user)
  <2>1. UNCHANGED <<now, slot, pool, feed, tokens>>
    BY <1>2 DEF InitializeProtocol, UnfreezeProtocolState, clockVars, poolVars
  <2>2. /\ protocol' \in ProtocolAccount
        /\ protocol.live => protocol'.live
    <3>1. ASSUME NEW user \in Users, InitializeProtocol(user)
          PROVE  protocol' \in ProtocolAccount /\ ~protocol.live
      BY <3>1 DEF InitializeProtocol, NoProtocol, ProtocolAccount
    <3>2. ASSUME NEW user \in Users, UnfreezeProtocolState(user)
          PROVE  protocol' \in ProtocolAccount /\ protocol'.live = protocol.live
      BY <3>2, BtcFacts DEF UnfreezeProtocolState, ProtocolAccount
    <3> QED
      BY <1>2, <3>1, <3>2
  <2>3. BtcTypeOK'
    BY <1>0, <2>1, <2>2 DEF BtcTypeOK, ProtocolType, PoolType
  <2> QED
    BY <1>0, <2>1, <2>2, <2>3 DEF BtcClocksBehind, UnbornPool,
       BtcDebtHasAPosition, FrozenIsRecoverable, MayFinalize, IsAdmin,
       BtcLedgerKept
<1>3. CASE PoolStep
  <2>1. ProtocolType' /\ PoolType'
    BY <1>3, PoolStepType DEF BtcTypeOK
  <2>2. BtcTypeOK'
    BY <1>0, <2>1 DEF BtcTypeOK
  <2>3. /\ UNCHANGED <<now, slot, protocol>>
        /\ \A a \in PriceAssets :
             feed'[a].updated_at \in {0, now, feed[a].updated_at}
        /\ \/ pool' = pool
           \/ /\ ~pool.live
              /\ pool'.live /\ pool'.total_borrowed = 0
              /\ pool'.borrow_index = RAY /\ pool'.last_update_slot = slot
    BY <1>3, PoolStepFrame DEF BtcTypeOK
  <2>4. BtcClocksBehind'
    BY <1>0, <2>3, BtcAssumption, UnitAssumption DEF BtcClocksBehind
  <2>5. UnbornPool'
    BY <2>3 DEF UnbornPool
  <2>6. BtcDebtHasAPosition'
    BY <1>0, <2>3 DEF BtcDebtHasAPosition
  <2>7. FrozenIsRecoverable'
    BY <1>0, <2>3 DEF FrozenIsRecoverable, MayFinalize, IsAdmin
  <2>8. BtcLedgerKept
    <3>1. CASE pool' = pool
      BY <1>0, <3>1 DEF BtcLedgerKept
    <3>2. CASE ~pool.live /\ pool'.total_borrowed = 0
      \* Nothing is booked before the pool exists.
      <4>1. pool.total_borrowed = 0
        BY <3>2 DEF UnbornPool, NoPool
      <4> QED
        BY <1>0, <3>2, <4>1 DEF BtcLedgerKept
    <3> QED
      BY <2>3, <3>1, <3>2
  <2> QED
    BY <2>2, <2>4, <2>5, <2>6, <2>7, <2>8
<1> QED
  BY <1>1, <1>2, <1>3

----------------------------------------------------------------------------
(* Loans *)

LEMMA BtcLedgerStep ==
    ASSUME NEW f \in [BtcVaults -> Nat], NEW g \in [BtcVaults -> Nat],
           NEW v \in BtcVaults,
           \A u \in BtcVaults \ {v} : g[u] = f[u]
    PROVE  SumOver(BtcVaults, g) = SumOver(BtcVaults, f) - f[v] + g[v]
  BY SumUpdate, BtcAssumption

\* Setting one principal, and the pool's total with it, keeps the ledger.
LEMMA LoanStep ==
    ASSUME BtcIInv, NEW v \in BtcVaults, NEW d \in Nat, pool.live,
           pool.total_borrowed - btcPrincipal[v] + d \in Nat,
           pool' = [Accrued EXCEPT !.total_borrowed =
                      Accrued.total_borrowed - btcPrincipal[v] + d],
           btcPrincipal' = [btcPrincipal EXCEPT ![v] = d]
    PROVE  /\ pool' \in LendingPool
           /\ pool'.live
           /\ pool'.total_borrowed = pool.total_borrowed - btcPrincipal[v] + d
           /\ pool'.borrow_index = Accrued.borrow_index
           /\ pool'.borrow_index >= RAY
           /\ pool'.last_update_slot = slot
           /\ btcPrincipal' \in [BtcVaults -> Nat]
           /\ BtcLedgerKept
<1> USE DEF BtcIInv
<1>1. /\ Accrued \in LendingPool
      /\ Accrued.live = pool.live
      /\ Accrued.total_borrowed = pool.total_borrowed
      /\ Accrued.last_update_slot = slot
      /\ Accrued.borrow_index >= pool.borrow_index
  BY BtcAccrued
<1>2. /\ btcPrincipal \in [BtcVaults -> Nat]
      /\ pool.total_borrowed \in Nat /\ pool.borrow_index \in Nat
      /\ Accrued.borrow_index \in Nat /\ RAY \in Nat
      /\ IsFiniteSet(BtcVaults)
  BY <1>1, BtcFacts, UnitAssumption, BtcAssumption DEF LendingPool
<1>3. /\ pool'.live
      /\ pool'.total_borrowed = pool.total_borrowed - btcPrincipal[v] + d
      /\ pool'.borrow_index = Accrued.borrow_index
      /\ pool'.last_update_slot = Accrued.last_update_slot
  BY <1>1 DEF LendingPool
<1>4. pool' \in LendingPool
  BY <1>1 DEF LendingPool
<1>5. pool'.borrow_index >= RAY
  BY <1>1, <1>2, <1>3 DEF BtcClocksBehind
<1>6. /\ btcPrincipal' \in [BtcVaults -> Nat]
      /\ btcPrincipal'[v] = d
      /\ \A u \in BtcVaults \ {v} : btcPrincipal'[u] = btcPrincipal[u]
  BY <1>2
<1>7. SumOver(BtcVaults, btcPrincipal')
         = SumOver(BtcVaults, btcPrincipal) - btcPrincipal[v] + btcPrincipal'[v]
  BY <1>2, <1>6, BtcLedgerStep
<1>8. BtcLedgerKept
  <2>1. /\ SumOver(BtcVaults, btcPrincipal) \in Nat
        /\ SumOver(BtcVaults, btcPrincipal') \in Nat
        /\ btcPrincipal[v] \in Nat
    BY <1>2, <1>6, SumIsNat
  <2> QED
    BY <1>2, <1>3, <1>6, <1>7, <2>1 DEF BtcLedgerKept
<1> QED
  BY <1>1, <1>3, <1>4, <1>5, <1>6, <1>8

\* A loan step that leaves the vault, its attestation and its approvals alone.
LEMMA QuietLoanStep ==
    ASSUME BtcIInv, NEW v \in BtcVaults, NEW d \in Nat, pool.live,
           pool.total_borrowed - btcPrincipal[v] + d \in Nat,
           pool' = [Accrued EXCEPT !.total_borrowed =
                      Accrued.total_borrowed - btcPrincipal[v] + d],
           btcPrincipal' = [btcPrincipal EXCEPT ![v] = d],
           btcPositions' \in {btcPositions \ {v}, btcPositions \cup {v}},
           d > 0 => v \in btcPositions',
           ~btcVault[v].frozen, btcVault[v].live,
           tokens' \in [Holders -> Nat],
           UNCHANGED <<clockVars, protocol, feed, btcVault, attestation,
                       approvals>>
    PROVE  BtcIInv' /\ BtcLedgerKept
<1> USE DEF BtcIInv
<1>1. /\ pool' \in LendingPool
      /\ pool'.live
      /\ pool'.borrow_index >= RAY
      /\ pool'.last_update_slot = slot
      /\ btcPrincipal' \in [BtcVaults -> Nat]
      /\ BtcLedgerKept
  BY LoanStep
<1>2. /\ UNCHANGED <<now, slot>> /\ slot \in Nat
      /\ btcPrincipal \in [BtcVaults -> Nat]
      /\ btcPositions \subseteq BtcVaults
  BY BtcFacts DEF clockVars
<1>3. BtcTypeOK'
  BY <1>1, <1>2 DEF BtcTypeOK, ProtocolType, PoolType, BtcType
<1>4. BtcClocksBehind' /\ UnbornPool'
  BY <1>1, <1>2 DEF BtcClocksBehind, UnbornPool
<1>5. BtcDebtHasAPosition'
  BY <1>1, <1>2 DEF BtcDebtHasAPosition
<1>6. FrozenIsRecoverable'
  BY <1>2 DEF FrozenIsRecoverable, MayFinalize, IsAdmin
<1> QED
  BY <1>1, <1>3, <1>4, <1>5, <1>6

LEMMA ScaledLoan ==
    ASSUME BtcIInv, NEW amount \in Nat
    PROVE  ToScaled(amount, Accrued.borrow_index) \in Nat
  BY BtcAccrued, ToScaledIsNat DEF BtcIInv

LEMMA BtcBorrowFacts ==
    ASSUME BtcIInv, NEW v \in BtcVaults, NEW signer \in Users,
           NEW amount \in BtcBorrowAmounts,
           BorrowAgainstBtcCollateral(v, signer, amount)
    PROVE  LET scaled == ToScaled(amount, Accrued.borrow_index)
           IN  /\ scaled \in Nat
               /\ btcPrincipal[v] = 0
               /\ pool.total_borrowed - btcPrincipal[v] + scaled \in Nat
               /\ pool' = [Accrued EXCEPT !.total_borrowed =
                             Accrued.total_borrowed - btcPrincipal[v] + scaled]
               /\ btcPrincipal' = [btcPrincipal EXCEPT ![v] = scaled]
               /\ tokens' \in [Holders -> Nat]
<1> DEFINE scaled == ToScaled(amount, Accrued.borrow_index)
<1>1. amount \in Nat
  BY BtcAssumption
<1>2. scaled \in Nat
  BY <1>1, ScaledLoan
<1>3. v \notin btcPositions /\ Pay(PoolVault, signer, amount)
  BY DEF BorrowAgainstBtcCollateral
<1>4. btcPrincipal[v] = 0
  BY <1>3, BtcFacts DEF BtcIInv, BtcDebtHasAPosition
<1>5. /\ pool' = [Accrued EXCEPT !.total_borrowed =
                    Accrued.total_borrowed + scaled]
      /\ btcPrincipal' = [btcPrincipal EXCEPT ![v] = scaled]
  BY DEF BorrowAgainstBtcCollateral
<1> HIDE DEF scaled
<1>6. /\ Accrued.total_borrowed \in Nat
      /\ Accrued.total_borrowed = pool.total_borrowed
  BY BtcAccrued DEF BtcIInv, LendingPool
<1>7. /\ Accrued.total_borrowed + scaled
           = Accrued.total_borrowed - btcPrincipal[v] + scaled
      /\ pool.total_borrowed - btcPrincipal[v] + scaled \in Nat
  BY <1>2, <1>4, <1>6
<1>8. tokens' \in [Holders -> Nat]
  BY <1>1, <1>3, BtcFacts, PayKeepsType DEF BtcIInv, Holders
<1> QED
  BY <1>2, <1>4, <1>5, <1>7, <1>8 DEF scaled

LEMMA BtcRepayFacts ==
    ASSUME BtcIInv, NEW v \in BtcVaults, NEW signer \in Users,
           NEW amount \in BtcRepayAmounts, RepayBtcBorrow(v, signer, amount)
    PROVE  LET slice == BtcSlice(v, amount)
           IN  /\ btcPrincipal[v] > 0
               /\ BtcPaid(v, amount) \in Nat \ {0}
               /\ slice \in 0..btcPrincipal[v]
               /\ btcPrincipal[v] - slice \in Nat
               /\ pool.total_borrowed - btcPrincipal[v]
                    + (btcPrincipal[v] - slice) \in Nat
               /\ pool' = [Accrued EXCEPT !.total_borrowed =
                             Accrued.total_borrowed - btcPrincipal[v]
                               + (btcPrincipal[v] - slice)]
               /\ btcPrincipal' =
                    [btcPrincipal EXCEPT ![v] = btcPrincipal[v] - slice]
               /\ btcPositions' \in {btcPositions \ {v}, btcPositions \cup {v}}
               /\ btcPrincipal[v] - slice > 0 => v \in btcPositions'
               /\ tokens' \in [Holders -> Nat]
<1> DEFINE slice == BtcSlice(v, amount)
           paid == BtcPaid(v, amount)
           owed == DebtOf(btcPrincipal[v])
<1>1. /\ btcPrincipal[v] \in Nat /\ amount \in Nat
      /\ BtcOwnerOf[v] \in Users
      /\ tokens[BtcOwnerOf[v]] \in Nat /\ tokens \in [Holders -> Nat]
  BY BtcFacts, BtcAssumption DEF BtcIInv, Holders
<1>2. owed \in Nat /\ (btcPrincipal[v] = 0 => owed = 0)
  BY <1>1, BtcDebtIsNat DEF BtcIInv
<1>3. /\ v \in btcPositions
      /\ owed > 0 /\ paid > 0
      /\ Pay(signer, PoolVault, paid)
      /\ pool.total_borrowed >= slice
  BY DEF RepayBtcBorrow, MayRepayBtc
<1>4. /\ pool' = [Accrued EXCEPT !.total_borrowed = Accrued.total_borrowed - slice]
      /\ btcPrincipal' = [btcPrincipal EXCEPT ![v] = btcPrincipal[v] - slice]
      /\ btcPositions' = IF btcPrincipal[v] = slice THEN btcPositions \ {v}
                                                    ELSE btcPositions
  BY DEF RepayBtcBorrow, BtcPositionsAfter
<1>5. paid \in Nat
  BY <1>1, <1>2 DEF BtcPaid, Smaller
<1> HIDE DEF paid, owed
<1>6. slice \in 0..btcPrincipal[v]
  <2>1. ToScaled(paid, Accrued.borrow_index) \in Nat
    BY <1>5, ScaledLoan
  <2> QED
    BY <1>1, <2>1 DEF BtcSlice, Smaller, paid
<1> HIDE DEF slice
<1>7. /\ Accrued.total_borrowed \in Nat
      /\ Accrued.total_borrowed = pool.total_borrowed
  BY BtcAccrued DEF BtcIInv, LendingPool
<1>8. /\ btcPrincipal[v] > 0
      /\ btcPrincipal[v] - slice \in Nat
      /\ pool.total_borrowed - btcPrincipal[v] + (btcPrincipal[v] - slice) \in Nat
      /\ Accrued.total_borrowed - slice
           = Accrued.total_borrowed - btcPrincipal[v] + (btcPrincipal[v] - slice)
      /\ btcPrincipal[v] - slice > 0 => btcPrincipal[v] # slice
  BY <1>1, <1>2, <1>3, <1>6, <1>7
<1>9. btcPositions \cup {v} = btcPositions
  BY <1>3
<1>10. tokens' \in [Holders -> Nat]
  BY <1>1, <1>3, <1>5, PayKeepsType DEF Holders
<1>11. paid \in Nat \ {0}
  BY <1>3, <1>5
<1> QED
  BY <1>4, <1>6, <1>8, <1>9, <1>10, <1>11 DEF slice, paid

LEMMA BtcLiquidateFacts ==
    ASSUME BtcIInv, NEW v \in BtcVaults, NEW liquidator \in Users,
           LiquidateBtcPosition(v, liquidator)
    PROVE  /\ btcPrincipal[v] > 0
           /\ DebtOf(btcPrincipal[v]) \in Nat
           /\ pool.total_borrowed - btcPrincipal[v] + 0 \in Nat
           /\ pool' = [Accrued EXCEPT !.total_borrowed =
                         Accrued.total_borrowed - btcPrincipal[v] + 0]
           /\ btcPrincipal' = [btcPrincipal EXCEPT ![v] = 0]
           /\ tokens' \in [Holders -> Nat]
<1>1. btcPrincipal[v] \in Nat
  BY BtcFacts DEF BtcIInv
<1>2. DebtOf(btcPrincipal[v]) \in Nat
  BY <1>1, BtcDebtIsNat DEF BtcIInv
<1>3. /\ btcPrincipal[v] > 0
      /\ pool.total_borrowed >= btcPrincipal[v]
      /\ Pay(liquidator, PoolVault, DebtOf(btcPrincipal[v]))
      /\ pool' = [Accrued EXCEPT !.total_borrowed =
                    Accrued.total_borrowed - btcPrincipal[v]]
      /\ btcPrincipal' = [btcPrincipal EXCEPT ![v] = 0]
  BY DEF LiquidateBtcPosition, Booked
<1>4. /\ Accrued.total_borrowed \in Nat
      /\ Accrued.total_borrowed = pool.total_borrowed
  BY BtcAccrued DEF BtcIInv, LendingPool
<1>5. /\ Accrued.total_borrowed - btcPrincipal[v]
           = Accrued.total_borrowed - btcPrincipal[v] + 0
      /\ pool.total_borrowed - btcPrincipal[v] + 0 \in Nat
  BY <1>1, <1>3, <1>4
<1>6. tokens' \in [Holders -> Nat]
  BY <1>2, <1>3, BtcFacts, PayKeepsType DEF BtcIInv, Holders
<1> QED
  BY <1>2, <1>3, <1>5, <1>6

LEMMA BtcLoanIInv ==
    ASSUME BtcIInv, NEW v \in BtcVaults, NEW signer \in Users,
           \/ \E amount \in BtcBorrowAmounts :
                BorrowAgainstBtcCollateral(v, signer, amount)
           \/ \E amount \in BtcRepayAmounts : RepayBtcBorrow(v, signer, amount)
    PROVE  BtcIInv' /\ BtcLedgerKept
<1>1. CASE \E amount \in BtcBorrowAmounts :
             BorrowAgainstBtcCollateral(v, signer, amount)
  <2>1. PICK amount \in BtcBorrowAmounts :
          BorrowAgainstBtcCollateral(v, signer, amount)
    BY <1>1
  <2>2. /\ pool.live /\ btcVault[v].live /\ ~btcVault[v].frozen
        /\ btcPositions' = btcPositions \cup {v}
        /\ UNCHANGED <<clockVars, protocol, feed, btcVault, attestation,
                       approvals>>
    BY <2>1 DEF BorrowAgainstBtcCollateral, MayBorrow
  <2> QED
    BY <2>1, <2>2, BtcBorrowFacts, QuietLoanStep
<1>2. CASE \E amount \in BtcRepayAmounts : RepayBtcBorrow(v, signer, amount)
  <2>1. PICK amount \in BtcRepayAmounts : RepayBtcBorrow(v, signer, amount)
    BY <1>2
  <2>2. /\ pool.live /\ btcVault[v].live
        /\ UNCHANGED <<clockVars, protocol, feed, btcVault, attestation,
                       approvals>>
    BY <2>1 DEF RepayBtcBorrow, MayRepayBtc
  <2>3. ~btcVault[v].frozen
    BY <2>1, BtcRepayFacts DEF BtcIInv, FrozenIsRecoverable, MayFinalize
  <2> QED
    BY <2>1, <2>2, <2>3, BtcRepayFacts, QuietLoanStep
<1> QED
  BY <1>1, <1>2

LEMMA BtcLiquidateIInv ==
    ASSUME BtcIInv, NEW v \in BtcVaults, NEW liquidator \in Users,
           LiquidateBtcPosition(v, liquidator)
    PROVE  BtcIInv' /\ BtcLedgerKept
<1> USE DEF BtcIInv
<1>1. /\ protocol.live /\ pool.live /\ btcVault[v].live
      /\ v \in btcPositions
      /\ btcPositions' = btcPositions
      /\ btcVault' = [btcVault EXCEPT ![v] =
                         [@ EXCEPT !.frozen = TRUE,
                                   !.liquidation_initiated_at = now]]
      /\ approvals' = [approvals EXCEPT ![v].sighash = "pending"]
      /\ UNCHANGED <<now, slot, protocol, feed, attestation>>
  BY DEF LiquidateBtcPosition, BtcPositionsLiquidated, clockVars
<1>2. /\ pool' \in LendingPool
      /\ pool'.live
      /\ pool'.borrow_index >= RAY
      /\ pool'.last_update_slot = slot
      /\ btcPrincipal' \in [BtcVaults -> Nat]
      /\ BtcLedgerKept
  BY <1>1, BtcLiquidateFacts, LoanStep
<1>3. /\ now \in Nat \ {0} /\ slot \in Nat
      /\ btcVault \in [BtcVaults -> BtcVaultAccount]
      /\ btcPrincipal \in [BtcVaults -> Nat]
  BY BtcFacts
<1>4. btcPrincipal' = [btcPrincipal EXCEPT ![v] = 0]
      /\ tokens' \in [Holders -> Nat]
  BY BtcLiquidateFacts
<1>5. /\ btcVault' \in [BtcVaults -> BtcVaultAccount]
      /\ \A u \in BtcVaults \ {v} : btcVault'[u] = btcVault[u]
      /\ btcVault'[v].frozen
      /\ btcVault'[v].live
      /\ btcVault'[v].liquidation_initiated_at = now
      /\ btcVault'[v].proof_timestamp = btcVault[v].proof_timestamp
  BY <1>1, <1>3 DEF BtcVaultAccount
<1>6. approvals' \in [BtcVaults -> [demo : [DemoPayers -> Nat], ika : BOOLEAN,
                                    sighash : {"none", "pending", "signed"}]]
  BY <1>1 DEF BtcTypeOK, BtcType
<1>7. BtcTypeOK'
  BY <1>1, <1>2, <1>4, <1>5, <1>6
     DEF BtcTypeOK, ProtocolType, PoolType, BtcType
<1>8. BtcClocksBehind' /\ UnbornPool'
  BY <1>1, <1>2, <1>3, <1>5 DEF BtcClocksBehind, UnbornPool
<1>9. BtcDebtHasAPosition'
  BY <1>1, <1>2, <1>3, <1>4, <1>5 DEF BtcDebtHasAPosition
<1>10. FrozenIsRecoverable'
  <2>1. now > 0
    BY <1>3
  <2>2. /\ btcPrincipal'[v] = 0
        /\ \A u \in BtcVaults \ {v} : btcPrincipal'[u] = btcPrincipal[u]
    BY <1>3, <1>4
  <2>3. BTC_LIQUIDATION_MIN_CONFIRMATIONS >= BTC_LIQUIDATION_MIN_CONFIRMATIONS
    BY BtcAssumption
  <2> QED
    BY <1>1, <1>5, <2>1, <2>2, <2>3
       DEF FrozenIsRecoverable, MayFinalize, IsAdmin
<1> QED
  BY <1>2, <1>7, <1>8, <1>9, <1>10

\* What finalization leaves of a vault account: a thawed, unproven account.
LEMMA ThawedAccount ==
    ASSUME NEW r \in BtcVaultAccount
    PROVE  LET t == [r EXCEPT !.proof_status = PENDING, !.proof_timestamp = 0,
                              !.frozen = FALSE, !.liquidation_initiated_at = 0]
           IN  /\ t \in BtcVaultAccount
               /\ ~t.frozen
               /\ t.liquidation_initiated_at = 0
               /\ t.proof_timestamp = 0
<1> DEFINE t == [r EXCEPT !.proof_status = PENDING, !.proof_timestamp = 0,
                          !.frozen = FALSE, !.liquidation_initiated_at = 0]
<1>1. t.frozen = FALSE
  BY DEF BtcVaultAccount
<1>2. t.liquidation_initiated_at = 0 /\ t.proof_timestamp = 0
  BY DEF BtcVaultAccount
<1>3. t \in BtcVaultAccount
  BY DEF BtcVaultAccount, PENDING, VERIFIED, EXPIRED
<1> QED
  BY <1>1, <1>2, <1>3

LEMMA BtcFinalizeIInv ==
    ASSUME BtcIInv, NEW v \in BtcVaults, NEW keeper \in Users,
           NEW confirmations \in Nat, NEW remaining \in Nat,
           FinalizeBtcLiquidation(v, keeper, confirmations, remaining)
    PROVE  BtcIInv' /\ BtcLedgerKept
<1> USE DEF BtcIInv
<1>1. /\ btcPrincipal[v] = 0 /\ v \in btcPositions /\ btcVault[v].live
      /\ btcPositions' = btcPositions \ {v}
      /\ btcVault' = [btcVault EXCEPT ![v] =
                         [@ EXCEPT !.proof_status = PENDING,
                                   !.proof_timestamp = 0,
                                   !.frozen = FALSE,
                                   !.liquidation_initiated_at = 0]]
      /\ attestation' = [attestation EXCEPT ![v] =
                           [satoshis |-> remaining, attested_at_unix |-> now]]
      /\ approvals' = [approvals EXCEPT ![v].sighash = "none"]
      /\ UNCHANGED <<now, slot, protocol, pool, feed, tokens, btcPrincipal>>
  BY DEF FinalizeBtcLiquidation, MayFinalize, Thawed, clockVars, poolVars
<1>2. /\ now \in Nat /\ slot \in Nat
      /\ btcVault \in [BtcVaults -> BtcVaultAccount]
      /\ attestation \in [BtcVaults -> [satoshis : Nat, attested_at_unix : Nat]]
      /\ btcPrincipal \in [BtcVaults -> Nat]
      /\ btcPositions \subseteq BtcVaults
  BY BtcFacts
<1>3. /\ btcVault' \in [BtcVaults -> BtcVaultAccount]
      /\ \A u \in BtcVaults \ {v} : btcVault'[u] = btcVault[u]
      /\ ~btcVault'[v].frozen
      /\ btcVault'[v].liquidation_initiated_at = 0
      /\ btcVault'[v].proof_timestamp = 0
  <2>1. btcVault[v] \in BtcVaultAccount
    BY <1>2
  <2>2. /\ \A u \in BtcVaults \ {v} : btcVault'[u] = btcVault[u]
        /\ DOMAIN btcVault' = BtcVaults
        /\ btcVault' = [u \in BtcVaults |-> btcVault'[u]]
    BY <1>1, <1>2
  <2>3. btcVault'[v] = [btcVault[v] EXCEPT !.proof_status = PENDING,
                                          !.proof_timestamp = 0,
                                          !.frozen = FALSE,
                                          !.liquidation_initiated_at = 0]
    BY <1>1, <1>2
  <2>4. /\ btcVault'[v] \in BtcVaultAccount
        /\ ~btcVault'[v].frozen
        /\ btcVault'[v].liquidation_initiated_at = 0
        /\ btcVault'[v].proof_timestamp = 0
    BY <2>1, <2>3, ThawedAccount
  <2> QED
    BY <1>2, <2>2, <2>4
<1>4. /\ attestation' \in [BtcVaults -> [satoshis : Nat, attested_at_unix : Nat]]
      /\ \A u \in BtcVaults :
           attestation'[u].attested_at_unix
             \in {now, attestation[u].attested_at_unix}
  BY <1>1, <1>2
<1>5. approvals' \in [BtcVaults -> [demo : [DemoPayers -> Nat], ika : BOOLEAN,
                                    sighash : {"none", "pending", "signed"}]]
  BY <1>1 DEF BtcTypeOK, BtcType
<1>6. BtcTypeOK'
  BY <1>1, <1>2, <1>3, <1>4, <1>5
     DEF BtcTypeOK, ProtocolType, PoolType, BtcType
<1>7. BtcClocksBehind' /\ UnbornPool'
  BY <1>1, <1>2, <1>3, <1>4 DEF BtcClocksBehind, UnbornPool
<1>8. BtcDebtHasAPosition' /\ BtcLedgerKept
  BY <1>1, <1>2, <1>3 DEF BtcDebtHasAPosition, BtcLedgerKept
<1>9. FrozenIsRecoverable'
  BY <1>1, <1>3 DEF FrozenIsRecoverable, MayFinalize, IsAdmin
<1> QED
  BY <1>6, <1>7, <1>8, <1>9

LEMMA BtcNextIInv ==
    ASSUME BtcIInv, [BtcNext]_btcAll
    PROVE  BtcIInv' /\ BtcLedgerKept
<1>1. CASE UNCHANGED btcAll
  BY <1>1 DEF btcAll, clockVars, poolVars, btcVars, BtcIInv, BtcTypeOK,
     ProtocolType, PoolType, BtcType, BtcClocksBehind, UnbornPool,
     BtcDebtHasAPosition, FrozenIsRecoverable, MayFinalize, IsAdmin,
     BtcLedgerKept
<1>2. CASE /\ UNCHANGED btcVars
           /\ \/ Tick /\ UNCHANGED poolVars
              \/ /\ UNCHANGED poolVars
                 /\ \E user \in Users :
                      InitializeProtocol(user) \/ UnfreezeProtocolState(user)
              \/ PoolStep
  BY <1>2, SharedStepIInv
<1>3. ASSUME NEW v \in BtcVaults, Upkeep(v)
      PROVE  BtcIInv' /\ BtcLedgerKept
  BY <1>3, UpkeepIInv
<1>4. ASSUME NEW v \in BtcVaults, NEW user \in Users,
             \/ \E amount \in BtcBorrowAmounts :
                  BorrowAgainstBtcCollateral(v, user, amount)
             \/ \E amount \in BtcRepayAmounts : RepayBtcBorrow(v, user, amount)
      PROVE  BtcIInv' /\ BtcLedgerKept
  BY <1>4, BtcLoanIInv
<1>5. ASSUME NEW v \in BtcVaults, NEW user \in Users,
             \/ LiquidateBtcPosition(v, user)
             \/ \E satoshis, confirmations \in Nat :
                  FinalizeBtcLiquidation(v, user, confirmations, satoshis)
      PROVE  BtcIInv' /\ BtcLedgerKept
  BY <1>5, BtcLiquidateIInv, BtcFinalizeIInv
<1> QED
  BY <1>1, <1>2, <1>3, <1>4, <1>5 DEF BtcNext, BtcVaultStep, Upkeep

LEMMA BtcInvariant == BtcSpec => []BtcIInv
<1>1. BtcIInv /\ [BtcNext]_btcAll => BtcIInv'
  BY BtcNextIInv
<1> QED
  BY <1>1, BtcInitIInv, PTL DEF BtcSpec

\* The Bitcoin side's state is what its types say.
THEOREM BtcTypeCorrect == BtcSpec => []BtcTypeOK
<1>1. BtcIInv => BtcTypeOK
  BY DEF BtcIInv
<1> QED
  BY <1>1, BtcInvariant, PTL

\* A step that keeps the ledger keeps it balanced.
LEMMA BtcLedgerCarried ==
    ASSUME BtcTypeOK, BtcTypeOK', BtcLedgerKept, BtcDebtLedger
    PROVE  BtcDebtLedger'
<1>1. /\ pool.total_borrowed \in Nat /\ pool'.total_borrowed \in Nat
      /\ SumOver(BtcVaults, btcPrincipal) \in Nat
      /\ SumOver(BtcVaults, btcPrincipal') \in Nat
  BY SumIsNat, BtcAssumption DEF BtcTypeOK, PoolType, LendingPool, BtcType
<1> QED
  BY <1>1 DEF BtcLedgerKept, BtcDebtLedger

LEMMA BtcLedgerInit ==
    ASSUME BtcInit, pool.total_borrowed = 0
    PROVE  BtcDebtLedger
<1>1. /\ btcPrincipal \in [BtcVaults -> Nat]
      /\ \A v \in BtcVaults : btcPrincipal[v] = 0
  BY DEF BtcInit
<1> QED
  BY <1>1, SumOfZeros, BtcAssumption DEF BtcDebtLedger

\* pool.total_borrowed totals the Bitcoin loans, two-phase liquidations and
\* forgiven remainders included.
THEOREM BtcDebtLedgerHolds == BtcSpec => []BtcDebtLedger
<1>1. PoolInit /\ BtcInit => BtcDebtLedger
  BY BtcLedgerInit DEF PoolInit, NoPool
<1>2. BtcIInv /\ BtcDebtLedger /\ [BtcNext]_btcAll => BtcDebtLedger'
  BY BtcNextIInv, BtcLedgerCarried DEF BtcIInv
<1> QED
  BY <1>1, <1>2, BtcInvariant, PTL DEF BtcSpec

\* Scaled debt and its position exist only together.
THEOREM BtcDebtHasAPositionHolds == BtcSpec => []BtcDebtHasAPosition
<1>1. BtcIInv => BtcDebtHasAPosition
  BY DEF BtcIInv
<1> QED
  BY <1>1, BtcInvariant, PTL

\* No stored time of the Bitcoin side runs ahead of the clock.
THEOREM BtcClocksBehindHolds == BtcSpec => []BtcClocksBehind
<1>1. BtcIInv => BtcClocksBehind
  BY DEF BtcIInv
<1> QED
  BY <1>1, BtcInvariant, PTL

\* Whatever owners, keepers and liquidators did, a frozen Bitcoin vault can be
\* thawed by the admin's finalize_btc_liquidation.
THEOREM FrozenIsRecoverableHolds == BtcSpec => []FrozenIsRecoverable
<1>1. BtcIInv => FrozenIsRecoverable
  BY DEF BtcIInv
<1> QED
  BY <1>1, BtcInvariant, PTL

----------------------------------------------------------------------------
(* Refinement.  Every transaction is a step of the loan book or leaves the *)
(* book alone; the creation of the pool leaves it alone because of         *)
(* UnbornPool.                                                          *)

BtcBookUntouched ==
    UNCHANGED <<btcPrincipal, pool.total_borrowed, pool.borrow_index,
                tokens[PoolVault]>>

LEMMA BtcBookInit ==
    ProtocolInit /\ PoolInit /\ BtcInit => BtcBook!BookInit
<1> SUFFICES ASSUME PoolInit, BtcInit PROVE BtcBook!BookInit
  OBVIOUS
<1>1. pool.total_borrowed = 0 /\ pool.borrow_index = RAY
  BY DEF PoolInit, NoPool
<1>2. tokens[PoolVault] \in Nat
  BY PoolAssumption DEF PoolInit, Holders
<1> QED
  BY <1>1, <1>2 DEF BtcInit, BtcBook!BookInit

\* A loan is paid out of the pool's tokens and booked at the accrued index.
LEMMA BtcBorrowLends ==
    ASSUME BtcIInv, NEW v \in BtcVaults, NEW signer \in Users,
           NEW amount \in BtcBorrowAmounts,
           BorrowAgainstBtcCollateral(v, signer, amount)
    PROVE  BtcBook!Lend(v)
<1> DEFINE scaled == ToScaled(amount, Accrued.borrow_index)
           cash == tokens[PoolVault]
<1>1. /\ scaled \in Nat
      /\ btcPrincipal[v] = 0
      /\ pool.total_borrowed - btcPrincipal[v] + scaled \in Nat
      /\ pool' = [Accrued EXCEPT !.total_borrowed =
                    Accrued.total_borrowed - btcPrincipal[v] + scaled]
      /\ btcPrincipal' = [btcPrincipal EXCEPT ![v] = scaled]
  BY BtcBorrowFacts
<1>2. /\ amount > 0 /\ pool.live
      /\ Pay(PoolVault, signer, amount)
  BY DEF BorrowAgainstBtcCollateral
<1>3. /\ amount \in Nat /\ cash \in Nat
      /\ btcPrincipal \in [BtcVaults -> Nat]
      /\ pool.total_borrowed \in Nat
      /\ pool.borrow_index \in Nat /\ Accrued.borrow_index \in Nat
      /\ Accrued.borrow_index >= pool.borrow_index
  BY BtcFacts, BtcAccrued, BtcAssumption DEF BtcIInv, Holders
<1>4. cash' = cash - amount
  BY <1>2, <1>3, PayMovesCash DEF BtcIInv, BtcTypeOK
<1> HIDE DEF cash, scaled
<1>5. /\ pool'.total_borrowed = pool.total_borrowed - btcPrincipal[v] + scaled
      /\ pool'.borrow_index = Accrued.borrow_index
  BY <1>1, <1>2, LoanStep
<1>6. cash' < cash /\ cash - cash' = amount
  BY <1>2, <1>3, <1>4
<1>7. /\ btcPrincipal'[v] = scaled
      /\ pool'.total_borrowed = pool.total_borrowed + scaled
  BY <1>1, <1>3, <1>5
<1>8. scaled = (amount * RAY) \div pool'.borrow_index
  BY <1>5 DEF scaled, ToScaled
<1>9. /\ tokens'[PoolVault] < tokens[PoolVault]
      /\ scaled = ((tokens[PoolVault] - tokens'[PoolVault]) * RAY)
                    \div pool'.borrow_index
  BY <1>6, <1>8 DEF cash
<1>10. pool'.borrow_index >= pool.borrow_index
  BY <1>3, <1>5
<1> QED
  BY <1>1, <1>7, <1>9, <1>10 DEF BtcBook!Lend, BtcBook!ToScaled

\* A payment to the pool and the debt it removes settle a loan.
LEMMA BtcPaymentSettles ==
    ASSUME BtcIInv, NEW v \in BtcVaults, NEW payer \in Users, pool.live,
           NEW paid \in Nat \ {0}, NEW d \in 0..btcPrincipal[v],
           Pay(payer, PoolVault, paid),
           btcPrincipal[v] > 0,
           pool.total_borrowed - btcPrincipal[v] + d \in Nat,
           pool' = [Accrued EXCEPT !.total_borrowed =
                      Accrued.total_borrowed - btcPrincipal[v] + d],
           btcPrincipal' = [btcPrincipal EXCEPT ![v] = d]
    PROVE  BtcBook!Settle(v)
<1>1. /\ btcPrincipal \in [BtcVaults -> Nat] /\ btcPrincipal[v] \in Nat
      /\ tokens[PoolVault] \in Nat
      /\ pool.total_borrowed \in Nat
      /\ pool.borrow_index \in Nat /\ Accrued.borrow_index \in Nat
      /\ Accrued.borrow_index >= pool.borrow_index
  BY BtcFacts, BtcAccrued DEF BtcIInv, Holders
<1>2. d \in Nat
  BY <1>1
<1>3. tokens'[PoolVault] = tokens[PoolVault] + paid
  BY PayMovesCash DEF BtcIInv, BtcTypeOK
<1>4. /\ pool'.total_borrowed = pool.total_borrowed - btcPrincipal[v] + d
      /\ pool'.borrow_index = Accrued.borrow_index
  BY <1>2, LoanStep
<1>5. btcPrincipal'[v] = d
  BY <1>1
<1>6. /\ tokens'[PoolVault] > tokens[PoolVault]
      /\ pool'.borrow_index >= pool.borrow_index
      /\ pool'.total_borrowed
           = pool.total_borrowed - (btcPrincipal[v] - btcPrincipal'[v])
  BY <1>1, <1>2, <1>3, <1>4, <1>5
<1> QED
  BY <1>5, <1>6 DEF BtcBook!Settle

LEMMA BtcRepaySettles ==
    ASSUME BtcIInv, NEW v \in BtcVaults, NEW signer \in Users,
           NEW amount \in BtcRepayAmounts, RepayBtcBorrow(v, signer, amount)
    PROVE  BtcBook!Settle(v)
<1> DEFINE slice == BtcSlice(v, amount)
           paid == BtcPaid(v, amount)
           left == btcPrincipal[v] - slice
<1>1. /\ btcPrincipal[v] > 0
      /\ paid \in Nat \ {0}
      /\ slice \in 0..btcPrincipal[v]
      /\ left \in Nat
      /\ pool.total_borrowed - btcPrincipal[v] + left \in Nat
      /\ pool' = [Accrued EXCEPT !.total_borrowed =
                    Accrued.total_borrowed - btcPrincipal[v] + left]
      /\ btcPrincipal' = [btcPrincipal EXCEPT ![v] = left]
  BY BtcRepayFacts
<1>2. pool.live /\ Pay(signer, PoolVault, paid)
  BY DEF RepayBtcBorrow, MayRepayBtc
<1>3. btcPrincipal[v] \in Nat
  BY BtcFacts DEF BtcIInv
<1> HIDE DEF slice
<1>4. left \in 0..btcPrincipal[v]
  BY <1>1, <1>3
<1> HIDE DEF paid, left
<1> QED
  BY <1>1, <1>2, <1>4, BtcPaymentSettles

LEMMA BtcLiquidationSettles ==
    ASSUME BtcIInv, NEW v \in BtcVaults, NEW liquidator \in Users,
           LiquidateBtcPosition(v, liquidator)
    PROVE  BtcBook!Settle(v)
<1> DEFINE paid == DebtOf(btcPrincipal[v])
<1>1. /\ btcPrincipal[v] > 0
      /\ paid \in Nat
      /\ pool.total_borrowed - btcPrincipal[v] + 0 \in Nat
      /\ pool' = [Accrued EXCEPT !.total_borrowed =
                    Accrued.total_borrowed - btcPrincipal[v] + 0]
      /\ btcPrincipal' = [btcPrincipal EXCEPT ![v] = 0]
  BY BtcLiquidateFacts
<1>2. pool.live /\ Pay(liquidator, PoolVault, paid)
  BY DEF LiquidateBtcPosition
<1>3. /\ btcPrincipal[v] \in Nat
      /\ Accrued.borrow_index \in Nat
      /\ Accrued.borrow_index >= pool.borrow_index
      /\ pool.borrow_index \in Nat /\ RAY \in Nat
      /\ pool.borrow_index >= RAY
  BY BtcFacts, BtcAccrued, UnitAssumption DEF BtcIInv, BtcClocksBehind
<1>4. Accrued.borrow_index >= RAY
  BY <1>3
<1>5. paid > 0
  BY <1>1, <1>3, <1>4, DebtIsWorthSomething DEF DebtOf
<1> HIDE DEF paid
<1>6. paid \in Nat \ {0} /\ 0 \in 0..btcPrincipal[v]
  BY <1>1, <1>3, <1>5
<1> QED
  BY <1>1, <1>2, <1>6, BtcPaymentSettles

\* Creating the pool books nothing: nothing touched it before.
LEMMA BtcPoolStepLeavesBook ==
    ASSUME BtcIInv, PoolStep, UNCHANGED btcVars
    PROVE  BtcBookUntouched
<1>1. /\ tokens'[PoolVault] = tokens[PoolVault]
      /\ \/ pool' = pool
         \/ /\ ~pool.live
            /\ \E liquidity \in Liquidities :
                 pool' = [live |-> TRUE, total_liquidity |-> liquidity,
                          total_borrowed |-> 0, borrow_index |-> RAY,
                          last_update_slot |-> slot]
  BY PoolStepFrame DEF BtcIInv, BtcTypeOK
<1>2. ASSUME ~pool.live
      PROVE  pool.total_borrowed = 0 /\ pool.borrow_index = RAY
  BY <1>2 DEF BtcIInv, UnbornPool, NoPool
<1>3. /\ pool'.total_borrowed = pool.total_borrowed
      /\ pool'.borrow_index = pool.borrow_index
  BY <1>1, <1>2
<1> QED
  BY <1>1, <1>3 DEF BtcBookUntouched, btcVars

LEMMA BtcQuietStepLeavesBook ==
    ASSUME UNCHANGED <<poolVars, btcPrincipal>>
    PROVE  BtcBookUntouched
  BY DEF BtcBookUntouched, poolVars

LEMMA BtcUpkeepLeavesBook ==
    ASSUME NEW v \in BtcVaults,
           \/ Upkeep(v)
           \/ \E user \in Users, satoshis, confirmations \in Nat :
                FinalizeBtcLiquidation(v, user, confirmations, satoshis)
    PROVE  BtcBookUntouched
  BY BtcQuietStepLeavesBook
     DEF Upkeep, RegisterBtcVault, IkaCustodyApproval, IkaSignsSighash,
         DemoCreateMessageApproval, VerifyBtcCustodyProof,
         RefreshBtcCustodyProof, AttestBtcBalance, FinalizeBtcLiquidation

LEMMA BtcStepIsBooked ==
    ASSUME BtcIInv, [BtcNext]_btcAll
    PROVE  [BtcBook!BookNext]_(BtcBook!bookVars)
<1>1. ASSUME BtcBookUntouched
      PROVE  UNCHANGED (BtcBook!bookVars)
  BY <1>1 DEF BtcBookUntouched, BtcBook!bookVars
<1>2. ASSUME NEW v \in BtcVaults, BtcBook!Lend(v) \/ BtcBook!Settle(v)
      PROVE  BtcBook!BookNext
  BY <1>2 DEF BtcBook!BookNext
<1>3. CASE UNCHANGED btcAll
  BY <1>1, <1>3, BtcQuietStepLeavesBook DEF btcAll, btcVars
<1>4. CASE /\ UNCHANGED <<poolVars, btcVars>>
           /\ \/ Tick
              \/ \E user \in Users :
                   InitializeProtocol(user) \/ UnfreezeProtocolState(user)
  BY <1>1, <1>4, BtcQuietStepLeavesBook DEF btcVars
<1>5. CASE PoolStep /\ UNCHANGED btcVars
  BY <1>1, <1>5, BtcPoolStepLeavesBook
<1>6. ASSUME NEW v \in BtcVaults,
             \/ Upkeep(v)
             \/ \E user \in Users, satoshis, confirmations \in Nat :
                  FinalizeBtcLiquidation(v, user, confirmations, satoshis)
      PROVE  BtcBookUntouched
  BY <1>6, BtcUpkeepLeavesBook
<1>7. ASSUME NEW v \in BtcVaults, NEW user \in Users,
             \/ \E amount \in BtcBorrowAmounts :
                  BorrowAgainstBtcCollateral(v, user, amount)
             \/ \E amount \in BtcRepayAmounts : RepayBtcBorrow(v, user, amount)
             \/ LiquidateBtcPosition(v, user)
      PROVE  BtcBook!BookNext
  BY <1>2, <1>7, BtcBorrowLends, BtcRepaySettles, BtcLiquidationSettles
<1> QED
  BY <1>1, <1>3, <1>4, <1>5, <1>6, <1>7 DEF BtcNext, BtcVaultStep, Upkeep

\* Bitcoin lending implements the loan book for every value of the constants:
\* no transaction lends without booking, tops a loan up, or writes one off
\* without cash.
THEOREM BtcImplementsLoanBook == BtcSpec => BtcLendsByTheBook
  BY BtcBookInit, BtcStepIsBooked, BtcInvariant, PTL
     DEF BtcSpec, BtcLendsByTheBook, BtcBook!BookSpec

----------------------------------------------------------------------------
(* What a transaction costs the pool.  Only "repay everything" from an     *)
(* account that cannot cover the debt costs it more than rounding.         *)

EmptiedForLoan ==
    \E v \in btcPositions \ btcPositions' :
      tokens[BtcOwnerOf[v]] > 0 /\ tokens'[BtcOwnerOf[v]] = 0

LEMMA BtcBorrowValue ==
    ASSUME BtcIInv, NEW v \in BtcVaults, NEW signer \in Users,
           NEW amount \in BtcBorrowAmounts,
           BorrowAgainstBtcCollateral(v, signer, amount)
    PROVE  LossBounded
<1>1. amount \in Nat /\ Pay(PoolVault, signer, amount)
  BY BtcAssumption DEF BorrowAgainstBtcCollateral
<1>2. pool' = [Accrued EXCEPT !.total_borrowed =
                 Accrued.total_borrowed
                   + ToScaled(amount, Accrued.borrow_index)]
  BY DEF BorrowAgainstBtcCollateral
<1> QED
  BY <1>1, <1>2, LoanValue DEF BtcIInv, BtcTypeOK, BtcClocksBehind

\* A payment that is worth the slice it removes costs the pool rounding only.
LEMMA BtcPaybackValue ==
    ASSUME BtcIInv, NEW payer \in Users, NEW paid \in Nat, NEW slice \in Nat,
           Pay(payer, PoolVault, paid),
           slice <= pool.total_borrowed,
           pool' = [Accrued EXCEPT !.total_borrowed
                                     = Accrued.total_borrowed - slice],
           paid * RAY > slice * Accrued.borrow_index - Accrued.borrow_index
    PROVE  LossBounded
<1>1. tokens'[PoolVault] = tokens[PoolVault] + paid
  BY PayMovesCash DEF BtcIInv, BtcTypeOK
<1> QED
  BY <1>1, PaybackValue DEF BtcIInv, BtcTypeOK, BtcClocksBehind

\* The index a payment is converted at.
LEMMA BtcIndexFacts ==
    ASSUME BtcIInv
    PROVE  /\ Accrued.borrow_index \in Nat \ {0}
           /\ Accrued.borrow_index >= RAY
<1>1. /\ Accrued.borrow_index \in Nat \ {0}
      /\ Accrued.borrow_index >= pool.borrow_index
      /\ pool.borrow_index \in Nat /\ RAY \in Nat
      /\ pool.borrow_index >= RAY
  BY BtcFacts, BtcAccrued, UnitAssumption DEF BtcIInv, BtcClocksBehind
<1> QED
  BY <1>1

LEMMA BtcRepayValue ==
    ASSUME BtcIInv, NEW v \in BtcVaults, NEW signer \in Users,
           NEW amount \in BtcRepayAmounts, RepayBtcBorrow(v, signer, amount)
    PROVE  LossBounded \/ EmptiedForLoan
<1> DEFINE owed == DebtOf(btcPrincipal[v])
           paid == BtcPaid(v, amount)
           slice == BtcSlice(v, amount)
           i == Accrued.borrow_index
           s == btcPrincipal[v]
<1>1. /\ s \in Nat /\ owed \in Nat /\ paid \in Nat \ {0}
      /\ i \in Nat \ {0} /\ i >= RAY
      /\ signer = BtcOwnerOf[v] /\ v \in btcPositions
      /\ Pay(signer, PoolVault, paid)
      /\ tokens[signer] \in Nat
  BY BtcRepayFacts, BtcFacts, BtcDebtIsNat, BtcIndexFacts DEF BtcIInv,
    Holders, RepayBtcBorrow, MayRepayBtc
<1>2. /\ slice \in Nat
      /\ slice <= pool.total_borrowed
      /\ pool' = [Accrued EXCEPT !.total_borrowed = Accrued.total_borrowed - slice]
  <2>1. slice \in 0..s
    BY BtcRepayFacts
  <2>2. /\ pool.total_borrowed >= slice
        /\ pool' = [Accrued EXCEPT !.total_borrowed =
                      Accrued.total_borrowed - slice]
    BY DEF RepayBtcBorrow, MayRepayBtc
  <2>3. pool.total_borrowed \in Nat
    BY BtcFacts DEF BtcIInv
  <2> HIDE DEF slice
  <2> QED
    BY <1>1, <2>1, <2>2, <2>3
<1>3. ASSUME paid * RAY > slice * i - i
      PROVE  LossBounded
  BY <1>1, <1>2, <1>3, BtcPaybackValue
<1>4. CASE paid = owed
  <2>1. slice = s
    BY <1>4 DEF BtcSlice
  <2>2. owed * RAY > s * i - i
    BY <1>1, WholeDebtPaid DEF DebtOf
  <2> QED
    BY <1>3, <1>4, <2>1, <2>2
<1>5. CASE paid # owed /\ amount # U64_MAX
  <2>1. slice = Smaller(ToScaled(paid, i), s)
    BY <1>5 DEF BtcSlice
  <2>2. paid * RAY > Smaller(ToScaled(paid, i), s) * i - i
    BY <1>1, SliceWorth
  <2> QED
    BY <1>3, <2>1, <2>2
<1>6. CASE paid # owed /\ amount = U64_MAX
  <2>1. paid = Smaller(tokens[signer], owed)
    BY <1>1, <1>6 DEF BtcPaid
  <2>2. paid = tokens[signer]
    BY <1>1, <1>6, <2>1 DEF Smaller
  <2>3. slice = s
    BY <1>6 DEF BtcSlice
  <2>4. btcPositions' = btcPositions \ {v}
    BY <2>3 DEF RepayBtcBorrow, BtcPositionsAfter
  <2>5. tokens'[signer] = tokens[signer] - paid
    BY <1>1, PayMovesCash DEF BtcIInv, BtcTypeOK
  <2> HIDE DEF paid, owed, slice
  <2>6. tokens[signer] > 0 /\ tokens'[signer] = 0
    BY <1>1, <2>2, <2>5
  <2> QED
    BY <1>1, <2>4, <2>6 DEF EmptiedForLoan
<1> QED
  BY <1>4, <1>5, <1>6

LEMMA BtcLiquidateValue ==
    ASSUME BtcIInv, NEW v \in BtcVaults, NEW liquidator \in Users,
           LiquidateBtcPosition(v, liquidator)
    PROVE  LossBounded
<1> DEFINE paid == DebtOf(btcPrincipal[v])
           s == btcPrincipal[v]
<1>1. /\ s \in Nat /\ paid \in Nat
      /\ pool.total_borrowed \in Nat
      /\ Accrued.borrow_index \in Nat \ {0} /\ Accrued.borrow_index >= RAY
  BY BtcLiquidateFacts, BtcFacts, BtcIndexFacts DEF BtcIInv
<1>2. /\ Pay(liquidator, PoolVault, paid)
      /\ pool.total_borrowed >= s
      /\ pool' = [Accrued EXCEPT !.total_borrowed = Accrued.total_borrowed - s]
  BY DEF LiquidateBtcPosition, Booked
<1>3. paid * RAY > s * Accrued.borrow_index - Accrued.borrow_index
  BY <1>1, WholeDebtPaid DEF DebtOf
<1> HIDE DEF paid, s
<1>4. s <= pool.total_borrowed
  BY <1>1, <1>2
<1> QED
  BY <1>1, <1>2, <1>3, <1>4, BtcPaybackValue

LEMMA BtcStepValue ==
    ASSUME BtcIInv, [BtcNext]_btcAll
    PROVE  LossBounded \/ EmptiedForLoan
<1>1. PoolType /\ pool.borrow_index >= RAY
  BY DEF BtcIInv, BtcTypeOK, BtcClocksBehind
<1>2. CASE UNCHANGED <<pool, tokens>>
  BY <1>1, <1>2, QuietStepValue
<1>3. CASE PoolStep
  <2>1. ~pool.live => pool.total_borrowed = 0
    BY DEF BtcIInv, UnbornPool, NoPool
  <2> QED
    BY <1>1, <1>3, <2>1, PoolStepValue
<1>4. ASSUME NEW v \in BtcVaults,
             \/ Upkeep(v)
             \/ \E user \in Users, satoshis, confirmations \in Nat :
                  FinalizeBtcLiquidation(v, user, confirmations, satoshis)
      PROVE  UNCHANGED <<pool, tokens>>
  BY <1>4, UpkeepFrame DEF FinalizeBtcLiquidation, poolVars
<1>5. ASSUME NEW v \in BtcVaults, NEW user \in Users,
             \/ \E amount \in BtcBorrowAmounts :
                  BorrowAgainstBtcCollateral(v, user, amount)
             \/ \E amount \in BtcRepayAmounts : RepayBtcBorrow(v, user, amount)
             \/ LiquidateBtcPosition(v, user)
      PROVE  LossBounded \/ EmptiedForLoan
  BY <1>5, BtcBorrowValue, BtcRepayValue, BtcLiquidateValue
<1> QED
  BY <1>2, <1>3, <1>4, <1>5
     DEF BtcNext, BtcVaultStep, Upkeep, btcAll, poolVars

\* For every rate, price and amount, a transaction that costs the pool an index
\* unit or more closes a loan with the last token of its owner: "repay
\* everything" of repay_btc_borrow is the only forgiveness there is.
THEOREM ForgivenessCostsAllHolds == BtcSpec => ForgivenessCostsAll
<1>1. ASSUME BtcIInv, [BtcNext]_btcAll
      PROVE  [\/ PoolValue' > PoolValue - pool'.borrow_index
              \/ \E v \in btcPositions \ btcPositions' :
                   tokens[BtcOwnerOf[v]] > 0
                     /\ tokens'[BtcOwnerOf[v]] = 0]_btcAll
  BY <1>1, BtcStepValue DEF LossBounded, EmptiedForLoan
<1> QED
  BY <1>1, BtcInvariant, PTL DEF BtcSpec, ForgivenessCostsAll
=============================================================================
