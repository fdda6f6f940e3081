-------------------------- MODULE SolLending_proofs --------------------------
(***************************************************************************)
(* First Custody: the collateral total, lapsed proofs and freezes.  Then   *)
(* SolLending: its invariants, what none of its steps ever does, and that  *)
(* it implements the loan book.  For any number of vaults, users and slots *)
(* and every admissible value of the rates and units.                      *)
(***************************************************************************)
EXTENDS SolLending, Pool_proofs

----------------------------------------------------------------------------
(* Type correctness *)

LEMMA TickType ==
    ASSUME ProtocolType, Tick
    PROVE  ProtocolType'
  BY ClockAssumption DEF ProtocolType, Tick

LEMMA InitializeProtocolType ==
    ASSUME ProtocolType, NEW admin \in Deployers, InitializeProtocol(admin)
    PROVE  ProtocolType'
<1>1. protocol' = [live |-> TRUE, admin |-> admin, frozen |-> FALSE,
                   total_vaults |-> 0, total_rejected |-> 0,
                   total_collateral_verified |-> 0]
  BY DEF InitializeProtocol, NoProtocol
<1>2. admin \in Users
  BY UserAssumption
<1>3. protocol' \in ProtocolAccount
  BY <1>1, <1>2 DEF ProtocolAccount
<1> QED
  BY <1>3 DEF ProtocolType, InitializeProtocol, clockVars

\* Whatever a step changes in the protocol account, it stays one.
LEMMA VaultStepProtocolType ==
    ASSUME ProtocolType, CustodyType, NEW v \in Vaults, VaultStep(v)
    PROVE  ProtocolType'
<1> USE DEF clockVars, custodyVars
<1>1. UNCHANGED clockVars
  BY DEF VaultStep, RegisterVault, FundVault, VerifyCustodyProof,
         RefreshCustodyProof, CloseVault, DepositCollateral,
         WithdrawCollateral, RejectUnverifiedDeposit, InitializeRiskState,
         UpdateBackingState, TriggerRiskCheck, CircuitBreakerFreeze,
         AdminUnfreeze
<1>2. protocol' \in ProtocolAccount
  <2> USE DEF ProtocolType, ProtocolAccount
  <2>1. ASSUME NEW asset \in Assets, RegisterVault(v, asset)
        PROVE  protocol' \in ProtocolAccount
    BY <2>1 DEF RegisterVault
  <2>2. ASSUME NEW amount \in Amounts, FundVault(v, amount)
        PROVE  protocol' \in ProtocolAccount
    BY <2>2 DEF FundVault
  <2>3. ASSUME NEW signer \in Users
        PROVE  /\ VerifyCustodyProof(v, signer) => protocol' \in ProtocolAccount
               /\ RefreshCustodyProof(v,
                 signer) => protocol' \in ProtocolAccount
               /\ CloseVault(v, signer) => protocol' \in ProtocolAccount
               /\ UpdateBackingState(v, signer) => protocol' \in ProtocolAccount
               /\ AdminUnfreeze(v, signer) => protocol' \in ProtocolAccount
    BY DEF VerifyCustodyProof, RefreshCustodyProof, CloseVault,
           UpdateBackingState, AdminUnfreeze
  <2>4. ASSUME NEW signer \in Users, NEW amount \in Amounts,
               DepositCollateral(v, signer, amount)
        PROVE  protocol' \in ProtocolAccount
    BY <2>4, CustodyAssumption DEF DepositCollateral
  <2>5. ASSUME NEW signer \in Users, NEW amount \in Amounts,
               WithdrawCollateral(v, signer, amount)
        PROVE  protocol' \in ProtocolAccount
    BY <2>5, CustodyAssumption DEF WithdrawCollateral, MayWithdraw,
      WithdrawAllowed
  <2>6. ASSUME NEW signer \in Users, RejectUnverifiedDeposit(v, signer)
        PROVE  protocol' \in ProtocolAccount
    BY <2>6 DEF RejectUnverifiedDeposit
  <2>7. ASSUME NEW signer \in Users, NEW set \in Thresholds,
               InitializeRiskState(v, signer, set)
        PROVE  protocol' \in ProtocolAccount
    BY <2>7 DEF InitializeRiskState
  <2>8. ASSUME NEW signer \in Users, NEW isSafe \in BOOLEAN,
               TriggerRiskCheck(v, signer, isSafe)
        PROVE  protocol' \in ProtocolAccount
    BY <2>8 DEF TriggerRiskCheck
  <2>9. ASSUME NEW signer \in Users, CircuitBreakerFreeze(v, signer)
        PROVE  protocol' \in ProtocolAccount
    BY <2>9 DEF CircuitBreakerFreeze
  <2> HIDE DEF ProtocolType, ProtocolAccount
  <2> QED
    BY <2>1, <2>2, <2>3, <2>4, <2>5, <2>6, <2>7, <2>8, <2>9 DEF VaultStep
<1> QED
  BY <1>1, <1>2 DEF ProtocolType

\* The same for the vault accounts: one step of it per action.
LEMMA VaultStepVaultType ==
    ASSUME ProtocolType, CustodyType, NEW v \in Vaults, VaultStep(v)
    PROVE  vault' \in [Vaults -> VaultAccount]
<1> DEFINE Typed == vault' \in [Vaults -> VaultAccount]
<1>0. vault \in [Vaults -> VaultAccount] /\ now \in Nat
  BY DEF CustodyType, ProtocolType
<1> USE <1>0 DEF VaultAccount, custodyVars, PENDING, VERIFIED, EXPIRED
<1>1. ASSUME NEW asset \in Assets, RegisterVault(v, asset)
      PROVE  Typed
  BY <1>1 DEF RegisterVault, NoVault
<1>2. ASSUME NEW amount \in Amounts, FundVault(v, amount)
      PROVE  Typed
  BY <1>2 DEF FundVault
<1>3. ASSUME NEW signer \in Users, VerifyCustodyProof(v, signer)
      PROVE  Typed
  <2>1. [vault[v] EXCEPT !.proof_status = VERIFIED, !.proof_timestamp = now]
          \in VaultAccount
    OBVIOUS
  <2>2. vault' = [vault EXCEPT ![v] =
                    [@ EXCEPT !.proof_status = VERIFIED,
                              !.proof_timestamp = now]]
    BY <1>3 DEF VerifyCustodyProof
  <2> HIDE DEF VaultAccount
  <2> QED
    BY <2>1, <2>2
<1>4. ASSUME NEW signer \in Users, RefreshCustodyProof(v, signer)
      PROVE  Typed
  BY <1>4 DEF RefreshCustodyProof
<1>5. ASSUME NEW signer \in Users, CloseVault(v, signer)
      PROVE  Typed
  BY <1>5 DEF CloseVault, NoVault
<1>6. ASSUME NEW signer \in Users, NEW amount \in Amounts,
             DepositCollateral(v, signer, amount)
      PROVE  Typed
  BY <1>6, CustodyAssumption DEF DepositCollateral
<1>7. ASSUME NEW signer \in Users, NEW amount \in Amounts,
             WithdrawCollateral(v, signer, amount)
      PROVE  Typed
  BY <1>7, CustodyAssumption DEF WithdrawCollateral, MayWithdraw,
    WithdrawAllowed
<1>8. ASSUME NEW signer \in Users
      PROVE  /\ RejectUnverifiedDeposit(v, signer) => Typed
             /\ UpdateBackingState(v, signer) => Typed
             /\ \A set \in Thresholds :
                  InitializeRiskState(v, signer, set) => Typed
  BY DEF RejectUnverifiedDeposit, UpdateBackingState, InitializeRiskState
<1>9. ASSUME NEW signer \in Users, NEW isSafe \in BOOLEAN,
             TriggerRiskCheck(v, signer, isSafe)
      PROVE  Typed
  BY <1>9 DEF TriggerRiskCheck
<1>10. ASSUME NEW signer \in Users, CircuitBreakerFreeze(v, signer)
       PROVE  Typed
  BY <1>10 DEF CircuitBreakerFreeze
<1>11. ASSUME NEW signer \in Users, AdminUnfreeze(v, signer)
       PROVE  Typed
  BY <1>11 DEF AdminUnfreeze
<1> HIDE DEF VaultAccount, Typed
<1>12. Typed
  BY <1>1, <1>2, <1>3, <1>4, <1>5, <1>6, <1>7, <1>8, <1>9, <1>10, <1>11
     DEF VaultStep
<1> QED
  BY <1>12 DEF Typed

LEMMA VaultStepLamportsType ==
    ASSUME CustodyType, NEW v \in Vaults, VaultStep(v)
    PROVE  lamports' \in [Vaults -> Nat]
<1> DEFINE Typed == lamports' \in [Vaults -> Nat]
<1>0. lamports \in [Vaults -> Nat]
  BY DEF CustodyType
<1> USE <1>0, CustodyAssumption DEF custodyVars
<1>1. ASSUME NEW asset \in Assets, RegisterVault(v, asset)
      PROVE  Typed
  BY <1>1 DEF RegisterVault
<1>2. ASSUME NEW amount \in Amounts, FundVault(v, amount)
      PROVE  Typed
  <2>1. amount \in Nat
    BY CustodyAssumption
  <2>2. lamports[v] \in Nat
    BY <1>0
  <2>3. lamports[v] + amount \in Nat
    BY <2>1, <2>2
  <2>4. lamports' = [lamports EXCEPT ![v] = lamports[v] + amount]
    BY <1>2 DEF FundVault
  <2> QED
    BY <1>0, <2>3, <2>4
<1>3. ASSUME NEW signer \in Users, CloseVault(v, signer)
      PROVE  Typed
  BY <1>3 DEF CloseVault
<1>4. ASSUME UNCHANGED lamports
      PROVE  Typed
  BY <1>4
<1> HIDE DEF Typed
<1>5. Typed
  BY <1>1, <1>2, <1>3, <1>4
     DEF VaultStep, VerifyCustodyProof, RefreshCustodyProof,
         DepositCollateral, WithdrawCollateral,
         RejectUnverifiedDeposit, InitializeRiskState, UpdateBackingState,
         TriggerRiskCheck, CircuitBreakerFreeze, AdminUnfreeze
<1> QED
  BY <1>5 DEF Typed

LEMMA VaultStepRiskType ==
    ASSUME CustodyType, NEW v \in Vaults, VaultStep(v)
    PROVE  risk' \in [Vaults -> RiskAccount]
<1> DEFINE Typed == risk' \in [Vaults -> RiskAccount]
<1>0. risk \in [Vaults -> RiskAccount]
  BY DEF CustodyType
<1> USE <1>0 DEF RiskAccount, custodyVars
<1>1. ASSUME NEW signer \in Users, NEW set \in Thresholds,
             InitializeRiskState(v, signer, set)
      PROVE  Typed
  <2>1. set \in BOOLEAN
    BY CustodyAssumption
  <2> QED
    BY <1>1, <2>1 DEF InitializeRiskState
<1>2. ASSUME NEW signer \in Users, UpdateBackingState(v, signer)
      PROVE  Typed
  BY <1>2 DEF UpdateBackingState
<1>3. ASSUME NEW signer \in Users, NEW isSafe \in BOOLEAN,
             TriggerRiskCheck(v, signer, isSafe)
      PROVE  Typed
  BY <1>3 DEF TriggerRiskCheck
<1>4. ASSUME UNCHANGED risk
      PROVE  Typed
  BY <1>4
<1> HIDE DEF Typed, RiskAccount
<1>5. Typed
  BY <1>1, <1>2, <1>3, <1>4
     DEF VaultStep, RegisterVault, FundVault, VerifyCustodyProof,
         RefreshCustodyProof, CloseVault, DepositCollateral,
         WithdrawCollateral, RejectUnverifiedDeposit, CircuitBreakerFreeze,
         AdminUnfreeze
<1> QED
  BY <1>5 DEF Typed

LEMMA CustodyNextType ==
    ASSUME ProtocolType, CustodyType, CustodyNext
    PROVE  ProtocolType' /\ CustodyType'
<1>1. CASE Tick /\ UNCHANGED custodyVars
  BY <1>1, TickType DEF CustodyType, custodyVars
<1>2. CASE ProtocolStep /\ UNCHANGED custodyVars
  <2>1. ASSUME NEW admin \in Deployers, InitializeProtocol(admin)
        PROVE  ProtocolType'
    BY <2>1, InitializeProtocolType
  <2>2. ASSUME NEW signer \in Users, UnfreezeProtocolState(signer)
        PROVE  ProtocolType'
    BY <2>2 DEF ProtocolType, ProtocolAccount, UnfreezeProtocolState, clockVars
  <2>3. ProtocolType'
    BY <1>2, <2>1, <2>2 DEF ProtocolStep
  <2> QED
    BY <1>2, <2>3 DEF CustodyType, custodyVars
<1>3. ASSUME NEW v \in Vaults, VaultStep(v)
      PROVE  ProtocolType' /\ CustodyType'
  BY <1>3, VaultStepProtocolType, VaultStepVaultType, VaultStepLamportsType,
     VaultStepRiskType DEF CustodyType
<1> QED
  BY <1>1, <1>2, <1>3 DEF CustodyNext
----------------------------------------------------------------------------
(* What a step of one vault may do to the records the ledgers relate *)

\* A registered vault keeps its rent-exempt minimum, and only registered
\* vaults of an initialised protocol record a deposit.
Funded ==
    \A v \in Vaults :
      /\ vault[v].live => protocol.live /\ lamports[v] >= RENT
      /\ vault[v].deposited_amount > 0 => vault[v].live

LEMMA VaultStepEffects ==
    ASSUME ProtocolType, CustodyType, Funded,
           NEW v \in Vaults, VaultStep(v)
    PROVE  /\ UNCHANGED clockVars
           /\ \A u \in Vaults \ {v} :
                vault'[u] = vault[u] /\ lamports'[u] = lamports[u]
           /\ vault'[v].proof_timestamp \in {0, now, vault[v].proof_timestamp}
           /\ vault'[v].live => lamports'[v] >= RENT
           /\ vault'[v].deposited_amount > 0 => vault'[v].live
           /\ protocol'.total_collateral_verified
                = protocol.total_collateral_verified
                    + vault'[v].deposited_amount - vault[v].deposited_amount
<1> DEFINE Effects ==
      /\ UNCHANGED clockVars
      /\ \A u \in Vaults \ {v} :
           vault'[u] = vault[u] /\ lamports'[u] = lamports[u]
      /\ vault'[v].proof_timestamp \in {0, now, vault[v].proof_timestamp}
      /\ vault'[v].live => lamports'[v] >= RENT
      /\ vault'[v].deposited_amount > 0 => vault'[v].live
      /\ protocol'.total_collateral_verified
           = protocol.total_collateral_verified
               + vault'[v].deposited_amount - vault[v].deposited_amount
<1>0. /\ vault \in [Vaults -> VaultAccount]
      /\ lamports \in [Vaults -> Nat]
      /\ vault[v].deposited_amount \in Nat
      /\ lamports[v] \in Nat
      /\ protocol.total_collateral_verified \in Nat
      /\ protocol \in ProtocolAccount
      /\ RENT \in Nat /\ Amounts \subseteq Nat
      /\ vault[v].live => lamports[v] >= RENT
      /\ vault[v].deposited_amount > 0 => vault[v].live
  BY CustodyAssumption DEF CustodyType, VaultAccount, ProtocolType,
     ProtocolAccount, Funded
<1> USE <1>0 DEF custodyVars, VaultAccount, ProtocolAccount
<1>1. ASSUME NEW asset \in Assets, RegisterVault(v, asset)
      PROVE  Effects
  BY <1>1 DEF RegisterVault, NoVault
<1>2. ASSUME NEW amount \in Amounts, FundVault(v, amount)
      PROVE  Effects
  BY <1>2 DEF FundVault
<1>3. ASSUME NEW signer \in Users, VerifyCustodyProof(v, signer)
      PROVE  Effects
  BY <1>3 DEF VerifyCustodyProof
<1>4. ASSUME NEW signer \in Users, RefreshCustodyProof(v, signer)
      PROVE  Effects
  BY <1>4 DEF RefreshCustodyProof
<1>5. ASSUME NEW signer \in Users, CloseVault(v, signer)
      PROVE  Effects
  BY <1>5 DEF CloseVault, NoVault
<1>6. ASSUME NEW signer \in Users, NEW amount \in Amounts,
             DepositCollateral(v, signer, amount)
      PROVE  Effects
  BY <1>6 DEF DepositCollateral, MayDeposit
<1>7. ASSUME NEW signer \in Users, NEW amount \in Amounts,
             WithdrawCollateral(v, signer, amount)
      PROVE  Effects
  BY <1>7 DEF WithdrawCollateral
<1>8. ASSUME NEW signer \in Users, RejectUnverifiedDeposit(v, signer)
      PROVE  Effects
  BY <1>8 DEF RejectUnverifiedDeposit
<1>9. ASSUME NEW signer \in Users, NEW set \in Thresholds,
             InitializeRiskState(v, signer, set)
      PROVE  Effects
  BY <1>9 DEF InitializeRiskState
<1>10. ASSUME NEW signer \in Users, UpdateBackingState(v, signer)
       PROVE  Effects
  BY <1>10 DEF UpdateBackingState
<1>11. ASSUME NEW signer \in Users, NEW isSafe \in BOOLEAN,
              TriggerRiskCheck(v, signer, isSafe)
       PROVE  Effects
  BY <1>11 DEF TriggerRiskCheck
<1>12. ASSUME NEW signer \in Users, CircuitBreakerFreeze(v, signer)
       PROVE  Effects
  BY <1>12 DEF CircuitBreakerFreeze
<1>13. ASSUME NEW signer \in Users, AdminUnfreeze(v, signer)
       PROVE  Effects
  BY <1>13 DEF AdminUnfreeze
<1> HIDE DEF Effects, VaultAccount, ProtocolAccount
<1>14. Effects
  BY <1>1, <1>2, <1>3, <1>4, <1>5, <1>6, <1>7, <1>8, <1>9, <1>10, <1>11,
     <1>12, <1>13 DEF VaultStep
<1> QED
  BY <1>14 DEF Effects

\* No vault step creates or removes the protocol, and none leaves a vault
\* registered without it.
LEMMA VaultStepKeepsProtocol ==
    ASSUME ProtocolType, CustodyType, Funded,
           NEW v \in Vaults, VaultStep(v)
    PROVE  /\ protocol'.live = protocol.live
           /\ vault'[v].live => protocol.live
<1>0. /\ protocol \in ProtocolAccount
      /\ vault \in [Vaults -> VaultAccount]
      /\ vault[v].live => protocol.live
  BY DEF ProtocolType, CustodyType, Funded
<1>1. protocol'.live = protocol.live
  BY <1>0 DEF ProtocolAccount, custodyVars, VaultStep, RegisterVault, FundVault,
     VerifyCustodyProof, RefreshCustodyProof, CloseVault, DepositCollateral,
     WithdrawCollateral, RejectUnverifiedDeposit, InitializeRiskState,
     UpdateBackingState, TriggerRiskCheck, CircuitBreakerFreeze, AdminUnfreeze
<1>2. protocol.live \/ vault[v].live \/ ~vault'[v].live
  BY <1>0 DEF VaultAccount, custodyVars, VaultStep, RegisterVault, FundVault,
    VerifyCustodyProof, RefreshCustodyProof, CloseVault, DepositCollateral,
    MayDeposit, WithdrawCollateral, MayWithdraw,
    RejectUnverifiedDeposit, InitializeRiskState, UpdateBackingState,
    TriggerRiskCheck, MayCheck, CircuitBreakerFreeze, AdminUnfreeze
<1> QED
  BY <1>0, <1>1, <1>2

----------------------------------------------------------------------------
(* The inductive invariant.  A vault that is closed or was never           *)
(* registered is blank, so the deposit and the freeze of an earlier        *)
(* account at its address cannot reappear; proofs are never dated ahead.   *)

VaultsInv ==
    /\ CustodyTypeOK
    /\ Funded
    /\ \A v \in Vaults : ~vault[v].live => vault[v] = NoVault
    /\ \A v \in Vaults : vault[v].proof_timestamp <= now
    /\ CollateralTotalExact

LEMMA RecordedDeposits ==
    ASSUME CustodyTypeOK
    PROVE  Deposits \in [Vaults -> Nat]
  BY DEF CustodyTypeOK, CustodyType, VaultAccount, Deposits

LEMMA InitVaultsInv == CustodyStart => VaultsInv
<1> SUFFICES ASSUME CustodyStart PROVE VaultsInv
  OBVIOUS
<1>1. ProtocolType
  BY ClockAssumption DEF CustodyStart, ProtocolInit, ProtocolType,
     ProtocolAccount, NoProtocol
<1>2. CustodyType
  BY DEF CustodyStart, CustodyInit, CustodyType, VaultAccount, RiskAccount,
     NoVault, NoRisk, PENDING, VERIFIED, EXPIRED
<1>3. CustodyTypeOK
  BY <1>1, <1>2 DEF CustodyTypeOK
<1>4. /\ Funded
      /\ \A v \in Vaults : vault[v] = NoVault /\ vault[v].proof_timestamp <= now
  BY DEF Funded, CustodyStart, CustodyInit, ProtocolInit, NoVault
<1>5. \A v \in Vaults : Deposits[v] = 0
  BY <1>4 DEF Deposits, NoVault
<1>6. SumOver(Vaults, Deposits) = 0
  BY <1>3, <1>5, RecordedDeposits, SumOfZeros
<1>7. CollateralTotalExact
  BY <1>6 DEF CollateralTotalExact, CustodyStart, ProtocolInit, NoProtocol
<1> QED
  BY <1>3, <1>4, <1>7 DEF VaultsInv

\* A step of one vault leaves a closed one blank.
LEMMA VaultStepBlank ==
    ASSUME CustodyType, NEW v \in Vaults, VaultStep(v),
           ~vault[v].live => vault[v] = NoVault
    PROVE  ~vault'[v].live => vault'[v] = NoVault
<1> DEFINE Blank == ~vault'[v].live => vault'[v] = NoVault
<1>0. vault \in [Vaults -> VaultAccount]
  BY DEF CustodyType
<1> USE <1>0 DEF VaultAccount
<1>1. ASSUME NEW asset \in Assets, RegisterVault(v, asset)
      PROVE  Blank
  BY <1>1 DEF RegisterVault, NoVault
<1>2. ASSUME NEW signer \in Users, CloseVault(v, signer)
      PROVE  Blank
  BY <1>2 DEF CloseVault
<1>3. ASSUME NEW signer \in Users
      PROVE  /\ VerifyCustodyProof(v, signer) => Blank
             /\ RefreshCustodyProof(v, signer) => Blank
             /\ AdminUnfreeze(v, signer) => Blank
             /\ CircuitBreakerFreeze(v, signer) => Blank
  BY DEF VerifyCustodyProof, RefreshCustodyProof, AdminUnfreeze,
     CircuitBreakerFreeze
<1>4. ASSUME NEW signer \in Users, NEW amount \in Amounts,
             \/ DepositCollateral(v, signer, amount)
             \/ WithdrawCollateral(v, signer, amount)
      PROVE  Blank
  BY <1>4 DEF DepositCollateral, MayDeposit, WithdrawCollateral, MayWithdraw
<1>5. ASSUME NEW signer \in Users, NEW isSafe \in BOOLEAN,
             TriggerRiskCheck(v, signer, isSafe)
      PROVE  Blank
  BY <1>5 DEF TriggerRiskCheck, MayCheck
<1>6. ASSUME UNCHANGED vault
      PROVE  Blank
  BY <1>6
<1> HIDE DEF Blank, VaultAccount
<1>7. Blank
  BY <1>1, <1>2, <1>3, <1>4, <1>5, <1>6
     DEF VaultStep, FundVault, RejectUnverifiedDeposit, InitializeRiskState,
         UpdateBackingState, custodyVars
<1> QED
  BY <1>7 DEF Blank

LEMMA StepVaultsInv ==
    ASSUME VaultsInv, [CustodyNext]_CustodyTouched
    PROVE  VaultsInv'
<1>0. /\ CustodyTypeOK /\ ProtocolType /\ CustodyType
      /\ now \in Nat
      /\ \A v \in Vaults : vault[v].proof_timestamp \in Nat
  BY DEF VaultsInv, CustodyTypeOK, ProtocolType, CustodyType, VaultAccount
<1>1. CASE UNCHANGED CustodyTouched
  BY <1>1 DEF CustodyTouched, clockVars, custodyVars, VaultsInv, CustodyTypeOK,
     ProtocolType, CustodyType, Funded, CollateralTotalExact, Deposits
<1>2. CASE CustodyNext
  <2>0. CustodyTypeOK'
    BY <1>0, <1>2, CustodyNextType DEF CustodyTypeOK
  <2>1. CASE Tick /\ UNCHANGED custodyVars
    <3>1. /\ UNCHANGED <<vault, lamports, protocol>>
          /\ now' \in Nat /\ now <= now'
      BY <1>0, <2>1, ClockAssumption DEF Tick, custodyVars
    <3>2. \A v \in Vaults : vault'[v].proof_timestamp <= now'
      BY <1>0, <3>1 DEF VaultsInv
    <3> QED
      BY <2>0, <3>1, <3>2 DEF VaultsInv, Funded, CollateralTotalExact, Deposits
  <2>2. CASE ProtocolStep /\ UNCHANGED custodyVars
    <3>1. UNCHANGED <<vault, lamports, now>>
      BY <2>2 DEF ProtocolStep, InitializeProtocol, UnfreezeProtocolState,
         clockVars, custodyVars
    <3>2. CASE \E signer \in Users : UnfreezeProtocolState(signer)
      <4>1. /\ protocol'.total_collateral_verified
                 = protocol.total_collateral_verified
            /\ protocol'.live = protocol.live
        BY <1>0, <3>2 DEF UnfreezeProtocolState, ProtocolType, ProtocolAccount
      <4> QED
        BY <2>0, <3>1, <4>1
           DEF VaultsInv, Funded, CollateralTotalExact, Deposits
    <3>3. CASE \E admin \in Deployers : InitializeProtocol(admin)
      \* Nothing is deposited before the protocol exists.
      <4>1. protocol'.total_collateral_verified = 0 /\ ~protocol.live
        BY <3>3 DEF InitializeProtocol, NoProtocol
      <4>2. \A u \in Vaults : ~vault[u].live /\ vault[u].deposited_amount = 0
        BY <1>0, <4>1 DEF VaultsInv, Funded, CustodyType, VaultAccount, NoVault
      <4>3. \A u \in Vaults : Deposits[u] = 0
        BY <4>2 DEF Deposits
      <4>4. SumOver(Vaults, Deposits) = 0
        BY <1>0, <4>3, RecordedDeposits, SumOfZeros
      <4> QED
        BY <2>0, <3>1, <4>1, <4>2, <4>4
           DEF VaultsInv, Funded, CollateralTotalExact, Deposits
    <3> QED
      BY <2>2, <3>2, <3>3 DEF ProtocolStep
  <2>3. ASSUME NEW v \in Vaults, VaultStep(v)
        PROVE  VaultsInv'
    <3>1. /\ UNCHANGED clockVars
          /\ \A u \in Vaults \ {v} :
               vault'[u] = vault[u] /\ lamports'[u] = lamports[u]
          /\ vault'[v].proof_timestamp \in {0, now, vault[v].proof_timestamp}
          /\ vault'[v].live => lamports'[v] >= RENT
          /\ vault'[v].deposited_amount > 0 => vault'[v].live
          /\ protocol'.total_collateral_verified
               = protocol.total_collateral_verified
                   + vault'[v].deposited_amount - vault[v].deposited_amount
          /\ protocol'.live = protocol.live
          /\ vault'[v].live => protocol.live
      BY <1>0, <2>3, VaultStepEffects, VaultStepKeepsProtocol DEF VaultsInv
    <3>2. Funded'
      BY <3>1 DEF VaultsInv, Funded
    <3>3. \A u \in Vaults : ~vault'[u].live => vault'[u] = NoVault
      BY <1>0, <2>3, <3>1, VaultStepBlank DEF VaultsInv
    <3>4. \A u \in Vaults : vault'[u].proof_timestamp <= now'
      <4>1. now' = now
        BY <3>1 DEF clockVars
      <4>2. vault'[v].proof_timestamp <= now
        BY <1>0, <3>1 DEF VaultsInv
      <4> QED
        BY <3>1, <4>1, <4>2 DEF VaultsInv
    <3>5. CollateralTotalExact'
      <4>1. Deposits \in [Vaults -> Nat] /\ Deposits' \in [Vaults -> Nat]
        BY <1>0, <2>0, RecordedDeposits
           DEF CustodyTypeOK, CustodyType, VaultAccount, Deposits
      <4>2. \A u \in Vaults \ {v} : Deposits'[u] = Deposits[u]
        BY <3>1 DEF Deposits
      <4>3. SumOver(Vaults, Deposits')
              = SumOver(Vaults, Deposits) - Deposits[v] + Deposits'[v]
        BY <4>1, <4>2, SumUpdate, CustodyAssumption
      <4>4. /\ Deposits[v] = vault[v].deposited_amount
            /\ Deposits'[v] = vault'[v].deposited_amount
        BY DEF Deposits
      <4>5. SumOver(Vaults, Deposits) \in Nat
            /\ Deposits[v] \in Nat /\ Deposits'[v] \in Nat
        BY <4>1, SumIsNat, CustodyAssumption
      <4>6. protocol.total_collateral_verified = SumOver(Vaults, Deposits)
        BY DEF VaultsInv, CollateralTotalExact
      <4> QED
        BY <3>1, <4>3, <4>4, <4>5, <4>6 DEF CollateralTotalExact
    <3> QED
      BY <2>0, <3>2, <3>3, <3>4, <3>5 DEF VaultsInv
  <2> QED
    BY <1>2, <2>1, <2>2, <2>3 DEF CustodyNext
<1> QED
  BY <1>1, <1>2

LEMMA VaultsInvariant == CustodySpec => []VaultsInv
  BY InitVaultsInv, StepVaultsInv, PTL DEF CustodySpec

\* Custody's state is what its types say (Custody.CustodyTypeOK).
THEOREM CustodyTypeCorrect == CustodySpec => []CustodyTypeOK
<1>1. VaultsInv => CustodyTypeOK
  BY DEF VaultsInv
<1> QED
  BY <1>1, VaultsInvariant, PTL

\* Without liquidations the protocol's collateral total is exactly the sum of
\* the deposits the vaults record, whichever of them close and register again.
THEOREM CollateralTotalHolds == CustodySpec => []CollateralTotalExact
<1>1. VaultsInv => CollateralTotalExact
  BY DEF VaultsInv
<1> QED
  BY <1>1, VaultsInvariant, PTL

\* Unless the protocol is frozen, every owner can take out any part of the
\* recorded deposit, however many vaults share the total that
\* withdraw_collateral subtracts it from: a deposit is recorded for registered
\* vaults only, and the total is never behind one of them.
THEOREM ExitIsOpen == CustodySpec => []ExitOpen
<1>1. VaultsInv => ExitOpen
  <2> SUFFICES ASSUME VaultsInv, ~protocol.frozen, NEW v \in Vaults,
                      NEW amount \in 1..vault[v].deposited_amount
               PROVE  MayWithdraw(v, OwnerOf[v], amount)
    BY DEF ExitOpen
  <2> USE DEF VaultsInv
  <2>1. vault[v].deposited_amount \in Nat
    BY DEF CustodyTypeOK, CustodyType, VaultAccount
  <2>2. vault[v].live /\ protocol.live
    BY <2>1 DEF Funded
  <2>3. protocol.total_collateral_verified >= vault[v].deposited_amount
    <3>1. Deposits[v] = vault[v].deposited_amount
      BY DEF Deposits
    <3>2. Deposits[v] <= SumOver(Vaults, Deposits)
      BY RecordedDeposits, SumCoversEach, CustodyAssumption
    <3>3. SumOver(Vaults, Deposits) \in Nat
      BY RecordedDeposits, SumIsNat, CustodyAssumption
    <3> QED
      BY <2>1, <3>1, <3>2, <3>3 DEF CollateralTotalExact
  <2>4. protocol.total_collateral_verified \in Nat
    BY DEF CustodyTypeOK, ProtocolType, ProtocolAccount
  <2> QED
    BY <2>1, <2>2, <2>3, <2>4 DEF MayWithdraw, WithdrawAllowed
<1> QED
  BY <1>1, VaultsInvariant, PTL

----------------------------------------------------------------------------
(* Lapsed proofs *)

\* One vault's step, with its proof lapsed.
LEMMA LapsedVaultStep ==
    ASSUME VaultsInv, NEW v \in Vaults, VaultStep(v),
           ProofLapsed(v), vault'[v].live
    PROVE  /\ vault'[v].proof_status = VERIFIED
           /\ vault'[v].proof_timestamp = vault[v].proof_timestamp
           /\ vault'[v].deposited_amount <= vault[v].deposited_amount
<1> DEFINE Stays ==
      /\ vault'[v].proof_status = VERIFIED
      /\ vault'[v].proof_timestamp = vault[v].proof_timestamp
      /\ vault'[v].deposited_amount <= vault[v].deposited_amount
<1>0. /\ vault \in [Vaults -> VaultAccount]
      /\ vault[v].deposited_amount \in Nat
      /\ vault[v].live /\ vault[v].proof_status = VERIFIED /\ ~ProofFresh(v)
      /\ Amounts \subseteq Nat
  BY CustodyAssumption DEF VaultsInv, CustodyTypeOK, CustodyType, VaultAccount,
     ProofLapsed
<1> USE <1>0 DEF VaultAccount, custodyVars
<1>1. ASSUME UNCHANGED vault
      PROVE  Stays
  BY <1>1
<1>2. ASSUME NEW signer \in Users, NEW amount \in Amounts,
             WithdrawCollateral(v, signer, amount)
      PROVE  Stays
  BY <1>2 DEF WithdrawCollateral
<1>3. ASSUME NEW signer \in Users, NEW isSafe \in BOOLEAN,
             TriggerRiskCheck(v, signer, isSafe)
      PROVE  Stays
  BY <1>3 DEF TriggerRiskCheck
<1>4. ASSUME NEW signer \in Users,
             CircuitBreakerFreeze(v, signer) \/ AdminUnfreeze(v, signer)
      PROVE  Stays
  BY <1>4 DEF CircuitBreakerFreeze, AdminUnfreeze
<1>5. ASSUME NEW signer \in Users, CloseVault(v, signer)
      PROVE  FALSE
  BY <1>5, vault'[v].live DEF CloseVault, NoVault
<1>6. ASSUME NEW signer \in Users, VerifyCustodyProof(v, signer)
      PROVE  FALSE
  BY <1>6 DEF VerifyCustodyProof, PENDING, VERIFIED, EXPIRED
<1> HIDE DEF Stays, VaultAccount
<1>7. Stays
  BY <1>1, <1>2, <1>3, <1>4, <1>5, <1>6 DEF VaultStep, RegisterVault,
    FundVault, RefreshCustodyProof, DepositCollateral, MayDeposit,
    RejectUnverifiedDeposit, InitializeRiskState, UpdateBackingState
<1> QED
  BY <1>7 DEF Stays

LEMMA LapsedStep ==
    ASSUME VaultsInv, [CustodyNext]_CustodyTouched, NEW v \in Vaults,
           ProofLapsed(v), vault'[v].live
    PROVE  ProofLapsed(v)' /\ Deposits'[v] <= Deposits[v]
<1>0. /\ now \in Nat /\ vault[v].proof_timestamp \in Nat
      /\ vault[v].deposited_amount \in Nat
      /\ vault[v].proof_status = VERIFIED
      /\ now - vault[v].proof_timestamp > PROOF_EXPIRY_SECONDS
      /\ PROOF_EXPIRY_SECONDS \in Nat
  BY CustodyAssumption DEF VaultsInv, CustodyTypeOK, ProtocolType, CustodyType,
     VaultAccount, ProofLapsed, ProofFresh
<1>1. SUFFICES /\ vault'[v].proof_status = VERIFIED
               /\ vault'[v].proof_timestamp = vault[v].proof_timestamp
               /\ vault'[v].deposited_amount <= vault[v].deposited_amount
               /\ now' \in Nat /\ now <= now'
  BY <1>0 DEF ProofLapsed, ProofFresh, Deposits
<1>2. CASE VaultStep(v)
  <2>1. now' = now
    BY <1>2, VaultStepEffects DEF VaultsInv, CustodyTypeOK, clockVars
  <2> QED
    BY <1>0, <1>2, <2>1, LapsedVaultStep
<1>3. CASE \E u \in Vaults \ {v} : VaultStep(u)
  <2>1. now' = now /\ vault'[v] = vault[v]
    BY <1>3, VaultStepEffects DEF VaultsInv, CustodyTypeOK, clockVars
  <2> QED
    BY <1>0, <2>1
<1>4. CASE \/ UNCHANGED CustodyTouched
           \/ Tick /\ UNCHANGED custodyVars
           \/ ProtocolStep /\ UNCHANGED custodyVars
  <2>1. vault' = vault
    BY <1>4 DEF CustodyTouched, custodyVars
  <2>2. now' = now \/ \E seconds \in ClockSteps : now' = now + seconds
    BY <1>4 DEF CustodyTouched, clockVars, Tick, ProtocolStep,
       InitializeProtocol, UnfreezeProtocolState
  <2>3. now' \in Nat /\ now <= now'
    BY <1>0, <2>2, ClockAssumption
  <2> QED
    BY <1>0, <2>1, <2>3
<1> QED
  BY <1>2, <1>3, <1>4 DEF CustodyNext

\* A lapsed proof stays lapsed, and its vault takes no deposit, as long as the
\* account exists (Custody.LapseIsFinal).
THEOREM LapseHolds == CustodySpec => LapseIsFinal
<1>1. VaultsInv /\ [CustodyNext]_CustodyTouched
        => [\A v \in Vaults :
              ProofLapsed(v) /\ vault'[v].live
                => /\ ProofLapsed(v)'
                   /\ Deposits'[v] <= Deposits[v]]_CustodyTouched
  BY LapsedStep
<1> QED
  BY <1>1, VaultsInvariant, PTL DEF CustodySpec, LapseIsFinal

----------------------------------------------------------------------------
(* Freezes *)

\* Which step of its own thaws a vault.
LEMMA ThawingStep ==
    ASSUME VaultsInv, NEW v \in Vaults, VaultStep(v)
    PROVE  /\ vault[v].frozen /\ vault'[v].live /\ ~vault'[v].frozen
                => risk' = risk /\ protocol' = protocol
           /\ protocol.frozen => protocol'.frozen
<1> DEFINE Holds ==
      /\ vault[v].frozen /\ vault'[v].live /\ ~vault'[v].frozen
           => risk' = risk /\ protocol' = protocol
      /\ protocol.frozen => protocol'.frozen
<1>0. /\ vault \in [Vaults -> VaultAccount]
      /\ protocol \in ProtocolAccount
      /\ ~vault[v].live => vault[v] = NoVault
  BY DEF VaultsInv, CustodyTypeOK, ProtocolType, CustodyType
<1> USE <1>0 DEF VaultAccount, ProtocolAccount, custodyVars
<1>1. ASSUME NEW asset \in Assets, RegisterVault(v, asset)
      PROVE  Holds
  BY <1>1 DEF RegisterVault, NoVault
<1>2. ASSUME NEW signer \in Users
      PROVE  /\ VerifyCustodyProof(v, signer) => Holds
             /\ RefreshCustodyProof(v, signer) => Holds
             /\ AdminUnfreeze(v, signer) => Holds
             /\ CircuitBreakerFreeze(v, signer) => Holds
  BY DEF VerifyCustodyProof, RefreshCustodyProof, AdminUnfreeze,
     CircuitBreakerFreeze
<1>3. ASSUME NEW signer \in Users, CloseVault(v, signer)
      PROVE  Holds
  BY <1>3 DEF CloseVault, NoVault
<1>4. ASSUME NEW signer \in Users, NEW amount \in Amounts,
             DepositCollateral(v, signer, amount)
      PROVE  Holds
  BY <1>4 DEF DepositCollateral
<1>5. ASSUME NEW signer \in Users, NEW amount \in Amounts,
             WithdrawCollateral(v, signer, amount)
      PROVE  Holds
  BY <1>5 DEF WithdrawCollateral
<1>6. ASSUME NEW signer \in Users, NEW isSafe \in BOOLEAN,
             TriggerRiskCheck(v, signer, isSafe)
      PROVE  Holds
  BY <1>6 DEF TriggerRiskCheck
<1>7. ASSUME NEW signer \in Users, RejectUnverifiedDeposit(v, signer)
      PROVE  Holds
  BY <1>7 DEF RejectUnverifiedDeposit
<1>8. ASSUME UNCHANGED <<vault, protocol>>
      PROVE  Holds
  BY <1>8
<1> HIDE DEF Holds, VaultAccount, ProtocolAccount
<1>9. Holds
  BY <1>1, <1>2, <1>3, <1>4, <1>5, <1>6, <1>7, <1>8
     DEF VaultStep, FundVault, InitializeRiskState, UpdateBackingState
<1> QED
  BY <1>9 DEF Holds

LEMMA FreezeStep ==
    ASSUME VaultsInv, [CustodyNext]_CustodyTouched
    PROVE  /\ \A v \in Vaults :
                vault[v].frozen /\ vault'[v].live /\ ~vault'[v].frozen
                  => risk' = risk /\ protocol' = protocol
           /\ protocol.frozen /\ ~protocol'.frozen
                => risk' = risk /\ vault' = vault
<1>1. ASSUME NEW v \in Vaults, VaultStep(v)
      PROVE  /\ \A u \in Vaults \ {v} : vault'[u] = vault[u]
             /\ vault[v].frozen /\ vault'[v].live /\ ~vault'[v].frozen
                  => risk' = risk /\ protocol' = protocol
             /\ protocol.frozen => protocol'.frozen
  BY <1>1, VaultStepEffects, ThawingStep DEF VaultsInv, CustodyTypeOK
<1>2. CASE UNCHANGED <<vault, risk>>
  BY <1>2
<1> QED
  BY <1>1, <1>2
     DEF CustodyNext, CustodyTouched, custodyVars

\* No verdict ever lifts a freeze (Custody.FreezeOutlastsVerdicts).
THEOREM FreezeHolds == CustodySpec => FreezeOutlastsVerdicts
  BY FreezeStep, VaultsInvariant, PTL DEF CustodySpec, FreezeOutlastsVerdicts

----------------------------------------------------------------------------
(* Values the actions compute *)

LEMMA AccruedFacts ==
    ASSUME TypeOK, ClocksBehind
    PROVE  /\ Accrued \in LendingPool
           /\ Accrued.live = pool.live
           /\ Accrued.total_borrowed = pool.total_borrowed
           /\ Accrued.last_update_slot = slot
           /\ Accrued.borrow_index >= pool.borrow_index
           /\ Accrued.borrow_index \in Nat \ {0}
  BY AccrualFacts DEF TypeOK, ClocksBehind

LEMMA DebtOfIsNat ==
    ASSUME TypeOK, ClocksBehind, NEW s \in Nat
    PROVE  DebtOf(s) \in Nat
  BY AccruedFacts, CurrentDebtIsNat DEF DebtOf

LEMMA RepaidSliceFacts ==
    ASSUME TypeOK, ClocksBehind,
           NEW s \in Nat, NEW paid \in Nat, NEW owed \in Nat
    PROVE  RepaidSlice(paid, owed, s) \in 0..s
<1>1. ToScaled(paid, Accrued.borrow_index) \in Nat
  BY AccruedFacts, ToScaledIsNat
<1> QED
  BY <1>1 DEF RepaidSlice, Smaller

LEMMA SeizedIsNat ==
    ASSUME TypeOK, NEW v \in Vaults
    PROVE  /\ Seized(v) \in Nat
           /\ Seized(v) <= lamports[v]
           /\ Seized(v) > 0 => lamports[v] - Seized(v) >= RENT
<1>1. vault[v].deposited_amount \in Nat /\ lamports[v] \in Nat /\ RENT \in Nat
  BY CustodyAssumption DEF TypeOK, CustodyType, VaultAccount
<1>2. CollateralWithBonus(vault[v].deposited_amount) \in Nat
  BY <1>1, CollateralWithBonusIsNat
<1> QED
  BY <1>1, <1>2 DEF Seized, Smaller

----------------------------------------------------------------------------
(* Type correctness *)

LEMMA InitType == Init => TypeOK
<1> SUFFICES ASSUME Init PROVE TypeOK
  OBVIOUS
<1>1. ProtocolType
  BY ClockAssumption DEF Init, ProtocolInit, ProtocolType, ProtocolAccount,
    NoProtocol
<1>2. CustodyType
  BY DEF Init, CustodyInit, CustodyType, VaultAccount, RiskAccount, NoVault,
    NoRisk,
         PENDING, VERIFIED, EXPIRED
<1>3. PoolType
  BY PoolAssumption, UnitAssumption
     DEF Init, PoolInit, PoolType, LendingPool, AdminPriceFeed, NoPool, NoFeed
<1>4. SolType
  BY DEF Init, SolInit, SolType
<1> QED
  BY <1>1, <1>2, <1>3, <1>4 DEF TypeOK

\* A pool whose scaled debt is replaced is still a pool.
LEMMA WithDebtType ==
    ASSUME TypeOK, ClocksBehind, NEW n \in Nat
    PROVE  [Accrued EXCEPT !.total_borrowed = n] \in LendingPool
<1>1. Accrued \in LendingPool
  BY AccruedFacts
<1> QED
  BY <1>1 DEF LendingPool

LEMMA BorrowType ==
    ASSUME TypeOK, ClocksBehind,
           NEW v \in Vaults, NEW signer \in Users, NEW amount \in BorrowAmounts,
           BorrowAgainstCollateral(v, signer, amount)
    PROVE  PoolType' /\ SolType'
<1> DEFINE scaled == ToScaled(amount, Accrued.borrow_index)
<1>1. scaled \in Nat /\ amount \in Nat /\ Accrued.total_borrowed \in Nat
  BY AccruedFacts, ToScaledIsNat, SolAssumption DEF LendingPool
<1>2. pool' = [Accrued EXCEPT !.total_borrowed = Accrued.total_borrowed + scaled]
  BY DEF BorrowAgainstCollateral
<1>3. principal' = [principal EXCEPT ![v] = scaled]
  BY DEF BorrowAgainstCollateral
<1> HIDE DEF scaled
<1>4. pool' \in LendingPool
  <2>1. Accrued.total_borrowed + scaled \in Nat
    BY <1>1
  <2> QED
    BY <1>2, <2>1, WithDebtType
<1>5. tokens' \in [Holders -> Nat]
  BY <1>1, PayKeepsType DEF BorrowAgainstCollateral, TypeOK, PoolType, Holders
<1>6. SolType'
  BY <1>1, <1>3 DEF BorrowAgainstCollateral, TypeOK, SolType
<1> QED
  BY <1>4, <1>5, <1>6 DEF BorrowAgainstCollateral, TypeOK, PoolType

LEMMA RepayType ==
    ASSUME TypeOK, ClocksBehind,
           NEW v \in Vaults, NEW signer \in Users, NEW amount \in RepayAmounts,
           RepayBorrow(v, signer, amount)
    PROVE  PoolType' /\ SolType'
<1> DEFINE owed == DebtOf(principal[v])
           paid == Smaller(amount, owed)
           slice == RepaidSlice(paid, owed, principal[v])
<1>1. principal[v] \in Nat /\ amount \in Nat
  BY SolAssumption DEF TypeOK, SolType
<1>2. owed \in Nat /\ paid \in Nat
  BY <1>1, DebtOfIsNat DEF Smaller
<1>3. slice \in 0..principal[v]
  BY <1>1, <1>2, RepaidSliceFacts
<1>4. /\ Pay(signer, PoolVault, paid)
      /\ pool.total_borrowed >= slice
      /\ pool' = [Accrued EXCEPT !.total_borrowed = Accrued.total_borrowed - slice]
      /\ principal' = [principal EXCEPT ![v] = principal[v] - slice]
      /\ positions' \subseteq positions
      /\ feed' = feed
  BY DEF RepayBorrow, MayRepay, PoolWithout, PositionsAfter
<1> HIDE DEF owed, paid, slice
<1>5. pool' \in LendingPool
  <2>1. Accrued.total_borrowed = pool.total_borrowed
        /\ pool.total_borrowed \in Nat
    BY AccruedFacts DEF LendingPool
  <2>2. Accrued.total_borrowed - slice \in Nat
    BY <1>1, <1>3, <1>4, <2>1
  <2> QED
    BY <1>4, <2>2, WithDebtType
<1>6. tokens' \in [Holders -> Nat]
  BY <1>2, <1>4, PayKeepsType DEF TypeOK, PoolType, Holders
<1>7. SolType'
  <2>1. principal[v] - slice \in Nat
    BY <1>1, <1>3
  <2> QED
    BY <1>4, <2>1 DEF TypeOK, SolType
<1> QED
  BY <1>4, <1>5, <1>6, <1>7 DEF TypeOK, PoolType

LEMMA LiquidateType ==
    ASSUME TypeOK, ClocksBehind,
           NEW v \in Vaults, NEW liquidator \in Users,
           LiquidatePosition(v, liquidator)
    PROVE  CustodyType' /\ PoolType' /\ SolType'
<1>1. /\ principal[v] \in Nat /\ DebtOf(principal[v]) \in Nat
      /\ vault[v].deposited_amount \in Nat /\ lamports[v] \in Nat
  BY DebtOfIsNat DEF TypeOK, SolType, CustodyType, VaultAccount
<1>2. pool' \in LendingPool
  <2>1. Accrued.total_borrowed = pool.total_borrowed
        /\ pool.total_borrowed \in Nat
    BY AccruedFacts DEF LendingPool
  <2>2. Accrued.total_borrowed - principal[v] \in Nat
    BY <1>1, <2>1 DEF LiquidatePosition, PoolWithout
  <2>3. pool' = [Accrued EXCEPT
                   !.total_borrowed = Accrued.total_borrowed - principal[v]]
    BY DEF LiquidatePosition, PoolWithout
  <2> QED
    BY <2>2, <2>3, WithDebtType
<1>3. tokens' \in [Holders -> Nat]
  BY <1>1, PayKeepsType DEF LiquidatePosition, PoolWithout, TypeOK, PoolType,
    Holders
<1>4. SolType'
  BY DEF LiquidatePosition, PoolWithout, TypeOK, SolType
<1>5. CustodyType'
  <2>1. Seized(v) \in Nat /\ Seized(v) <= lamports[v]
    BY SeizedIsNat
  <2>2. /\ vault[v].deposited_amount - Seized(v) \in Nat
        /\ lamports[v] - Seized(v) \in Nat
    BY <1>1, <2>1 DEF LiquidatePosition, PoolWithout
  <2>3. vault' = [vault EXCEPT ![v] =
                     [vault[v] EXCEPT !.deposited_amount = @ - Seized(v),
                                      !.proof_status = PENDING]]
    BY DEF LiquidatePosition, PoolWithout
  <2>4. vault' \in [Vaults -> VaultAccount]
    <3>1. [vault[v] EXCEPT !.deposited_amount = @ - Seized(v),
                           !.proof_status = PENDING] \in VaultAccount
      BY <2>2 DEF TypeOK, CustodyType, VaultAccount, PENDING
    <3> QED
      BY <2>3, <3>1 DEF TypeOK, CustodyType
  <2>5. lamports' \in [Vaults -> Nat]
    BY <2>2 DEF LiquidatePosition, PoolWithout, TypeOK, CustodyType
  <2> QED
    BY <2>4, <2>5 DEF LiquidatePosition, PoolWithout, TypeOK, CustodyType
<1> QED
  BY <1>2, <1>3, <1>4, <1>5 DEF LiquidatePosition, PoolWithout, TypeOK, PoolType

LEMMA NextType ==
    ASSUME TypeOK, ClocksBehind, [Next]_vars
    PROVE  TypeOK'
<1>1. CASE CustodyNext /\ UNCHANGED <<poolVars, solVars>>
  BY <1>1, CustodyNextType
     DEF TypeOK, PoolType, SolType, poolVars, solVars
<1>2. CASE PoolStep /\ UNCHANGED <<custodyVars, solVars>>
  BY <1>2, PoolStepType
     DEF TypeOK, CustodyType, SolType, custodyVars, solVars
<1>3. ASSUME NEW v \in Vaults, NEW signer \in Users,
             NEW amount \in BorrowAmounts,
             BorrowAgainstCollateral(v, signer, amount)
      PROVE  TypeOK'
  BY <1>3, BorrowType DEF BorrowAgainstCollateral, TypeOK, ProtocolType,
     CustodyType, clockVars, custodyVars
<1>4. ASSUME NEW v \in Vaults, NEW signer \in Users,
             NEW amount \in RepayAmounts,
             RepayBorrow(v, signer, amount)
      PROVE  TypeOK'
  BY <1>4, RepayType DEF RepayBorrow, MayRepay, PoolWithout, PositionsAfter,
    TypeOK, ProtocolType, CustodyType,
     clockVars, custodyVars
<1>5. ASSUME NEW v \in Vaults, NEW signer \in Users,
             LiquidatePosition(v, signer)
      PROVE  TypeOK'
  BY <1>5, LiquidateType DEF LiquidatePosition, PoolWithout, TypeOK,
    ProtocolType, clockVars
<1>6. CASE UNCHANGED vars
  BY <1>6 DEF vars, TypeOK, ProtocolType, CustodyType, PoolType, SolType,
     clockVars, custodyVars, poolVars, solVars
<1> QED
  BY <1>1, <1>2, <1>3, <1>4, <1>5, <1>6 DEF Next, LendingStep

----------------------------------------------------------------------------
(* The inductive invariant, and the ledger kept by every step from it.     *)
(* DebtLedger is not part of it: Bitcoin loans are booked in the same      *)
(* total, so what a step of this side owes the ledger is to move the total *)
(* by as much as the principals.  A borrow overwrites principal[v] and     *)
(* needs DebtHasAPosition to know that the old value was zero; creating    *)
(* the pool needs that nothing was booked before; ClocksBehind keeps the   *)
(* index a positive number.                                                *)

IInv ==
    /\ TypeOK
    /\ ClocksBehind
    /\ UnbornPool
    /\ DebtHasAPosition
    /\ VaultStaysFunded
    /\ CollateralLedger

LedgerKept ==
    pool'.total_borrowed - SumOver(Vaults, principal')
      = pool.total_borrowed - SumOver(Vaults, principal)

LEMMA DepositsType ==
    ASSUME TypeOK
    PROVE  Deposits \in [Vaults -> Nat]
  BY DEF TypeOK, CustodyType, VaultAccount, Deposits

LEMMA InitIInv == Init => IInv
<1> SUFFICES ASSUME Init PROVE IInv
  OBVIOUS
<1>1. TypeOK
  BY InitType
<1>2. ClocksBehind
  BY UnitAssumption
     DEF Init, ProtocolInit, CustodyInit, PoolInit, NoPool, NoVault, NoFeed,
         ClocksBehind
<1>3. DebtHasAPosition
  BY DEF Init, SolInit, DebtHasAPosition
<1>4. VaultStaysFunded
  BY DEF Init, CustodyInit, NoVault, VaultStaysFunded
<1>5. UnbornPool
  BY DEF Init, PoolInit, UnbornPool
<1>6. CollateralLedger
  <2>1. \A v \in Vaults : Deposits[v] = 0
    BY DEF Init, CustodyInit, NoVault, Deposits
  <2>2. SumOver(Vaults, Deposits) = 0
    BY <1>1, <2>1, DepositsType, SumOfZeros
  <2>3. protocol.total_collateral_verified = 0
    BY DEF Init, ProtocolInit, NoProtocol
  <2> QED
    BY <2>2, <2>3 DEF CollateralLedger
<1> QED
  BY <1>1, <1>2, <1>3, <1>4, <1>5, <1>6 DEF IInv

\* The ledgers after a step that changes one principal by what it changes
\* total_borrowed by.
LEMMA DebtLedgerStep ==
    ASSUME TypeOK, TypeOK', NEW v \in Vaults,
           \A u \in Vaults \ {v} : principal'[u] = principal[u],
           pool'.total_borrowed
             = pool.total_borrowed - principal[v] + principal'[v]
    PROVE  LedgerKept
<1>1. principal \in [Vaults -> Nat] /\ principal' \in [Vaults -> Nat]
  BY DEF TypeOK, SolType
<1>2. SumOver(Vaults, principal')
        = SumOver(Vaults, principal) - principal[v] + principal'[v]
  BY <1>1, SumUpdate, CustodyAssumption
<1>3. /\ SumOver(Vaults, principal) \in Nat
      /\ SumOver(Vaults, principal') \in Nat
      /\ principal[v] \in Nat /\ principal'[v] \in Nat
      /\ pool.total_borrowed \in Nat
  BY <1>1, SumIsNat, CustodyAssumption DEF TypeOK, PoolType, LendingPool
<1> QED
  BY <1>2, <1>3 DEF LedgerKept

LEMMA CollateralLedgerStep ==
    ASSUME TypeOK, TypeOK', CollateralLedger, NEW v \in Vaults,
           \A u \in Vaults \ {v} : vault'[u] = vault[u],
           protocol'.total_collateral_verified
             >= protocol.total_collateral_verified
                  + vault'[v].deposited_amount - vault[v].deposited_amount
    PROVE  CollateralLedger'
<1>1. Deposits \in [Vaults -> Nat] /\ Deposits' \in [Vaults -> Nat]
  BY DEF TypeOK, CustodyType, VaultAccount, Deposits
<1>2. \A u \in Vaults \ {v} : Deposits'[u] = Deposits[u]
  BY DEF Deposits
<1>3. SumOver(Vaults, Deposits')
        = SumOver(Vaults, Deposits) - Deposits[v] + Deposits'[v]
  BY <1>1, <1>2, SumUpdate, CustodyAssumption
<1>4. /\ Deposits[v] = vault[v].deposited_amount
      /\ Deposits'[v] = vault'[v].deposited_amount
  BY DEF Deposits
<1>5. /\ SumOver(Vaults, Deposits) \in Nat
      /\ Deposits[v] \in Nat /\ Deposits'[v] \in Nat
      /\ protocol.total_collateral_verified \in Nat
      /\ protocol'.total_collateral_verified \in Nat
  BY <1>1, SumIsNat, CustodyAssumption
     DEF TypeOK, ProtocolType, ProtocolAccount
<1> QED
  BY <1>3, <1>4, <1>5 DEF CollateralLedger

LEMMA CustodyIInv ==
    ASSUME IInv, TypeOK', CustodyNext, UNCHANGED <<poolVars, solVars>>
    PROVE  IInv' /\ LedgerKept
<1> USE DEF IInv
<1>0. /\ UNCHANGED <<pool, feed, tokens, positions, principal>>
      /\ now \in Nat /\ slot \in Nat
      /\ \A a \in PriceAssets : feed[a].updated_at \in Nat
      /\ \A u \in Vaults : vault[u].proof_timestamp \in Nat
      /\ pool.last_update_slot \in Nat
  BY ClockAssumption
     DEF poolVars, solVars, TypeOK, ProtocolType, PoolType, AdminPriceFeed,
         LendingPool, CustodyType, VaultAccount
<1>1. DebtHasAPosition' /\ UnbornPool' /\ LedgerKept
  BY <1>0 DEF DebtHasAPosition, UnbornPool, LedgerKept
<1>2. CASE Tick /\ UNCHANGED custodyVars
  <2>1. now' \in Nat /\ now' >= now /\ slot' >= slot
    BY <1>0, <1>2, ClockAssumption DEF Tick
  <2>2. UNCHANGED <<vault, lamports, protocol>>
    BY <1>2 DEF Tick, custodyVars
  <2>3. ClocksBehind'
    BY <1>0, <2>1, <2>2, <1>2, ClockAssumption DEF ClocksBehind, Tick
  <2>4. VaultStaysFunded' /\ CollateralLedger'
    BY <2>2 DEF VaultStaysFunded, CollateralLedger, Deposits
  <2> QED
    BY <1>1, <2>3, <2>4
<1>3. CASE ProtocolStep /\ UNCHANGED custodyVars
  <2>1. UNCHANGED <<vault, lamports, now, slot>>
    BY <1>3 DEF ProtocolStep, InitializeProtocol, UnfreezeProtocolState,
       clockVars, custodyVars
  <2>2. ClocksBehind'
    BY <1>0, <2>1 DEF ClocksBehind
  <2>3. VaultStaysFunded' /\ CollateralLedger'
    <3>1. CASE \E signer \in Users : UnfreezeProtocolState(signer)
      <4>1. /\ protocol'.total_collateral_verified
                 = protocol.total_collateral_verified
            /\ protocol'.live = protocol.live
        BY <3>1 DEF UnfreezeProtocolState, TypeOK, ProtocolType, ProtocolAccount
      <4> QED
        BY <2>1, <4>1 DEF VaultStaysFunded, CollateralLedger, Deposits
    <3>2. CASE \E admin \in Deployers : InitializeProtocol(admin)
      \* No vault is registered before the protocol is, so nothing is deposited.
      <4>1. protocol'.total_collateral_verified = 0 /\ ~protocol.live
        BY <3>2 DEF InitializeProtocol, NoProtocol
      <4>2. \A u \in Vaults : ~vault[u].live
        BY <4>1 DEF VaultStaysFunded
      <4>3. \A u \in Vaults : vault[u].deposited_amount = 0
        BY <4>2 DEF VaultStaysFunded, TypeOK, CustodyType, VaultAccount
      <4>4. SumOver(Vaults, Deposits) = 0
        BY <4>3, DepositsType, SumOfZeros DEF Deposits
      <4>5. VaultStaysFunded'
        BY <2>1, <4>2, <4>3 DEF VaultStaysFunded
      <4>6. CollateralLedger'
        BY <2>1, <4>1, <4>4 DEF CollateralLedger, Deposits
      <4> QED
        BY <4>5, <4>6
    <3> QED
      BY <1>3, <3>1, <3>2 DEF ProtocolStep
  <2> QED
    BY <1>1, <2>2, <2>3
<1>4. ASSUME NEW v \in Vaults, VaultStep(v)
      PROVE  IInv' /\ LedgerKept
  <2>1. /\ UNCHANGED clockVars
        /\ \A u \in Vaults \ {v} :
             vault'[u] = vault[u] /\ lamports'[u] = lamports[u]
        /\ vault'[v].proof_timestamp \in {0, now, vault[v].proof_timestamp}
        /\ protocol'.live = protocol.live
        /\ vault'[v].live => protocol.live
        /\ vault'[v].live => lamports'[v] >= RENT
        /\ vault'[v].deposited_amount > 0 => vault'[v].live
        /\ protocol'.total_collateral_verified
             = protocol.total_collateral_verified
                 + vault'[v].deposited_amount - vault[v].deposited_amount
    BY <1>4, VaultStepEffects, VaultStepKeepsProtocol
       DEF TypeOK, VaultStaysFunded, Funded
  <2>2. ClocksBehind'
    BY <1>0, <2>1 DEF ClocksBehind, clockVars
  <2>3. VaultStaysFunded'
    BY <2>1 DEF VaultStaysFunded
  <2>4. CollateralLedger'
    <3>1. protocol'.total_collateral_verified
            >= protocol.total_collateral_verified
                 + vault'[v].deposited_amount - vault[v].deposited_amount
      BY <2>1 DEF TypeOK, ProtocolType, ProtocolAccount
    <3> QED
      BY <2>1, <3>1, CollateralLedgerStep
  <2> QED
    BY <1>1, <2>2, <2>3, <2>4
<1> QED
  BY <1>2, <1>3, <1>4 DEF CustodyNext

LEMMA PoolIInv ==
    ASSUME IInv, TypeOK', PoolStep, UNCHANGED <<custodyVars, solVars>>
    PROVE  IInv' /\ LedgerKept
<1> USE DEF IInv
<1>0. UNCHANGED <<protocol, now, slot, vault, lamports, positions, principal>>
  BY DEF PoolStep, InitializeLendingPool, InitializeAdminPriceFeed,
     CloseAdminPriceFeed, UpdateAdminPrice, WalletTransfer, custodyVars,
     solVars, clockVars
<1>1. VaultStaysFunded' /\ CollateralLedger'
  BY <1>0 DEF VaultStaysFunded, CollateralLedger, Deposits
<1>2. now \in Nat /\ slot \in Nat /\ feed \in [PriceAssets -> AdminPriceFeed]
  BY ClockAssumption DEF TypeOK, ProtocolType, PoolType
<1>3. \A a \in PriceAssets : feed'[a].updated_at <= now
  <2>1. \A a \in PriceAssets : feed[a].updated_at <= now
    BY DEF ClocksBehind
  <2>2. ASSUME NEW price, NEW admin
        PROVE  FeedAt(price, admin).updated_at = now
    BY DEF FeedAt
  <2>3. NoFeed.updated_at = 0
    BY DEF NoFeed
  <2>4. ASSUME NEW asset \in PriceAssets, NEW price \in Prices,
               NEW admin \in Users, UpdateAdminPrice(admin, asset, price)
        PROVE  \A a \in PriceAssets : feed'[a].updated_at <= now
    BY <1>2, <2>1, <2>4 DEF UpdateAdminPrice, AdminPriceFeed
  <2>5. ASSUME UNCHANGED feed
        PROVE  \A a \in PriceAssets : feed'[a].updated_at <= now
    BY <2>1, <2>5
  <2>6. ASSUME NEW asset \in PriceAssets, NEW price \in Prices,
               NEW admin \in Deployers,
               feed' = [feed EXCEPT ![asset] = FeedAt(price, admin)]
        PROVE  \A a \in PriceAssets : feed'[a].updated_at <= now
    BY <1>2, <2>1, <2>2, <2>6
  <2>7. ASSUME NEW asset \in PriceAssets, NEW admin \in Users,
               CloseAdminPriceFeed(admin, asset)
        PROVE  \A a \in PriceAssets : feed'[a].updated_at <= now
    <3>1. feed' = [feed EXCEPT ![asset] = NoFeed]
      BY <2>7 DEF CloseAdminPriceFeed
    <3> QED
      BY <1>2, <2>1, <2>3, <3>1
  <2> QED
    BY <2>4, <2>5, <2>6, <2>7
       DEF PoolStep, InitializeLendingPool, InitializeAdminPriceFeed,
           WalletTransfer
<1>4. CASE UNCHANGED pool
  BY <1>0, <1>1, <1>3, <1>4
     DEF ClocksBehind, UnbornPool, DebtHasAPosition, LedgerKept
<1>5. ASSUME NEW admin \in Deployers, NEW asset \in PriceAssets,
             NEW price \in Prices, NEW liquidity \in Liquidities,
             InitializeLendingPool(admin, asset, liquidity, price)
      PROVE  IInv' /\ LedgerKept
  <2>1. pool' = [live |-> TRUE, total_liquidity |-> liquidity,
                 total_borrowed |-> 0, borrow_index |-> RAY,
                 last_update_slot |-> slot]
    BY <1>5 DEF InitializeLendingPool, NoPool
  <2>2. /\ pool'.live
        /\ pool'.total_borrowed = 0
        /\ pool'.borrow_index = RAY
        /\ pool'.last_update_slot = slot
    BY <2>1
  <2>3. ClocksBehind'
    BY <1>0, <1>2, <1>3, <2>2, UnitAssumption DEF ClocksBehind
  \* There was no pool, hence no principal and nothing booked.
  <2>4. \A v \in Vaults : principal[v] = 0
    BY <1>5 DEF InitializeLendingPool, DebtHasAPosition, TypeOK, SolType
  <2>5. pool.total_borrowed = 0
    BY <1>5 DEF InitializeLendingPool, UnbornPool, NoPool
  <2>6. LedgerKept /\ DebtHasAPosition' /\ UnbornPool'
    BY <1>0, <2>2, <2>4, <2>5 DEF LedgerKept, DebtHasAPosition, UnbornPool
  <2> QED
    BY <1>1, <2>3, <2>6
<1> QED
  BY <1>4, <1>5 DEF PoolStep, InitializeAdminPriceFeed, CloseAdminPriceFeed,
     UpdateAdminPrice, WalletTransfer

\* After a lending step the pool is the accrued pool with another scaled debt.
LEMMA AccruedPoolStep ==
    ASSUME IInv, NEW n \in Nat, UNCHANGED <<clockVars, feed>>,
           \A u \in Vaults : vault'[u].proof_timestamp = vault[u].proof_timestamp,
           pool' = [Accrued EXCEPT !.total_borrowed = n]
    PROVE  /\ ClocksBehind'
           /\ pool'.total_borrowed = n
           /\ pool'.live = pool.live
<1> USE DEF IInv
<1>1. /\ Accrued \in LendingPool
      /\ Accrued.live = pool.live
      /\ Accrued.last_update_slot = slot
      /\ Accrued.borrow_index >= pool.borrow_index
  BY AccruedFacts
<1>2. /\ pool'.total_borrowed = n
      /\ pool'.last_update_slot = Accrued.last_update_slot
      /\ pool'.borrow_index = Accrued.borrow_index
  BY <1>1 DEF LendingPool
<1>3. pool'.live = pool.live
  BY <1>1 DEF LendingPool
<1>4. /\ pool.borrow_index \in Nat /\ Accrued.borrow_index \in Nat
      /\ RAY \in Nat /\ slot \in Nat
  BY <1>1, UnitAssumption, ClockAssumption
     DEF LendingPool, TypeOK, PoolType, ProtocolType
<1>5. ClocksBehind'
  BY <1>1, <1>2, <1>4 DEF ClocksBehind, clockVars
<1> QED
  BY <1>2, <1>3, <1>5

LEMMA BorrowIInv ==
    ASSUME IInv, TypeOK',
           NEW v \in Vaults, NEW signer \in Users, NEW amount \in BorrowAmounts,
           BorrowAgainstCollateral(v, signer, amount)
    PROVE  IInv' /\ LedgerKept
<1> USE DEF IInv
<1> DEFINE scaled == ToScaled(amount, Accrued.borrow_index)
<1>1. /\ scaled \in Nat
      /\ pool.total_borrowed \in Nat
      /\ Accrued.total_borrowed = pool.total_borrowed
      /\ principal \in [Vaults -> Nat]
  BY AccruedFacts, ToScaledIsNat, SolAssumption
     DEF TypeOK, PoolType, LendingPool, SolType
<1>2. /\ pool' = [Accrued EXCEPT !.total_borrowed = Accrued.total_borrowed + scaled]
      /\ principal' = [principal EXCEPT ![v] = scaled]
      /\ positions' = positions \cup {v}
      /\ v \notin positions
      /\ pool.live
      /\ UNCHANGED <<clockVars, protocol, vault, lamports, feed>>
  BY DEF BorrowAgainstCollateral, custodyVars
<1> HIDE DEF scaled
<1>3. /\ ClocksBehind'
      /\ pool'.total_borrowed = pool.total_borrowed + scaled
      /\ pool'.live = pool.live
  <2>1. pool.total_borrowed + scaled \in Nat
    BY <1>1
  <2> QED
    BY <1>1, <1>2, <2>1, AccruedPoolStep
<1>4. VaultStaysFunded' /\ CollateralLedger'
  BY <1>2 DEF VaultStaysFunded, CollateralLedger, Deposits
<1>5. DebtHasAPosition' /\ UnbornPool'
  BY <1>1, <1>2, <1>3 DEF DebtHasAPosition, UnbornPool
<1>6. LedgerKept
  <2>1. principal[v] = 0
    BY <1>1, <1>2 DEF DebtHasAPosition
  <2>2. principal'[v] = scaled
    BY <1>1, <1>2
  <2>3. pool'.total_borrowed = pool.total_borrowed - principal[v] + principal'[v]
    BY <1>1, <1>3, <2>1, <2>2
  <2>4. \A u \in Vaults \ {v} : principal'[u] = principal[u]
    BY <1>1, <1>2
  <2> QED
    BY <2>3, <2>4, DebtLedgerStep
<1> QED
  BY <1>3, <1>4, <1>5, <1>6

LEMMA RepayIInv ==
    ASSUME IInv, TypeOK',
           NEW v \in Vaults, NEW signer \in Users, NEW amount \in RepayAmounts,
           RepayBorrow(v, signer, amount)
    PROVE  IInv' /\ LedgerKept
<1> USE DEF IInv
<1> DEFINE owed == DebtOf(principal[v])
           paid == Smaller(amount, owed)
           slice == RepaidSlice(paid, owed, principal[v])
<1>1. principal[v] \in Nat /\ principal \in [Vaults -> Nat] /\ amount \in Nat
      /\ pool.total_borrowed \in Nat
      /\ Accrued.total_borrowed = pool.total_borrowed
  BY AccruedFacts, SolAssumption
     DEF TypeOK, PoolType, LendingPool, SolType
<1>2. slice \in 0..principal[v]
  <2>1. owed \in Nat /\ paid \in Nat
    BY <1>1, DebtOfIsNat DEF Smaller
  <2> QED
    BY <1>1, <2>1, RepaidSliceFacts
<1>3. /\ pool.live
      /\ pool.total_borrowed >= slice
      /\ pool' = [Accrued EXCEPT !.total_borrowed = Accrued.total_borrowed - slice]
      /\ principal' = [principal EXCEPT ![v] = principal[v] - slice]
      /\ positions' = IF principal[v] = slice THEN positions \ {v}
                                              ELSE positions
      /\ UNCHANGED <<clockVars, protocol, vault, lamports, feed>>
  BY DEF RepayBorrow, MayRepay, OwnsLoan, PoolWithout, PositionsAfter,
    custodyVars
<1> HIDE DEF owed, paid, slice
<1>4. /\ ClocksBehind'
      /\ pool'.total_borrowed = pool.total_borrowed - slice
      /\ pool'.live = pool.live
  <2>1. pool.total_borrowed - slice \in Nat
    BY <1>1, <1>2, <1>3
  <2> QED
    BY <1>1, <1>3, <2>1, AccruedPoolStep
<1>5. VaultStaysFunded' /\ CollateralLedger' /\ UnbornPool'
  BY <1>3, <1>4 DEF VaultStaysFunded, CollateralLedger, Deposits, UnbornPool
<1>6. /\ principal'[v] = principal[v] - slice
      /\ \A u \in Vaults \ {v} : principal'[u] = principal[u]
  BY <1>1, <1>3
<1>7. DebtHasAPosition'
  <2>1. CASE principal[v] = slice
    <3>1. principal'[v] = 0
      BY <1>1, <1>6, <2>1
    <3>2. positions' = positions \ {v}
      BY <1>3, <2>1
    <3> QED
      BY <1>4, <1>6, <3>1, <3>2 DEF DebtHasAPosition
  <2>2. CASE principal[v] # slice
    <3>1. principal[v] > 0 /\ positions' = positions
      BY <1>1, <1>2, <1>3, <2>2
    <3> QED
      BY <1>3, <1>4, <1>6, <3>1 DEF DebtHasAPosition
  <2> QED
    BY <2>1, <2>2
<1>8. LedgerKept
  <2>1. pool'.total_borrowed = pool.total_borrowed - principal[v] + principal'[v]
    BY <1>1, <1>2, <1>4, <1>6
  <2> QED
    BY <1>6, <2>1, DebtLedgerStep
<1> QED
  BY <1>4, <1>5, <1>7, <1>8

LEMMA LiquidateIInv ==
    ASSUME IInv, TypeOK', NEW v \in Vaults, NEW liquidator \in Users,
           LiquidatePosition(v, liquidator)
    PROVE  IInv' /\ LedgerKept
<1> USE DEF IInv
<1>1. principal[v] \in Nat /\ principal \in [Vaults -> Nat]
      /\ pool.total_borrowed \in Nat
      /\ Accrued.total_borrowed = pool.total_borrowed
      /\ vault \in [Vaults -> VaultAccount]
      /\ lamports \in [Vaults -> Nat]
      /\ vault[v].deposited_amount \in Nat
  BY AccruedFacts
     DEF TypeOK, PoolType, LendingPool, SolType, CustodyType, VaultAccount
<1>2. /\ Seized(v) \in Nat /\ Seized(v) > 0
      /\ lamports[v] - Seized(v) >= RENT
  BY SeizedIsNat DEF LiquidatePosition, PoolWithout
<1>3. /\ vault[v].live /\ pool.live
      /\ pool.total_borrowed >= principal[v]
      /\ pool' = [Accrued EXCEPT
                    !.total_borrowed = Accrued.total_borrowed - principal[v]]
      /\ lamports' = [lamports EXCEPT ![v] = lamports[v] - Seized(v)]
      /\ vault' = [vault EXCEPT ![v] =
                      [vault[v] EXCEPT !.deposited_amount = @ - Seized(v),
                                       !.proof_status = PENDING]]
      /\ positions' = positions \ {v}
      /\ principal' = [principal EXCEPT ![v] = 0]
      /\ UNCHANGED <<clockVars, protocol, feed>>
  BY DEF LiquidatePosition, PoolWithout
<1>4. /\ \A u \in Vaults \ {v} : vault'[u] = vault[u] /\ lamports'[u] = lamports[u]
      /\ vault'[v].deposited_amount = vault[v].deposited_amount - Seized(v)
      /\ vault'[v].proof_timestamp = vault[v].proof_timestamp
      /\ lamports'[v] = lamports[v] - Seized(v)
  BY <1>1, <1>3 DEF VaultAccount
<1>5. vault'[v].live
  BY <1>1, <1>3 DEF VaultAccount
<1>6. /\ ClocksBehind'
      /\ pool'.total_borrowed = pool.total_borrowed - principal[v]
      /\ pool'.live = pool.live
  <2>1. pool.total_borrowed - principal[v] \in Nat
    BY <1>1, <1>3
  <2> QED
    BY <1>1, <1>3, <1>4, <2>1, AccruedPoolStep
<1>7. VaultStaysFunded' /\ UnbornPool'
  BY <1>2, <1>3, <1>4, <1>5, <1>6 DEF VaultStaysFunded, UnbornPool
<1>8. CollateralLedger'
  <2>1. protocol'.total_collateral_verified
          >= protocol.total_collateral_verified
               + vault'[v].deposited_amount - vault[v].deposited_amount
    BY <1>1, <1>2, <1>3, <1>4 DEF TypeOK, ProtocolType, ProtocolAccount
  <2> QED
    BY <1>4, <2>1, CollateralLedgerStep
<1>9. /\ principal'[v] = 0
      /\ \A u \in Vaults \ {v} : principal'[u] = principal[u]
  BY <1>1, <1>3
<1>10. DebtHasAPosition'
  <2>1. positions' = positions \ {v} /\ pool'.live
    BY <1>3, <1>6
  <2> QED
    BY <1>9, <2>1 DEF DebtHasAPosition
<1>11. LedgerKept
  <2>1. pool'.total_borrowed = pool.total_borrowed - principal[v] + principal'[v]
    BY <1>1, <1>6, <1>9
  <2> QED
    BY <1>9, <2>1, DebtLedgerStep
<1> QED
  BY <1>6, <1>7, <1>8, <1>10, <1>11

LEMMA NextIInv ==
    ASSUME IInv, [Next]_vars
    PROVE  IInv' /\ LedgerKept
<1>0. TypeOK'
  BY NextType DEF IInv
<1>1. CASE UNCHANGED vars
  BY <1>0, <1>1
     DEF IInv, vars, clockVars, custodyVars, poolVars, solVars, ClocksBehind,
         UnbornPool, DebtHasAPosition, VaultStaysFunded, CollateralLedger,
         Deposits, LedgerKept
<1>2. CASE Next
  BY <1>0, <1>2, CustodyIInv, PoolIInv, BorrowIInv, RepayIInv, LiquidateIInv
     DEF Next, LendingStep
<1> QED
  BY <1>1, <1>2

----------------------------------------------------------------------------
(* The theorems *)

THEOREM InductiveInvariant == Spec => []IInv
<1>1. IInv /\ [Next]_vars => IInv'
  BY NextIInv
<1> QED
  BY <1>1, InitIInv, PTL DEF Spec

\* Every variable keeps its type: no balance, total or principal of the
\* program ever goes negative.
THEOREM TypeCorrect == Spec => []TypeOK
  BY InductiveInvariant, PTL DEF IInv

\* pool.total_borrowed is the sum of all scaled principals in every reachable
\* state, for any number of vaults: borrow, repay, liquidate, close_vault.
THEOREM DebtLedgerHolds == Spec => []DebtLedger
<1>1. Init => DebtLedger
  <2> SUFFICES ASSUME Init PROVE DebtLedger
    OBVIOUS
  <2>1. principal \in [Vaults -> Nat] /\ \A v \in Vaults : principal[v] = 0
    BY DEF Init, SolInit
  <2>2. pool.total_borrowed = 0
    BY DEF Init, PoolInit, NoPool
  <2> QED
    BY <2>1, <2>2, SumOfZeros DEF DebtLedger
<1>2. IInv /\ DebtLedger /\ [Next]_vars => DebtLedger'
  <2> SUFFICES ASSUME IInv, DebtLedger, [Next]_vars PROVE DebtLedger'
    OBVIOUS
  <2>1. LedgerKept /\ TypeOK /\ TypeOK'
    BY NextIInv DEF IInv
  <2>2. /\ pool.total_borrowed \in Nat /\ pool'.total_borrowed \in Nat
        /\ SumOver(Vaults, principal) \in Nat
        /\ SumOver(Vaults, principal') \in Nat
    BY <2>1, SumIsNat, CustodyAssumption
       DEF TypeOK, PoolType, LendingPool, SolType
  <2> QED
    BY <2>1, <2>2 DEF LedgerKept, DebtLedger
<1> QED
  BY <1>1, <1>2, InductiveInvariant, PTL DEF Spec

\* The recorded deposits never exceed protocol.total_collateral_verified:
\* deposit, withdraw, liquidate, close_vault.
THEOREM CollateralLedgerHolds == Spec => []CollateralLedger
  BY InductiveInvariant, PTL DEF IInv

\* No scaled debt outlives its position, and none precedes the pool.
THEOREM DebtHasAPositionHolds == Spec => []DebtHasAPosition
  BY InductiveInvariant, PTL DEF IInv

\* A registered vault keeps its rent-exempt minimum, and a deposit is recorded
\* only for a registered vault: liquidate_position, close_vault.
THEOREM VaultStaysFundedHolds == Spec => []VaultStaysFunded
  BY InductiveInvariant, PTL DEF IInv

\* No timestamp or slot stored by any instruction is ahead of the clock.
THEOREM ClocksBehindHolds == Spec => []ClocksBehind
  BY InductiveInvariant, PTL DEF IInv

\* No single debt exceeds the pool's total, so the checked_sub on
\* total_borrowed in repay_borrow and liquidate_position never fails.
THEOREM NoDebtUnderflow ==
    Spec => [](\A v \in Vaults : principal[v] <= pool.total_borrowed)
<1>1. IInv /\ DebtLedger
        => \A v \in Vaults : principal[v] <= pool.total_borrowed
  BY SumCoversEach, CustodyAssumption
     DEF IInv, DebtLedger, TypeOK, SolType
<1> QED
  BY <1>1, InductiveInvariant, DebtLedgerHolds, PTL

----------------------------------------------------------------------------
(* What a step may never do *)

\* The pool changes in three ways only: it is created, it is accrued and its
\* scaled debt is replaced, or it stays.
PoolCreated ==
    ~pool.live /\ pool'.live /\ pool'.borrow_index = RAY

PoolMoved ==
    /\ pool.live /\ pool'.live
    /\ pool'.borrow_index = Accrued.borrow_index
    /\ pool'.last_update_slot = slot
    /\ pool'.total_borrowed \in Nat

LEMMA PoolChanges ==
    ASSUME IInv, [Next]_vars
    PROVE  \/ UNCHANGED pool
           \/ PoolCreated
           \/ PoolMoved
<1> USE DEF IInv
<1>0. /\ Accrued \in LendingPool
      /\ Accrued.live = pool.live
      /\ Accrued.last_update_slot = slot
      /\ Accrued.total_borrowed = pool.total_borrowed
  BY AccruedFacts
<1>1. ASSUME NEW n \in Nat, pool.live,
             pool' = [Accrued EXCEPT !.total_borrowed = n]
      PROVE  PoolMoved
  BY <1>0, <1>1 DEF LendingPool, PoolMoved
<1>2. TypeOK'
  BY NextType
<1>3. pool'.total_borrowed \in Nat
  BY <1>2 DEF TypeOK, PoolType, LendingPool
<1>4. ASSUME NEW n, pool' = [Accrued EXCEPT !.total_borrowed = n]
      PROVE  n \in Nat
  <2>1. pool'.total_borrowed = n
    BY <1>0, <1>4 DEF LendingPool
  <2> QED
    BY <1>3, <2>1
<1>5. ASSUME NEW v \in Vaults, NEW signer \in Users,
             NEW amount \in BorrowAmounts,
             BorrowAgainstCollateral(v, signer, amount)
      PROVE  PoolMoved
  <2>1. PICK n : pool' = [Accrued EXCEPT !.total_borrowed = n]
    BY <1>5 DEF BorrowAgainstCollateral
  <2> QED
    BY <1>1, <1>4, <1>5, <2>1 DEF BorrowAgainstCollateral
<1>6. ASSUME NEW v \in Vaults, NEW signer \in Users,
             NEW amount \in RepayAmounts,
             RepayBorrow(v, signer, amount)
      PROVE  PoolMoved
  <2>1. PICK n : pool' = [Accrued EXCEPT !.total_borrowed = n]
    BY <1>6 DEF RepayBorrow, MayRepay, PoolWithout, PositionsAfter
  <2> QED
    BY <1>1, <1>4, <1>6, <2>1 DEF RepayBorrow, MayRepay, OwnsLoan,
      PoolWithout, PositionsAfter
<1>7. ASSUME NEW v \in Vaults, NEW signer \in Users,
             LiquidatePosition(v, signer)
      PROVE  PoolMoved
  <2>1. PICK n : pool' = [Accrued EXCEPT !.total_borrowed = n]
    BY <1>7 DEF LiquidatePosition, PoolWithout
  <2> QED
    BY <1>1, <1>4, <1>7, <2>1 DEF LiquidatePosition, PoolWithout
<1>8. ASSUME NEW admin \in Deployers, NEW asset \in PriceAssets,
             NEW price \in Prices, NEW liquidity \in Liquidities,
             InitializeLendingPool(admin, asset, liquidity, price)
      PROVE  PoolCreated
  <2>1. pool' = [live |-> TRUE, total_liquidity |-> liquidity,
                 total_borrowed |-> 0, borrow_index |-> RAY,
                 last_update_slot |-> slot]
    BY <1>8 DEF InitializeLendingPool, NoPool
  <2>2. pool'.live /\ ~pool.live
    BY <1>8, <2>1 DEF InitializeLendingPool
  <2>3. pool'.borrow_index = RAY /\ pool'.last_update_slot = slot
    BY <2>1
  <2> QED
    BY <2>2, <2>3 DEF PoolCreated
<1>9. CASE PoolStep
  BY <1>8, <1>9 DEF PoolStep, InitializeAdminPriceFeed, CloseAdminPriceFeed,
     UpdateAdminPrice, WalletTransfer
<1> QED
  BY <1>5, <1>6, <1>7, <1>9 DEF Next, LendingStep, poolVars, vars

\* Interest for a slot is charged once, and the index moves only together with
\* last_update_slot: accrue_interest under every caller.
THEOREM AccruedOnce == Spec => AccruedOncePerSlot
<1>1. ASSUME IInv, [Next]_vars,
             pool'.borrow_index # pool.borrow_index
      PROVE  /\ pool'.borrow_index > pool.borrow_index
             /\ pool.last_update_slot < slot
             /\ pool'.last_update_slot = slot
  <2>1. PoolMoved
    BY <1>1, PoolChanges DEF IInv, UnbornPool, NoPool, PoolCreated
  <2>2. /\ Accrued.borrow_index >= pool.borrow_index
        /\ Accrued.borrow_index \in Nat /\ pool.borrow_index \in Nat
        /\ pool.last_update_slot \in Nat /\ slot \in Nat
    BY <1>1, AccruedFacts, ClockAssumption
       DEF IInv, TypeOK, PoolType, LendingPool, ProtocolType
  <2>3. pool.last_update_slot < slot
    BY <1>1, <2>1, <2>2 DEF PoolMoved, Accrued
  <2> QED
    BY <1>1, <2>1, <2>2, <2>3 DEF PoolMoved
<1> QED
  BY <1>1, InductiveInvariant, PTL DEF AccruedOncePerSlot, Spec


----------------------------------------------------------------------------
(* Rounding *)

\* Neither a full nor a partial payment leaves the pool an index unit short.
LEMMA SlicePaid ==
    ASSUME TypeOK, ClocksBehind, NEW s \in Nat, NEW amount \in Nat
    PROVE  LET i == Accrued.borrow_index
               paid == Smaller(amount, DebtOf(s))
           IN  paid * RAY > RepaidSlice(paid, DebtOf(s), s) * i - i
<1> DEFINE i == Accrued.borrow_index
           owed == DebtOf(s)
           paid == Smaller(amount, owed)
<1>1. /\ i \in Nat \ {0} /\ i >= RAY /\ RAY \in Nat \ {0}
  BY AccruedFacts, UnitAssumption
     DEF ClocksBehind, TypeOK, PoolType, LendingPool
<1>2. owed \in Nat /\ paid \in Nat
  BY DebtOfIsNat DEF Smaller
<1>3. CASE paid = owed
  <2>1. owed * RAY > s * i - i
    BY <1>1, WholeDebtPaid DEF DebtOf
  <2> QED
    BY <1>3, <2>1 DEF RepaidSlice
<1>4. CASE paid # owed
  <2>1. paid * RAY > Smaller(ToScaled(paid, i), s) * i - i
    BY <1>1, <1>2, SliceWorth
  <2> QED
    BY <1>4, <2>1 DEF RepaidSlice
<1> QED
  BY <1>3, <1>4

LEMMA BorrowValue ==
    ASSUME IInv, NEW v \in Vaults, NEW signer \in Users,
           NEW amount \in BorrowAmounts,
           BorrowAgainstCollateral(v, signer, amount)
    PROVE  LossBounded
<1>1. amount \in Nat /\ Pay(PoolVault, signer, amount)
  BY SolAssumption DEF BorrowAgainstCollateral
<1>2. pool' = [Accrued EXCEPT !.total_borrowed =
                 Accrued.total_borrowed
                   + ToScaled(amount, Accrued.borrow_index)]
  BY DEF BorrowAgainstCollateral
<1> QED
  BY <1>1, <1>2, LoanValue DEF IInv, TypeOK, ClocksBehind

LEMMA RepayValue ==
    ASSUME IInv, NEW v \in Vaults, NEW signer \in Users,
           NEW amount \in RepayAmounts,
           RepayBorrow(v, signer, amount)
    PROVE  LossBounded
<1> DEFINE owed == DebtOf(principal[v])
           paid == Smaller(amount, owed)
           slice == RepaidSlice(paid, owed, principal[v])
<1>1. /\ TypeOK /\ ClocksBehind
      /\ amount \in Nat
      /\ principal[v] \in Nat
  BY SolAssumption DEF IInv, TypeOK, SolType
<1>2. owed \in Nat /\ paid \in Nat
  BY <1>1, DebtOfIsNat DEF Smaller
<1>3. slice \in Nat
  <2>1. slice \in 0..principal[v]
    BY <1>1, <1>2, RepaidSliceFacts
  <2> QED
    BY <1>1, <2>1
<1>4. paid * RAY > slice * Accrued.borrow_index - Accrued.borrow_index
  BY <1>1, SlicePaid
<1>5. /\ slice <= pool.total_borrowed
      /\ pool' = [Accrued EXCEPT !.total_borrowed
                                   = Accrued.total_borrowed - slice]
      /\ Pay(signer, PoolVault, paid)
  <2>1. pool.total_borrowed >= slice
    BY DEF RepayBorrow, MayRepay
  <2>2. pool.total_borrowed \in Nat
    BY <1>1 DEF TypeOK, PoolType, LendingPool
  <2> QED
    BY <1>3, <2>1, <2>2 DEF RepayBorrow, PoolWithout
<1>6. tokens'[PoolVault] = tokens[PoolVault] + paid
  BY <1>1, <1>2, <1>5, PayMovesCash DEF TypeOK
<1> HIDE DEF owed, paid, slice
<1> QED
  BY <1>2, <1>3, <1>4, <1>5, <1>6, PaybackValue
     DEF IInv, ClocksBehind, TypeOK

LEMMA LiquidateValue ==
    ASSUME IInv, NEW v \in Vaults, NEW liquidator \in Users,
           LiquidatePosition(v, liquidator)
    PROVE  LossBounded
<1> DEFINE paid == DebtOf(principal[v])
           slice == principal[v]
<1>1. TypeOK /\ ClocksBehind /\ slice \in Nat
  BY DEF IInv, TypeOK, SolType
<1>2. paid \in Nat
  BY <1>1, DebtOfIsNat
<1>3. Accrued.borrow_index \in Nat /\ Accrued.borrow_index >= RAY
  BY <1>1, AccruedFacts, UnitAssumption
     DEF ClocksBehind, TypeOK, PoolType, LendingPool
<1>4. paid * RAY > slice * Accrued.borrow_index - Accrued.borrow_index
  BY <1>1, <1>3, WholeDebtPaid DEF DebtOf
<1>5. /\ slice <= pool.total_borrowed
      /\ pool' = [Accrued EXCEPT !.total_borrowed
                                   = Accrued.total_borrowed - slice]
      /\ Pay(liquidator, PoolVault, paid)
  <2>1. pool.total_borrowed >= slice
    BY DEF LiquidatePosition
  <2>2. pool.total_borrowed \in Nat
    BY <1>1 DEF TypeOK, PoolType, LendingPool
  <2> QED
    BY <1>1, <2>1, <2>2 DEF LiquidatePosition, PoolWithout
<1>6. tokens'[PoolVault] = tokens[PoolVault] + paid
  BY <1>1, <1>2, <1>5, PayMovesCash DEF TypeOK
<1> HIDE DEF paid, slice
<1> QED
  BY <1>1, <1>2, <1>4, <1>5, <1>6, PaybackValue
     DEF IInv, ClocksBehind, TypeOK

\* Before the pool exists nothing is owed to it.
LEMMA UnbornPoolOwedNothing ==
    ASSUME IInv, ~pool.live
    PROVE  pool.total_borrowed = 0 /\ pool.borrow_index = RAY
  BY DEF IInv, UnbornPool, NoPool

\* Rounding never costs the pool a whole index unit in one transaction, for
\* every rate, price and amount: borrow_against_collateral, repay_borrow and
\* liquidate_position are paid for up to to_scaled's and current_debt's
\* truncation.
THEOREM RoundingLossIsBounded == Spec => RoundingLossBounded
<1>1. ASSUME IInv, [Next]_vars
      PROVE  LossBounded
  <2>1. CASE UNCHANGED vars
    BY <1>1, <2>1, QuietStepValue DEF vars, poolVars, IInv, TypeOK, ClocksBehind
  <2>2. CASE CustodyNext /\ UNCHANGED <<poolVars, solVars>>
    BY <1>1, <2>2, QuietStepValue DEF poolVars, IInv, TypeOK, ClocksBehind
  <2>3. CASE PoolStep
    BY <1>1, <2>3, PoolStepValue, UnbornPoolOwedNothing
       DEF IInv, TypeOK, ClocksBehind
  <2>4. CASE \E v \in Vaults : LendingStep(v)
    BY <1>1, <2>4, BorrowValue, RepayValue, LiquidateValue DEF LendingStep
  <2> QED
    BY <1>1, <2>1, <2>2, <2>3, <2>4 DEF Next
<1>2. IInv /\ [Next]_vars => [PoolValue' > PoolValue - pool'.borrow_index]_vars
  BY <1>1 DEF LossBounded
<1> QED
  BY <1>2, InductiveInvariant, PTL DEF Spec, RoundingLossBounded

----------------------------------------------------------------------------
(* The frozen protocol *)

Still ==
    /\ Deposits' = Deposits
    /\ tokens'[PoolVault] >= tokens[PoolVault]
    /\ positions' \subseteq positions
    /\ \A v \in positions \ positions' :
         tokens'[OwnerOf[v]] < tokens[OwnerOf[v]]

\* While the protocol is frozen, a vault step rewrites no recorded deposit: a
\* vault registered again held none before, and close_vault refuses one.
LEMMA FrozenVaultStep ==
    ASSUME IInv, protocol.frozen, NEW v \in Vaults, VaultStep(v)
    PROVE  Deposits' = Deposits
<1>1. /\ vault \in [Vaults -> VaultAccount]
      /\ vault[v].deposited_amount \in Nat
      /\ ~vault[v].live => vault[v].deposited_amount = 0
  BY DEF IInv, TypeOK, CustodyType, VaultAccount, VaultStaysFunded
<1>2. ASSUME \A u \in Vaults :
               vault'[u].deposited_amount = vault[u].deposited_amount
      PROVE  Deposits' = Deposits
  BY <1>2 DEF Deposits
<1>3. ASSUME NEW asset \in Assets, RegisterVault(v, asset)
      PROVE  Deposits' = Deposits
  <2>1. vault[v].deposited_amount = 0
    BY <1>1, <1>3 DEF RegisterVault
  <2>2. vault' = [vault EXCEPT ![v] =
                    [NoVault EXCEPT !.live = TRUE, !.asset_type = asset]]
    BY <1>3 DEF RegisterVault
  <2>3. vault'[v].deposited_amount = 0
    BY <1>1, <2>2 DEF NoVault
  <2>4. \A u \in Vaults \ {v} : vault'[u] = vault[u]
    BY <1>1, <2>2
  <2> QED
    BY <1>2, <2>1, <2>3, <2>4
<1>4. ASSUME NEW signer \in Users, CloseVault(v, signer)
      PROVE  Deposits' = Deposits
  <2>1. vault[v].deposited_amount = 0 /\ vault' = [vault EXCEPT ![v] = NoVault]
    BY <1>4 DEF CloseVault
  <2>2. vault'[v].deposited_amount = 0
    BY <1>1, <2>1 DEF NoVault
  <2>3. \A u \in Vaults \ {v} : vault'[u] = vault[u]
    BY <1>1, <2>1
  <2> QED
    BY <1>2, <2>1, <2>2, <2>3
<1>5. ASSUME NEW signer \in Users,
             \/ VerifyCustodyProof(v, signer)
             \/ RefreshCustodyProof(v, signer)
             \/ CircuitBreakerFreeze(v, signer)
             \/ AdminUnfreeze(v, signer)
             \/ \E isSafe \in BOOLEAN : TriggerRiskCheck(v, signer, isSafe)
      PROVE  Deposits' = Deposits
  <2>1. CASE VerifyCustodyProof(v, signer)
    <3>1. vault' = [vault EXCEPT ![v] =
                      [@ EXCEPT !.proof_status = VERIFIED,
                                !.proof_timestamp = now]]
      BY <2>1 DEF VerifyCustodyProof
    <3>2. \A u \in Vaults :
            vault'[u].deposited_amount = vault[u].deposited_amount
      BY <1>1, <3>1 DEF VaultAccount
    <3> QED
      BY <1>2, <3>2
  <2>2. CASE ~VerifyCustodyProof(v, signer)
    <3>1. \A u \in Vaults :
            vault'[u].deposited_amount = vault[u].deposited_amount
      BY <1>1, <1>5, <2>2
         DEF VaultAccount, RefreshCustodyProof, CircuitBreakerFreeze,
             AdminUnfreeze, TriggerRiskCheck
    <3> QED
      BY <1>2, <3>1
  <2> QED
    BY <2>1, <2>2
<1>6. ASSUME UNCHANGED vault
      PROVE  Deposits' = Deposits
  BY <1>6 DEF Deposits
<1>7. ASSUME NEW signer \in Users, NEW amount \in Amounts
      PROVE  /\ ~DepositCollateral(v, signer, amount)
             /\ ~WithdrawCollateral(v, signer, amount)
  BY DEF DepositCollateral, MayDeposit, WithdrawCollateral, MayWithdraw,
    WithdrawAllowed
<1> QED
  BY <1>3, <1>4, <1>5, <1>6, <1>7
     DEF VaultStep, FundVault, RejectUnverifiedDeposit, InitializeRiskState,
         UpdateBackingState, custodyVars

LEMMA FrozenRepay ==
    ASSUME IInv, NEW v \in Vaults, NEW signer \in Users,
           NEW amount \in RepayAmounts,
           RepayBorrow(v, signer, amount)
    PROVE  Still /\ tokens'[OwnerOf[v]] < tokens[OwnerOf[v]]
<1> DEFINE paid == Smaller(amount, DebtOf(principal[v]))
<1>1. /\ TypeOK /\ ClocksBehind
      /\ amount \in Nat /\ amount > 0
      /\ principal[v] \in Nat
      /\ tokens[PoolVault] \in Nat /\ tokens[signer] \in Nat
  BY SolAssumption DEF IInv, TypeOK, SolType, PoolType, Holders, RepayBorrow,
    MayRepay
<1>2. DebtOf(principal[v]) \in Nat /\ DebtOf(principal[v]) > 0
  BY <1>1, DebtOfIsNat DEF RepayBorrow, MayRepay
<1>3. paid \in Nat /\ paid > 0
  BY <1>1, <1>2 DEF Smaller
<1>4. /\ Pay(signer, PoolVault, paid)
      /\ signer = OwnerOf[v]
      /\ positions' = positions \/ positions' = positions \ {v}
      /\ UNCHANGED vault
  BY DEF RepayBorrow, MayRepay, OwnsLoan, PositionsAfter, custodyVars
<1> HIDE DEF paid
<1>5. /\ tokens'[PoolVault] = tokens[PoolVault] + paid
      /\ tokens'[signer] = tokens[signer] - paid
  BY <1>1, <1>3, <1>4, PayMovesCash DEF TypeOK
<1>6. /\ tokens'[PoolVault] >= tokens[PoolVault]
      /\ tokens'[signer] < tokens[signer]
  BY <1>1, <1>3, <1>5
<1>7. Deposits' = Deposits
  BY <1>4 DEF Deposits
<1> QED
  BY <1>4, <1>6, <1>7 DEF Still

LEMMA FrozenStep ==
    ASSUME IInv, [Next]_vars, protocol.frozen
    PROVE  Still
<1>1. tokens[PoolVault] \in Nat /\ tokens \in [Holders -> Nat]
  BY DEF IInv, TypeOK, PoolType, Holders
<1>2. ASSUME Deposits' = Deposits, UNCHANGED positions,
             tokens'[PoolVault] = tokens[PoolVault]
      PROVE  Still
  BY <1>1, <1>2 DEF Still
<1>3. CASE UNCHANGED vars
  BY <1>2, <1>3 DEF vars, poolVars, solVars, custodyVars, Deposits
<1>4. CASE CustodyNext /\ UNCHANGED <<poolVars, solVars>>
  <2>1. Deposits' = Deposits
    BY <1>4, FrozenVaultStep DEF CustodyNext, custodyVars, Deposits
  <2> QED
    BY <1>2, <1>4, <2>1 DEF poolVars, solVars
<1>5. CASE PoolStep /\ UNCHANGED <<custodyVars, solVars>>
  <2>1. ASSUME NEW from \in Users, NEW to \in Users,
               NEW amount \in TransferAmounts,
               WalletTransfer(from, to, amount)
        PROVE  tokens'[PoolVault] = tokens[PoolVault]
    BY <1>1, <2>1, PoolAssumption DEF WalletTransfer, Pay, Holders
  <2>2. tokens'[PoolVault] = tokens[PoolVault]
    BY <1>5, <2>1 DEF PoolStep, InitializeLendingPool, UpdateAdminPrice,
       InitializeAdminPriceFeed, CloseAdminPriceFeed
  <2> QED
    BY <1>2, <1>5, <2>2 DEF custodyVars, solVars, Deposits
<1>6. CASE \E v \in Vaults : LendingStep(v)
  BY <1>6, FrozenRepay
     DEF LendingStep, BorrowAgainstCollateral, LiquidatePosition
<1> QED
  BY <1>3, <1>4, <1>5, <1>6 DEF Next

\* While the protocol stays frozen no collateral record changes, the pool pays
\* nothing out, and a position goes only when its owner pays: the frozen checks
\* of deposit, withdraw, borrow and liquidate, and the missing one of repay.
THEOREM FrozenIsStill == Spec => FrozenMeansStill
<1>1. ASSUME IInv, [Next]_vars, protocol.frozen
      PROVE  Still
  BY <1>1, FrozenStep
<1> QED
  BY <1>1, InductiveInvariant, PTL DEF Spec, FrozenMeansStill, Still

----------------------------------------------------------------------------
(* Refinement *)

\* Every lending step leaves the accrued pool with another total.
LEMMA BookAfter ==
    ASSUME IInv, NEW n, pool' = [Accrued EXCEPT !.total_borrowed = n]
    PROVE  /\ pool'.total_borrowed = n
           /\ pool'.borrow_index = Accrued.borrow_index
           /\ pool'.borrow_index >= pool.borrow_index
<1>1. Accrued \in LendingPool
  BY AccruedFacts DEF IInv
<1>2. Accrued.borrow_index >= pool.borrow_index
  BY AccruedFacts DEF IInv
<1>3. /\ pool'.total_borrowed = n
      /\ pool'.borrow_index = Accrued.borrow_index
  BY <1>1 DEF LendingPool
<1> QED
  BY <1>2, <1>3

LEMMA BorrowLends ==
    ASSUME IInv, NEW v \in Vaults, NEW signer \in Users,
           NEW amount \in BorrowAmounts,
           BorrowAgainstCollateral(v, signer, amount)
    PROVE  SolBook!Lend(v)
<1> DEFINE scaled == ToScaled(amount, Accrued.borrow_index)
<1>1. /\ amount \in Nat /\ tokens[PoolVault] \in Nat
      /\ principal \in [Vaults -> Nat]
      /\ Accrued.total_borrowed = pool.total_borrowed
  BY AccruedFacts, SolAssumption
     DEF IInv, TypeOK, PoolType, SolType, Holders
<1>2. /\ amount > 0
      /\ v \notin positions
      /\ pool' = [Accrued EXCEPT !.total_borrowed =
                    Accrued.total_borrowed + scaled]
      /\ principal' = [principal EXCEPT ![v] = scaled]
      /\ Pay(PoolVault, signer, amount)
  BY DEF BorrowAgainstCollateral
<1>3. principal[v] = 0
  BY <1>1, <1>2 DEF IInv, DebtHasAPosition
<1> HIDE DEF scaled
<1>4. /\ pool'.total_borrowed = pool.total_borrowed + scaled
      /\ pool'.borrow_index = Accrued.borrow_index
      /\ pool'.borrow_index >= pool.borrow_index
  BY <1>1, <1>2, BookAfter
<1>5. tokens'[PoolVault] = tokens[PoolVault] - amount
  BY <1>1, <1>2, PayMovesCash DEF IInv, TypeOK
<1>6. /\ tokens'[PoolVault] < tokens[PoolVault]
      /\ tokens[PoolVault] - tokens'[PoolVault] = amount
  BY <1>1, <1>2, <1>5
<1>7. scaled = ((tokens[PoolVault] - tokens'[PoolVault]) * RAY)
                 \div pool'.borrow_index
  BY <1>4, <1>6 DEF scaled, ToScaled
<1>8. principal'[v] = scaled
  BY <1>1, <1>2
<1> QED
  BY <1>2, <1>3, <1>4, <1>6, <1>7, <1>8 DEF SolBook!Lend, SolBook!ToScaled

\* A payment to the pool and the debt it removes settle a loan.
LEMMA PaymentSettles ==
    ASSUME IInv, NEW v \in Vaults, NEW payer \in Users,
           NEW paid \in Nat, paid > 0, NEW slice \in 0..principal[v],
           Pay(payer, PoolVault, paid),
           principal[v] > 0,
           pool' = PoolWithout(slice),
           principal' = [principal EXCEPT ![v] = principal[v] - slice]
    PROVE  SolBook!Settle(v)
<1>1. /\ principal \in [Vaults -> Nat] /\ principal[v] \in Nat
      /\ tokens[PoolVault] \in Nat /\ pool.total_borrowed \in Nat
      /\ Accrued.total_borrowed = pool.total_borrowed
  BY AccruedFacts DEF IInv, TypeOK, PoolType, LendingPool, SolType, Holders
<1>2. tokens'[PoolVault] = tokens[PoolVault] + paid
  BY PayMovesCash DEF IInv, TypeOK
<1>3. /\ pool'.total_borrowed = pool.total_borrowed - slice
      /\ pool'.borrow_index >= pool.borrow_index
  BY <1>1, BookAfter DEF PoolWithout
<1>4. principal'[v] = principal[v] - slice
  BY <1>1
<1>5. /\ tokens'[PoolVault] > tokens[PoolVault]
      /\ principal'[v] \in 0..principal[v]
      /\ pool'.total_borrowed
           = pool.total_borrowed - (principal[v] - principal'[v])
  BY <1>1, <1>2, <1>3, <1>4
<1> QED
  BY <1>3, <1>4, <1>5 DEF SolBook!Settle

LEMMA RepaySettles ==
    ASSUME IInv, NEW v \in Vaults, NEW signer \in Users,
           NEW amount \in RepayAmounts, RepayBorrow(v, signer, amount)
    PROVE  SolBook!Settle(v)
<1> DEFINE owed == DebtOf(principal[v])
           paid == Smaller(amount, owed)
           slice == RepaidSlice(paid, owed, principal[v])
<1>1. /\ TypeOK /\ ClocksBehind
      /\ amount \in Nat /\ principal[v] \in Nat
  BY SolAssumption DEF IInv, TypeOK, SolType
<1>2. owed \in Nat
  BY <1>1, DebtOfIsNat
<1>3. /\ amount > 0 /\ owed > 0
      /\ Pay(signer, PoolVault, paid)
      /\ pool' = PoolWithout(slice)
      /\ principal' = [principal EXCEPT ![v] = principal[v] - slice]
  BY DEF RepayBorrow, MayRepay
<1>4. principal[v] > 0
  <2>1. ASSUME principal[v] = 0
        PROVE  FALSE
    <3>1. Accrued.borrow_index \in Nat
      BY <1>1, AccruedFacts
    <3>2. 0 * Accrued.borrow_index = 0 /\ 0 \div RAY = 0
      BY <3>1, UnitAssumption
    <3>3. owed = 0
      BY <2>1, <3>2 DEF DebtOf, CurrentDebt
    <3> QED
      BY <1>3, <3>3
  <2> QED
    BY <1>1, <2>1
<1> HIDE DEF owed
<1>5. paid \in Nat /\ paid > 0
  BY <1>1, <1>2, <1>3 DEF Smaller
<1> HIDE DEF paid
<1>6. slice \in 0..principal[v]
  BY <1>1, <1>2, <1>5, RepaidSliceFacts
<1> HIDE DEF slice
<1> QED
  BY <1>3, <1>4, <1>5, <1>6, PaymentSettles

LEMMA LiquidationSettles ==
    ASSUME IInv, NEW v \in Vaults, NEW liquidator \in Users,
           LiquidatePosition(v, liquidator)
    PROVE  SolBook!Settle(v)
<1> DEFINE paid == DebtOf(principal[v])
<1>1. /\ TypeOK /\ ClocksBehind
      /\ principal \in [Vaults -> Nat] /\ principal[v] \in Nat
  BY DEF IInv, TypeOK, SolType
<1>2. /\ principal[v] > 0
      /\ Pay(liquidator, PoolVault, paid)
      /\ pool' = PoolWithout(principal[v])
      /\ principal' = [principal EXCEPT ![v] = 0]
  BY DEF LiquidatePosition
<1>3. paid \in Nat
  BY <1>1, DebtOfIsNat
<1>4. /\ Accrued.borrow_index \in Nat
      /\ Accrued.borrow_index >= RAY
  BY <1>1, AccruedFacts, UnitAssumption
     DEF ClocksBehind, TypeOK, PoolType, LendingPool
<1>5. paid > 0
  BY <1>1, <1>2, <1>4, DebtIsWorthSomething DEF DebtOf
<1> HIDE DEF paid
<1>6. principal[v] \in 0..principal[v] /\ principal[v] - principal[v] = 0
  BY <1>1
<1> QED
  BY <1>2, <1>3, <1>5, <1>6, PaymentSettles

\* What a step does to the book that is not lending: nothing.
BookUntouched ==
    UNCHANGED <<principal, pool.total_borrowed, pool.borrow_index,
                tokens[PoolVault]>>

\* Creating the pool books nothing: nothing touched it before.
LEMMA PoolStepLeavesBook ==
    ASSUME IInv, PoolStep, UNCHANGED solVars
    PROVE  BookUntouched
<1>1. /\ tokens'[PoolVault] = tokens[PoolVault]
      /\ \/ pool' = pool
         \/ /\ ~pool.live
            /\ \E liquidity \in Liquidities :
                 pool' = [live |-> TRUE, total_liquidity |-> liquidity,
                          total_borrowed |-> 0, borrow_index |-> RAY,
                          last_update_slot |-> slot]
  BY PoolStepFrame DEF IInv, TypeOK
<1>2. ASSUME ~pool.live
      PROVE  pool.total_borrowed = 0 /\ pool.borrow_index = RAY
  BY <1>2, UnbornPoolOwedNothing
<1>3. /\ pool'.total_borrowed = pool.total_borrowed
      /\ pool'.borrow_index = pool.borrow_index
  BY <1>1, <1>2
<1> QED
  BY <1>1, <1>3 DEF BookUntouched, solVars

LEMMA StepIsBooked ==
    ASSUME IInv, [Next]_vars
    PROVE  [SolBook!BookNext]_(SolBook!bookVars)
<1>1. ASSUME BookUntouched
      PROVE  UNCHANGED (SolBook!bookVars)
  BY <1>1 DEF BookUntouched, SolBook!bookVars
<1>2. CASE UNCHANGED <<poolVars, solVars>>
  <2>1. BookUntouched
    BY <1>2 DEF BookUntouched, poolVars, solVars
  <2> QED
    BY <1>1, <2>1
<1>3. CASE PoolStep /\ UNCHANGED <<custodyVars, solVars>>
  BY <1>1, <1>3, PoolStepLeavesBook
<1>4. CASE \E v \in Vaults : LendingStep(v)
  BY <1>4, BorrowLends, RepaySettles, LiquidationSettles
     DEF LendingStep, SolBook!BookNext
<1> QED
  BY <1>2, <1>3, <1>4 DEF Next, vars

\* SOL-side lending implements the loan book for every value of the constants:
\* borrow_against_collateral lends, repay_borrow and liquidate_position settle,
\* and no other instruction touches the book.
THEOREM SolImplementsLoanBook == Spec => SolLendsByTheBook
<1>1. Init => SolBook!BookInit
  <2> SUFFICES ASSUME Init PROVE SolBook!BookInit
    OBVIOUS
  <2>1. pool.total_borrowed = 0 /\ pool.borrow_index = RAY
    BY DEF Init, PoolInit, NoPool
  <2>2. tokens[PoolVault] \in Nat
    BY PoolAssumption DEF Init, PoolInit, Holders
  <2> QED
    BY <2>1, <2>2 DEF Init, SolInit, SolBook!BookInit
<1> QED
  BY <1>1, StepIsBooked, InductiveInvariant, PTL
     DEF Spec, SolLendsByTheBook, SolBook!BookSpec
=============================================================================
