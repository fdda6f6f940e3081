CONSTANTS
    alice = alice
    bob = bob
    v1 = v1
    v2 = v2
    SOL = SOL
    Users = {alice, bob}
    NoUser = NoUser
    Deployers = {bob}
    Vaults = {v1, v2}
    OwnerOf <- AliceOwnsAll
    Assets = {SOL}
    NoAsset = NoAsset
    ClockSteps = {1}
    MaxSlot = 2
    PROOF_EXPIRY_SECONDS = 1
    RENT = 1
    Amounts = {1}
    Thresholds = {TRUE, FALSE}
    MaxDeposit = 2
    MaxVaults = 3
    MaxRejected = 1
    MaxLamports = 2
SPECIFICATION CustodySpec
INVARIANTS
    CustodyTypeOK
    CollateralTotalExact
    ExitOpen
PROPERTIES
    LapseIsFinal
    FreezeOutlastsVerdicts
CHECK_DEADLOCK FALSE
