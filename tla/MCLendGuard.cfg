CONSTANTS
    alice = alice
    bob = bob
    v1 = v1
    b1 = b1
    Users = {alice, bob}
    NoUser = NoUser
    Deployers = {bob}
    PoolVault = PoolVault
    Vaults = {v1}
    OwnerOf <- AliceOwnsSol
    BtcVaults = {b1}
    BtcOwnerOf <- AliceOwnsBtc
    SOL = SOL
    BTC = BTC
    Assets = {SOL}
    PriceAssets = {SOL, BTC}
    NoAsset = NoAsset
    ClockSteps = {1}
    MaxSlot = 1
    PROOF_EXPIRY_SECONDS = 1
    PRICE_STALENESS_SECONDS = 1
    RENT = 1
    Amounts = {2}
    Thresholds = {}
    MaxDeposit = 2
    MaxVaults = 2
    MaxRejected = 0
    MaxLamports = 3
    RAY = 4
    BASIS_POINTS = 4
    PRICE_DECIMALS = 1
    BORROW_ASSET_DECIMALS = 1
    COLLATERAL_DECIMALS = 1
    SATOSHIS_PER_BTC = 1
    SLOTS_PER_YEAR = 1
    LtvBps = 2
    ThresholdBps = 3
    BonusBps = 1
    BaseRateBps = 1
    RateSlopeBps = 2
    InitialTokens <- PoolAndBob
    Liquidities = {4}
    Prices = {1, 2}
    TransferAmounts = {}
    BorrowAmounts = {2}
    RepayAmounts = {1}
    BTC_ATTESTATION_MAX_AGE_SECONDS = 1
    BTC_LIQUIDATION_MIN_CONFIRMATIONS = 1
    U64_MAX = 9
    DemoPayers = {}
    BtcBorrowAmounts = {2}
    BtcRepayAmounts = {9}
    AttestedBalances = {2}
SPECIFICATION LendGuardSpec
INVARIANTS
    TotalLedger
    CollateralLedger
    RepayStaysOpen
PROPERTIES
    FreezeStopsBothSides
    LendsByTheBook
CHECK_DEADLOCK FALSE
