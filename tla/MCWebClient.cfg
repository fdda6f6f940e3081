CONSTANTS
    alice = alice
    bob = bob
    v1 = v1
    v2 = v2
    v3 = v3
    theirs = theirs
    b1 = b1
    theirBtc = theirBtc
    Users = {alice, bob}
    NoUser = NoUser
    Deployers = {}
    PoolVault = PoolVault
    Vaults = {v1, v2, v3, theirs}
    OwnerOf <- BobOwnsTheirs
    BTC = BTC
    SOL = SOL
    Assets = {BTC, SOL}
    PriceAssets = {BTC, SOL}
    NoAsset = NoAsset
    NoPda = NoPda
    ClockSteps = {1}
    MaxSlot = 1
    PROOF_EXPIRY_SECONDS = 0
    PROOF_FRESHNESS_SECONDS = 1
    PRICE_STALENESS_SECONDS = 1
    RENT = 1
    Amounts = {}
    Thresholds = {}
    MaxDeposit = 13
    MaxVaults = 4
    MaxRejected = 0
    MaxLamports = 13
    RAY = 4
    BASIS_POINTS = 4
    PRICE_DECIMALS = 1
    BORROW_ASSET_DECIMALS = 1
    COLLATERAL_DECIMALS = 1
    SLOTS_PER_YEAR = 2
    LtvBps = 2
    ThresholdBps = 3
    BonusBps = 1
    BaseRateBps = 1
    RateSlopeBps = 2
    InitialTokens <- BothHaveThree
    Liquidities = {}
    Prices = {1}
    TransferAmounts = {}
    BorrowAmounts = {}
    RepayAmounts = {1}
    CallIds = {1, 2}
    Visitor = alice
    MaxMishaps = 1
    DwalletIds <- ThreeIds
    LateIds = 2
    ExperimentSteps = {2}
    DEPOSIT_AMOUNT = 3
    TypedAmounts = {2}
    NewPrices = {1}
    KeyAmount <- KeyBytes
    MOCK_SATOSHIS = 1
    BtcVaults = {b1, theirBtc}
    BtcOwnerOf <- BobOwnsTheirBtc
    SATOSHIS_PER_BTC = 1
    BTC_ATTESTATION_MAX_AGE_SECONDS = 1
    BTC_LIQUIDATION_MIN_CONFIRMATIONS = 1
    U64_MAX = 9
    DemoPayers = {alice}
    BtcBorrowAmounts = {}
    BtcRepayAmounts = {}
    AttestedBalances = {0}
    TheirBtc = theirBtc
    MyBtc = b1
    Stranger = bob
    Theirs = theirs
    Mine = v1
    Market <- Markets
SPECIFICATION WebSpec
INVARIANTS
    WebTypeOK
    PageTrailsChain
    DepositsCostFaults
    EarlyOnlyByMistake
PROPERTIES
    
    RequestsServe
    DemoFinishes
    ShownCatchesUp
CHECK_DEADLOCK FALSE
