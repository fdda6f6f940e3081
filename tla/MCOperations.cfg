CONSTANTS
    alice = alice
    bob = bob
    b1 = b1
    Users = {alice, bob}
    NoUser = NoUser
    Deployers = {bob}
    PoolVault = PoolVault
    BtcVaults = {b1}
    BtcOwnerOf <- AliceOwnsIt
    BTC = BTC
    ETH = ETH
    PriceAssets = {BTC, ETH}
    ClockSteps = {1}
    MaxSlot = 1
    PROOF_EXPIRY_SECONDS = 0
    PRICE_STALENESS_SECONDS = 9
    MaxVaults = 1
    RAY = 4
    BASIS_POINTS = 4
    PRICE_DECIMALS = 1
    BORROW_ASSET_DECIMALS = 1
    SATOSHIS_PER_BTC = 1
    SLOTS_PER_YEAR = 2
    LtvBps = 2
    ThresholdBps = 3
    BonusBps = 2
    BaseRateBps = 1
    RateSlopeBps = 2
    InitialTokens <- BobHasFour
    Liquidities = {}
    Prices = {}
    TransferAmounts = {}
    BTC_ATTESTATION_MAX_AGE_SECONDS = 0
    BTC_LIQUIDATION_MIN_CONFIRMATIONS = 1
    U64_MAX = 9
    DemoPayers = {alice}
    BtcBorrowAmounts = {2}
    BtcRepayAmounts = {1, 9}
    Admin = bob
    INITIAL_LIQUIDITY = 2
    INITIAL_PRICE <- PricedAtTwo
    FeedOrder <- BtcFirst
    Quotes <- HighAndLow
    KeeperBalances = {2}
    MaxStops = 1
SPECIFICATION OpsSpec
INVARIANTS
    OpsTypeOK
    NoMintBehindLoans
PROPERTIES
    ForgivenessCostsAll
    BootstrapCompletes
    BtcRequestsServe
    FeedsReturn
CHECK_DEADLOCK FALSE
