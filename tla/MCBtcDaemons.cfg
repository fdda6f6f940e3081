CONSTANTS
    alice = alice
    bob = bob
    b1 = b1
    Users = {alice, bob}
    NoUser = NoUser
    Deployers = {bob}
    PoolVault = PoolVault
    BtcVaults = {b1}
    BtcOwnerOf <- AliceOwnsIt
    BTC = BTC
    PriceAssets = {BTC}
    ClockSteps = {1}
    MaxSlot = 2
    PROOF_EXPIRY_SECONDS = 1
    PRICE_STALENESS_SECONDS = 9
    MaxVaults = 1
    RAY = 4
    BASIS_POINTS = 4
    PRICE_DECIMALS = 1
    BORROW_ASSET_DECIMALS = 1
    SATOSHIS_PER_BTC = 1
    SLOTS_PER_YEAR = 2
    LtvBps = 2
    ThresholdBps = 3
    BonusBps = 2
    BaseRateBps = 0
    RateSlopeBps = 0
    InitialTokens <- PoolAndBob
    Liquidities = {2}
    Prices = {1, 2}
    StartPrice = 2
    TransferAmounts = {}
    BTC_ATTESTATION_MAX_AGE_SECONDS = 0
    BTC_LIQUIDATION_MIN_CONFIRMATIONS = 1
    U64_MAX = 9
    DemoPayers = {}
    BtcBorrowAmounts = {2}
    BtcRepayAmounts = {}
    TX_DELAY = 1
    MIN_CONFIRMATIONS = 1
    Balances = {0, 2}
    MaxMoves = 1
    MaxFailures = 1
SPECIFICATION DaemonSpec
INVARIANTS
    DaemonTypeOK
    FrozenIsRecoverable
PROPERTIES
    LoansOnRecentBalances
    LiquidationsFinish
    AttestationsConverge
CHECK_DEADLOCK FALSE
