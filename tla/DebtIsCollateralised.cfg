CONSTANTS
    alice = alice
    bob = bob
    v1 = v1
    Users = {alice, bob}
    NoUser = NoUser
    Deployers = {bob}
    PoolVault = PoolVault
    Vaults = {v1}
    OwnerOf <- OneOwner
    Assets = {SOL}
    SOL = SOL
    PriceAssets = {SOL}
    NoAsset = NoAsset
    ClockSteps = {0, 1}
    MaxSlot = 2
    PROOF_EXPIRY_SECONDS = 1
    PRICE_STALENESS_SECONDS = 1
    RENT = 1
    Amounts = {2}
    Thresholds = {}
    MaxDeposit = 2
    MaxVaults = 2
    MaxRejected = 0
    MaxLamports = 3
    RAY = 4
    BASIS_POINTS = 4
    PRICE_DECIMALS = 1
    BORROW_ASSET_DECIMALS = 1
    COLLATERAL_DECIMALS = 1
    SLOTS_PER_YEAR = 1
    LtvBps = 2
    ThresholdBps = 3
    BonusBps = 1
    BaseRateBps = 1
    RateSlopeBps = 2
    InitialTokens <- ThreeTokens
    Liquidities = {2}
    Prices = {1, 2}
    TransferAmounts = {}
    BorrowAmounts = {1, 2}
    RepayAmounts = {1, 9}
SPECIFICATION Spec
INVARIANTS
    DebtIsCollateralised
CHECK_DEADLOCK FALSE
