CONSTANTS
    RAY = 4
    BASIS_POINTS = 10
    PRICE_DECIMALS = 6
    BORROW_ASSET_DECIMALS = 2
    UNIT = 3
    SLOTS_PER_YEAR = 3
    LtvBps = 5
    ThresholdBps = 8
    BonusBps = 1
    BaseRateBps = 2
    RateSlopeBps = 9
    MaxAmount = 12
    MaxIndex = 11
    MaxCollateral = 12
    MaxPrice = 9
SPECIFICATION Spec
INVARIANTS
    RoundTripNeverGrows
    PartialRepayLeavesDebt
    FreshLoanHealthy
    SplitAccrualHarmless
CHECK_DEADLOCK FALSE
