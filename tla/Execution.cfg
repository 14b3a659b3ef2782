\* Books of up to two levels a side, a fee of a tenth, gas of up to one unit.
SPECIFICATION Spec
CONSTANTS
    Prices = {2, 3, 4, 5}
    Volumes = {1, 2}
    MaxLevels = 2
    Sizes = {1, 2, 3}
    Amounts = {4, 8, 12, 16}
    GasPrices = {0, 1}
    GasEstimate = 1
    SizeBounds = {2, 3}
    DefaultGasPrice = 2
    ETHPrice = 1
    TradingFee = 1
    FeeScale = 10
    MinProfitPct = 5
INVARIANTS
    BestExecution
    PublishedGapIsReal
