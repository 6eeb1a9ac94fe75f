SPECIFICATION Spec
CONSTANTS
    Symbols = {A}
    Quotes <- RisingAndFalling
    Tickets <- MarketAndLimit
    Commission = 36
    SlippagePercent = 0
    InitialCapital = 1000
    MaxOrders = 3
    MaxBars = 2
INVARIANT TradesExplainRealized
CHECK_DEADLOCK FALSE
