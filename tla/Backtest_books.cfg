SPECIFICATION Spec
CONSTANTS
    Symbols = {A, B}
    Quotes <- RisingAndFalling
    Tickets <- MarketAndLimit
    Commission = 36
    SlippagePercent = 100
    InitialCapital = 1000
    MaxOrders = 3
    MaxBars = 2
SYMMETRY SymbolSymmetry
INVARIANTS
    BooksAgree
    BooksAreFills
    NoLookahead
PROPERTIES
    FateSealed
CHECK_DEADLOCK FALSE
