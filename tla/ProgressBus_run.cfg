SPECIFICATION Spec
CONSTANTS
    Blocks = {"diagnose", "generate"}
    Runs = {"r1"}
    MaxBegins = 2
    MaxTicks = 3
INVARIANTS
    TicksAreTrue
    
