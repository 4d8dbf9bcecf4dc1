SPECIFICATION Spec
CONSTANTS
    Symbols = {x1}
    Sides = {"Buy", "Sell"}
    Quantities = {2, 4}
    Unit = 2
    Tolerance = 1
    Null = Null
    MaxFills = 4
    MaxRestarts = 0
CHECK_DEADLOCK FALSE
INVARIANTS LotsMatchBalance
