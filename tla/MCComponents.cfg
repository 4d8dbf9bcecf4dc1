SPECIFICATION SpecParts
CONSTANTS
  Symbols = {x1, x2}
  Sides = {"Buy", "Sell"}
  Quantities = {2, 4}
  Unit = 2
  Tolerance = 1
  MaxFills = 5
  MaxRestarts = 1
  Null = Null
SYMMETRY Symmetry
INVARIANTS PositionsSound RoutesSettle IndexOrdersAgree InputsRight EngagedSoundly
  ExchangeRulesKept
PROPERTIES RouteBooked CancelHonoured
CHECK_DEADLOCK FALSE
