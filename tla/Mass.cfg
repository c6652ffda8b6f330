CONSTANTS
  Players = {p1, p2}
  MAX_CELLS = 4
  BIG_POPS = 2
  START_SIZE = 5
  MIN_SIZE = 7
  POP_SIZE = 11
  FOOD_SIZE = 4
  VIRUS_SIZE = 3
  FEED_SIZE = 6
  FEED_KEPT = 1
  MaxFood = 1
  MaxViruses = 2
  MaxMass = 20
  NaN = NaN
SPECIFICATION Spec
INVARIANTS TypeOK AtMostMaxCells OnlyPoppingBlinds
PROPERTY MassLaw
SYMMETRY Symmetry
