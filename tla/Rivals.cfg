CONSTANTS
  BLOCK_SIZE = 2
  NUM_BLOCKS = 2
  NaN = NaN
  Unknown = Unknown
  Players = {p1, p2}
  Food = {}
  Viruses = {}
  Spare = {c1, c2}
  Places <- NaNPlaces
  Radii = {1}
  Views <- LeftView
  MAX_CELLS = 2
  MoveDraws = TRUE
SPECIFICATION Spec
INVARIANT SyncInv
PROPERTY ImplementsSubscription
SYMMETRY Symmetry
