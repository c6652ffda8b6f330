CONSTANTS
  BLOCK_SIZE = 2
  NUM_BLOCKS = 2
  NaN = NaN
  Unknown = Unknown
  Players = {p1}
  Food = {f1, f2}
  Viruses = {}
  Spare = {c1}
  Places <- TwoPlaces
  Radii = {1}
  Views <- AllViews
  MAX_CELLS = 2
  MoveDraws = FALSE
SPECIFICATION Spec
INVARIANTS NoStaleFood EnteredFoodTold UpdateFits PictureInv
