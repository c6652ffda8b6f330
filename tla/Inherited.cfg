CONSTANTS
  BLOCK_SIZE = 2
  NUM_BLOCKS = 2
  NaN = NaN
  Unknown = Unknown
  Players = {p1}
  Food = {}
  Viruses = {v1}
  Spare = {c1}
  Places <- TwoPlaces
  Radii = {1}
  Views <- LeftView
  MAX_CELLS = 2
  MoveDraws = TRUE
SPECIFICATION Spec
INVARIANT KnownShown
