CONSTANTS
  BLOCK_SIZE = 2
  NUM_BLOCKS = 2
  NaN = NaN
  Unknown = Unknown
  Players = {p1}
  Food = {}
  Viruses = {v1}
  Spare = {c1}
  Places <- EdgePlaces
  Radii = {1}
  Views <- AllViews
  MAX_CELLS = 2
  MoveDraws = FALSE
SPECIFICATION Spec
INVARIANTS TypeOK NoDuplicates HistoryIsPicture NoEatenCell PositionsTold UpdateFits PictureInv
PROPERTIES NothingHidden
