CONSTANTS
  Counts <- JustFour
  Sizes <- MixedSizes
SPECIFICATION Spec
INVARIANTS OnlyBallsEat

CHECK_DEADLOCK FALSE
