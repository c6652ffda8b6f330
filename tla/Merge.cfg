CONSTANTS
  Counts <- UpToFive
  Sizes <- MixedSizes
SPECIFICATION Spec
INVARIANTS TypeOK MassKept LeavesWithEvent Merged EatenAreGone EaterRemains FewNeverMislead MergeInv
PROPERTIES Returns Advances ImplementsMerging
CHECK_DEADLOCK FALSE
