CONSTANTS
  Banks = {live, copy}
  Bits = 2
  Widths = {1}
  MinCap = 2
  MaxCap = 16
  Sizes = {1, 3, 9}
  Blank = {0}
  Cells = {2}
  Ranges <- FewRanges
  Values <- FewValues
  Observed = {2, 3}
  FillShared = FALSE
SPECIFICATION ReadSpec
PROPERTY ImplementsPlainMemory
SYMMETRY Copies
CHECK_DEADLOCK FALSE
