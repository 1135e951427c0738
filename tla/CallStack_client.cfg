CONSTANTS
  Ops = {"pause"}
  Reals = {"root", "gosub"}
  MaxSize = 4
  MaxDelayed = 3
SPECIFICATION StagesSpec
PROPERTY ImplementsLockedStack
CHECK_DEADLOCK FALSE
