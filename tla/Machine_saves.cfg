CONSTANTS
  None = None
  Slots = {s1}
  Opcodes = {"write", "gosub", "return", "farcall", "callstackpop", "textout", "wait", "kidoku", "autosavepoints", "savepoint", "menu_save", "save", "load"}
  Savepoints = {"seentop", "message"}
  TextWhenHidden = TRUE
  MaxDepth = 3
  MaxWrites = 1
SPECIFICATION Spec
INVARIANTS
  RealFramesIndexed
  FinishedIsPopped
CHECK_DEADLOCK FALSE
