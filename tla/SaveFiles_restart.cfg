CONSTANTS
  Slots = {s1}
  Current = Current
  Outdated = Outdated
  MaxChanges = 2
SPECIFICATION Spec
INVARIANTS
  
  GlobalsCoverSaves
CHECK_DEADLOCK FALSE
