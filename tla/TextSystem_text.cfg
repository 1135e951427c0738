CONSTANTS
  None = None
  Windows = {0, 1}
  Texts <- MCTexts
  Commands <- MCCommands
  MessageOps = {"msgClear"}
  ActionOnPause <- SecondOnly
  NameMode = "inline"
  Width = 5
  Height = 2
  MaxHistory = 2
  MaxChars = 4
  MaxCommands = 3
SPECIFICATION Spec
INVARIANTS
  
  TextCanBeReadBack
  IteratorIsAlive
PROPERTY NothingIsSkipped
CHECK_DEADLOCK FALSE
