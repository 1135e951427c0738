CONSTANTS
  None = None
  Slots = {}
  Opcodes = {"other", "farcall", "return", "textout", "pause", "select", "select_w", "menu_return", "syscom_menu_return", "menu_save", "return_prev_select", "end"}
  Savepoints = {"selcom"}
  TextWhenHidden = FALSE
  MaxDepth = 6
  MaxWrites = 0
SPECIFICATION Spec
INVARIANTS
  HiddenTextComesBack
  OpenMenuIsClosed
CHECK_DEADLOCK FALSE
