SPECIFICATION Spec
CONSTANTS
  Names <- AllNames
  Numbers <- SmallNumbers
  ReplPrintName = "__repl_print__"
  Sessions <- AllSessions
  Modules <- OneModule
  MaxAwaits = 3
INVARIANTS ParsesBack MeansTheSource HandlersMatch OperandsNest
