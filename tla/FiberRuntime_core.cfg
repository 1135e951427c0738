CONSTANTS
  Fibers = {f1, f2}
  Futures = {p1, p2}
  None = None
  FutureKinds = {"sleep", "timeout", "gather", "race"}
  Loopers = {}
  MaxOps = 2
  MaxDepth = 2
  MaxHandlers = 1
  MaxItems = 2
  MaxQueue = 9
  AwaitsBlocked = FALSE
SPECIFICATION Spec
SYMMETRY Symmetric
INVARIANTS
  RunnableQueued
  BlockedIsOwedAnswer
  OneWakerPerAwait
  FuturesFed
  ErrorsKept
  NormalReturnIsClean
PROPERTIES DeadStaysDead ResultsAreFinal
CHECK_DEADLOCK FALSE
