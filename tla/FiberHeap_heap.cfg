CONSTANTS
  f1 = f1
  f2 = f2
  p1 = p1
  p2 = p2
  Fibers = {f1, f2}
  Futures = {p1, p2}
  None = None
  FutureKinds = {"sleep", "timeout"}
  Loopers = {}
  MaxOps = 3
  MaxDepth = 1
  MaxHandlers = 0
  MaxItems = 1
  MaxQueue = 9
  AwaitsBlocked = FALSE
  Careless = {}
SPECIFICATION OrderedSpec
INVARIANTS
  
  
  FibresSurvive
 
CHECK_DEADLOCK FALSE
