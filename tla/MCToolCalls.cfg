SPECIFICATION Spec
CONSTANTS
  c1 = c1
  c2 = c2
  Calls = {c1, c2}
  Parallel = {c1}
  Waits = {c2}
  Hooked = {c2}
  Searches = {c1}
  LocalShells = {c1}
  MaxRequests = 2
INVARIANTS
  
  OutputsInCallOrder
  RequestLeavesNothing
  OutcomeToldOnce
PROPERTIES
  CancelledRequestEnds
