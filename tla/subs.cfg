SPECIFICATION Spec
CONSTANTS
  a1 = a1
  a2 = a2
  a3 = a3
  a4 = a4
  a5 = a5
  NoAddr = NoAddr
  Main = main
  ServerLoc = server
  Requests = {main, sub}
  Locs = {server, api, static, private}
  Addr <- SomeAddrs
  Enabled = {server, api, static}
  TraceLocations = {api, static}
  LogSubrequest = {api, server}
  OperationScript = {api}
  LocationScript = {static}
  Trusting = {server, api}
  Incoming = TRUE
  MaxUriChanges = 1
  Faults = {"inject"}
SYMMETRY AddrSymmetry
INVARIANTS CtxAlive ActiveSpanOpen FinishedWhenLogged OneRoot
PROPERTIES NoneAbandoned ParentStillOpen ImplementsTraceTree
CHECK_DEADLOCK FALSE
