SPECIFICATION Spec
CONSTANTS
  a1 = a1
  a2 = a2
  a3 = a3
  a4 = a4
  a5 = a5
  NoAddr = NoAddr
  Main = main
  ServerLoc = server
  Requests = {main, sub}
  Locs = {server, api, static}
  Addr <- SomeAddrs
  Enabled = {api, static}
  TraceLocations = {api}
  LogSubrequest = {api, static}
  OperationScript = {}
  LocationScript = {}
  Trusting = {server, api}
  Incoming = TRUE
  MaxUriChanges = 1
  Faults = {"request_span","location_span","cleanup"}
SYMMETRY AddrSymmetry
INVARIANTS TypeOK ContextInv OwnedByOneCleanup NewestCleanupOwnsIt OneTracePerRequest SpanInv FinishedWhenLogged
PROPERTIES ClosedSpansFinal ImplementsTraceTree
CHECK_DEADLOCK FALSE
