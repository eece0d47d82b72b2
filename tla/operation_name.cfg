SPECIFICATION Spec
CONSTANTS
  a1 = a1
  a2 = a2
  a3 = a3
  a4 = a4
  a5 = a5
  NoAddr = NoAddr
  Main = main
  ServerLoc = server
  Requests = {main}
  Locs = {server, api, static, private}
  Addr <- FewAddrs
  Enabled = {server, api, static}
  TraceLocations = {api, static}
  LogSubrequest = {api}
  OperationScript = {}
  LocationScript = {}
  Trusting = {server, api}
  Incoming = TRUE
  MaxUriChanges = 2
  Faults = {}
SYMMETRY AddrSymmetry
INVARIANTS DefaultNameIsFirstBlocks
CHECK_DEADLOCK FALSE
