SPECIFICATION FairSpec
CONSTANTS
  a1 = a1
  a2 = a2
  a3 = a3
  a4 = a4
  a5 = a5
  NoAddr = NoAddr
  Main = main
  ServerLoc = server
  Requests = {main, sub, nested}
  Locs = {server, api}
  Addr <- ThreeAddrs
  Enabled = {api}
  TraceLocations = {}
  LogSubrequest = {server, api}
  OperationScript = {}
  LocationScript = {}
  Trusting = {server, api}
  Incoming = TRUE
  MaxUriChanges = 0
  Faults = {}
INVARIANTS OneRoot
PROPERTIES AllSpansEnd AllSpansFinish
CHECK_DEADLOCK FALSE
