SPECIFICATION Spec
CONSTANTS
  a1 = a1
  a2 = a2
  a3 = a3
  a4 = a4
  a5 = a5
  NoAddr = NoAddr
  Main = main
  ServerLoc = server
  Requests = {main}
  Locs = {server, api, static, private}
  Addr <- FewAddrs
  Enabled = {server, api, static}
  TraceLocations = {api, static}
  LogSubrequest = {api}
  OperationScript = {api}
  LocationScript = {static}
  Trusting = {server, api}
  Incoming = TRUE
  MaxUriChanges = 4
  Faults = {"inject"}
  server = server
  api = api
  static = static
  private = private
  Failed = Failed
  DefaultTags <- MCDefaultTags
  LocationTags <- MCLocationTags
  Text <- MCText
  Status = 502
  UpstreamHost = "backend"
SYMMETRY AddrSymmetry
INVARIANTS ActiveSpanOpen LocationsFinishFirst StaleExpansionIsOld TagsInv LocationSpansHaveTheirTags RequestSpansKeepUntracedTags
PROPERTIES ClosedSpansFinal
CHECK_DEADLOCK FALSE
