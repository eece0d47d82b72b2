SPECIFICATION Spec
CONSTANTS
  http = http
  server = server
  location = location
  lightstep = lightstep
  jaeger = jaeger
  broken = broken
  None = None
  Blocks = {http, server, location}
  Http = http
  Around <- MCAround
  Libraries = {lightstep, jaeger, broken}
  Loadable = {lightstep, jaeger}
  KeysOf <- MCKeysOf
  Commands <- MCCommands
  Malformed = "${"
  Patterns = {"literal", "$name"}
  KeyOf <- MCKeyOf
  DefaultTags <- MCDefaultTags
  Values = {"v", "w"}
  MaxDirectives = 3
INVARIANTS TypeOK NearestSlotWins NearestTagWins LoadedOncePropagates
PROPERTIES MergeTouchesOneBlock
CHECK_DEADLOCK FALSE
