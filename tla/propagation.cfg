SPECIFICATION Spec
CONSTANTS
  a1 = a1
  a2 = a2
  a3 = a3
  NoAddr = NoAddr
  Lowercase <- MCLowercase
  KeyLists <- MCKeyLists
  Addr = {a1, a2, a3}
  PartSize = 2
  MaxHeaders = 3
  MaxSpans = 3
SYMMETRY AddrSymmetry
INVARIANTS EachHeaderReadOnce OneSpanPerRequest ExpandedOncePerBlock ParametersAgree
PROPERTIES HeadersCarryContext
CHECK_DEADLOCK FALSE
