SPECIFICATION FairSpec
CONSTANTS
  Master = master
  Workers = {w1, w2}
  MaxReloads = 2
INVARIANTS CodeMapped WorkersStartClean ServesTraced
PROPERTIES WorkersQuit
CHECK_DEADLOCK FALSE
