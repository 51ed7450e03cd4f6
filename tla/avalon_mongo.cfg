SPECIFICATION Spec
CONSTANTS
  io = io
  library = library
  main = main
  worker = worker
  Objects <- MCObjects
  Threads <- MCThreads
  MaxClients = 2
SYMMETRY Symmetry
INVARIANTS
  CalmConsistent
  NeverLeftClosed
CHECK_DEADLOCK FALSE
