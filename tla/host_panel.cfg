SPECIFICATION Spec
CONSTANTS
  MaxConnections = 3
  MaxPresses = 3
  MaxCalls = 3
INVARIANTS
  PressesKept
  AnswerOwn
PROPERTIES
  PressesFifo
  PythonEnds
CHECK_DEADLOCK FALSE
