SPECIFICATION Spec
CONSTANTS
  Works = {temp, shot}
  Temp = temp
  MaxNow = 7
INVARIANTS
  OwnScene
  RestSaved

  
CHECK_DEADLOCK FALSE
