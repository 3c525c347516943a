CONSTANTS
  MaxLen = 2
  MaxRoom = 3
CHECK_DEADLOCK FALSE
SPECIFICATION Spec
INVARIANTS
  SummedOnce
  ControlEnds
  RoundTrip
