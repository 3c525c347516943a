CONSTANTS
  MaxEdges = 4
  MaxDeaths = 1
SPECIFICATION Spec
INVARIANTS
  StaleDaemonIsTold
PROPERTIES
  StateSettles
