CONSTANTS
  u1 = u1
  u2 = u2
  Users = {u1, u2}
  MaxOps = 6
  Format = "raw"
  s1 = s1
  s2 = s2
  Skbs = {s1, s2}
CHECK_DEADLOCK FALSE
SPECIFICATION BusSpec
INVARIANTS
  RunsOnLivePhy
  RemovedTwiceOnlyIf
  FreedOnce
  NoStrayReceive
  LinkHasEndpoint
SYMMETRY Symmetry
