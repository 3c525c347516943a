CONSTANTS
  i1 = i1
  i2 = i2
  Intfs = {i1, i2}
  r1 = r1
  r2 = r2
  Reporters = {r1, r2}
  User = User
  Uses = {"autopm"}
  MaxFaults = 1
SPECIFICATION SafeSpec
INVARIANTS
  TypeOK
  CountsInterfaces
  LockHoldsDevice
  SleepsQuietly
  
PROPERTIES
  L3IfQuiet
SYMMETRY Symmetry
