CONSTANTS
  i1 = i1
  Intfs = {i1}
  r1 = r1
  Reporters = {r1}
  User = User
  Uses = {"lpa"}
  MaxFaults = 1
SPECIFICATION Spec
PROPERTIES
  HostWakeServed
  LinkComesBack
