CONSTANTS
  Modem = Modem
  j1 = j1
  j2 = j2
  Jobs = {j1, j2}
  NoJob = NoJob
  NoSubsystem = NoSubsystem
  Irqs = {"errfatal"}
  WantDumps = {TRUE, FALSE}
  Prompt = FALSE
  MaxFaults = 0
  MaxForces = 1
  MaxCount = 2
SPECIFICATION SafeSpec
INVARIANTS
  PowerupIsFresh
  DumpIsFresh
SYMMETRY Symmetry
