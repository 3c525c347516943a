CONSTANTS
  Modem = Modem
  j1 = j1
  j2 = j2
  Jobs = {j1, j2}
  NoJob = NoJob
  NoSubsystem = NoSubsystem
  Irqs = {"errfatal", "status"}
  WantDumps = {TRUE, FALSE}
  Prompt = TRUE
  MaxFaults = 1
  MaxForces = 0
  MaxCount = 2
SPECIFICATION Spec
PROPERTIES
  CrashIsServed
  BootWakeReleased
