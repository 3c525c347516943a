CONSTANTS
  modem = modem
  irq = irq
  j1 = j1
  Subsystems = {modem}
  Callers = {irq}
  Jobs = {j1}
  NoJob = NoJob
  NoSubsystem = NoSubsystem
  Remember = TRUE
SPECIFICATION Spec
PROPERTIES
  LateRequestPanics
