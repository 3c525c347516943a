CONSTANTS
  modem = modem
  irq = irq
  ioctl = ioctl
  j1 = j1
  j2 = j2
  Subsystems = {modem}
  Callers = {irq, ioctl}
  Jobs = {j1, j2}
  NoJob = NoJob
  NoSubsystem = NoSubsystem
  Remember = TRUE
SPECIFICATION Spec
INVARIANTS
  TypeOK
  SequencesDisjoint
PROPERTIES
  CallbacksInRounds
  AcceptedIsServed
  ImplementsAbs
