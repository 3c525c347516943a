------------------------ MODULE SubsysRestartProofs ------------------------
(***************************************************************************)
(* Theorems about SubsysRestart, for every set of subsystems, callers and  *)
(* jobs.  LockInv says which job state owns which mutex, in both           *)
(* directions; RoundInv ties the power state of a subsystem to where its   *)
(* job is.  Their conjunction with the types is inductive, and the         *)
(* exclusion, the order of the callbacks and the refinement of RestartAbs  *)
(* follow from it.  ServedInv says who is to serve an accepted request.    *)
(***************************************************************************)
EXTENDS SubsysRestart, TLAPS

\* A pending caller, and a job that is not free, serve a registered subsystem.
TargetsInv ==
  /\ \A c \in Callers : callerAt[c] # "idle" => callerFor[c] \in registered
  /\ \A j \in Jobs : jobAt[j] # "free" => jobFor[j] \in registered

\* A job inside a critical section owns its lock.
OwnInv ==
  \A j \in Jobs :
    /\ jobAt[j] \in HoldsShutdown => shutdownLock[jobFor[j]] = j
    /\ jobAt[j] \in HoldsPowerup => powerupLock[jobFor[j]] = j
    /\ jobAt[j] \in HoldsReg => regLock = j

\* A lock is owned only by a job inside its critical section.
HeldInv ==
  /\ \A s \in Subsystems : powerupLock[s] # NoJob =>
       /\ jobAt[powerupLock[s]] \in HoldsPowerup
       /\ jobFor[powerupLock[s]] = s
  /\ regLock # NoJob => jobAt[regLock] \in HoldsReg

LockInv == OwnInv /\ HeldInv

\* What the callbacks have done to a subsystem, by the place of its job.
RoundInv ==
  /\ \A s \in Subsystems : powerupLock[s] = NoJob => power[s] = "up"
  /\ \A j \in Jobs :
       /\ jobAt[j] \in {"lockReg", "shutdown", "unlockPowerup", "unlockReg"}
            => power[jobFor[j]] = "up"
       /\ jobAt[j] \in {"unlockShutdown", "ramdump"} => power[jobFor[j]] = "off"
       /\ jobAt[j] = "powerup" => power[jobFor[j]] = "dumped"

IInv == TypeOK /\ TargetsInv /\ LockInv /\ RoundInv

USE NoJobIsNoJob, NoSubsystemIsNone, RememberIsBool DEF Asked

-----------------------------------------------------------------------------

\* No step leaves the types: each action writes only values of its variables.
LEMMA TypeStep == TypeOK /\ [Next]_vars => TypeOK'
<1> SUFFICES ASSUME TypeOK, [Next]_vars PROVE TypeOK'
    OBVIOUS
<1> USE DEF TypeOK, CallerStates, JobStates, Sequence, callerVars, jobVars,
            lockVars, Running, Panic, Goto
<1>1. ASSUME NEW s \in Subsystems, Register(s) PROVE TypeOK'
  BY <1>1 DEF Register
<1>2. ASSUME NEW c \in Callers, NEW s \in Subsystems, Accept(c, s) PROVE TypeOK'
  BY <1>2 DEF Accept, InPowerupSequence
<1>3. ASSUME NEW c \in Callers, NEW s \in Subsystems, Refuse(c, s) PROVE TypeOK'
  BY <1>3 DEF Refuse
<1>4. ASSUME NEW c \in Callers, MarkOngoing(c) PROVE TypeOK'
  BY <1>4 DEF MarkOngoing
<1>5. ASSUME NEW c \in Callers, AllocFails(c) PROVE TypeOK'
  BY <1>5 DEF AllocFails
<1>6. ASSUME NEW c \in Callers, NEW j \in Jobs, Schedule(c, j) PROVE TypeOK'
  BY <1>6 DEF Schedule
<1>7. ASSUME NEW j \in Jobs, JobStep(j) PROVE TypeOK'
  <2>1. CASE TakeShutdown(j) \/ AlreadyShuttingDown(j) \/ TakePowerup(j)
    BY <2>1 DEF TakeShutdown, AlreadyShuttingDown, TakePowerup
  <2>2. CASE DiedDuringPowerup(j) \/ ShutdownFails(j) \/ PowerupFails(j)
    BY <2>2 DEF DiedDuringPowerup, ShutdownFails, PowerupFails
  <2>3. CASE LockReg(j) \/ Shutdown(j) \/ UnlockShutdown(j) \/ Ramdump(j)
    BY <2>3 DEF LockReg, Shutdown, UnlockShutdown, Ramdump
  <2>4. CASE Powerup(j) \/ UnlockPowerup(j) \/ UnlockReg(j)
    BY <2>4 DEF Powerup, UnlockPowerup, UnlockReg
  <2>5. CASE Finish(j)
    BY <2>5 DEF Finish
  <2> QED BY <1>7, <2>1, <2>2, <2>3, <2>4, <2>5 DEF JobStep
<1>8. CASE PanicElsewhere
  BY <1>8 DEF PanicElsewhere
<1>9. CASE Halted \/ UNCHANGED vars
  BY <1>9 DEF Halted, vars
<1> QED
  BY <1>1, <1>2, <1>3, <1>4, <1>5, <1>6, <1>7, <1>8, <1>9 DEF Next, CallerStep

\* Every reachable state is well typed (the whole state of
\* subsystem_restart.c: its flags, mutexes, work items and callers).
THEOREM TypeCorrect == SafeSpec => []TypeOK
<1>1. Init => TypeOK
  BY DEF Init, TypeOK, CallerStates, JobStates
<1> QED BY <1>1, TypeStep, PTL DEF SafeSpec

\* Callers and jobs keep the subsystem they were started for.
LEMMA TargetsStep == TypeOK /\ TargetsInv /\ [Next]_vars => TargetsInv'
<1> SUFFICES ASSUME TypeOK /\ TargetsInv, [Next]_vars PROVE TargetsInv'
    OBVIOUS
<1> USE DEF TypeOK, CallerStates, JobStates, Sequence, HoldsShutdown,
           HoldsPowerup, HoldsReg, callerVars, jobVars, lockVars, Running, Panic, Goto, TargetsInv
<1>1. ASSUME NEW s \in Subsystems, Register(s) PROVE TargetsInv'
  BY <1>1 DEF Register
<1>2. ASSUME NEW c \in Callers, NEW s \in Subsystems, Accept(c, s) PROVE TargetsInv'
  BY <1>2 DEF Accept
<1>3. ASSUME NEW c \in Callers, NEW s \in Subsystems, Refuse(c, s) PROVE TargetsInv'
  BY <1>3 DEF Refuse
<1>4. ASSUME NEW c \in Callers, MarkOngoing(c) PROVE TargetsInv'
  BY <1>4 DEF MarkOngoing
<1>5. ASSUME NEW c \in Callers, AllocFails(c) PROVE TargetsInv'
  BY <1>5 DEF AllocFails
<1>6. ASSUME NEW c \in Callers, NEW j \in Jobs, Schedule(c, j) PROVE TargetsInv'
  BY <1>6 DEF Schedule
<1>7. ASSUME NEW j \in Jobs, JobStep(j) PROVE TargetsInv'
  <2>1. CASE TakeShutdown(j)
    BY <2>1 DEF TakeShutdown
  <2>2. CASE AlreadyShuttingDown(j)
    BY <2>2 DEF AlreadyShuttingDown
  <2>3. CASE TakePowerup(j)
    BY <2>3 DEF TakePowerup
  <2>4. CASE DiedDuringPowerup(j)
    BY <2>4 DEF DiedDuringPowerup
  <2>5. CASE LockReg(j)
    BY <2>5 DEF LockReg
  <2>6. CASE Shutdown(j)
    BY <2>6 DEF Shutdown
  <2>7. CASE ShutdownFails(j)
    BY <2>7 DEF ShutdownFails
  <2>8. CASE UnlockShutdown(j)
    BY <2>8 DEF UnlockShutdown
  <2>9. CASE Ramdump(j)
    BY <2>9 DEF Ramdump
  <2>10. CASE Powerup(j)
    BY <2>10 DEF Powerup
  <2>11. CASE PowerupFails(j)
    BY <2>11 DEF PowerupFails
  <2>12. CASE UnlockPowerup(j)
    BY <2>12 DEF UnlockPowerup
  <2>13. CASE UnlockReg(j)
    BY <2>13 DEF UnlockReg
  <2>14. CASE Finish(j)
    BY <2>14 DEF Finish
  <2> QED
    BY <1>7, <2>1, <2>2, <2>3, <2>4, <2>5, <2>6, <2>7, <2>8, <2>9, <2>10,
       <2>11, <2>12, <2>13, <2>14 DEF JobStep
<1>8. CASE PanicElsewhere
  BY <1>8 DEF PanicElsewhere
<1>9. CASE Halted \/ UNCHANGED vars
  BY <1>9 DEF Halted, vars
<1> QED
  BY <1>1, <1>2, <1>3, <1>4, <1>5, <1>6, <1>7, <1>8, <1>9 DEF Next, CallerStep

\* No job can take a lock that another owns, and only its owner unlocks it.
LEMMA LockStep == TypeOK /\ TargetsInv /\ LockInv /\ [Next]_vars => LockInv'
<1> SUFFICES ASSUME TypeOK /\ TargetsInv /\ LockInv, [Next]_vars PROVE LockInv'
    OBVIOUS
<1> USE DEF TypeOK, CallerStates, JobStates, Sequence, HoldsShutdown,
           HoldsPowerup, HoldsReg, callerVars, jobVars, lockVars, Running, Panic, Goto,
           TargetsInv, LockInv, OwnInv, HeldInv
<1>1. ASSUME NEW s \in Subsystems, Register(s) PROVE LockInv'
  BY <1>1 DEF Register
<1>2. ASSUME NEW c \in Callers, NEW s \in Subsystems, Accept(c, s) PROVE LockInv'
  BY <1>2 DEF Accept
<1>3. ASSUME NEW c \in Callers, NEW s \in Subsystems, Refuse(c, s) PROVE LockInv'
  BY <1>3 DEF Refuse
<1>4. ASSUME NEW c \in Callers, MarkOngoing(c) PROVE LockInv'
  BY <1>4 DEF MarkOngoing
<1>5. ASSUME NEW c \in Callers, AllocFails(c) PROVE LockInv'
  BY <1>5 DEF AllocFails
<1>6. ASSUME NEW c \in Callers, NEW j \in Jobs, Schedule(c, j) PROVE LockInv'
  BY <1>6 DEF Schedule
<1>7. ASSUME NEW j \in Jobs, JobStep(j) PROVE LockInv'
  <2>1. CASE TakeShutdown(j)
    BY <2>1 DEF TakeShutdown
  <2>2. CASE AlreadyShuttingDown(j)
    BY <2>2 DEF AlreadyShuttingDown
  <2>3. CASE TakePowerup(j)
    BY <2>3 DEF TakePowerup
  <2>4. CASE DiedDuringPowerup(j)
    BY <2>4 DEF DiedDuringPowerup
  <2>5. CASE LockReg(j)
    BY <2>5 DEF LockReg
  <2>6. CASE Shutdown(j)
    BY <2>6 DEF Shutdown
  <2>7. CASE ShutdownFails(j)
    BY <2>7 DEF ShutdownFails
  <2>8. CASE UnlockShutdown(j)
    BY <2>8 DEF UnlockShutdown
  <2>9. CASE Ramdump(j)
    BY <2>9 DEF Ramdump
  <2>10. CASE Powerup(j)
    BY <2>10 DEF Powerup
  <2>11. CASE PowerupFails(j)
    BY <2>11 DEF PowerupFails
  <2>12. CASE UnlockPowerup(j)
    BY <2>12 DEF UnlockPowerup
  <2>13. CASE UnlockReg(j)
    BY <2>13 DEF UnlockReg
  <2>14. CASE Finish(j)
    BY <2>14 DEF Finish
  <2> QED
    BY <1>7, <2>1, <2>2, <2>3, <2>4, <2>5, <2>6, <2>7, <2>8, <2>9, <2>10,
       <2>11, <2>12, <2>13, <2>14 DEF JobStep
<1>8. CASE PanicElsewhere
  BY <1>8 DEF PanicElsewhere
<1>9. CASE Halted \/ UNCHANGED vars
  BY <1>9 DEF Halted, vars
<1> QED
  BY <1>1, <1>2, <1>3, <1>4, <1>5, <1>6, <1>7, <1>8, <1>9 DEF Next, CallerStep

\* Only the job that owns both locks changes the power of its subsystem.
LEMMA RoundStep == TypeOK /\ TargetsInv /\ LockInv /\ RoundInv /\ [Next]_vars => RoundInv'
<1> SUFFICES ASSUME TypeOK /\ TargetsInv /\ LockInv /\ RoundInv, [Next]_vars PROVE RoundInv'
    OBVIOUS
<1> USE DEF TypeOK, CallerStates, JobStates, Sequence, HoldsShutdown,
           HoldsPowerup, HoldsReg, callerVars, jobVars, lockVars, Running, Panic, Goto,
           TargetsInv, LockInv, OwnInv, HeldInv, RoundInv
<1>1. ASSUME NEW s \in Subsystems, Register(s) PROVE RoundInv'
  BY <1>1 DEF Register
<1>2. ASSUME NEW c \in Callers, NEW s \in Subsystems, Accept(c, s) PROVE RoundInv'
  BY <1>2 DEF Accept
<1>3. ASSUME NEW c \in Callers, NEW s \in Subsystems, Refuse(c, s) PROVE RoundInv'
  BY <1>3 DEF Refuse
<1>4. ASSUME NEW c \in Callers, MarkOngoing(c) PROVE RoundInv'
  BY <1>4 DEF MarkOngoing
<1>5. ASSUME NEW c \in Callers, AllocFails(c) PROVE RoundInv'
  BY <1>5 DEF AllocFails
<1>6. ASSUME NEW c \in Callers, NEW j \in Jobs, Schedule(c, j) PROVE RoundInv'
  BY <1>6 DEF Schedule
<1>7. ASSUME NEW j \in Jobs, JobStep(j) PROVE RoundInv'
  <2>1. CASE TakeShutdown(j)
    BY <2>1 DEF TakeShutdown
  <2>2. CASE AlreadyShuttingDown(j)
    BY <2>2 DEF AlreadyShuttingDown
  <2>3. CASE TakePowerup(j)
    BY <2>3 DEF TakePowerup
  <2>4. CASE DiedDuringPowerup(j)
    BY <2>4 DEF DiedDuringPowerup
  <2>5. CASE LockReg(j)
    BY <2>5 DEF LockReg
  <2>6. CASE Shutdown(j)
    BY <2>6 DEF Shutdown
  <2>7. CASE ShutdownFails(j)
    BY <2>7 DEF ShutdownFails
  <2>8. CASE UnlockShutdown(j)
    BY <2>8 DEF UnlockShutdown
  <2>9. CASE Ramdump(j)
    BY <2>9 DEF Ramdump
  <2>10. CASE Powerup(j)
    BY <2>10 DEF Powerup
  <2>11. CASE PowerupFails(j)
    BY <2>11 DEF PowerupFails
  <2>12. CASE UnlockPowerup(j)
    BY <2>12 DEF UnlockPowerup
  <2>13. CASE UnlockReg(j)
    BY <2>13 DEF UnlockReg
  <2>14. CASE Finish(j)
    BY <2>14 DEF Finish
  <2> QED
    BY <1>7, <2>1, <2>2, <2>3, <2>4, <2>5, <2>6, <2>7, <2>8, <2>9, <2>10,
       <2>11, <2>12, <2>13, <2>14 DEF JobStep
<1>8. CASE PanicElsewhere
  BY <1>8 DEF PanicElsewhere
<1>9. CASE Halted \/ UNCHANGED vars
  BY <1>9 DEF Halted, vars
<1> QED
  BY <1>1, <1>2, <1>3, <1>4, <1>5, <1>6, <1>7, <1>8, <1>9 DEF Next, CallerStep

LEMMA Inductive == SafeSpec => []IInv
<1>1. Init => IInv
  BY DEF Init, IInv, TypeOK, TargetsInv, LockInv, OwnInv, HeldInv, RoundInv,
         CallerStates, JobStates, Sequence, HoldsShutdown, HoldsPowerup, HoldsReg
<1>2. IInv /\ [Next]_vars => IInv'
  BY TypeStep, TargetsStep, LockStep, RoundStep DEF IInv
<1> QED BY <1>1, <1>2, PTL DEF SafeSpec

-----------------------------------------------------------------------------

\* At most one job per subsystem between taking the powerup lock and
\* releasing it, and at most one of all between taking and releasing
\* soc_order_reg_lock, however many callers race (subsystem_restart.c:116-188).
THEOREM Exclusion == SafeSpec => []SequencesDisjoint
<1>1. IInv => SequencesDisjoint
  BY DEF IInv, LockInv, OwnInv, SequencesDisjoint
<1> QED BY <1>1, Inductive, PTL


\* One step changes the power of a subsystem along the round only.
LEMMA RoundsStep ==
  IInv /\ [Next]_vars =>
    \A s \in Subsystems : power'[s] # power[s] =>
       <<power[s], power'[s]>> \in {<<"up", "off">>, <<"off", "dumped">>,
                                   <<"dumped", "up">>}
<1> DEFINE Round(s) == power'[s] # power[s] =>
       <<power[s], power'[s]>> \in {<<"up", "off">>, <<"off", "dumped">>,
                                   <<"dumped", "up">>}
<1> SUFFICES ASSUME IInv, [Next]_vars, NEW t \in Subsystems PROVE Round(t)
    OBVIOUS
<1> USE DEF IInv, RoundInv, TypeOK, CallerStates, JobStates, Sequence, HoldsShutdown,
           HoldsPowerup, HoldsReg, callerVars, jobVars, lockVars, Running, Panic, Goto
<1>1. ASSUME NEW s \in Subsystems, Register(s) PROVE Round(t)
  BY <1>1 DEF Register
<1>2. ASSUME NEW c \in Callers, NEW s \in Subsystems, Accept(c, s) PROVE Round(t)
  BY <1>2 DEF Accept
<1>3. ASSUME NEW c \in Callers, NEW s \in Subsystems, Refuse(c, s) PROVE Round(t)
  BY <1>3 DEF Refuse
<1>4. ASSUME NEW c \in Callers, MarkOngoing(c) PROVE Round(t)
  BY <1>4 DEF MarkOngoing
<1>5. ASSUME NEW c \in Callers, AllocFails(c) PROVE Round(t)
  BY <1>5 DEF AllocFails
<1>6. ASSUME NEW c \in Callers, NEW j \in Jobs, Schedule(c, j) PROVE Round(t)
  BY <1>6 DEF Schedule
<1>7. ASSUME NEW j \in Jobs, JobStep(j) PROVE Round(t)
  <2>1. CASE TakeShutdown(j)
    BY <2>1 DEF TakeShutdown
  <2>2. CASE AlreadyShuttingDown(j)
    BY <2>2 DEF AlreadyShuttingDown
  <2>3. CASE TakePowerup(j)
    BY <2>3 DEF TakePowerup
  <2>4. CASE DiedDuringPowerup(j)
    BY <2>4 DEF DiedDuringPowerup
  <2>5. CASE LockReg(j)
    BY <2>5 DEF LockReg
  <2>6. CASE Shutdown(j)
    BY <2>6 DEF Shutdown
  <2>7. CASE ShutdownFails(j)
    BY <2>7 DEF ShutdownFails
  <2>8. CASE UnlockShutdown(j)
    BY <2>8 DEF UnlockShutdown
  <2>9. CASE Ramdump(j)
    BY <2>9 DEF Ramdump
  <2>10. CASE Powerup(j)
    BY <2>10 DEF Powerup
  <2>11. CASE PowerupFails(j)
    BY <2>11 DEF PowerupFails
  <2>12. CASE UnlockPowerup(j)
    BY <2>12 DEF UnlockPowerup
  <2>13. CASE UnlockReg(j)
    BY <2>13 DEF UnlockReg
  <2>14. CASE Finish(j)
    BY <2>14 DEF Finish
  <2> QED
    BY <1>7, <2>1, <2>2, <2>3, <2>4, <2>5, <2>6, <2>7, <2>8, <2>9, <2>10,
       <2>11, <2>12, <2>13, <2>14 DEF JobStep
<1>8. CASE PanicElsewhere
  BY <1>8 DEF PanicElsewhere
<1>9. CASE Halted \/ UNCHANGED vars
  BY <1>9 DEF Halted, vars
<1> QED
  BY <1>1, <1>2, <1>3, <1>4, <1>5, <1>6, <1>7, <1>8, <1>9 DEF Next, CallerStep

\* Shutdown, ramdump and powerup callbacks of a subsystem alternate in this
\* order although different jobs make them (subsystem_restart.c:139-181).
THEOREM Rounds == SafeSpec => CallbacksInRounds
<1> DEFINE Round == \A s \in Subsystems : power'[s] # power[s] =>
       <<power[s], power'[s]>> \in {<<"up", "off">>, <<"off", "dumped">>,
                                   <<"dumped", "up">>}
<1>1. IInv /\ [Next]_vars => [Round]_vars
  BY RoundsStep
<1> QED BY <1>1, Inductive, PTL DEF SafeSpec, CallbacksInRounds

-----------------------------------------------------------------------------

\* A step of the locks, jobs and callers is a step of the abstract restart
\* or leaves it unchanged.
LEMMA AbsStep == IInv /\ [Next]_vars => [Abs!ANext]_(Abs!avars)
<1> DEFINE Step == [Abs!ANext]_(Abs!avars)
<1> SUFFICES ASSUME IInv, [Next]_vars PROVE Step
    OBVIOUS
<1> USE DEF IInv, LockInv, OwnInv, HeldInv, RoundInv, TargetsInv,
           Abs!ANext, Abs!avars, Abs!Begin, Abs!Callback, Abs!PowerOff,
           Abs!Dump, Abs!PowerUp, Abs!End, Abs!Die,
           TypeOK, CallerStates, JobStates, Sequence, HoldsShutdown,
           HoldsPowerup, HoldsReg, callerVars, jobVars, lockVars, Running, Panic, Goto
<1>1. ASSUME NEW s \in Subsystems, Register(s) PROVE Step
  BY <1>1 DEF Register
<1>2. ASSUME NEW c \in Callers, NEW s \in Subsystems, Accept(c, s) PROVE Step
  BY <1>2 DEF Accept
<1>3. ASSUME NEW c \in Callers, NEW s \in Subsystems, Refuse(c, s) PROVE Step
  BY <1>3 DEF Refuse
<1>4. ASSUME NEW c \in Callers, MarkOngoing(c) PROVE Step
  BY <1>4 DEF MarkOngoing
<1>5. ASSUME NEW c \in Callers, AllocFails(c) PROVE Step
  BY <1>5 DEF AllocFails
<1>6. ASSUME NEW c \in Callers, NEW j \in Jobs, Schedule(c, j) PROVE Step
  BY <1>6 DEF Schedule
<1>7. ASSUME NEW j \in Jobs, JobStep(j) PROVE Step
  <2>1. CASE TakeShutdown(j)
    BY <2>1 DEF TakeShutdown
  <2>2. CASE AlreadyShuttingDown(j)
    BY <2>2 DEF AlreadyShuttingDown
  <2>3. CASE TakePowerup(j)
    BY <2>3 DEF TakePowerup
  <2>4. CASE DiedDuringPowerup(j)
    BY <2>4 DEF DiedDuringPowerup
  <2>5. CASE LockReg(j)
    BY <2>5 DEF LockReg
  <2>6. CASE Shutdown(j)
    <3>1. jobFor[j] \in Subsystems /\ regLock = j /\ power[jobFor[j]] = "up"
      BY <2>6 DEF Shutdown
    <3>2. Abs!PowerOff(jobFor[j])
      BY <2>6, <3>1 DEF Shutdown
    <3> QED BY <3>1, <3>2
  <2>7. CASE ShutdownFails(j)
    BY <2>7 DEF ShutdownFails
  <2>8. CASE UnlockShutdown(j)
    BY <2>8 DEF UnlockShutdown
  <2>9. CASE Ramdump(j)
    <3>1. jobFor[j] \in Subsystems /\ regLock = j /\ power[jobFor[j]] = "off"
      BY <2>9 DEF Ramdump
    <3>2. Abs!Dump(jobFor[j])
      BY <2>9, <3>1 DEF Ramdump
    <3> QED BY <3>1, <3>2
  <2>10. CASE Powerup(j)
    <3>1. jobFor[j] \in Subsystems /\ regLock = j /\ power[jobFor[j]] = "dumped"
      BY <2>10 DEF Powerup
    <3>2. Abs!PowerUp(jobFor[j])
      BY <2>10, <3>1 DEF Powerup
    <3> QED BY <3>1, <3>2
  <2>11. CASE PowerupFails(j)
    BY <2>11 DEF PowerupFails
  <2>12. CASE UnlockPowerup(j)
    BY <2>12 DEF UnlockPowerup
  <2>13. CASE UnlockReg(j)
    BY <2>13 DEF UnlockReg
  <2>14. CASE Finish(j)
    BY <2>14 DEF Finish
  <2> QED
    BY <1>7, <2>1, <2>2, <2>3, <2>4, <2>5, <2>6, <2>7, <2>8, <2>9, <2>10,
       <2>11, <2>12, <2>13, <2>14 DEF JobStep
<1>8. CASE PanicElsewhere
  BY <1>8 DEF PanicElsewhere
<1>9. CASE Halted \/ UNCHANGED vars
  BY <1>9 DEF Halted, vars
<1> QED
  BY <1>1, <1>2, <1>3, <1>4, <1>5, <1>6, <1>7, <1>8, <1>9 DEF Next, CallerStep

\* The safety part of the refinement: restarts of all subsystems are strictly
\* one after the other, each powers off, dumps and powers up its own.
THEOREM Implements == SafeSpec => Abs!ASafeSpec
<1>1. Init => Abs!AInit
  BY DEF Init, Abs!AInit, Running
<1> QED BY <1>1, AbsStep, Inductive, PTL DEF SafeSpec, Abs!ASafeSpec

-----------------------------------------------------------------------------

\* With a single caller a subsystem has one restart record at most, none
\* while its caller is between the test of `ongoing` and the scheduling.
SerialInv ==
  /\ panic # "died"
  /\ \A i, j \in Jobs :
       jobAt[i] # "free" /\ jobAt[j] # "free" /\ jobFor[i] = jobFor[j] => i = j
  /\ \A j \in Jobs : jobAt[j] # "free" => ongoing[jobFor[j]]
  /\ \A c \in Callers :
       /\ callerAt[c] = "alloc" => ongoing[callerFor[c]]
       /\ callerAt[c] # "idle" =>
            \A j \in Jobs : jobAt[j] # "free" => jobFor[j] # callerFor[c]

\* The step needs that no other caller sits between the two.
LEMMA SerialStep ==
  ASSUME NEW d, Callers = {d}
  PROVE  IInv /\ SerialInv /\ [Next]_vars => SerialInv'
<1> SUFFICES ASSUME IInv, SerialInv, [Next]_vars PROVE SerialInv'
    OBVIOUS
<1> USE DEF IInv, LockInv, OwnInv, HeldInv, TargetsInv, SerialInv,
           TypeOK, CallerStates, JobStates, Sequence, HoldsShutdown,
           HoldsPowerup, HoldsReg, callerVars, jobVars, lockVars, Running, Panic, Goto
<1>1. ASSUME NEW s \in Subsystems, Register(s) PROVE SerialInv'
  BY <1>1 DEF Register
<1>2. ASSUME NEW c \in Callers, NEW s \in Subsystems, Accept(c, s) PROVE SerialInv'
  BY <1>2 DEF Accept
<1>3. ASSUME NEW c \in Callers, NEW s \in Subsystems, Refuse(c, s) PROVE SerialInv'
  BY <1>3 DEF Refuse
<1>4. ASSUME NEW c \in Callers, MarkOngoing(c) PROVE SerialInv'
  BY <1>4 DEF MarkOngoing
<1>5. ASSUME NEW c \in Callers, AllocFails(c) PROVE SerialInv'
  BY <1>5 DEF AllocFails
<1>6. ASSUME NEW c \in Callers, NEW j \in Jobs, Schedule(c, j) PROVE SerialInv'
  BY <1>6 DEF Schedule
<1>7. ASSUME NEW j \in Jobs, JobStep(j) PROVE SerialInv'
  <2>1. CASE TakeShutdown(j)
    BY <2>1 DEF TakeShutdown
  <2>2. CASE AlreadyShuttingDown(j)
    BY <2>2 DEF AlreadyShuttingDown
  <2>3. CASE TakePowerup(j)
    BY <2>3 DEF TakePowerup
  <2>4. CASE DiedDuringPowerup(j)
    BY <2>4 DEF DiedDuringPowerup
  <2>5. CASE LockReg(j)
    BY <2>5 DEF LockReg
  <2>6. CASE Shutdown(j)
    BY <2>6 DEF Shutdown
  <2>7. CASE ShutdownFails(j)
    BY <2>7 DEF ShutdownFails
  <2>8. CASE UnlockShutdown(j)
    BY <2>8 DEF UnlockShutdown
  <2>9. CASE Ramdump(j)
    BY <2>9 DEF Ramdump
  <2>10. CASE Powerup(j)
    BY <2>10 DEF Powerup
  <2>11. CASE PowerupFails(j)
    BY <2>11 DEF PowerupFails
  <2>12. CASE UnlockPowerup(j)
    BY <2>12 DEF UnlockPowerup
  <2>13. CASE UnlockReg(j)
    BY <2>13 DEF UnlockReg
  <2>14. CASE Finish(j)
    BY <2>14 DEF Finish
  <2> QED
    BY <1>7, <2>1, <2>2, <2>3, <2>4, <2>5, <2>6, <2>7, <2>8, <2>9, <2>10,
       <2>11, <2>12, <2>13, <2>14 DEF JobStep
<1>8. CASE PanicElsewhere
  BY <1>8 DEF PanicElsewhere
<1>9. CASE Halted \/ UNCHANGED vars
  BY <1>9 DEF Halted, vars
<1> QED
  BY <1>1, <1>2, <1>3, <1>4, <1>5, <1>6, <1>7, <1>8, <1>9 DEF Next, CallerStep

\* One caller at a time: `ongoing` covers the whole restart, so the panic
\* "Subsystem died during powerup" cannot be raised by mistake
\* (subsystem_restart.c:121-128, :196, :223-228).
THEOREM SerialSafe ==
  ASSUME NEW d, Callers = {d}
  PROVE  SafeSpec => [](OngoingCoversRestart /\ DiedMeansLate)
<1>1. Init => SerialInv
  BY DEF Init, SerialInv
<1>2. SerialInv => OngoingCoversRestart /\ DiedMeansLate
  BY DEF SerialInv, OngoingCoversRestart, DiedMeansLate
<1>3. IInv /\ SerialInv /\ [Next]_vars => SerialInv'
  BY SerialStep
<1> QED BY <1>1, <1>2, <1>3, Inductive, PTL DEF SafeSpec

-----------------------------------------------------------------------------
\* What AcceptedIsServed leaves to be done has been ordered.

\* The shutdown lock is owned only by a job between its trylock and its unlock.
ShutHeldInv ==
  \A s \in Subsystems : shutdownLock[s] # NoJob =>
    /\ jobAt[shutdownLock[s]] \in HoldsShutdown
    /\ jobFor[shutdownLock[s]] = s

\* Somebody is still to end a shutdown phase of s, or to panic: a caller on its way
\* to schedule a job, a queued job, or a job that holds the shutdown lock.
Serving(s) ==
  \/ \E c \in Callers : callerAt[c] # "idle" /\ callerFor[c] = s
  \/ \E j \in Jobs : jobAt[j] \in {"queued"} \union HoldsShutdown /\ jobFor[j] = s

\* A request that was accepted and not yet served has somebody to serve it.
AcceptedHasOwner == \A s \in Subsystems : "accepted" \in due[s] => Serving(s)

\* A subsystem that answers -EBUSY has a restart under way, or about to be scheduled.
BusyMeansRestart ==
  \A s \in Subsystems : ongoing[s] =>
    \/ \E c \in Callers : callerAt[c] = "alloc" /\ callerFor[c] = s
    \/ \E j \in Jobs : jobAt[j] # "free" /\ jobFor[j] = s

ServedInv == ShutHeldInv /\ AcceptedHasOwner /\ BusyMeansRestart

\* A job leaves for out only if another holds the shutdown lock, and that one serves
\* the request; a caller hands its request over to the job it schedules.
LEMMA ServedStep == IInv /\ ServedInv /\ [Next]_vars => ServedInv'
<1> SUFFICES ASSUME IInv, ServedInv, [Next]_vars PROVE ServedInv'
    OBVIOUS
<1> USE DEF IInv, LockInv, OwnInv, TargetsInv, ServedInv, ShutHeldInv, AcceptedHasOwner,
           BusyMeansRestart, Serving, TypeOK, CallerStates, JobStates, Sequence,
           HoldsShutdown, HoldsPowerup, HoldsReg, callerVars, jobVars, lockVars, Running,
           Panic, Goto
<1>1. ASSUME NEW s \in Subsystems, Register(s) PROVE ServedInv'
  BY <1>1 DEF Register
<1>2. ASSUME NEW c \in Callers, NEW s \in Subsystems, Accept(c, s) PROVE ServedInv'
  BY <1>2 DEF Accept
<1>3. ASSUME NEW c \in Callers, NEW s \in Subsystems, Refuse(c, s) PROVE ServedInv'
  BY <1>3 DEF Refuse
<1>4. ASSUME NEW c \in Callers, MarkOngoing(c) PROVE ServedInv'
  BY <1>4 DEF MarkOngoing
<1>5. ASSUME NEW c \in Callers, AllocFails(c) PROVE ServedInv'
  BY <1>5 DEF AllocFails
<1>6. ASSUME NEW c \in Callers, NEW j \in Jobs, Schedule(c, j) PROVE ServedInv'
  BY <1>6 DEF Schedule
<1>7. ASSUME NEW j \in Jobs, JobStep(j) PROVE ServedInv'
  <2>1. CASE TakeShutdown(j)
    BY <2>1 DEF TakeShutdown
  <2>2. CASE AlreadyShuttingDown(j)
    BY <2>2 DEF AlreadyShuttingDown
  <2>3. CASE TakePowerup(j)
    BY <2>3 DEF TakePowerup
  <2>4. CASE DiedDuringPowerup(j)
    BY <2>4 DEF DiedDuringPowerup
  <2>5. CASE LockReg(j)
    BY <2>5 DEF LockReg
  <2>6. CASE Shutdown(j)
    BY <2>6 DEF Shutdown
  <2>7. CASE ShutdownFails(j)
    BY <2>7 DEF ShutdownFails
  <2>8. CASE UnlockShutdown(j)
    BY <2>8 DEF UnlockShutdown
  <2>9. CASE Ramdump(j)
    BY <2>9 DEF Ramdump
  <2>10. CASE Powerup(j)
    BY <2>10 DEF Powerup
  <2>11. CASE PowerupFails(j)
    BY <2>11 DEF PowerupFails
  <2>12. CASE UnlockPowerup(j)
    BY <2>12 DEF UnlockPowerup
  <2>13. CASE UnlockReg(j)
    BY <2>13 DEF UnlockReg
  <2>14. CASE Finish(j)
    BY <2>14 DEF Finish
  <2> QED
    BY <1>7, <2>1, <2>2, <2>3, <2>4, <2>5, <2>6, <2>7, <2>8, <2>9, <2>10,
       <2>11, <2>12, <2>13, <2>14 DEF JobStep
<1>8. CASE PanicElsewhere
  BY <1>8 DEF PanicElsewhere
<1>9. CASE Halted \/ UNCHANGED vars
  BY <1>9 DEF Halted, vars
<1> QED
  BY <1>1, <1>2, <1>3, <1>4, <1>5, <1>6, <1>7, <1>8, <1>9 DEF Next, CallerStep

LEMMA ServedInductive == SafeSpec => []ServedInv
<1>1. Init => ServedInv
  BY DEF Init, ServedInv, ShutHeldInv, AcceptedHasOwner, BusyMeansRestart
<1> QED BY <1>1, ServedStep, Inductive, PTL DEF SafeSpec

\* However many callers race, no accepted request is forgotten: while one is not
\* served, a caller, a queued job or the job that holds the shutdown lock is to
\* serve it, so that a job that loses the trylock loses nothing; and -EBUSY is never
\* the answer of an idle subsystem, whose `ongoing` would refuse every later request
\* (subsystem_restart.c:112-119, :196, :218-243).
THEOREM NothingForgotten == SafeSpec => [](AcceptedHasOwner /\ BusyMeansRestart)
<1>1. ServedInv => AcceptedHasOwner /\ BusyMeansRestart
  BY DEF ServedInv
<1> QED BY <1>1, ServedInductive, PTL
=============================================================================
