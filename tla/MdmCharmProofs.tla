--------------------------- MODULE MdmCharmProofs ---------------------------
(***************************************************************************)
(* Theorems about MdmCharm, for every set of restart jobs, every choice of *)
(* interrupts and every bound: the driver uses the restart framework as    *)
(* SubsysRestart describes it, so that what is proved there holds of the   *)
(* two together, and the driver's callbacks never run on two threads.      *)
(* Then the driver's own state: its types, what answers a wait, who        *)
(* watches the status line, what one event can cause; and, last, that the  *)
(* release of boot_wake and a crash always have somebody to see to them.   *)
(***************************************************************************)
EXTENDS MdmCharm, TLAPS

Framework == INSTANCE SubsysRestartProofs WITH
               Subsystems <- {Modem}, Callers <- Contexts, Remember <- FALSE

USE NoJobIsNone, NoSubsystemIsNoModem

\* The framework's actions, as MdmCharm composes them and as SubsysRestartProofs
\* knows them.
LEMMA SameCallers ==
  /\ SSR!Init <=> Framework!Init
  /\ SSR!Register(Modem) <=> Framework!Register(Modem)
  /\ \A c \in Contexts :
       /\ SSR!Accept(c, Modem) <=> Framework!Accept(c, Modem)
       /\ SSR!Refuse(c, Modem) <=> Framework!Refuse(c, Modem)
       /\ SSR!CallerStep(c) <=> Framework!CallerStep(c)
  BY DEF SSR!Init, SSR!Register, SSR!Accept, SSR!Refuse, SSR!CallerStep,
         SSR!MarkOngoing, SSR!Schedule, SSR!AllocFails, SSR!Asked, SSR!Panic,
         SSR!Running, SSR!InPowerupSequence, SSR!lockVars, SSR!jobVars,
         SSR!callerVars,
         Framework!Init, Framework!Register, Framework!Accept, Framework!Refuse,
         Framework!CallerStep, Framework!MarkOngoing, Framework!Schedule,
         Framework!AllocFails, Framework!Asked, Framework!Panic,
         Framework!Running, Framework!InPowerupSequence, Framework!lockVars,
         Framework!jobVars, Framework!callerVars

LEMMA SameJobs ==
  /\ SSR!PanicElsewhere <=> Framework!PanicElsewhere
  /\ \A j \in Jobs :
       /\ SSR!TakeShutdown(j) <=> Framework!TakeShutdown(j)
       /\ SSR!AlreadyShuttingDown(j) <=> Framework!AlreadyShuttingDown(j)
       /\ SSR!TakePowerup(j) <=> Framework!TakePowerup(j)
       /\ SSR!DiedDuringPowerup(j) <=> Framework!DiedDuringPowerup(j)
       /\ SSR!LockReg(j) <=> Framework!LockReg(j)
       /\ SSR!Shutdown(j) <=> Framework!Shutdown(j)
       /\ SSR!UnlockShutdown(j) <=> Framework!UnlockShutdown(j)
       /\ SSR!Ramdump(j) <=> Framework!Ramdump(j)
       /\ SSR!Powerup(j) <=> Framework!Powerup(j)
       /\ SSR!PowerupFails(j) <=> Framework!PowerupFails(j)
       /\ SSR!UnlockPowerup(j) <=> Framework!UnlockPowerup(j)
       /\ SSR!UnlockReg(j) <=> Framework!UnlockReg(j)
       /\ SSR!Finish(j) <=> Framework!Finish(j)
  BY DEF SSR!PanicElsewhere, SSR!TakeShutdown, SSR!AlreadyShuttingDown,
         SSR!TakePowerup, SSR!DiedDuringPowerup, SSR!LockReg, SSR!Shutdown,
         SSR!UnlockShutdown, SSR!Ramdump, SSR!Powerup, SSR!PowerupFails,
         SSR!UnlockPowerup, SSR!UnlockReg, SSR!Finish, SSR!Goto, SSR!Panic,
         SSR!Running, SSR!lockVars, SSR!jobVars, SSR!callerVars,
         Framework!PanicElsewhere, Framework!TakeShutdown,
         Framework!AlreadyShuttingDown, Framework!TakePowerup,
         Framework!DiedDuringPowerup, Framework!LockReg, Framework!Shutdown,
         Framework!UnlockShutdown, Framework!Ramdump, Framework!Powerup,
         Framework!PowerupFails, Framework!UnlockPowerup, Framework!UnlockReg,
         Framework!Finish, Framework!Goto, Framework!Panic, Framework!Running,
         Framework!lockVars, Framework!jobVars, Framework!callerVars

-----------------------------------------------------------------------------

\* A step of the driver is a step of the framework, or none of it.
LEMMA StepIsFrameworkStep == [Next]_vars => [Framework!Next]_(Framework!vars)
<1> DEFINE Step == [Framework!Next]_(Framework!vars)
<1> SUFFICES ASSUME [Next]_vars PROVE Step
    OBVIOUS
<1>1. ASSUME UNCHANGED ssrVars PROVE Step
  BY <1>1 DEF ssrVars, Framework!vars, Framework!lockVars, Framework!callerVars,
              Framework!jobVars
<1>2. ASSUME Local PROVE Step
  BY <1>1, <1>2 DEF Local
<1>3. ASSUME NEW c \in Contexts, Request(c) PROVE Step
  BY <1>3, SameCallers DEF Request, Framework!Next
<1>4. ASSUME NEW j \in Jobs, Framework!JobStep(j) PROVE Step
  BY <1>4 DEF Framework!Next
<1>5. CASE Create
  BY <1>5, SameCallers DEF Create, Framework!Next
<1>6. CASE FrameworkStep
  <2>1. ASSUME NEW c \in Contexts, SSR!CallerStep(c) PROVE Step
    BY <2>1, SameCallers DEF Framework!Next
  <2>2. ASSUME NEW j \in Jobs,
               \/ SSR!TakeShutdown(j) \/ SSR!AlreadyShuttingDown(j)
               \/ SSR!TakePowerup(j) \/ SSR!DiedDuringPowerup(j)
               \/ SSR!LockReg(j) \/ SSR!UnlockShutdown(j)
               \/ SSR!UnlockPowerup(j) \/ SSR!UnlockReg(j) \/ SSR!Finish(j)
        PROVE  Step
    BY <2>2, <1>4, SameJobs DEF Framework!JobStep
  <2> QED BY <1>6, <2>1, <2>2 DEF FrameworkStep
<1>7. CASE ErrfatalStep \/ StatusStep
  BY <1>7, <1>2, <1>3 DEF ErrfatalStep, ErrfatalTest, ErrfatalClear, StatusStep,
     StatusLow, StatusClear, StatusRequest, StatusUp, Contexts
<1>8. CASE CheckStep \/ ReconnectTimer
  BY <1>8, <1>2, <1>3 DEF CheckStep, CheckStatus, CheckRequest, ReconnectTimer,
     Contexts
<1>9. CASE QueueStep
  BY <1>9, <1>2, <1>3 DEF QueueStep, RunFatal, FatalRequest, RunStatus,
     RunReconnectConnected, RunReconnectSilent, NextWork, Contexts
<1>10. ASSUME NEW w \in SilentThreads, SilentStep(w) PROVE Step
  BY <1>10, <1>2, SameJobs DEF SilentStep, SilentBooted, SilentTimeout, SilentEnd,
     Framework!Next
<1>11. CASE ForceFatal \/ ForceFatalInIrq \/ ForceSilentReset \/ WaitInterrupted
  BY <1>11, <1>2, <1>3 DEF ForceFatal, ForceFatalInIrq, ForceSilentReset,
     WaitInterrupted, DaemonAt, Contexts
<1>12. CASE CallbackStep
  <2>1. CASE RamdumpDone \/ RamdumpTimeout \/ PowerupBooted \/ PowerupTimeout
    BY <2>1, <1>2 DEF RamdumpDone, RamdumpTimeout, PowerupBooted, PowerupTimeout
  <2>2. ASSUME NEW j \in Jobs,
               Shutdown(j) \/ RamdumpEnd(j) \/ RamdumpUnwanted(j) \/ PowerupEnd(j)
        PROVE  Step
    BY <2>2, <1>4, SameJobs DEF Shutdown, RamdumpEnd, RamdumpUnwanted, PowerupEnd,
       Framework!JobStep
  <2>3. ASSUME NEW j \in Jobs, RamdumpBegin(j) \/ PowerupBegin(j) PROVE Step
    BY <2>3, <1>2 DEF RamdumpBegin, PowerupBegin
  <2> QED BY <1>12, <2>1, <2>2, <2>3 DEF CallbackStep
<1>13. CASE DaemonStep
  BY <1>13, <1>2 DEF DaemonStep, DaemonAt, WakeCharm, Load, LoadFails,
     BootDoneReady, BootDoneSignal, BootDoneArm, WaitForRestart, ReadBootType,
     ResetNeedsReload, InterruptedReset, RamDumpStatus, RamDumpSignal
<1>14. CASE ModemActs \/ ModemFatal \/ ModemResets
  BY <1>14, <1>2 DEF ModemActs, ModemUp, ModemConnects, ModemFatal, ModemResets,
     ModemStep
<1>15. CASE Halted \/ Settled \/ UNCHANGED vars
  BY <1>15, <1>1 DEF Halted, Settled, vars
<1> QED
  BY <1>5, <1>6, <1>7, <1>8, <1>9, <1>10, <1>11, <1>12, <1>13, <1>14, <1>15 DEF Next

\* The driver and the framework together are a behaviour of the framework: the
\* driver asks for restarts and returns from callbacks, and nothing else
\* (the calls at mdm_common.c:220, :378, :426, :637 and :654-726).
THEOREM UsesFramework == SafeSpec => Framework!SafeSpec
<1>1. Init => Framework!Init
  BY SameCallers DEF Init
<1> QED BY <1>1, StepIsFrameworkStep, PTL DEF SafeSpec, Framework!SafeSpec

\* Hence at most one restart of the modem at a time holds each lock, whatever
\* interrupts, works, timers and ioctls ask for one.
THEOREM ModemExclusion == SafeSpec => []Framework!IInv
<1>1. FALSE \in BOOLEAN
  OBVIOUS
<1>2. Framework!SafeSpec => []Framework!IInv
  BY <1>1, Framework!Inductive
<1> QED BY <1>2, UsesFramework, PTL

-----------------------------------------------------------------------------

\* A job that waits in a callback of the driver is where it was, with the
\* registration lock, after any step of the framework alone.
LEMMA FrameworkKeepsCallback ==
  Framework!IInv /\ CallbackHasJob /\ FrameworkStep => CallbackHasJob'
<1> SUFFICES ASSUME Framework!IInv, CallbackHasJob, FrameworkStep
             PROVE  CallbackHasJob'
    OBVIOUS
<1>1. cb' = cb
  BY DEF FrameworkStep, mdmVars
<1>2. ASSUME NEW k \in Jobs, jobAt[k] \in {"ramdump", "powerup"}, regLock = k
      PROVE  jobAt'[k] = jobAt[k] /\ regLock' = k
  <2> USE DEF Framework!IInv, Framework!TypeOK, Framework!LockInv,
              Framework!OwnInv, Framework!HoldsReg, Framework!Sequence,
              Framework!callerVars, Framework!jobVars, Framework!lockVars,
              Framework!Goto, Framework!Panic
  <2>1. ASSUME NEW c \in Contexts, Framework!CallerStep(c)
        PROVE  jobAt'[k] = jobAt[k] /\ regLock' = k
    BY <1>2, <2>1 DEF Framework!CallerStep, Framework!MarkOngoing,
       Framework!AllocFails, Framework!Schedule
  <2>2. ASSUME NEW j \in Jobs, Framework!LockReg(j) \/ Framework!UnlockReg(j)
        PROVE  jobAt'[k] = jobAt[k] /\ regLock' = k
    BY <1>2, <2>2 DEF Framework!LockReg, Framework!UnlockReg
  <2>3. ASSUME NEW j \in Jobs,
               \/ Framework!TakeShutdown(j) \/ Framework!AlreadyShuttingDown(j)
               \/ Framework!TakePowerup(j) \/ Framework!DiedDuringPowerup(j)
        PROVE  jobAt'[k] = jobAt[k] /\ regLock' = k
    BY <1>2, <2>3 DEF Framework!TakeShutdown, Framework!AlreadyShuttingDown,
       Framework!TakePowerup, Framework!DiedDuringPowerup
  <2>4. ASSUME NEW j \in Jobs,
               \/ Framework!UnlockShutdown(j) \/ Framework!UnlockPowerup(j)
               \/ Framework!Finish(j)
        PROVE  jobAt'[k] = jobAt[k] /\ regLock' = k
    BY <1>2, <2>4 DEF Framework!UnlockShutdown, Framework!UnlockPowerup,
       Framework!Finish
  <2> QED BY <2>1, <2>2, <2>3, <2>4, SameCallers, SameJobs DEF FrameworkStep
<1> QED BY <1>1, <1>2 DEF CallbackHasJob

\* The driver enters a callback on the job that the framework runs there, and
\* is out of it when that job goes on.
LEMMA CallbackHasJobStep ==
  Framework!IInv /\ CallbackHasJob /\ [Next]_vars => CallbackHasJob'
<1> SUFFICES ASSUME Framework!IInv, CallbackHasJob, [Next]_vars
             PROVE  CallbackHasJob'
    OBVIOUS
<1>1. ASSUME UNCHANGED <<cb, jobAt, regLock>> PROVE CallbackHasJob'
  BY <1>1 DEF CallbackHasJob
<1>2. ASSUME Local, cb' = cb PROVE CallbackHasJob'
  BY <1>1, <1>2 DEF Local, ssrVars
<1>3. ASSUME NEW c \in Contexts, Request(c), cb' = cb PROVE CallbackHasJob'
  BY <1>1, <1>3, SameCallers DEF Request, Framework!Accept, Framework!Refuse,
     Framework!jobVars, Framework!lockVars
<1>4. CASE Create
  BY <1>1, <1>4, SameCallers DEF Create, mdmVars, Framework!Register,
     Framework!jobVars
<1>5. CASE FrameworkStep
  BY <1>5, FrameworkKeepsCallback
<1>6. CASE ErrfatalStep \/ StatusStep
  BY <1>6, <1>2, <1>3 DEF ErrfatalStep, ErrfatalTest, ErrfatalClear, StatusStep,
     StatusLow, StatusClear, StatusRequest, StatusUp, Contexts
<1>7. CASE CheckStep \/ ReconnectTimer
  BY <1>7, <1>2, <1>3 DEF CheckStep, CheckStatus, CheckRequest, ReconnectTimer,
     Contexts
<1>8. CASE QueueStep
  BY <1>8, <1>2, <1>3 DEF QueueStep, RunFatal, FatalRequest, RunStatus,
     RunReconnectConnected, RunReconnectSilent, NextWork, Contexts
<1>9. ASSUME NEW w \in SilentThreads, SilentStep(w) PROVE CallbackHasJob'
  <2>1. CASE SilentBooted(w) \/ SilentEnd(w)
    BY <2>1, <1>2 DEF SilentBooted, SilentEnd
  <2>2. CASE SilentTimeout(w)
    BY <2>2, <1>1, SameJobs DEF SilentTimeout, mdmVars, Framework!PanicElsewhere,
       Framework!Panic, Framework!lockVars, Framework!jobVars
  <2> QED BY <1>9, <2>1, <2>2 DEF SilentStep
<1>10. CASE ForceFatal \/ ForceFatalInIrq \/ ForceSilentReset \/ WaitInterrupted
  BY <1>10, <1>2, <1>3 DEF ForceFatal, ForceFatalInIrq, ForceSilentReset,
     WaitInterrupted, DaemonAt, Contexts
<1>11. CASE CallbackStep
  <2> USE DEF Framework!IInv, Framework!TypeOK, Framework!LockInv,
              Framework!OwnInv, Framework!HoldsReg, Framework!Sequence,
              Framework!lockVars, Framework!Goto, Framework!Panic
  <2>1. CASE RamdumpDone \/ RamdumpTimeout \/ PowerupBooted \/ PowerupTimeout
    BY <2>1 DEF RamdumpDone, RamdumpTimeout, PowerupBooted, PowerupTimeout,
       Local, ssrVars, CallbackHasJob
  <2>2. ASSUME NEW j \in Jobs, Shutdown(j) PROVE CallbackHasJob'
    BY <2>2, SameJobs DEF Shutdown, Framework!Shutdown, CallbackHasJob
  <2>3. ASSUME NEW j \in Jobs, RamdumpBegin(j) \/ PowerupBegin(j)
        PROVE  CallbackHasJob'
    BY <2>3 DEF RamdumpBegin, PowerupBegin, Local, ssrVars, CallbackHasJob
  <2>4. ASSUME NEW j \in Jobs, RamdumpEnd(j) \/ RamdumpUnwanted(j) \/ PowerupEnd(j)
        PROVE  CallbackHasJob'
    BY <2>4 DEF RamdumpEnd, RamdumpUnwanted, PowerupEnd, CallbackHasJob
  <2> QED BY <1>11, <2>1, <2>2, <2>3, <2>4 DEF CallbackStep
<1>12. CASE DaemonStep
  BY <1>12, <1>2 DEF DaemonStep, DaemonAt, WakeCharm, Load, LoadFails,
     BootDoneReady, BootDoneSignal, BootDoneArm, WaitForRestart, ReadBootType,
     ResetNeedsReload, InterruptedReset, RamDumpStatus, RamDumpSignal
<1>13. CASE ModemActs \/ ModemFatal \/ ModemResets
  BY <1>13, <1>2 DEF ModemActs, ModemUp, ModemConnects, ModemFatal, ModemResets,
     ModemStep
<1>14. CASE Halted \/ Settled \/ UNCHANGED vars
  BY <1>14, <1>1 DEF Halted, Settled, vars, ssrVars, mdmVars
<1> QED
  BY <1>4, <1>5, <1>6, <1>7, <1>8, <1>9, <1>10, <1>11, <1>12, <1>13, <1>14
  DEF Next

\* The driver's callbacks never run on two threads at once, although requests
\* come from interrupts, mdm_queue, timers and ioctls and the driver has no lock
\* (mdm_common.c:654-726).
THEOREM CallbacksExclusive == SafeSpec => []CallbackHasJob
<1>1. Init => CallbackHasJob
  BY DEF Init, CallbackHasJob
<1> QED BY <1>1, CallbackHasJobStep, ModemExclusion, PTL DEF SafeSpec

-----------------------------------------------------------------------------
(***************************************************************************)
(* The types of the driver's variables.                                    *)
(***************************************************************************)
DrvSet == [ready : BOOLEAN, bootType : {"normal", "dump"}, firstBoot : BOOLEAN,
           bootStatus : {"ok", "io", "timeout"}, dumpStatus : {"ok", "io", "timeout"}]
HistSet == [booted : BOOLEAN, dumped : BOOLEAN, crashed : BOOLEAN, mixed : BOOLEAN]

DrvType == drv \in DrvSet
DoneType == done \in [reload : 0..MaxCount, boot : 0..MaxCount, dump : 0..MaxCount]
DaemonType ==
  daemon \in [at : {"start", "load", "report", "signal", "arm", "wait", "read",
                    "reset", "interrupted", "dump", "dumped"},
              type : {"normal", "dump"}, ok : BOOLEAN]
HistType == hist \in HistSet
IrqSet == [err : {"none", "pending", "clear"}, edge : BOOLEAN,
           thread : {"idle", "clear", "request"}]
IrqType == irq \in IrqSet
SilentType == silent \in [SilentThreads -> {"no", "wait", "init"}]
CheckType == check \in [due : BOOLEAN, running : BOOLEAN]
CbType == cb \in {"none", "dump", "dumpInit", "boot", "bootInit"}
ModemType ==
  /\ modem \in {"off", "rom", "loaded", "up", "fatal"}
  /\ connected \in BOOLEAN
  /\ bootWake \in BOOLEAN
BoundType == bound \in [faults : 0..MaxFaults, forces : 0..MaxForces]

\* mdm_queue holds each work at most once: queue_work adds none that is pending.
Distinct(q) == \A i, k \in 1..Len(q) : q[i] = q[k] => i = k
WqType ==
  /\ wq \in [queue : Seq(Works), worker : {"idle", "request", "silent"},
            reconnect : BOOLEAN]
  /\ Distinct(wq.queue)

LEMMA EnqueueDistinct ==
  ASSUME NEW q \in Seq(Works), Distinct(q), NEW w \in Works
  PROVE  Enqueue(q, w) \in Seq(Works) /\ Distinct(Enqueue(q, w))
<1>1. CASE Pending(q, w)
  BY <1>1 DEF Enqueue
<1>2. CASE ~Pending(q, w)
  <2>1. Enqueue(q, w) = Append(q, w) /\ \A i \in 1..Len(q) : q[i] # w
    BY <1>2 DEF Enqueue, Pending
  <2>2. /\ Append(q, w) \in Seq(Works) /\ Len(Append(q, w)) = Len(q) + 1
        /\ Append(q, w)[Len(q) + 1] = w
        /\ \A i \in 1..Len(q) : Append(q, w)[i] = q[i]
    OBVIOUS
  <2> QED BY <2>1, <2>2 DEF Distinct
<1> QED BY <1>1, <1>2

LEMMA TailDistinct ==
  ASSUME NEW q \in Seq(Works), Distinct(q), q # <<>>
  PROVE  Tail(q) \in Seq(Works) /\ Distinct(Tail(q))
<1>1. /\ Tail(q) \in Seq(Works) /\ Len(Tail(q)) = Len(q) - 1
      /\ \A i \in 1..(Len(q) - 1) : Tail(q)[i] = q[i + 1]
  OBVIOUS
<1>2. ASSUME NEW i \in 1..Len(Tail(q)), NEW k \in 1..Len(Tail(q)), Tail(q)[i] = Tail(q)[k]
      PROVE  i = k
  <2>1. i + 1 \in 1..Len(q) /\ k + 1 \in 1..Len(q) /\ q[i + 1] = q[k + 1]
    BY <1>1, <1>2
  <2>2. i + 1 = k + 1
    BY <2>1 DEF Distinct
  <2> QED BY <2>2
<1> QED BY <1>1, <1>2 DEF Distinct

\* Three works: the queue is never longer than that.
LEMMA QueueBounded ==
  ASSUME NEW q \in Seq(Works), Distinct(q)
  PROVE  q \in UNION {[1..n -> Works] : n \in 0..3}
<1>1. Len(q) \in Nat /\ q \in [1..Len(q) -> Works]
  OBVIOUS
<1>2. Len(q) <= 3
  <2> SUFFICES ASSUME Len(q) > 3 PROVE FALSE
    BY <1>1
  <2>1. 1 \in 1..Len(q) /\ 2 \in 1..Len(q) /\ 3 \in 1..Len(q) /\ 4 \in 1..Len(q)
    BY <1>1
  <2>2. /\ q[1] # q[2] /\ q[1] # q[3] /\ q[1] # q[4]
        /\ q[2] # q[3] /\ q[2] # q[4] /\ q[3] # q[4]
    BY <2>1 DEF Distinct
  <2> QED BY <1>1, <2>1, <2>2 DEF Works
<1>3. Len(q) \in 0..3
  BY <1>1, <1>2
<1> QED BY <1>1, <1>3

LEMMA DrvChanged ==
  ASSUME NEW d \in DrvSet
  PROVE  /\ \A b \in BOOLEAN : /\ [d EXCEPT !.ready = b] \in DrvSet
                              /\ [d EXCEPT !.firstBoot = b] \in DrvSet
         /\ \A t \in {"normal", "dump"} : [d EXCEPT !.bootType = t] \in DrvSet
         /\ \A st \in {"ok", "io", "timeout"} : /\ [d EXCEPT !.bootStatus = st] \in DrvSet
                                               /\ [d EXCEPT !.dumpStatus = st] \in DrvSet
  BY DEF DrvSet

LEMMA DrvTyped == DrvType /\ [Next]_vars => DrvType'
<1> SUFFICES ASSUME DrvType, [Next]_vars PROVE DrvType'
  OBVIOUS
<1> USE DEF DrvType
<1>1. CASE ErrfatalClear \/ StatusClear \/ CheckStatus
  BY <1>1, DrvChanged DEF ErrfatalClear, StatusClear, CheckStatus
<1>2. CASE RunReconnectSilent \/ ForceSilentReset
  <2>1. drv' = [[drv EXCEPT !.ready = FALSE] EXCEPT !.bootType = "normal"]
    BY <1>2 DEF RunReconnectSilent, ForceSilentReset, SilentBegin
  <2> QED BY <2>1, DrvChanged
<1>3. CASE \E j \in Jobs : RamdumpBegin(j)
  <2>1. drv' = [[drv EXCEPT !.bootType = "dump"] EXCEPT !.dumpStatus = "ok"]
    BY <1>3 DEF RamdumpBegin
  <2> QED BY <2>1, DrvChanged
<1>4. CASE \/ RamdumpDone \/ RamdumpTimeout \/ PowerupTimeout \/ RamDumpStatus
           \/ \E j \in Jobs : RamdumpUnwanted(j) \/ PowerupBegin(j)
  BY <1>4, DrvChanged DEF RamdumpDone, RamdumpTimeout, PowerupTimeout, RamDumpStatus,
     RamdumpUnwanted, PowerupBegin
<1>5. CASE BootDoneReady
  <2>1. drv' = [[drv EXCEPT !.bootStatus = IF daemon.ok THEN "ok" ELSE "io"] EXCEPT !.ready = TRUE]
    BY <1>5 DEF BootDoneReady
  <2> QED BY <2>1, DrvChanged
<1>6. CASE BootDoneSignal
  BY <1>6, DrvChanged DEF BootDoneSignal
<1>7. CASE \/ Create \/ FrameworkStep \/ ErrfatalTest \/ StatusLow \/ StatusRequest
           \/ StatusUp \/ CheckRequest \/ RunFatal \/ FatalRequest
           \/ RunStatus \/ ReconnectTimer \/ RunReconnectConnected
           \/ \E w \in SilentThreads : SilentBooted(w)
  BY <1>7 DEF Create, FrameworkStep, ErrfatalTest, StatusLow, StatusRequest, StatusUp
     , CheckRequest, RunFatal, FatalRequest, RunStatus, ReconnectTimer
     , RunReconnectConnected, SilentBooted, mdmVars
<1>8. CASE \/ ForceFatal \/ ForceFatalInIrq \/ WaitInterrupted \/ PowerupBooted
           \/ WakeCharm \/ Load \/ LoadFails \/ BootDoneArm
           \/ \E w \in SilentThreads : SilentTimeout(w) \/ SilentEnd(w)
           \/ \E j \in Jobs : Shutdown(j) \/ RamdumpEnd(j) \/ PowerupEnd(j)
  BY <1>8 DEF SilentTimeout, SilentEnd, ForceFatal, ForceFatalInIrq, WaitInterrupted
     , Shutdown, RamdumpEnd, PowerupBooted, PowerupEnd, WakeCharm, Load, LoadFails
     , BootDoneArm, mdmVars
<1>9. CASE \/ WaitForRestart \/ ReadBootType \/ ResetNeedsReload \/ InterruptedReset
           \/ RamDumpSignal \/ ModemUp \/ ModemConnects \/ ModemFatal
           \/ ModemResets \/ Halted \/ Settled \/ UNCHANGED vars
  BY <1>9 DEF WaitForRestart, ReadBootType, ResetNeedsReload, InterruptedReset
     , RamDumpSignal, ModemUp, ModemConnects, ModemFatal, ModemResets, Halted, Settled
     , ModemStep, vars, mdmVars
<1> QED
  BY <1>1, <1>2, <1>3, <1>4, <1>5, <1>6, <1>7, <1>8, <1>9
  DEF Next, ErrfatalStep, StatusStep, CheckStep, QueueStep, SilentStep, CallbackStep,
     DaemonStep, ModemActs

LEMMA DoneTyped == DoneType /\ [Next]_vars => DoneType'
<1> SUFFICES ASSUME DoneType, [Next]_vars PROVE DoneType'
  OBVIOUS
<1> USE DEF DoneType
<1>1. done.reload \in 0..MaxCount /\ done.boot \in 0..MaxCount /\ done.dump \in 0..MaxCount
  OBVIOUS
<1>2. \A n \in 0..MaxCount : Count(n) \in 0..MaxCount /\ (n > 0 => n - 1 \in 0..MaxCount)
  BY BoundsAreNat DEF Count
<1>3. 0 \in 0..MaxCount
  BY BoundsAreNat
<1>4. CASE \/ RunReconnectSilent \/ ForceSilentReset
           \/ \E j \in Jobs : RamdumpBegin(j) \/ PowerupBegin(j)
  BY <1>1, <1>2, <1>4 DEF RunReconnectSilent, ForceSilentReset, SilentBegin, RamdumpBegin,
     PowerupBegin
<1>5. CASE RamdumpDone \/ PowerupBooted \/ WaitForRestart \/ \E w \in SilentThreads : SilentBooted(w)
  BY <1>1, <1>2, <1>5 DEF RamdumpDone, PowerupBooted, WaitForRestart, SilentBooted
<1>6. CASE \/ ResetNeedsReload \/ InterruptedReset
           \/ \E w \in SilentThreads : SilentEnd(w)
           \/ \E j \in Jobs : RamdumpEnd(j) \/ PowerupEnd(j)
  BY <1>3, <1>6 DEF ResetNeedsReload, InterruptedReset, SilentEnd, RamdumpEnd, PowerupEnd
<1>7. CASE BootDoneSignal \/ RamDumpSignal
  BY <1>1, <1>2, <1>7 DEF BootDoneSignal, RamDumpSignal
<1>8. CASE \/ Create \/ FrameworkStep \/ ErrfatalTest \/ ErrfatalClear \/ StatusLow
           \/ StatusClear \/ StatusRequest \/ StatusUp \/ CheckStatus
           \/ CheckRequest \/ RunFatal \/ FatalRequest \/ RunStatus
  BY <1>8 DEF Create, FrameworkStep, ErrfatalTest, ErrfatalClear, StatusLow, StatusClear
     , StatusRequest, StatusUp, CheckStatus, CheckRequest, RunFatal, FatalRequest, RunStatus
     , mdmVars
<1>9. CASE \/ ReconnectTimer \/ RunReconnectConnected \/ ForceFatal \/ ForceFatalInIrq
           \/ WaitInterrupted \/ RamdumpTimeout \/ PowerupTimeout
           \/ WakeCharm \/ Load \/ LoadFails
           \/ \E w \in SilentThreads : SilentTimeout(w)
           \/ \E j \in Jobs : Shutdown(j) \/ RamdumpUnwanted(j)
  BY <1>9 DEF ReconnectTimer, RunReconnectConnected, SilentTimeout, ForceFatal
     , ForceFatalInIrq, WaitInterrupted, Shutdown, RamdumpTimeout, RamdumpUnwanted
     , PowerupTimeout, WakeCharm, Load, LoadFails, mdmVars
<1>10. CASE \/ BootDoneReady \/ BootDoneArm \/ ReadBootType \/ RamDumpStatus
            \/ ModemUp \/ ModemConnects \/ ModemFatal \/ ModemResets
            \/ Halted \/ Settled \/ UNCHANGED vars
  BY <1>10 DEF BootDoneReady, BootDoneArm, ReadBootType, RamDumpStatus, ModemUp
     , ModemConnects, ModemFatal, ModemResets, Halted, Settled, ModemStep, vars, mdmVars
<1> QED
  BY <1>1, <1>2, <1>3, <1>4, <1>5, <1>6, <1>7, <1>8, <1>9, <1>10
  DEF Next, ErrfatalStep, StatusStep, CheckStep, QueueStep, SilentStep, CallbackStep,
     DaemonStep, ModemActs

LEMMA DaemonTyped == DrvType /\ DaemonType /\ [Next]_vars => DaemonType'
<1> SUFFICES ASSUME DrvType, DaemonType, [Next]_vars PROVE DaemonType'
  OBVIOUS
<1> USE DEF DaemonType
<1>1. CASE WakeCharm \/ LoadFails \/ BootDoneReady \/ BootDoneSignal \/ BootDoneArm
  BY <1>1 DEF WakeCharm, LoadFails, BootDoneReady, BootDoneSignal, BootDoneArm
<1>2. CASE Load
  BY <1>2 DEF Load
<1>3. CASE WaitForRestart \/ WaitInterrupted \/ InterruptedReset \/ RamDumpStatus \/ RamDumpSignal
  BY <1>3 DEF WaitForRestart, WaitInterrupted, InterruptedReset, RamDumpStatus, RamDumpSignal
<1>4. CASE ReadBootType \/ ResetNeedsReload
  BY <1>4 DEF ReadBootType, ResetNeedsReload, DrvType, DrvSet
<1>5. CASE \/ Create \/ FrameworkStep \/ ErrfatalTest \/ ErrfatalClear \/ StatusLow
           \/ StatusClear \/ StatusRequest \/ StatusUp \/ CheckStatus
           \/ CheckRequest \/ RunFatal \/ FatalRequest \/ RunStatus
  BY <1>5 DEF Create, FrameworkStep, ErrfatalTest, ErrfatalClear, StatusLow, StatusClear
     , StatusRequest, StatusUp, CheckStatus, CheckRequest, RunFatal, FatalRequest, RunStatus
     , mdmVars
<1>6. CASE \/ ReconnectTimer \/ RunReconnectConnected \/ RunReconnectSilent
           \/ ForceFatal \/ ForceFatalInIrq \/ ForceSilentReset
           \/ RamdumpDone \/ RamdumpTimeout
           \/ \E w \in SilentThreads : SilentBooted(w) \/ SilentTimeout(w) \/ SilentEnd(w)
           \/ \E j \in Jobs : Shutdown(j) \/ RamdumpBegin(j)
  BY <1>6 DEF ReconnectTimer, RunReconnectConnected, RunReconnectSilent, SilentBooted
     , SilentTimeout, SilentEnd, ForceFatal, ForceFatalInIrq, ForceSilentReset, Shutdown
     , RamdumpBegin, RamdumpDone, RamdumpTimeout, mdmVars
<1>7. CASE \/ PowerupBooted \/ PowerupTimeout \/ ModemUp \/ ModemConnects
           \/ ModemFatal \/ ModemResets \/ Halted \/ Settled
           \/ UNCHANGED vars
           \/ \E j \in Jobs : RamdumpEnd(j) \/ RamdumpUnwanted(j) \/ PowerupBegin(j)
                             \/ PowerupEnd(j)
  BY <1>7 DEF RamdumpEnd, RamdumpUnwanted, PowerupBegin, PowerupBooted, PowerupTimeout
     , PowerupEnd, ModemUp, ModemConnects, ModemFatal, ModemResets, Halted, Settled
     , ModemStep, vars, mdmVars
<1> QED
  BY <1>1, <1>2, <1>3, <1>4, <1>5, <1>6, <1>7
  DEF Next, ErrfatalStep, StatusStep, CheckStep, QueueStep, SilentStep, CallbackStep,
     DaemonStep, ModemActs

LEMMA HistTyped == DaemonType /\ HistType /\ [Next]_vars => HistType'
<1> SUFFICES ASSUME DaemonType, HistType, [Next]_vars PROVE HistType'
  OBVIOUS
<1> USE DEF HistType
<1>1. \A b \in BOOLEAN : /\ [hist EXCEPT !.booted = b] \in HistSet /\ [hist EXCEPT !.dumped = b] \in HistSet
                         /\ [hist EXCEPT !.crashed = b] \in HistSet /\ [hist EXCEPT !.mixed = b] \in HistSet
  BY DEF HistSet
<1>2. CASE RunReconnectSilent \/ ForceSilentReset
  <2>1. (hist.mixed \/ Restarting \/ Reloading) \in BOOLEAN
    OBVIOUS
  <2> QED BY <1>1, <1>2, <2>1 DEF RunReconnectSilent, ForceSilentReset, SilentBegin
<1>3. CASE Load \/ RamdumpTimeout \/ PowerupTimeout \/ RamDumpSignal \/ \E j \in Jobs : Shutdown(j)
  BY <1>1, <1>3 DEF Load, RamdumpTimeout, PowerupTimeout, RamDumpSignal, Shutdown
<1>4. CASE \E j \in Jobs : RamdumpBegin(j) \/ PowerupBegin(j)
  <2>1. (hist.mixed \/ Reloading) \in BOOLEAN
    OBVIOUS
  <2>2. CASE \E j \in Jobs : RamdumpBegin(j)
    <3>1. hist' = [[hist EXCEPT !.dumped = FALSE] EXCEPT !.mixed = @ \/ Reloading]
      BY <2>2 DEF RamdumpBegin
    <3>2. hist' = [[hist EXCEPT !.mixed = @ \/ Reloading] EXCEPT !.dumped = FALSE]
      BY <3>1 DEF HistSet
    <3> QED BY <2>1, <3>2 DEF HistSet
  <2>3. CASE \E j \in Jobs : PowerupBegin(j)
    <3>1. hist' = [[hist EXCEPT !.booted = FALSE] EXCEPT !.mixed = @ \/ Reloading]
      BY <2>3 DEF PowerupBegin
    <3>2. hist' = [[hist EXCEPT !.mixed = @ \/ Reloading] EXCEPT !.booted = FALSE]
      BY <3>1 DEF HistSet
    <3> QED BY <2>1, <3>2 DEF HistSet
  <2> QED BY <1>4, <2>2, <2>3
<1>5. CASE BootDoneSignal
  BY <1>1, <1>5 DEF BootDoneSignal, DaemonType
<1>6. CASE ModemFatal \/ ModemResets
  <2>1. (hist.crashed \/ (drv.ready /\ ~Restarting)) \in BOOLEAN
    OBVIOUS
  <2> QED BY <1>1, <1>6, <2>1 DEF ModemFatal, ModemResets, Fault
<1>7. CASE \/ Create \/ FrameworkStep \/ ErrfatalTest \/ ErrfatalClear \/ StatusLow
           \/ StatusClear \/ StatusRequest \/ StatusUp \/ CheckStatus
           \/ CheckRequest \/ RunFatal \/ FatalRequest \/ RunStatus
  BY <1>7 DEF Create, FrameworkStep, ErrfatalTest, ErrfatalClear, StatusLow, StatusClear
     , StatusRequest, StatusUp, CheckStatus, CheckRequest, RunFatal, FatalRequest, RunStatus
     , mdmVars, countVars
<1>8. CASE \/ ReconnectTimer \/ RunReconnectConnected \/ ForceFatal \/ ForceFatalInIrq
           \/ WaitInterrupted \/ RamdumpDone \/ PowerupBooted
           \/ \E w \in SilentThreads : SilentBooted(w) \/ SilentTimeout(w) \/ SilentEnd(w)
           \/ \E j \in Jobs : RamdumpEnd(j) \/ RamdumpUnwanted(j) \/ PowerupEnd(j)
  BY <1>8 DEF ReconnectTimer, RunReconnectConnected, SilentBooted, SilentTimeout, SilentEnd
     , ForceFatal, ForceFatalInIrq, WaitInterrupted, RamdumpDone, RamdumpEnd
     , RamdumpUnwanted, PowerupBooted, PowerupEnd, mdmVars, countVars
<1>9. CASE \/ WakeCharm \/ LoadFails \/ BootDoneReady \/ BootDoneArm \/ WaitForRestart
           \/ ReadBootType \/ ResetNeedsReload \/ InterruptedReset
           \/ RamDumpStatus \/ ModemUp \/ ModemConnects \/ Halted
           \/ Settled
  BY <1>9 DEF WakeCharm, LoadFails, BootDoneReady, BootDoneArm, WaitForRestart, ReadBootType
     , ResetNeedsReload, InterruptedReset, RamDumpStatus, ModemUp, ModemConnects, Halted
     , Settled, ModemStep, vars, mdmVars, countVars
<1>10. CASE UNCHANGED vars
  BY <1>10 DEF vars, mdmVars, countVars
<1> QED
  BY <1>1, <1>2, <1>3, <1>4, <1>5, <1>6, <1>7, <1>8, <1>9, <1>10
  DEF Next, ErrfatalStep, StatusStep, CheckStep, QueueStep, SilentStep, CallbackStep,
     DaemonStep, ModemActs

LEMMA WqTyped == WqType /\ [Next]_vars => WqType'
<1> SUFFICES ASSUME WqType, [Next]_vars PROVE WqType'
  OBVIOUS
<1> USE DEF WqType
<1>1. /\ wq.queue \in Seq(Works) /\ Distinct(wq.queue)
      /\ wq.worker \in {"idle", "request", "silent"} /\ wq.reconnect \in BOOLEAN
      /\ wq = [queue |-> wq.queue, worker |-> wq.worker, reconnect |-> wq.reconnect]
  OBVIOUS
<1>2. \A w \in Works : Enqueue(wq.queue, w) \in Seq(Works) /\ Distinct(Enqueue(wq.queue, w))
  BY <1>1, EnqueueDistinct
<1>3. wq.queue # <<>> => Tail(wq.queue) \in Seq(Works) /\ Distinct(Tail(wq.queue))
  BY <1>1, TailDistinct
<1>4. CASE ErrfatalClear \/ StatusUp \/ ForceFatalInIrq
  BY <1>1, <1>2, <1>4 DEF ErrfatalClear, StatusUp, ForceFatalInIrq, Works
<1>5. CASE RunFatal \/ RunReconnectConnected \/ RunReconnectSilent
  BY <1>1, <1>3, <1>5 DEF RunFatal, RunReconnectConnected, RunReconnectSilent, NextWork
<1>6. CASE RunStatus
  <2>1. (wq.reconnect \/ (StatusHigh /\ ~Pending(wq.queue, "reconnect"))) \in BOOLEAN
    BY <1>1
  <2> QED BY <1>1, <1>3, <1>6, <2>1 DEF RunStatus, NextWork
<1>7. CASE ReconnectTimer
  BY <1>1, <1>2, <1>7 DEF ReconnectTimer, Works
<1>8. CASE FatalRequest \/ \E w \in SilentThreads : SilentEnd(w)
  BY <1>1, <1>8 DEF FatalRequest, SilentEnd
<1>9. CASE \/ Create \/ FrameworkStep \/ ErrfatalTest \/ StatusLow \/ StatusClear
           \/ StatusRequest \/ CheckStatus \/ CheckRequest \/ ForceFatal
           \/ ForceSilentReset \/ WaitInterrupted
           \/ \E w \in SilentThreads : SilentBooted(w) \/ SilentTimeout(w)
  BY <1>9 DEF Create, FrameworkStep, ErrfatalTest, StatusLow, StatusClear, StatusRequest
     , CheckStatus, CheckRequest, SilentBooted, SilentTimeout, ForceFatal, ForceSilentReset
     , WaitInterrupted, mdmVars, threadVars
<1>10. CASE \/ RamdumpDone \/ RamdumpTimeout \/ PowerupBooted \/ PowerupTimeout
            \/ WakeCharm \/ Load \/ LoadFails
            \/ \E j \in Jobs : Shutdown(j) \/ RamdumpBegin(j) \/ RamdumpEnd(j)
                              \/ RamdumpUnwanted(j) \/ PowerupBegin(j)
                              \/ PowerupEnd(j)
  BY <1>10 DEF Shutdown, RamdumpBegin, RamdumpDone, RamdumpTimeout, RamdumpEnd
     , RamdumpUnwanted, PowerupBegin, PowerupBooted, PowerupTimeout, PowerupEnd, WakeCharm
     , Load, LoadFails, mdmVars, threadVars
<1>11. CASE \/ BootDoneReady \/ BootDoneSignal \/ BootDoneArm \/ WaitForRestart
            \/ ReadBootType \/ ResetNeedsReload \/ InterruptedReset
            \/ RamDumpStatus \/ RamDumpSignal \/ ModemUp \/ ModemConnects
            \/ ModemFatal \/ ModemResets
  BY <1>11 DEF BootDoneReady, BootDoneSignal, BootDoneArm, WaitForRestart, ReadBootType
     , ResetNeedsReload, InterruptedReset, RamDumpStatus, RamDumpSignal, ModemUp
     , ModemConnects, ModemFatal, ModemResets, ModemStep, mdmVars, threadVars
<1>12. CASE Halted \/ Settled \/ UNCHANGED vars
  BY <1>12 DEF Halted, Settled, vars, mdmVars, threadVars
<1> QED
  BY <1>4, <1>5, <1>6, <1>7, <1>8, <1>9, <1>10, <1>11, <1>12
  DEF Next, ErrfatalStep, StatusStep, CheckStep, QueueStep, SilentStep, CallbackStep,
     DaemonStep, ModemActs

LEMMA SilentTyped == SilentType /\ [Next]_vars => SilentType'
<1> SUFFICES ASSUME SilentType, [Next]_vars PROVE SilentType'
  OBVIOUS
<1> USE DEF SilentType
<1>1. CASE \/ RunReconnectSilent \/ ForceSilentReset
           \/ \E w \in SilentThreads : SilentBooted(w) \/ SilentEnd(w)
  BY <1>1 DEF RunReconnectSilent, ForceSilentReset, SilentBegin, SilentBooted, SilentEnd
<1>2. CASE \/ Create \/ FrameworkStep \/ ErrfatalTest \/ ErrfatalClear \/ StatusLow
           \/ StatusClear \/ StatusRequest \/ StatusUp \/ CheckStatus
           \/ CheckRequest \/ RunFatal \/ FatalRequest \/ RunStatus
  BY <1>2 DEF Create, FrameworkStep, ErrfatalTest, ErrfatalClear, StatusLow, StatusClear
     , StatusRequest, StatusUp, CheckStatus, CheckRequest, RunFatal, FatalRequest, RunStatus
     , mdmVars, threadVars
<1>3. CASE \/ ReconnectTimer \/ RunReconnectConnected \/ ForceFatal \/ ForceFatalInIrq
           \/ WaitInterrupted \/ RamdumpDone \/ RamdumpTimeout
           \/ \E w \in SilentThreads : SilentTimeout(w)
           \/ \E j \in Jobs : Shutdown(j) \/ RamdumpBegin(j) \/ RamdumpEnd(j)
                             \/ RamdumpUnwanted(j) \/ PowerupBegin(j)
  BY <1>3 DEF ReconnectTimer, RunReconnectConnected, SilentTimeout, ForceFatal
     , ForceFatalInIrq, WaitInterrupted, Shutdown, RamdumpBegin, RamdumpDone, RamdumpTimeout
     , RamdumpEnd, RamdumpUnwanted, PowerupBegin, mdmVars, threadVars
<1>4. CASE \/ PowerupBooted \/ PowerupTimeout \/ WakeCharm \/ Load \/ LoadFails
           \/ BootDoneReady \/ BootDoneSignal \/ BootDoneArm
           \/ WaitForRestart \/ ReadBootType \/ ResetNeedsReload
           \/ InterruptedReset
           \/ \E j \in Jobs : PowerupEnd(j)
  BY <1>4 DEF PowerupBooted, PowerupTimeout, PowerupEnd, WakeCharm, Load, LoadFails
     , BootDoneReady, BootDoneSignal, BootDoneArm, WaitForRestart, ReadBootType
     , ResetNeedsReload, InterruptedReset, mdmVars, threadVars
<1>5. CASE \/ RamDumpStatus \/ RamDumpSignal \/ ModemUp \/ ModemConnects \/ ModemFatal
           \/ ModemResets \/ Halted \/ Settled \/ UNCHANGED vars
  BY <1>5 DEF RamDumpStatus, RamDumpSignal, ModemUp, ModemConnects, ModemFatal, ModemResets
     , Halted, Settled, ModemStep, vars, mdmVars, threadVars
<1> QED
  BY <1>1, <1>2, <1>3, <1>4, <1>5
  DEF Next, ErrfatalStep, StatusStep, CheckStep, QueueStep, SilentStep, CallbackStep,
     DaemonStep, ModemActs

LEMMA CheckTyped == CheckType /\ [Next]_vars => CheckType'
<1> SUFFICES ASSUME CheckType, [Next]_vars PROVE CheckType'
  OBVIOUS
<1> USE DEF CheckType
<1>1. \A b \in BOOLEAN : /\ [check EXCEPT !.due = b] \in [due : BOOLEAN, running : BOOLEAN]
                         /\ [check EXCEPT !.running = b] \in [due : BOOLEAN, running : BOOLEAN]
  OBVIOUS
<1>2. CASE StatusUp \/ CheckRequest
  BY <1>1, <1>2 DEF StatusUp, CheckRequest
<1>3. CASE CheckStatus
  <2>1. (~StatusHigh) \in BOOLEAN
    OBVIOUS
  <2>2. \A b \in BOOLEAN : [due |-> FALSE, running |-> b] \in [due : BOOLEAN, running : BOOLEAN]
    OBVIOUS
  <2>3. check' = [due |-> FALSE, running |-> ~StatusHigh]
    BY <1>3 DEF CheckStatus
  <2> QED BY <2>1, <2>2, <2>3
<1>4. CASE BootDoneArm
  <2>1. (check.due \/ (daemon.ok /\ ~StatusHigh)) \in BOOLEAN
    OBVIOUS
  <2>2. check' = [check EXCEPT !.due = @ \/ (daemon.ok /\ ~StatusHigh)]
    BY <1>4 DEF BootDoneArm
  <2> QED BY <1>1, <2>1, <2>2
<1>5. CASE \/ Create \/ FrameworkStep \/ ErrfatalTest \/ ErrfatalClear \/ StatusLow
           \/ StatusClear \/ StatusRequest \/ RunFatal \/ FatalRequest
           \/ RunStatus \/ ReconnectTimer \/ RunReconnectConnected
           \/ RunReconnectSilent
  BY <1>5 DEF Create, FrameworkStep, ErrfatalTest, ErrfatalClear, StatusLow, StatusClear
     , StatusRequest, RunFatal, FatalRequest, RunStatus, ReconnectTimer
     , RunReconnectConnected, RunReconnectSilent, mdmVars, threadVars
<1>6. CASE \/ ForceFatal \/ ForceFatalInIrq \/ ForceSilentReset \/ WaitInterrupted
           \/ RamdumpDone \/ RamdumpTimeout
           \/ \E w \in SilentThreads : SilentBooted(w) \/ SilentTimeout(w) \/ SilentEnd(w)
           \/ \E j \in Jobs : Shutdown(j) \/ RamdumpBegin(j) \/ RamdumpEnd(j)
                             \/ RamdumpUnwanted(j)
  BY <1>6 DEF SilentBooted, SilentTimeout, SilentEnd, ForceFatal, ForceFatalInIrq
     , ForceSilentReset, WaitInterrupted, Shutdown, RamdumpBegin, RamdumpDone
     , RamdumpTimeout, RamdumpEnd, RamdumpUnwanted, mdmVars, threadVars
<1>7. CASE \/ PowerupBooted \/ PowerupTimeout \/ WakeCharm \/ Load \/ LoadFails
           \/ BootDoneReady \/ BootDoneSignal \/ WaitForRestart
           \/ ReadBootType \/ ResetNeedsReload \/ InterruptedReset
           \/ \E j \in Jobs : PowerupBegin(j) \/ PowerupEnd(j)
  BY <1>7 DEF PowerupBegin, PowerupBooted, PowerupTimeout, PowerupEnd, WakeCharm, Load
     , LoadFails, BootDoneReady, BootDoneSignal, WaitForRestart, ReadBootType
     , ResetNeedsReload, InterruptedReset, mdmVars, threadVars
<1>8. CASE \/ RamDumpStatus \/ RamDumpSignal \/ ModemUp \/ ModemConnects \/ ModemFatal
           \/ ModemResets \/ Halted \/ Settled \/ UNCHANGED vars
  BY <1>8 DEF RamDumpStatus, RamDumpSignal, ModemUp, ModemConnects, ModemFatal, ModemResets
     , Halted, Settled, ModemStep, vars, mdmVars, threadVars
<1> QED
  BY <1>2, <1>3, <1>4, <1>5, <1>6, <1>7, <1>8
  DEF Next, ErrfatalStep, StatusStep, CheckStep, QueueStep, SilentStep, CallbackStep,
     DaemonStep, ModemActs

LEMMA IrqTyped == IrqType /\ [Next]_vars => IrqType'
<1> SUFFICES ASSUME IrqType, [Next]_vars PROVE IrqType'
  OBVIOUS
<1> USE DEF IrqType
<1>1. \A q \in IrqSet : /\ \A b \in BOOLEAN : [q EXCEPT !.edge = b] \in IrqSet
                        /\ \A e \in {"none", "pending", "clear"} : [q EXCEPT !.err = e] \in IrqSet
                        /\ \A t \in {"idle", "clear", "request"} : [q EXCEPT !.thread = t] \in IrqSet
  BY DEF IrqSet
<1>2. \A m, q : SetModem(m, q) /\ q \in IrqSet => irq' \in IrqSet
  BY <1>1 DEF SetModem
<1>3. CASE ErrfatalTest \/ ErrfatalClear
  BY <1>1, <1>3 DEF ErrfatalTest, ErrfatalClear
<1>4. CASE StatusLow
  <2>1. irq' = [[irq EXCEPT !.edge = FALSE] EXCEPT !.thread = IF drv.ready THEN "clear" ELSE "idle"]
    BY <1>4 DEF StatusLow
  <2> QED BY <1>1, <2>1
<1>5. CASE StatusClear \/ StatusRequest \/ StatusUp
  BY <1>1, <1>5 DEF StatusClear, StatusRequest, StatusUp
<1>6. CASE WakeCharm \/ Load \/ ModemUp \/ ModemResets
  BY <1>2, <1>6 DEF WakeCharm, Load, ModemUp, ModemResets, ModemStep
<1>7. CASE ModemFatal
  BY <1>1, <1>2, <1>7 DEF ModemFatal, ModemStep
<1>8. CASE \E j \in Jobs : Shutdown(j) \/ RamdumpEnd(j) \/ PowerupBegin(j)
  BY <1>2, <1>8 DEF Shutdown, RamdumpEnd, PowerupBegin
<1>9. CASE \/ Create \/ FrameworkStep \/ CheckStatus \/ CheckRequest \/ RunFatal
           \/ FatalRequest \/ RunStatus \/ ReconnectTimer
           \/ RunReconnectConnected \/ RunReconnectSilent
           \/ \E w \in SilentThreads : SilentBooted(w) \/ SilentTimeout(w) \/ SilentEnd(w)
  BY <1>9 DEF Create, FrameworkStep, CheckStatus, CheckRequest, RunFatal, FatalRequest
     , RunStatus, ReconnectTimer, RunReconnectConnected, RunReconnectSilent, SilentBooted
     , SilentTimeout, SilentEnd, mdmVars
<1>10. CASE \/ ForceFatal \/ ForceFatalInIrq \/ ForceSilentReset \/ WaitInterrupted
            \/ RamdumpDone \/ RamdumpTimeout \/ PowerupBooted
            \/ PowerupTimeout \/ LoadFails \/ BootDoneReady
            \/ \E j \in Jobs : RamdumpBegin(j) \/ RamdumpUnwanted(j) \/ PowerupEnd(j)
  BY <1>10 DEF ForceFatal, ForceFatalInIrq, ForceSilentReset, WaitInterrupted, RamdumpBegin
     , RamdumpDone, RamdumpTimeout, RamdumpUnwanted, PowerupBooted, PowerupTimeout
     , PowerupEnd, LoadFails, BootDoneReady, mdmVars
<1>11. CASE \/ BootDoneSignal \/ BootDoneArm \/ WaitForRestart \/ ReadBootType
            \/ ResetNeedsReload \/ InterruptedReset \/ RamDumpStatus
            \/ RamDumpSignal \/ ModemConnects \/ Halted \/ Settled
            \/ UNCHANGED vars
  BY <1>11 DEF BootDoneSignal, BootDoneArm, WaitForRestart, ReadBootType, ResetNeedsReload
     , InterruptedReset, RamDumpStatus, RamDumpSignal, ModemConnects, Halted, Settled, vars
     , mdmVars
<1> QED
  BY <1>3, <1>4, <1>5, <1>6, <1>7, <1>8, <1>9, <1>10, <1>11
  DEF Next, ErrfatalStep, StatusStep, CheckStep, QueueStep, SilentStep, CallbackStep,
     DaemonStep, ModemActs

LEMMA CbTyped == CbType /\ [Next]_vars => CbType'
<1> SUFFICES ASSUME CbType, [Next]_vars PROVE CbType'
  OBVIOUS
<1> USE DEF CbType
<1>1. CASE \/ RamdumpDone \/ RamdumpTimeout \/ PowerupBooted \/ PowerupTimeout
           \/ \E j \in Jobs : RamdumpBegin(j) \/ RamdumpEnd(j) \/ PowerupBegin(j) \/ PowerupEnd(j)
  BY <1>1 DEF RamdumpDone, RamdumpTimeout, PowerupBooted, PowerupTimeout, RamdumpBegin,
     RamdumpEnd, PowerupBegin, PowerupEnd
<1>2. CASE \/ Create \/ FrameworkStep \/ ErrfatalTest \/ ErrfatalClear \/ StatusLow
           \/ StatusClear \/ StatusRequest \/ StatusUp \/ CheckStatus
           \/ CheckRequest \/ RunFatal \/ FatalRequest \/ RunStatus
  BY <1>2 DEF Create, FrameworkStep, ErrfatalTest, ErrfatalClear, StatusLow, StatusClear
     , StatusRequest, StatusUp, CheckStatus, CheckRequest, RunFatal, FatalRequest, RunStatus
     , mdmVars
<1>3. CASE \/ ReconnectTimer \/ RunReconnectConnected \/ RunReconnectSilent
           \/ ForceFatal \/ ForceFatalInIrq \/ ForceSilentReset
           \/ WaitInterrupted \/ WakeCharm
           \/ \E w \in SilentThreads : SilentBooted(w) \/ SilentTimeout(w) \/ SilentEnd(w)
           \/ \E j \in Jobs : Shutdown(j) \/ RamdumpUnwanted(j)
  BY <1>3 DEF ReconnectTimer, RunReconnectConnected, RunReconnectSilent, SilentBooted
     , SilentTimeout, SilentEnd, ForceFatal, ForceFatalInIrq, ForceSilentReset
     , WaitInterrupted, Shutdown, RamdumpUnwanted, WakeCharm, mdmVars
<1>4. CASE \/ Load \/ LoadFails \/ BootDoneReady \/ BootDoneSignal \/ BootDoneArm
           \/ WaitForRestart \/ ReadBootType \/ ResetNeedsReload
           \/ InterruptedReset \/ RamDumpStatus \/ RamDumpSignal \/ ModemUp
           \/ ModemConnects
  BY <1>4 DEF Load, LoadFails, BootDoneReady, BootDoneSignal, BootDoneArm, WaitForRestart
     , ReadBootType, ResetNeedsReload, InterruptedReset, RamDumpStatus, RamDumpSignal
     , ModemUp, ModemConnects, ModemStep, mdmVars
<1>5. CASE ModemFatal \/ ModemResets \/ Halted \/ Settled \/ UNCHANGED vars
  BY <1>5 DEF ModemFatal, ModemResets, Halted, Settled, ModemStep, vars, mdmVars
<1> QED
  BY <1>1, <1>2, <1>3, <1>4, <1>5
  DEF Next, ErrfatalStep, StatusStep, CheckStep, QueueStep, SilentStep, CallbackStep,
     DaemonStep, ModemActs

LEMMA ModemTyped == ModemType /\ [Next]_vars => ModemType'
<1> SUFFICES ASSUME ModemType, [Next]_vars PROVE ModemType'
  OBVIOUS
<1> USE DEF ModemType
<1>1. \A m, q : SetModem(m, q) /\ m \in {"off", "rom", "loaded", "up", "fatal"}
        => modem' \in {"off", "rom", "loaded", "up", "fatal"} /\ connected' \in BOOLEAN
  <2> SUFFICES ASSUME NEW m, NEW q, SetModem(m, q), m \in {"off", "rom", "loaded", "up", "fatal"}
               PROVE  modem' \in {"off", "rom", "loaded", "up", "fatal"} /\ connected' \in BOOLEAN
    OBVIOUS
  <2>1. (connected /\ m = "up") \in BOOLEAN
    OBVIOUS
  <2> QED BY <2>1 DEF SetModem
<1>2. PoweredOn \in {"off", "rom", "loaded", "up", "fatal"}
  BY DEF PoweredOn
<1>3. CASE WakeCharm \/ Load \/ ModemUp \/ ModemFatal \/ ModemResets
  BY <1>1, <1>2, <1>3 DEF WakeCharm, Load, ModemUp, ModemFatal, ModemResets, ModemStep
<1>4. CASE \E j \in Jobs : Shutdown(j) \/ RamdumpEnd(j) \/ PowerupBegin(j)
  BY <1>1, <1>2, <1>4 DEF Shutdown, RamdumpEnd, PowerupBegin
<1>5. CASE ModemConnects
  BY <1>5 DEF ModemConnects
<1>6. CASE RunStatus
  <2>1. (bootWake /\ ~StatusHigh) \in BOOLEAN
    OBVIOUS
  <2> QED BY <1>6, <2>1 DEF RunStatus
<1>7. CASE \/ Create \/ FrameworkStep \/ ErrfatalTest \/ ErrfatalClear \/ StatusLow
           \/ StatusClear \/ StatusRequest \/ StatusUp \/ CheckStatus
           \/ CheckRequest \/ RunFatal \/ FatalRequest \/ ReconnectTimer
  BY <1>7 DEF Create, FrameworkStep, ErrfatalTest, ErrfatalClear, StatusLow, StatusClear
     , StatusRequest, StatusUp, CheckStatus, CheckRequest, RunFatal, FatalRequest
     , ReconnectTimer, mdmVars, modemVars
<1>8. CASE \/ RunReconnectConnected \/ RunReconnectSilent \/ ForceFatal
           \/ ForceFatalInIrq \/ ForceSilentReset \/ WaitInterrupted
           \/ RamdumpDone \/ RamdumpTimeout
           \/ \E w \in SilentThreads : SilentBooted(w) \/ SilentTimeout(w) \/ SilentEnd(w)
           \/ \E j \in Jobs : RamdumpBegin(j) \/ RamdumpUnwanted(j)
  BY <1>8 DEF RunReconnectConnected, RunReconnectSilent, SilentBooted, SilentTimeout
     , SilentEnd, ForceFatal, ForceFatalInIrq, ForceSilentReset, WaitInterrupted
     , RamdumpBegin, RamdumpDone, RamdumpTimeout, RamdumpUnwanted, mdmVars, modemVars
<1>9. CASE \/ PowerupBooted \/ PowerupTimeout \/ LoadFails \/ BootDoneReady
           \/ BootDoneSignal \/ BootDoneArm \/ WaitForRestart
           \/ ReadBootType \/ ResetNeedsReload \/ InterruptedReset
           \/ RamDumpStatus \/ RamDumpSignal
           \/ \E j \in Jobs : PowerupEnd(j)
  BY <1>9 DEF PowerupBooted, PowerupTimeout, PowerupEnd, LoadFails, BootDoneReady
     , BootDoneSignal, BootDoneArm, WaitForRestart, ReadBootType, ResetNeedsReload
     , InterruptedReset, RamDumpStatus, RamDumpSignal, mdmVars, modemVars
<1>10. CASE Halted \/ Settled \/ UNCHANGED vars
  BY <1>10 DEF Halted, Settled, vars, mdmVars, modemVars
<1> QED
  BY <1>3, <1>4, <1>5, <1>6, <1>7, <1>8, <1>9, <1>10
  DEF Next, ErrfatalStep, StatusStep, CheckStep, QueueStep, SilentStep, CallbackStep,
     DaemonStep, ModemActs

LEMMA BoundTyped == BoundType /\ [Next]_vars => BoundType'
<1> SUFFICES ASSUME BoundType, [Next]_vars PROVE BoundType'
  OBVIOUS
<1> USE DEF BoundType
<1>1. /\ bound.faults < MaxFaults => [bound EXCEPT !.faults = @ + 1] \in [faults : 0..MaxFaults, forces : 0..MaxForces]
      /\ bound.forces < MaxForces => [bound EXCEPT !.forces = @ + 1] \in [faults : 0..MaxFaults, forces : 0..MaxForces]
  BY BoundsAreNat
<1>2. CASE \/ ForceFatal \/ ForceFatalInIrq \/ ForceSilentReset \/ WaitInterrupted
           \/ ModemFatal \/ ModemResets
  BY <1>1, <1>2 DEF ForceFatal, ForceFatalInIrq, ForceSilentReset, WaitInterrupted, Forcing,
     ModemFatal, ModemResets, Fault
<1>3. CASE \/ Create \/ FrameworkStep \/ ErrfatalTest \/ ErrfatalClear \/ StatusLow
           \/ StatusClear \/ StatusRequest \/ StatusUp \/ CheckStatus
           \/ CheckRequest \/ RunFatal \/ FatalRequest \/ RunStatus
  BY <1>3 DEF Create, FrameworkStep, ErrfatalTest, ErrfatalClear, StatusLow, StatusClear
     , StatusRequest, StatusUp, CheckStatus, CheckRequest, RunFatal, FatalRequest, RunStatus
     , mdmVars, countVars
<1>4. CASE \/ ReconnectTimer \/ RunReconnectConnected \/ RunReconnectSilent
           \/ RamdumpDone \/ RamdumpTimeout
           \/ \E w \in SilentThreads : SilentBooted(w) \/ SilentTimeout(w) \/ SilentEnd(w)
           \/ \E j \in Jobs : Shutdown(j) \/ RamdumpBegin(j) \/ RamdumpEnd(j)
                             \/ RamdumpUnwanted(j) \/ PowerupBegin(j)
  BY <1>4 DEF ReconnectTimer, RunReconnectConnected, RunReconnectSilent, SilentBooted
     , SilentTimeout, SilentEnd, Shutdown, RamdumpBegin, RamdumpDone, RamdumpTimeout
     , RamdumpEnd, RamdumpUnwanted, PowerupBegin, mdmVars, countVars
<1>5. CASE \/ PowerupBooted \/ PowerupTimeout \/ WakeCharm \/ Load \/ LoadFails
           \/ BootDoneReady \/ BootDoneSignal \/ BootDoneArm
           \/ WaitForRestart \/ ReadBootType \/ ResetNeedsReload
           \/ InterruptedReset
           \/ \E j \in Jobs : PowerupEnd(j)
  BY <1>5 DEF PowerupBooted, PowerupTimeout, PowerupEnd, WakeCharm, Load, LoadFails
     , BootDoneReady, BootDoneSignal, BootDoneArm, WaitForRestart, ReadBootType
     , ResetNeedsReload, InterruptedReset, mdmVars, countVars
<1>6. CASE \/ RamDumpStatus \/ RamDumpSignal \/ ModemUp \/ ModemConnects \/ Halted
           \/ Settled \/ UNCHANGED vars
  BY <1>6 DEF RamDumpStatus, RamDumpSignal, ModemUp, ModemConnects, Halted, Settled
     , ModemStep, vars, mdmVars, countVars
<1> QED
  BY <1>2, <1>3, <1>4, <1>5, <1>6
  DEF Next, ErrfatalStep, StatusStep, CheckStep, QueueStep, SilentStep, CallbackStep,
     DaemonStep, ModemActs

CharmType ==
  /\ DrvType /\ DoneType /\ WqType /\ SilentType /\ CheckType /\ IrqType /\ CbType
  /\ DaemonType /\ ModemType /\ HistType /\ BoundType

LEMMA CharmTypeInit == Init => CharmType
<1> SUFFICES ASSUME Init PROVE CharmType
  OBVIOUS
<1>1. DrvType /\ DaemonType /\ HistType
  BY DEF Init, DrvType, DrvSet, DaemonType, HistType, HistSet
<1>2. DoneType /\ BoundType
  BY BoundsAreNat DEF Init, DoneType, BoundType
<1>3. WqType
  <2>1. <<>> \in Seq(Works) /\ Distinct(<<>>)
    BY DEF Distinct
  <2> QED BY <2>1 DEF Init, WqType
<1>4. SilentType /\ CheckType /\ IrqType /\ CbType /\ ModemType
  BY DEF Init, SilentType, CheckType, IrqType, IrqSet, CbType, ModemType
<1> QED BY <1>1, <1>2, <1>3, <1>4 DEF CharmType

LEMMA CharmTypeStep == CharmType /\ [Next]_vars => CharmType'
  BY DrvTyped, DoneTyped, WqTyped, SilentTyped, CheckTyped, IrqTyped, CbTyped, DaemonTyped,
     ModemTyped, HistTyped, BoundTyped DEF CharmType

\* The driver's variables and the framework's keep their types.
THEOREM CharmTyped == SafeSpec => []TypeOK
<1>1. Framework!IInv => SSR!TypeOK
  BY DEF Framework!IInv, Framework!TypeOK, Framework!CallerStates, Framework!JobStates,
         Framework!Sequence, SSR!TypeOK, SSR!CallerStates, SSR!JobStates, SSR!Sequence
<1>2. CharmType /\ SSR!TypeOK => TypeOK
  <2> SUFFICES ASSUME CharmType, SSR!TypeOK PROVE TypeOK
    OBVIOUS
  <2>1. wq.queue \in UNION {[1..n -> Works] : n \in 0..3}
    BY QueueBounded DEF CharmType, WqType
  <2> QED
    BY <2>1 DEF TypeOK, CharmType, DrvType, DrvSet, DoneType, WqType, SilentType, CheckType,
       IrqType, IrqSet, CbType, DaemonType, ModemType, HistType, HistSet, BoundType
<1> QED
  BY <1>1, <1>2, CharmTypeInit, CharmTypeStep, ModemExclusion, PTL DEF SafeSpec

-----------------------------------------------------------------------------
(***************************************************************************)
(* The completions.  Unless a wait was mixed with another, or timed out,   *)
(* one thread waits at a time, and what it waits for is asked once: it is  *)
(* with mdm_needs_reload, with the daemon, or in the completion awaited.   *)
(***************************************************************************)
OneIf(b) == IF b THEN 1 ELSE 0

Waiting == cb \in {"dump", "boot"} \/ silent["queue"] = "wait" \/ silent["user"] = "wait"

\* The daemon serves a request: not the boot that WAKE_CHARM began.
Answering ==
  \/ daemon.at \in {"read", "reset", "dump", "dumped"}
  \/ daemon.at \in {"load", "report", "signal"} /\ ~drv.firstBoot

\* The first boot comes first and completes nothing, and what NORMAL_BOOT_DONE
\* reported stands in mdm_boot_status until it is told.
DaemonFacts ==
  /\ daemon.at = "start" => drv.firstBoot
  /\ drv.firstBoot => daemon.at \in {"start", "load", "report", "signal"} /\ done.boot = 0
  /\ daemon.at \in {"signal", "arm"} /\ drv.bootStatus = "ok" => daemon.ok

OneWaiter ==
  /\ cb = "none" \/ (silent["queue"] = "no" /\ silent["user"] = "no")
  /\ silent["queue"] = "no" \/ silent["user"] = "no"

OneAnswer == done.reload + done.boot + done.dump + OneIf(Answering) <= OneIf(Waiting)

\* The daemon is asked, and answers, what is waited for.
RightAnswer ==
  /\ Waiting => drv.bootType = IF cb = "dump" THEN "dump" ELSE "normal"
  /\ daemon.at = "reset" => daemon.type = drv.bootType
  /\ daemon.at \in {"dump", "dumped"} => cb = "dump"
  /\ Answering /\ daemon.at \in {"load", "report", "signal"} => cb # "dump"
  /\ done.boot > 0 => cb # "dump"
  /\ done.dump > 0 => cb = "dump"

FreshAnswer ==
  /\ cb = "boot" /\ done.boot > 0 => (drv.bootStatus = "ok" => hist.booted)
  /\ cb = "bootInit" => ~drv.firstBoot /\ (drv.bootStatus = "ok" => hist.booted)
  /\ done.dump > 0 \/ cb = "dumpInit" => hist.dumped

AnswerInv == ~hist.mixed => OneWaiter /\ OneAnswer /\ RightAnswer /\ FreshAnswer

\* What the steps of other threads leave of that.
DaemonQuiet ==
  /\ daemon' = daemon /\ drv'.firstBoot = drv.firstBoot
  /\ drv'.bootStatus = "ok" => drv.bootStatus = "ok"
  /\ done.boot = 0 => done'.boot = 0

LEMMA DaemonFactsStep == CharmType /\ DaemonFacts /\ [Next]_vars => DaemonFacts'
<1> SUFFICES ASSUME CharmType, DaemonFacts, [Next]_vars PROVE DaemonFacts'
  OBVIOUS
<1>1. CASE DaemonQuiet
  BY <1>1 DEF DaemonQuiet, DaemonFacts
<1> USE DEF CharmType, DrvType, DrvSet, DoneType, DaemonType
<1>2. CASE \/ ErrfatalClear \/ StatusClear \/ CheckStatus \/ RunReconnectSilent
           \/ ForceSilentReset
  <2>1. DaemonQuiet
    BY <1>2 DEF ErrfatalClear, StatusClear, CheckStatus, RunReconnectSilent,
       ForceSilentReset, SilentBegin, DaemonQuiet
  <2> QED BY <1>1, <2>1
<1>3. CASE \/ RamdumpDone \/ RamdumpTimeout \/ PowerupTimeout
           \/ \E j \in Jobs : \/ RamdumpBegin(j) \/ RamdumpEnd(j) \/ RamdumpUnwanted(j)
                              \/ PowerupBegin(j)
  <2>1. DaemonQuiet
    <3>1. CASE RamdumpDone \/ RamdumpTimeout \/ PowerupTimeout
      BY <3>1 DEF RamdumpDone, RamdumpTimeout, PowerupTimeout, DaemonQuiet
    <3>2. CASE \E j \in Jobs : RamdumpBegin(j) \/ RamdumpEnd(j)
      BY <3>2 DEF RamdumpBegin, RamdumpEnd, DaemonQuiet
    <3>3. CASE \E j \in Jobs : RamdumpUnwanted(j) \/ PowerupBegin(j)
      BY <3>3 DEF RamdumpUnwanted, PowerupBegin, DaemonQuiet
    <3> QED BY <1>3, <3>1, <3>2, <3>3
  <2> QED BY <1>1, <2>1
<1>4. CASE \/ PowerupBooted \/ \E w \in SilentThreads : SilentBooted(w) \/ SilentEnd(w)
           \/ \E j \in Jobs : PowerupEnd(j)
  <2>1. DaemonQuiet
    BY <1>4 DEF PowerupBooted, SilentBooted, SilentEnd, PowerupEnd, DaemonQuiet
  <2> QED BY <1>1, <2>1
<1>5. CASE WakeCharm \/ Load \/ LoadFails \/ BootDoneArm
  BY <1>5 DEF WakeCharm, Load, LoadFails, BootDoneArm, DaemonAt, DaemonFacts
<1>6. CASE BootDoneReady
  BY <1>6 DEF BootDoneReady, DaemonAt, DaemonFacts
<1>7. CASE BootDoneSignal
  BY <1>7 DEF BootDoneSignal, DaemonAt, DaemonFacts
<1>8. CASE WaitForRestart \/ ReadBootType \/ ResetNeedsReload \/ WaitInterrupted \/ InterruptedReset
  BY <1>8 DEF WaitForRestart, ReadBootType, ResetNeedsReload, WaitInterrupted,
     InterruptedReset, DaemonAt, DaemonFacts
<1>9. CASE RamDumpStatus \/ RamDumpSignal
  BY <1>9 DEF RamDumpStatus, RamDumpSignal, DaemonAt, DaemonFacts
<1>10. CASE \/ Create \/ FrameworkStep \/ ErrfatalTest \/ StatusLow \/ StatusRequest
            \/ StatusUp \/ CheckRequest \/ RunFatal \/ FatalRequest
            \/ RunStatus \/ ReconnectTimer \/ RunReconnectConnected
            \/ \E w \in SilentThreads : SilentTimeout(w)
  BY <1>1, <1>10 DEF Create, FrameworkStep, ErrfatalTest, StatusLow, StatusRequest, StatusUp
     , CheckRequest, RunFatal, FatalRequest, RunStatus, ReconnectTimer
     , RunReconnectConnected, SilentTimeout, mdmVars, DaemonQuiet
<1>11. CASE \/ ForceFatal \/ ForceFatalInIrq \/ ModemUp \/ ModemConnects \/ ModemFatal
            \/ ModemResets \/ Halted \/ Settled \/ UNCHANGED vars
            \/ \E j \in Jobs : Shutdown(j)
  BY <1>1, <1>11 DEF ForceFatal, ForceFatalInIrq, Shutdown, ModemUp, ModemConnects, ModemFatal
     , ModemResets, Halted, Settled, ModemStep, vars, mdmVars, DaemonQuiet
<1> QED
  BY <1>2, <1>3, <1>4, <1>5, <1>6, <1>7, <1>8, <1>9, <1>10, <1>11
  DEF Next, ErrfatalStep, StatusStep, CheckStep, QueueStep, SilentStep, CallbackStep,
     DaemonStep, ModemActs

AnswerSame ==
  /\ done' = done /\ cb' = cb /\ silent' = silent /\ daemon' = daemon
  /\ drv'.bootType = drv.bootType /\ drv'.firstBoot = drv.firstBoot
  /\ drv'.bootStatus = drv.bootStatus
  /\ hist'.booted = hist.booted /\ hist'.dumped = hist.dumped /\ hist'.mixed = hist.mixed

\* The driver's side: waits begin and end.
WaitStep ==
  \/ RunReconnectSilent \/ ForceSilentReset
  \/ \E w \in SilentThreads : SilentBooted(w) \/ SilentEnd(w)
  \/ RamdumpDone \/ RamdumpTimeout \/ PowerupBooted \/ PowerupTimeout
  \/ \E j \in Jobs : \/ RamdumpBegin(j) \/ RamdumpEnd(j) \/ PowerupBegin(j) \/ PowerupEnd(j)

LEMMA AnswerTypes ==
  ASSUME CharmType
  PROVE  /\ drv \in DrvSet /\ hist \in HistSet /\ DoneType /\ DaemonType /\ SilentType
         /\ done.reload \in Nat /\ done.boot \in Nat /\ done.dump \in Nat
         /\ Restarting \in BOOLEAN /\ Reloading \in BOOLEAN
         /\ (Reloading <=> silent["queue"] # "no" \/ silent["user"] # "no")
         /\ \A n \in Nat : Count(n) <= n + 1 /\ Count(n) \in Nat
<1>1. drv \in DrvSet /\ hist \in HistSet /\ DoneType /\ DaemonType /\ SilentType
  BY DEF CharmType, DrvType, HistType
<1>2. done.reload \in Nat /\ done.boot \in Nat /\ done.dump \in Nat
  BY <1>1, BoundsAreNat DEF DoneType
<1>3. Reloading <=> silent["queue"] # "no" \/ silent["user"] # "no"
  BY DEF Reloading, SilentThreads
<1>4. \A n \in Nat : Count(n) <= n + 1 /\ Count(n) \in Nat
  BY DEF Count
<1>5. Restarting \in BOOLEAN /\ Reloading \in BOOLEAN
  BY DEF Restarting, Reloading
<1> QED BY <1>1, <1>2, <1>3, <1>4, <1>5

\* Nobody waiting, nothing is asked and nothing answered; a wait answered is all
\* there is.
LEMMA OneAtMost ==
  ASSUME CharmType, AnswerInv, ~hist.mixed
  PROVE  /\ ~Waiting => /\ done.reload = 0 /\ done.boot = 0 /\ done.dump = 0
                        /\ ~Answering
         /\ done.boot > 0 => /\ done.reload = 0 /\ done.boot = 1 /\ done.dump = 0
                             /\ ~Answering
         /\ done.dump > 0 => /\ done.reload = 0 /\ done.boot = 0 /\ done.dump = 1
                             /\ ~Answering
<1>1. done.reload \in Nat /\ done.boot \in Nat /\ done.dump \in Nat
  BY AnswerTypes
<1>2. OneAnswer
  BY DEF AnswerInv
<1>3. /\ Answering => OneIf(Answering) = 1
      /\ ~Answering => OneIf(Answering) = 0
      /\ Waiting => OneIf(Waiting) = 1
      /\ ~Waiting => OneIf(Waiting) = 0
  BY DEF OneIf
<1>4. CASE Answering
  <2>1. OneIf(Answering) = 1
    BY <1>3, <1>4
  <2>2. Waiting
    <3>1. CASE ~Waiting
      <4>1. done.reload + done.boot + done.dump + 1 <= 0
        BY <1>2, <1>3, <2>1, <3>1 DEF OneAnswer
      <4> QED BY <1>1, <4>1
    <3> QED BY <3>1
  <2>3. done.reload + done.boot + done.dump + 1 <= 1
    BY <1>2, <1>3, <2>1, <2>2 DEF OneAnswer
  <2>4. done.reload = 0 /\ done.boot = 0 /\ done.dump = 0
    BY <1>1, <2>3
  <2> QED BY <2>2, <2>4
<1>5. CASE ~Answering
  BY <1>1, <1>2, <1>3, <1>5 DEF OneAnswer
<1> QED BY <1>4, <1>5

LEMMA WaitKeepsAnswer ==
  ASSUME CharmType, CallbackHasJob, DaemonFacts, AnswerInv, WaitStep
  PROVE  AnswerInv'
<1>0. /\ drv \in DrvSet /\ hist \in HistSet /\ DoneType /\ DaemonType /\ SilentType
      /\ done.reload \in Nat /\ done.boot \in Nat /\ done.dump \in Nat
      /\ (Reloading <=> silent["queue"] # "no" \/ silent["user"] # "no")
      /\ \A n \in Nat : Count(n) <= n + 1 /\ Count(n) \in Nat
  BY AnswerTypes
<1> USE DEF AnswerInv, OneWaiter, OneAnswer, OneIf, RightAnswer, FreshAnswer, Waiting, Answering
<1>1. CASE RunReconnectSilent \/ ForceSilentReset
  <2>1. PICK w \in SilentThreads : SilentBegin(w) /\ cb' = cb /\ daemon' = daemon
    BY <1>1 DEF RunReconnectSilent, ForceSilentReset, SilentThreads
  <2>2. /\ drv'.bootType = "normal" /\ drv'.firstBoot = drv.firstBoot
        /\ drv'.bootStatus = drv.bootStatus
    BY <1>0, <2>1 DEF SilentBegin, DrvSet
  <2>3. done'.reload = Count(done.reload) /\ done'.boot = done.boot /\ done'.dump = done.dump
    BY <1>0, <2>1 DEF SilentBegin, DoneType
  <2>4. /\ hist'.mixed = (hist.mixed \/ Restarting \/ Reloading)
        /\ hist'.booted = hist.booted /\ hist'.dumped = hist.dumped
    BY <1>0, <2>1 DEF SilentBegin, HistSet
  <2>5. silent'[w] = "wait" /\ \A v \in SilentThreads : v # w => silent'[v] = silent[v]
    BY <1>0, <2>1 DEF SilentBegin, SilentType
  <2>6. ~Restarting => cb = "none"
    BY <1>0 DEF CallbackHasJob, Restarting, CharmType, CbType
  <2>7. ASSUME ~hist'.mixed
        PROVE  /\ ~hist.mixed /\ cb = "none" /\ silent["queue"] = "no" /\ silent["user"] = "no"
               /\ done.reload = 0 /\ done.boot = 0 /\ done.dump = 0 /\ ~Answering
    <3>1. ~hist.mixed /\ cb = "none" /\ silent["queue"] = "no" /\ silent["user"] = "no"
      BY <1>0, <2>4, <2>6, <2>7
    <3>2. ~Waiting
      BY <3>1
    <3> HIDE DEF AnswerInv, Waiting, Answering
    <3> QED BY <3>1, <3>2, OneAtMost
  <2>8. ASSUME ~hist'.mixed
        PROVE  (silent'["queue"] = "no" \/ silent'["user"] = "no") /\ Waiting'
    BY <2>1, <2>5, <2>7, <2>8 DEF SilentThreads
  <2> QED BY <1>0, <2>1, <2>2, <2>3, <2>4, <2>7, <2>8
<1>2. CASE \E w \in SilentThreads : SilentBooted(w) \/ SilentEnd(w)
  <2>1. PICK w \in SilentThreads : SilentBooted(w) \/ SilentEnd(w)
    BY <1>2
  <2>2. cb' = cb /\ daemon' = daemon /\ drv' = drv /\ hist' = hist
    BY <2>1 DEF SilentBooted, SilentEnd, countVars
  <2>3. /\ done'.reload = done.reload /\ done'.dump = done.dump /\ done'.boot \in Nat
        /\ SilentBooted(w) => done.boot > 0 /\ done'.boot = done.boot - 1
        /\ SilentEnd(w) => done'.boot = 0
    BY <1>0, <2>1 DEF SilentBooted, SilentEnd, DoneType
  <2>4. /\ silent'[w] \in {"no", "init"} /\ silent[w] \in {"wait", "init"}
        /\ \A v \in SilentThreads : v # w => silent'[v] = silent[v]
        /\ SilentEnd(w) => silent[w] = "init"
    BY <1>0, <2>1 DEF SilentBooted, SilentEnd, SilentType
  <2>5. ASSUME ~hist.mixed
        PROVE  /\ cb = "none" /\ (silent'["queue"] = "no" \/ silent'["user"] = "no")
               /\ ~Waiting' /\ (SilentEnd(w) => ~Waiting)
    BY <2>2, <2>4, <2>5 DEF SilentThreads
  <2>6. ASSUME ~hist.mixed
        PROVE  done'.reload = 0 /\ done'.boot = 0 /\ done'.dump = 0 /\ ~Answering
    <3>1. CASE SilentBooted(w)
      <4> HIDE DEF AnswerInv, Waiting, Answering
      <4> QED BY <2>3, <2>6, <3>1, OneAtMost
    <3>2. CASE SilentEnd(w)
      <4>1. ~Waiting
        BY <2>5, <2>6, <3>2
      <4> HIDE DEF AnswerInv, Waiting, Answering
      <4> QED BY <2>3, <2>6, <3>2, <4>1, OneAtMost
    <3> QED BY <2>1, <3>1, <3>2
  <2> QED BY <1>0, <2>2, <2>5, <2>6
<1>3. CASE \E j \in Jobs : RamdumpBegin(j) \/ PowerupBegin(j)
  <2>1. PICK j \in Jobs : RamdumpBegin(j) \/ PowerupBegin(j)
    BY <1>3
  <2>2. /\ cb = "none" /\ daemon' = daemon /\ silent' = silent
        /\ cb' = IF RamdumpBegin(j) THEN "dump" ELSE "boot"
    BY <2>1 DEF RamdumpBegin, PowerupBegin, threadVars
  <2>3. /\ drv'.bootType = (IF cb' = "dump" THEN "dump" ELSE "normal")
        /\ drv'.firstBoot = drv.firstBoot
    BY <1>0, <2>1 DEF RamdumpBegin, PowerupBegin, DrvSet
  <2>4. done'.reload = Count(done.reload) /\ done'.boot = done.boot /\ done'.dump = done.dump
    BY <1>0, <2>1 DEF RamdumpBegin, PowerupBegin, DoneType
  <2>5. hist'.mixed = (hist.mixed \/ Reloading)
    BY <1>0, <2>1 DEF RamdumpBegin, PowerupBegin, HistSet
  <2>6. ASSUME ~hist'.mixed
        PROVE  /\ silent["queue"] = "no" /\ silent["user"] = "no"
               /\ done.reload = 0 /\ done.boot = 0 /\ done.dump = 0 /\ ~Answering
    <3>1. ~hist.mixed /\ silent["queue"] = "no" /\ silent["user"] = "no"
      BY <1>0, <2>5, <2>6
    <3>2. ~Waiting
      BY <2>2, <3>1
    <3> HIDE DEF AnswerInv, Waiting, Answering
    <3> QED BY <3>1, <3>2, OneAtMost
  <2> QED BY <1>0, <2>2, <2>3, <2>4, <2>5, <2>6
<1>4. CASE RamdumpTimeout \/ PowerupTimeout
  BY <1>0, <1>4 DEF RamdumpTimeout, PowerupTimeout, HistSet
<1>5. CASE RamdumpDone
  <2>1. /\ cb = "dump" /\ cb' = "dumpInit" /\ daemon' = daemon /\ silent' = silent /\ hist' = hist
    BY <1>5 DEF RamdumpDone, threadVars, countVars
  <2>2. /\ drv'.bootType = drv.bootType /\ drv'.firstBoot = drv.firstBoot
        /\ drv'.bootStatus = drv.bootStatus
    BY <1>0, <1>5 DEF RamdumpDone, DrvSet
  <2>3. /\ done'.reload = done.reload /\ done'.boot = done.boot
        /\ done.dump > 0 /\ done'.dump = done.dump - 1
    BY <1>0, <1>5 DEF RamdumpDone, DoneType
  <2>4. ~hist.mixed => /\ done'.reload = 0 /\ done'.boot = 0 /\ done'.dump = 0
                       /\ ~Answering
    <3> HIDE DEF AnswerInv, Waiting, Answering
    <3> QED BY <2>3, OneAtMost
  <2>5. /\ ~hist.mixed => hist.dumped /\ OneWaiter'
        /\ ~Answering => ~Answering'
    BY <2>1, <2>2, <2>3
  <2> QED BY <1>0, <2>1, <2>2, <2>4, <2>5
<1>6. CASE PowerupBooted
  <2>1. /\ cb = "boot" /\ cb' = "bootInit" /\ daemon' = daemon /\ silent' = silent /\ hist' = hist
        /\ drv' = drv
    BY <1>6 DEF PowerupBooted, threadVars, countVars
  <2>2. /\ done'.reload = done.reload /\ done'.dump = done.dump
        /\ done.boot > 0 /\ done'.boot = done.boot - 1
    BY <1>0, <1>6 DEF PowerupBooted, DoneType
  <2>3. ~drv.firstBoot
    BY <2>2 DEF DaemonFacts
  <2> QED BY <1>0, <2>1, <2>2, <2>3
<1>7. CASE \E j \in Jobs : RamdumpEnd(j) \/ PowerupEnd(j)
  <2>1. /\ cb \in {"dumpInit", "bootInit"} /\ cb' = "none" /\ daemon' = daemon
        /\ silent' = silent /\ hist' = hist /\ drv' = drv
    BY <1>7 DEF RamdumpEnd, PowerupEnd, threadVars, countVars
  <2>2. /\ done'.reload = done.reload
        /\ done'.dump \in {0, done.dump} /\ done'.boot \in {0, done.boot}
    BY <1>0, <1>7 DEF RamdumpEnd, PowerupEnd, DoneType
  <2> QED BY <1>0, <2>1, <2>2
<1> QED BY <1>1, <1>2, <1>3, <1>4, <1>5, <1>6, <1>7 DEF WaitStep

LEMMA DaemonKeepsAnswer ==
  ASSUME CharmType, DaemonFacts, AnswerInv, DaemonStep \/ WaitInterrupted
  PROVE  AnswerInv'
<1>0. /\ drv \in DrvSet /\ hist \in HistSet /\ DoneType /\ DaemonType /\ SilentType
      /\ done.reload \in Nat /\ done.boot \in Nat /\ done.dump \in Nat
      /\ \A n \in Nat : Count(n) <= n + 1 /\ Count(n) \in Nat
  BY AnswerTypes
<1> USE DEF AnswerInv, OneWaiter, OneAnswer, OneIf, RightAnswer, FreshAnswer, Waiting, Answering
<1>1. cb' = cb /\ silent' = silent
  BY DEF DaemonStep, WakeCharm, Load, LoadFails, BootDoneReady, BootDoneSignal, BootDoneArm,
     WaitForRestart, ReadBootType, ResetNeedsReload, InterruptedReset, RamDumpStatus,
     RamDumpSignal, WaitInterrupted, threadVars
<1>2. CASE WakeCharm \/ Load \/ LoadFails
  <2>1. /\ done' = done /\ drv' = drv /\ hist'.mixed = hist.mixed
        /\ hist'.booted = hist.booted /\ hist'.dumped = hist.dumped
    BY <1>0, <1>2 DEF WakeCharm, Load, LoadFails, countVars, HistSet
  <2>2. \/ daemon.at = "start" /\ daemon'.at = "load"
        \/ daemon.at = "load" /\ daemon'.at = "report"
    BY <1>0, <1>2 DEF WakeCharm, Load, LoadFails, DaemonAt, DaemonType
  <2> QED BY <1>0, <1>1, <2>1, <2>2 DEF DaemonFacts
<1>3. CASE BootDoneReady
  <2>1. /\ done' = done /\ hist' = hist /\ drv'.firstBoot = drv.firstBoot
        /\ drv'.bootType = drv.bootType /\ daemon.at = "report" /\ daemon'.at = "signal"
    BY <1>0, <1>3 DEF BootDoneReady, countVars, DrvSet, DaemonAt, DaemonType
  <2> QED BY <1>0, <1>1, <2>1 DEF DaemonFacts
<1>4. CASE BootDoneSignal
  <2>1. /\ hist'.mixed = hist.mixed /\ hist'.booted = daemon.ok /\ hist'.dumped = hist.dumped
        /\ ~drv'.firstBoot /\ drv'.bootType = drv.bootType /\ drv'.bootStatus = drv.bootStatus
        /\ daemon.at = "signal" /\ daemon'.at = "arm"
    BY <1>0, <1>4 DEF BootDoneSignal, DrvSet, HistSet, DaemonAt, DaemonType
  <2>2. /\ done'.reload = done.reload /\ done'.dump = done.dump
        /\ done'.boot = IF drv.firstBoot THEN done.boot ELSE Count(done.boot)
    BY <1>0, <1>4 DEF BootDoneSignal, DoneType
  <2> QED BY <1>0, <1>1, <2>1, <2>2 DEF DaemonFacts
<1>5. CASE BootDoneArm \/ WaitInterrupted
  <2>1. /\ done' = done /\ drv' = drv /\ hist' = hist
        /\ daemon.at \in {"arm", "wait"} /\ daemon'.at \in {"wait", "interrupted"}
    BY <1>0, <1>5 DEF BootDoneArm, WaitInterrupted, countVars, DaemonAt, DaemonType
  <2> QED BY <1>0, <1>1, <2>1
<1>6. CASE WaitForRestart
  <2>1. drv' = drv /\ hist' = hist /\ daemon.at = "wait" /\ daemon'.at = "read"
    BY <1>0, <1>6 DEF WaitForRestart, countVars, DaemonAt, DaemonType
  <2>2. /\ done'.boot = done.boot /\ done'.dump = done.dump
        /\ done.reload > 0 /\ done'.reload = done.reload - 1
    BY <1>0, <1>6 DEF WaitForRestart, DoneType
  <2> QED BY <1>0, <1>1, <2>1, <2>2
<1>7. CASE ReadBootType
  <2>1. /\ done' = done /\ drv' = drv /\ hist' = hist
        /\ daemon.at = "read" /\ daemon'.at = "reset" /\ daemon'.type = drv.bootType
    BY <1>0, <1>7 DEF ReadBootType, countVars, DaemonAt, DaemonType
  <2> QED BY <1>0, <1>1, <2>1
<1>8. CASE ResetNeedsReload
  <2>1. /\ drv' = drv /\ hist' = hist /\ daemon.at = "reset"
        /\ daemon'.at = IF daemon.type = "dump" THEN "dump" ELSE "load"
    BY <1>0, <1>8 DEF ResetNeedsReload, countVars, DaemonAt, DaemonType
  <2>2. done'.boot = done.boot /\ done'.dump = done.dump /\ done'.reload = 0
    BY <1>0, <1>8 DEF ResetNeedsReload, DoneType
  <2>3. ~drv.firstBoot
    BY <2>1 DEF DaemonFacts
  <2> QED BY <1>0, <1>1, <2>1, <2>2, <2>3
<1>9. CASE InterruptedReset
  <2>1. drv' = drv /\ hist' = hist /\ daemon.at = "interrupted" /\ daemon'.at = "wait"
    BY <1>0, <1>9 DEF InterruptedReset, countVars, DaemonAt, DaemonType
  <2>2. done'.boot = done.boot /\ done'.dump = done.dump /\ done'.reload = 0
    BY <1>0, <1>9 DEF InterruptedReset, DoneType
  <2> QED BY <1>0, <1>1, <2>1, <2>2
<1>10. CASE RamDumpStatus
  <2>1. /\ done' = done /\ hist' = hist /\ drv'.firstBoot = drv.firstBoot
        /\ drv'.bootType = drv.bootType /\ drv'.bootStatus = drv.bootStatus
        /\ daemon.at = "dump" /\ daemon'.at = "dumped"
    BY <1>0, <1>10 DEF RamDumpStatus, countVars, DrvSet, DaemonAt, DaemonType
  <2> QED BY <1>0, <1>1, <2>1
<1>11. CASE RamDumpSignal
  <2>1. /\ hist'.mixed = hist.mixed /\ hist'.booted = hist.booted /\ hist'.dumped
        /\ drv' = drv /\ daemon.at = "dumped" /\ daemon'.at = "wait"
    BY <1>0, <1>11 DEF RamDumpSignal, HistSet, DaemonAt, DaemonType
  <2>2. /\ done'.reload = done.reload /\ done'.boot = done.boot
        /\ done'.dump = Count(done.dump)
    BY <1>0, <1>11 DEF RamDumpSignal, DoneType
  <2> QED BY <1>0, <1>1, <2>1, <2>2
<1> QED
  BY <1>2, <1>3, <1>4, <1>5, <1>6, <1>7, <1>8, <1>9, <1>10, <1>11 DEF DaemonStep

LEMMA AnswerStep ==
  CharmType /\ CallbackHasJob /\ DaemonFacts /\ AnswerInv /\ [Next]_vars => AnswerInv'
<1> SUFFICES ASSUME CharmType, CallbackHasJob, DaemonFacts, AnswerInv, [Next]_vars
             PROVE  AnswerInv'
  OBVIOUS
<1>1. CASE WaitStep
  BY <1>1, WaitKeepsAnswer
<1>2. CASE DaemonStep \/ WaitInterrupted
  BY <1>2, DaemonKeepsAnswer
<1>3. CASE AnswerSame
  BY <1>3 DEF AnswerSame, AnswerInv, OneWaiter, OneAnswer, RightAnswer, FreshAnswer, Waiting,
     Answering
<1>4. drv \in DrvSet /\ hist \in HistSet
  BY AnswerTypes
<1>5. CASE ErrfatalClear \/ StatusClear \/ CheckStatus \/ \E j \in Jobs : RamdumpUnwanted(j)
  <2>1. AnswerSame
    BY <1>4, <1>5 DEF AnswerSame, ErrfatalClear, StatusClear, CheckStatus, RamdumpUnwanted,
       DrvSet, threadVars, countVars
  <2> QED BY <1>3, <2>1
<1>6. CASE ModemFatal \/ ModemResets \/ \E j \in Jobs : Shutdown(j)
  <2>1. AnswerSame
    BY <1>4, <1>6 DEF AnswerSame, ModemFatal, ModemResets, ModemStep, Fault, Shutdown,
       HistSet, threadVars
  <2> QED BY <1>3, <2>1
<1>7. CASE \/ Create \/ FrameworkStep \/ ErrfatalTest \/ StatusLow \/ StatusRequest
           \/ StatusUp \/ CheckRequest \/ RunFatal \/ FatalRequest
           \/ RunStatus \/ ReconnectTimer \/ RunReconnectConnected
           \/ \E w \in SilentThreads : SilentTimeout(w)
  BY <1>3, <1>7 DEF Create, FrameworkStep, ErrfatalTest, StatusLow, StatusRequest, StatusUp
     , CheckRequest, RunFatal, FatalRequest, RunStatus, ReconnectTimer
     , RunReconnectConnected, SilentTimeout, mdmVars, threadVars, countVars, AnswerSame
<1>8. CASE \/ ForceFatal \/ ForceFatalInIrq \/ ModemUp \/ ModemConnects \/ Halted
           \/ Settled \/ UNCHANGED vars
  BY <1>3, <1>8 DEF ForceFatal, ForceFatalInIrq, ModemUp, ModemConnects, Halted, Settled
     , ModemStep, vars, mdmVars, threadVars, countVars, AnswerSame
<1> QED
  BY <1>1, <1>2, <1>5, <1>6, <1>7, <1>8
  DEF WaitStep, DaemonStep, Next, ErrfatalStep, StatusStep, CheckStep, QueueStep, SilentStep, CallbackStep,
     ModemActs

FreshInv == CharmType /\ CallbackHasJob /\ DaemonFacts /\ AnswerInv

LEMMA FreshInductive == SafeSpec => []FreshInv
<1>1. Init => CharmType /\ CallbackHasJob /\ DaemonFacts /\ AnswerInv
  <2>1. Init => CallbackHasJob /\ DaemonFacts
    BY DEF Init, CallbackHasJob, DaemonFacts
  <2>2. Init => AnswerInv
    BY DEF Init, AnswerInv, OneWaiter, OneAnswer, OneIf, RightAnswer, FreshAnswer, Waiting,
       Answering, SilentThreads
  <2> QED BY <2>1, <2>2, CharmTypeInit
<1> QED
  BY <1>1, CharmTypeStep, CallbackHasJobStep, DaemonFactsStep, AnswerStep, ModemExclusion, PTL
  DEF SafeSpec, FreshInv

\* The powerup callback that goes on with mdm_boot_status 0 was answered by a boot
\* that the daemon reported since it began (mdm_common.c:687-700).
THEOREM PowerupFresh == SafeSpec => []PowerupIsFresh
<1>1. FreshInv => PowerupIsFresh
  BY DEF FreshInv, AnswerInv, FreshAnswer, PowerupIsFresh
<1> QED BY <1>1, FreshInductive, PTL

\* The ramdump callback that goes on without a timeout was answered since it
\* began (mdm_common.c:709-721).
THEOREM DumpFresh == SafeSpec => []DumpIsFresh
<1>1. FreshInv => DumpIsFresh
  BY DEF FreshInv, AnswerInv, FreshAnswer, DumpIsFresh
<1> QED BY <1>1, FreshInductive, PTL

-----------------------------------------------------------------------------
\* The driver's calls of the framework keep its promise: a restart of the modem
\* powers it down, takes its dump and powers it up in that order, without another
\* restart in between (subsystem_restart.c:253-330).
THEOREM ModemRounds == SafeSpec => Framework!CallbacksInRounds
  BY UsesFramework, Framework!Rounds

\* The driver on top of the framework implements the abstract restart service.
THEOREM ModemImplements == SafeSpec => Framework!Abs!ASafeSpec
  BY UsesFramework, Framework!Implements

-----------------------------------------------------------------------------
(***************************************************************************)
(* The modem is watched: when the status line of a modem taken to be ready *)
(* goes low the interrupt is pending or its thread is about to clear       *)
(* mdm_ready, or the line was low when NORMAL_BOOT_DONE read it, and then  *)
(* the boot check is pending.  It needs the status interrupt.              *)
(***************************************************************************)
WatchedInv ==
  drv.ready /\ drv.bootStatus = "ok" /\ ~StatusHigh =>
    \/ check.due
    \/ irq.edge \/ irq.thread = "clear"
    \/ daemon.at \in {"signal", "arm"}

\* What most steps leave of that.
LineKept ==
  /\ drv'.ready => drv.ready
  /\ drv'.bootStatus = "ok" => drv.bootStatus = "ok"
  /\ check.due => check'.due
  /\ irq.edge => irq'.edge
  /\ irq.thread = "clear" => irq'.thread = "clear"
  /\ daemon.at \in {"signal", "arm"} => daemon'.at \in {"signal", "arm"}
  /\ StatusHigh => StatusHigh' \/ irq'.edge

LEMMA LineChange ==
  ASSUME "status" \in Irqs, NEW m, NEW q \in IrqSet, SetModem(m, q)
  PROVE  /\ q.edge => irq'.edge
         /\ irq'.thread = q.thread
         /\ StatusHigh => StatusHigh' \/ irq'.edge
<1>1. [q EXCEPT !.edge = TRUE].edge /\ [q EXCEPT !.edge = TRUE].thread = q.thread
  BY DEF IrqSet
<1> QED BY <1>1 DEF SetModem, StatusHigh

LEMMA WatchedStep ==
  ASSUME "status" \in Irqs, CharmType, DaemonFacts, WatchedInv, [Next]_vars
  PROVE  WatchedInv'
<1>0. /\ drv \in DrvSet /\ irq \in IrqSet /\ DaemonType /\ CheckType
      /\ StatusHigh \in BOOLEAN
  BY DEF CharmType, DrvType, IrqType, StatusHigh, High
<1>1. CASE LineKept
  BY <1>1 DEF LineKept, WatchedInv
<1>2. CASE ErrfatalClear \/ StatusClear \/ RunReconnectSilent \/ ForceSilentReset
  <2>1. ~drv'.ready
    BY <1>0, <1>2 DEF ErrfatalClear, StatusClear, RunReconnectSilent, ForceSilentReset,
       SilentBegin, DrvSet
  <2> QED BY <2>1 DEF WatchedInv
<1>3. CASE CheckStatus
  <2>1. CASE StatusHigh
    <3>1. StatusHigh'
      BY <1>3, <2>1 DEF CheckStatus, modemVars, StatusHigh
    <3> QED BY <3>1 DEF WatchedInv
  <2>2. CASE ~StatusHigh
    <3>1. ~drv'.ready
      BY <1>0, <1>3, <2>2 DEF CheckStatus, DrvSet
    <3> QED BY <3>1 DEF WatchedInv
  <2> QED BY <2>1, <2>2
<1>4. CASE StatusLow
  <2>1. drv' = drv /\ (drv.ready => irq'.thread = "clear")
    BY <1>0, <1>4 DEF StatusLow, IrqSet
  <2> QED BY <2>1 DEF WatchedInv
<1>5. CASE StatusUp
  <2>1. StatusHigh'
    BY <1>5 DEF StatusUp, modemVars, StatusHigh
  <2> QED BY <2>1 DEF WatchedInv
<1>6. CASE BootDoneReady
  <2>1. daemon'.at = "signal"
    BY <1>0, <1>6 DEF BootDoneReady, DaemonType
  <2> QED BY <2>1 DEF WatchedInv
<1>7. CASE BootDoneArm
  <2>1. /\ drv' = drv /\ irq' = irq /\ modem' = modem /\ daemon.at = "arm"
        /\ daemon.ok /\ ~StatusHigh => check'.due
    BY <1>0, <1>7 DEF BootDoneArm, DaemonAt, modemVars, CheckType
  <2> QED BY <2>1 DEF WatchedInv, DaemonFacts, StatusHigh
<1>8. CASE \E j \in Jobs : Shutdown(j) \/ RamdumpEnd(j)
  <2>1. LineKept
    BY <1>0, <1>8, LineChange DEF Shutdown, RamdumpEnd, threadVars, LineKept
  <2> QED BY <1>1, <2>1
<1>9. CASE \E j \in Jobs : PowerupBegin(j) \/ RamdumpBegin(j) \/ RamdumpUnwanted(j)
  <2>1. /\ drv'.ready = drv.ready /\ drv'.bootStatus = drv.bootStatus
        /\ check' = check /\ daemon' = daemon
    BY <1>0, <1>9 DEF PowerupBegin, RamdumpBegin, RamdumpUnwanted, threadVars, DrvSet
  <2>2. \/ \E m : SetModem(m, irq)
        \/ irq' = irq /\ modem' = modem
    BY <1>9 DEF PowerupBegin, RamdumpBegin, RamdumpUnwanted, modemVars
  <2>3. LineKept
    BY <1>0, <2>1, <2>2, LineChange DEF LineKept, StatusHigh
  <2> QED BY <1>1, <2>3
<1>10. CASE WakeCharm \/ Load
  <2>1. /\ drv' = drv /\ check' = check
        /\ daemon.at \notin {"signal", "arm"}
        /\ \E m : SetModem(m, irq)
    BY <1>10 DEF WakeCharm, Load, DaemonAt, threadVars
  <2>2. LineKept
    BY <1>0, <2>1, LineChange DEF LineKept
  <2> QED BY <1>1, <2>2
<1>11. CASE ModemUp \/ ModemResets \/ ModemFatal
  <2>1. drv' = drv /\ check' = check /\ daemon' = daemon
    BY <1>11 DEF ModemUp, ModemResets, ModemFatal, ModemStep, threadVars
  <2>2. [irq EXCEPT !.err = "pending"] \in IrqSet
    BY <1>0 DEF IrqSet
  <2>3. /\ [irq EXCEPT !.err = "pending"].edge = irq.edge
        /\ [irq EXCEPT !.err = "pending"].thread = irq.thread
    BY <1>0 DEF IrqSet
  <2>4. \E m : SetModem(m, irq) \/ SetModem(m, [irq EXCEPT !.err = "pending"])
    <3>1. CASE ModemUp \/ ModemResets
      BY <3>1 DEF ModemUp, ModemResets, ModemStep
    <3>2. CASE ModemFatal
      BY <3>2 DEF ModemFatal, ModemStep
    <3> QED BY <1>11, <3>1, <3>2
  <2>5. PICK q \in IrqSet : /\ \E m : SetModem(m, q)
                            /\ q.edge = irq.edge /\ q.thread = irq.thread
    BY <1>0, <2>2, <2>3, <2>4
  <2>6. LineKept
    BY <2>1, <2>5, LineChange DEF LineKept
  <2> QED BY <1>1, <2>6
<1>12. CASE ErrfatalTest \/ StatusRequest
  <2>1. /\ irq'.edge = irq.edge
        /\ irq.thread = "clear" => irq'.thread = "clear"
    BY <1>0, <1>12 DEF ErrfatalTest, StatusRequest, IrqSet
  <2>2. drv' = drv /\ check' = check /\ daemon' = daemon /\ modem' = modem
    BY <1>12 DEF ErrfatalTest, StatusRequest, threadVars, modemVars
  <2>3. LineKept
    BY <2>1, <2>2 DEF LineKept, StatusHigh
  <2> QED BY <1>1, <2>3
<1>13. CASE RamdumpDone \/ RamdumpTimeout \/ PowerupTimeout \/ CheckRequest
  <2>1. /\ drv'.ready = drv.ready
        /\ drv'.bootStatus = "ok" => drv.bootStatus = "ok"
        /\ check'.due = check.due
    BY <1>0, <1>13 DEF RamdumpDone, RamdumpTimeout, PowerupTimeout, CheckRequest, threadVars,
       DrvSet, CheckType
  <2>2. irq' = irq /\ daemon' = daemon /\ modem' = modem
    BY <1>13 DEF RamdumpDone, RamdumpTimeout, PowerupTimeout, CheckRequest, modemVars
  <2>3. LineKept
    BY <2>1, <2>2 DEF LineKept, StatusHigh
  <2> QED BY <1>1, <2>3
<1>14. CASE BootDoneSignal
  <2>1. daemon'.at = "arm"
    BY <1>0, <1>14 DEF BootDoneSignal, DaemonType
  <2> QED BY <2>1 DEF WatchedInv
<1>15. CASE \/ LoadFails \/ WaitForRestart \/ ReadBootType \/ ResetNeedsReload
            \/ InterruptedReset \/ WaitInterrupted \/ RamDumpStatus \/ RamDumpSignal
  <2>1. /\ drv'.ready = drv.ready /\ drv'.bootStatus = drv.bootStatus
        /\ daemon.at \notin {"signal", "arm"}
    BY <1>0, <1>15 DEF LoadFails, WaitForRestart, ReadBootType, ResetNeedsReload,
       InterruptedReset, WaitInterrupted, RamDumpStatus, RamDumpSignal, DaemonAt, DrvSet
  <2>2. irq' = irq /\ check' = check /\ modem' = modem
    BY <1>15 DEF LoadFails, WaitForRestart, ReadBootType, ResetNeedsReload,
       InterruptedReset, WaitInterrupted, RamDumpStatus, RamDumpSignal, threadVars, modemVars
  <2>3. LineKept
    BY <2>1, <2>2 DEF LineKept, StatusHigh
  <2> QED BY <1>1, <2>3
<1>16. CASE \/ Create \/ FrameworkStep \/ RunFatal \/ FatalRequest \/ RunStatus
            \/ ReconnectTimer \/ RunReconnectConnected
            \/ \E w \in SilentThreads : SilentBooted(w) \/ SilentTimeout(w) \/ SilentEnd(w)
  BY <1>1, <1>16 DEF Create, FrameworkStep, RunFatal, FatalRequest, RunStatus,
     ReconnectTimer, NextWork, RunReconnectConnected, SilentBooted, SilentTimeout, SilentEnd,
     mdmVars, threadVars, modemVars, LineKept, StatusHigh
<1>17. CASE \/ ForceFatal \/ ForceFatalInIrq \/ PowerupBooted \/ ModemConnects \/ Halted
            \/ Settled \/ UNCHANGED vars \/ \E j \in Jobs : PowerupEnd(j)
  BY <1>1, <1>17 DEF ForceFatal, ForceFatalInIrq, PowerupBooted, ModemConnects, Halted,
     Settled, vars, PowerupEnd, mdmVars, threadVars, modemVars, LineKept, StatusHigh
<1> QED
  BY <1>2, <1>3, <1>4, <1>5, <1>6, <1>7, <1>8, <1>9, <1>10, <1>11, <1>12, <1>13, <1>14,
     <1>15, <1>16, <1>17
  DEF Next, ErrfatalStep, StatusStep, CheckStep, QueueStep, SilentStep, CallbackStep,
     DaemonStep, ModemActs

\* With the status interrupt a modem taken to be ready that went down is noticed,
\* even outside a restart and whatever the races between NORMAL_BOOT_DONE and the
\* interrupt thread (mdm_common.c:298, :632, :639).
THEOREM ModemWatched ==
  ASSUME "status" \in Irqs
  PROVE  SafeSpec => []Watched
<1>1. Init => WatchedInv
  BY DEF Init, WatchedInv
<1>2. CharmType /\ DaemonFacts /\ WatchedInv /\ [Next]_vars => WatchedInv'
  BY WatchedStep
<1>3. WatchedInv => Watched
  BY DEF WatchedInv, Watched
<1>4. FreshInv => CharmType /\ DaemonFacts
  BY DEF FreshInv
<1> QED BY <1>1, <1>2, <1>3, <1>4, FreshInductive, PTL DEF SafeSpec

-----------------------------------------------------------------------------
(***************************************************************************)
(* One event, one restart.  A request under way is in one place: with an   *)
(* interrupt, with mdm_queue, with the boot check, with its caller or with *)
(* its job.  More appear only while a job is in the middle of its          *)
(* sequence, where `ongoing` refuses them, and when kernel threads are     *)
(* prompt they are gone before the daemon loads what the powerup awaits.   *)
(***************************************************************************)
Causes == bound.faults + bound.forces
Few == Causes <= 1 /\ ~hist.mixed

Idle ==
  /\ \A c \in Contexts : callerAt[c] = "idle"
  /\ \A j \in Jobs : jobAt[j] = "free"

ErrAsks == irq.err # "none"
FatalAsks == Pending(wq.queue, "fatal")
WorkerAsks == wq.worker = "request"
ThreadAsks == irq.thread # "idle"
EdgeAsks == irq.edge /\ ~StatusHigh
CheckAsks == check.running

NobodyAsks ==
  ~ErrAsks /\ ~FatalAsks /\ ~WorkerAsks /\ ~ThreadAsks /\ ~EdgeAsks /\ ~CheckAsks

OneAsks ==
  /\ ErrAsks => ~FatalAsks /\ ~WorkerAsks /\ ~ThreadAsks /\ ~EdgeAsks /\ ~CheckAsks
  /\ FatalAsks => ~WorkerAsks /\ ~ThreadAsks /\ ~EdgeAsks /\ ~CheckAsks
  /\ WorkerAsks => ~ThreadAsks /\ ~EdgeAsks /\ ~CheckAsks
  /\ ThreadAsks => ~EdgeAsks /\ ~CheckAsks
  /\ EdgeAsks => ~CheckAsks

\* One caller or one job at a time, and `ongoing` is set for it.
Alone ==
  /\ \A c, d \in Contexts : callerAt[c] # "idle" /\ callerAt[d] # "idle" => c = d
  /\ \A i, j \in Jobs : jobAt[i] # "free" /\ jobAt[j] # "free" => i = j
  /\ \A c \in Contexts, j \in Jobs : callerAt[c] # "idle" => jobAt[j] = "free"
  /\ \A c \in Contexts : callerAt[c] = "alloc" => ongoing[Modem]
  /\ \A j \in Jobs : jobAt[j] # "free" => ongoing[Modem]

\* A reconnect is due only while the modem is up, and finds it connected.
Reconnects ==
  /\ wq.worker # "silent"
  /\ wq.reconnect => modem = "up"
  /\ Pending(wq.queue, "reconnect") => connected

\* The boot check is armed for images that were loaded.
CheckFor ==
  check.due \/ (daemon.at \in {"report", "signal", "arm"} /\ daemon.ok)
    => modem \in {"loaded", "up"}

\* Before any event.
Calm == Idle /\ NobodyAsks /\ Reconnects /\ modem # "fatal" /\ CheckFor

\* The jobs that are past no powerdown, or past their powerup.
Settling == {"queued", "tryPowerup", "lockReg", "shutdown", "unlockPowerup",
             "unlockReg", "out"}

\* Who asks when.
AsksAlone ==
  /\ ~Idle => ~ErrAsks /\ ~FatalAsks /\ ~WorkerAsks
  /\ \A c \in Contexts : callerAt[c] # "idle" => NobodyAsks
  /\ \A j \in Jobs : jobAt[j] \in Settling => NobodyAsks
  /\ Idle => OneAsks
  /\ ErrAsks \/ FatalAsks => modem = "fatal" \/ Reconnects

\* The boot the powerup callback awaits: loaded, reported, seen.
Booting == cb = "boot" /\ daemon.at \in {"report", "signal"} /\ ~drv.firstBoot /\ daemon.ok
Booted == cb = "boot" /\ done.boot > 0 /\ drv.bootStatus = "ok"
BootSeen == cb = "bootInit" /\ drv.bootStatus = "ok"

LoadedAlone ==
  /\ Booting \/ Booted \/ BootSeen => NobodyAsks
  /\ Booting => modem \in {"loaded", "up"}

ConnectedUp == connected => modem = "up"

CauseCore ==
  /\ panic # "died"
  /\ Alone /\ AsksAlone /\ LoadedAlone
  /\ Causes = 0 => Calm

CauseInv == ConnectedUp /\ (Few => CauseCore)

LEMMA PendingEnqueue ==
  ASSUME NEW q \in Seq(Works), NEW w \in Works, NEW x \in Works
  PROVE  Pending(Enqueue(q, w), x) <=> Pending(q, x) \/ x = w
<1>1. CASE Pending(q, w)
  BY <1>1 DEF Enqueue
<1>2. CASE ~Pending(q, w)
  <2>1. Enqueue(q, w) = Append(q, w)
    BY <1>2 DEF Enqueue
  <2>2. /\ DOMAIN q = 1..Len(q) /\ DOMAIN Append(q, w) = 1..(Len(q) + 1) /\ Len(q) \in Nat
        /\ Append(q, w)[Len(q) + 1] = w
        /\ \A i \in 1..Len(q) : Append(q, w)[i] = q[i]
    OBVIOUS
  <2>3. \A i \in 1..(Len(q) + 1) : i \in 1..Len(q) \/ i = Len(q) + 1
    BY <2>2
  <2>4. 1..Len(q) \subseteq 1..(Len(q) + 1) /\ Len(q) + 1 \in 1..(Len(q) + 1)
    BY <2>2
  <2> QED BY <2>1, <2>2, <2>3, <2>4 DEF Pending
<1> QED BY <1>1, <1>2

LEMMA PendingTail ==
  ASSUME NEW q \in Seq(Works), q # <<>>, Distinct(q)
  PROVE  /\ \A x \in Works : Pending(Tail(q), x) => Pending(q, x)
         /\ Pending(q, Head(q)) /\ ~Pending(Tail(q), Head(q))
<1>1. /\ DOMAIN q = 1..Len(q) /\ Len(q) \in Nat /\ Len(q) > 0 /\ Head(q) = q[1]
      /\ DOMAIN Tail(q) = 1..(Len(q) - 1)
      /\ \A i \in 1..(Len(q) - 1) : Tail(q)[i] = q[i + 1]
  OBVIOUS
<1>2. \A i \in 1..(Len(q) - 1) : i + 1 \in 1..Len(q) /\ i + 1 # 1
  BY <1>1
<1>3. 1 \in 1..Len(q)
  BY <1>1
<1>4. ASSUME NEW i \in 1..(Len(q) - 1), Tail(q)[i] = q[1] PROVE FALSE
  <2>1. i + 1 \in 1..Len(q) /\ q[i + 1] = q[1]
    BY <1>1, <1>2, <1>4
  <2>2. i + 1 = 1
    BY <1>3, <2>1 DEF Distinct
  <2> QED BY <1>2, <2>2
<1> QED BY <1>1, <1>2, <1>3, <1>4 DEF Pending

LEMMA ModemMoves ==
  ASSUME NEW m, NEW q \in IrqSet, SetModem(m, q)
  PROVE  /\ modem' = m /\ connected' = (connected /\ m = "up")
         /\ irq'.err = q.err /\ irq'.thread = q.thread
         /\ q.edge => irq'.edge
         /\ irq'.edge => q.edge \/ High(m) # StatusHigh
<1>1. /\ [q EXCEPT !.edge = TRUE].err = q.err
      /\ [q EXCEPT !.edge = TRUE].thread = q.thread
      /\ [q EXCEPT !.edge = TRUE].edge
  BY DEF IrqSet
<1> QED BY <1>1 DEF SetModem

LEMMA ConnectedUpStep == CharmType /\ ConnectedUp /\ [Next]_vars => ConnectedUp'
<1> SUFFICES ASSUME CharmType, ConnectedUp, [Next]_vars PROVE ConnectedUp'
  OBVIOUS
<1>1. CASE UNCHANGED <<modem, connected>>
  BY <1>1 DEF ConnectedUp
<1>2. \A m, q : SetModem(m, q) => ConnectedUp'
  BY DEF SetModem, ConnectedUp
<1>3. CASE WakeCharm \/ Load \/ ModemUp \/ ModemFatal \/ ModemResets
  BY <1>2, <1>3 DEF WakeCharm, Load, ModemUp, ModemFatal, ModemResets, ModemStep
<1>4. CASE \E j \in Jobs : Shutdown(j) \/ RamdumpEnd(j) \/ PowerupBegin(j)
  BY <1>2, <1>4 DEF Shutdown, RamdumpEnd, PowerupBegin
<1>5. CASE ModemConnects
  BY <1>5 DEF ModemConnects, ConnectedUp
<1>6. CASE \/ Create \/ FrameworkStep \/ ErrfatalTest \/ ErrfatalClear \/ StatusLow
           \/ StatusClear \/ StatusRequest \/ StatusUp \/ CheckStatus
           \/ CheckRequest \/ RunFatal \/ FatalRequest \/ ReconnectTimer \/ RunStatus
  BY <1>1, <1>6 DEF Create, FrameworkStep, ErrfatalTest, ErrfatalClear, StatusLow, StatusClear
     , StatusRequest, StatusUp, CheckStatus, CheckRequest, RunFatal, FatalRequest
     , ReconnectTimer, RunStatus, mdmVars, modemVars
<1>7. CASE \/ RunReconnectConnected \/ RunReconnectSilent \/ ForceFatal
           \/ ForceFatalInIrq \/ ForceSilentReset \/ WaitInterrupted
           \/ RamdumpDone \/ RamdumpTimeout
           \/ \E w \in SilentThreads : SilentBooted(w) \/ SilentTimeout(w) \/ SilentEnd(w)
           \/ \E j \in Jobs : RamdumpBegin(j) \/ RamdumpUnwanted(j)
  BY <1>1, <1>7 DEF RunReconnectConnected, RunReconnectSilent, SilentBooted, SilentTimeout
     , SilentEnd, ForceFatal, ForceFatalInIrq, ForceSilentReset, WaitInterrupted
     , RamdumpBegin, RamdumpDone, RamdumpTimeout, RamdumpUnwanted, mdmVars, modemVars
<1>8. CASE \/ PowerupBooted \/ PowerupTimeout \/ LoadFails \/ BootDoneReady
           \/ BootDoneSignal \/ BootDoneArm \/ WaitForRestart
           \/ ReadBootType \/ ResetNeedsReload \/ InterruptedReset
           \/ RamDumpStatus \/ RamDumpSignal
           \/ \E j \in Jobs : PowerupEnd(j)
  BY <1>1, <1>8 DEF PowerupBooted, PowerupTimeout, PowerupEnd, LoadFails, BootDoneReady
     , BootDoneSignal, BootDoneArm, WaitForRestart, ReadBootType, ResetNeedsReload
     , InterruptedReset, RamDumpStatus, RamDumpSignal, mdmVars, modemVars
<1>9. CASE Halted \/ Settled \/ UNCHANGED vars
  BY <1>1, <1>9 DEF Halted, Settled, vars, mdmVars, modemVars
<1> QED
  BY <1>3, <1>4, <1>5, <1>6, <1>7, <1>8, <1>9
  DEF Next, ErrfatalStep, StatusStep, CheckStep, QueueStep, SilentStep, CallbackStep,
     DaemonStep, ModemActs

\* The events.
Cause ==
  \/ ForceFatal \/ ForceFatalInIrq \/ ForceSilentReset \/ WaitInterrupted
  \/ ModemFatal \/ ModemResets

\* An event is counted, and mixed waits stay mixed.
LEMMA CausesGrow ==
  ASSUME CharmType, [Next]_vars
  PROVE  /\ hist.mixed => hist'.mixed
         /\ bound' = bound \/ (Cause /\ Causes' = Causes + 1)
         /\ Causes \in Nat
<1>0. hist \in HistSet
  BY DEF CharmType, HistType
<1>1. bound.faults \in Nat /\ bound.forces \in Nat
  BY BoundsAreNat DEF CharmType, BoundType
<1>2. CASE ForceFatal \/ ForceFatalInIrq \/ ForceSilentReset \/ WaitInterrupted
  <2>1. bound'.faults = bound.faults /\ bound'.forces = bound.forces + 1
    BY <1>2 DEF ForceFatal, ForceFatalInIrq, ForceSilentReset, WaitInterrupted, Forcing,
       CharmType, BoundType
  <2>2. hist.mixed => hist'.mixed
    BY <1>0, <1>2 DEF ForceFatal, ForceFatalInIrq, ForceSilentReset, SilentBegin,
       WaitInterrupted, HistSet
  <2> QED BY <1>1, <1>2, <2>1, <2>2 DEF Cause, Causes
<1>3. CASE ModemFatal \/ ModemResets
  <2>1. bound'.faults = bound.faults + 1 /\ bound'.forces = bound.forces
    BY <1>3 DEF ModemFatal, ModemResets, Fault, CharmType, BoundType
  <2>2. hist.mixed => hist'.mixed
    BY <1>0, <1>3 DEF ModemFatal, ModemResets, Fault, HistSet
  <2> QED BY <1>1, <1>3, <2>1, <2>2 DEF Cause, Causes
<1>4. CASE \/ Load \/ RamdumpTimeout \/ PowerupTimeout \/ RamDumpSignal \/ BootDoneSignal
           \/ RunReconnectSilent
           \/ \E j \in Jobs : Shutdown(j) \/ RamdumpBegin(j) \/ PowerupBegin(j)
  <2>1. hist.mixed => hist'.mixed
    BY <1>0, <1>4 DEF Load, RamdumpTimeout, PowerupTimeout, RamDumpSignal, BootDoneSignal,
       RunReconnectSilent, SilentBegin, Shutdown, RamdumpBegin, PowerupBegin, HistSet
  <2>2. bound' = bound
    BY <1>4 DEF Load, RamdumpTimeout, PowerupTimeout, RamDumpSignal, BootDoneSignal,
       RunReconnectSilent, SilentBegin, Shutdown, RamdumpBegin, PowerupBegin
  <2> QED BY <1>1, <2>1, <2>2 DEF Causes
<1>5. CASE UNCHANGED countVars
  BY <1>1, <1>5 DEF countVars, Causes
<1>6. CASE \/ Create \/ FrameworkStep \/ ErrfatalTest \/ ErrfatalClear \/ StatusLow
           \/ StatusClear \/ StatusRequest \/ StatusUp \/ CheckStatus
           \/ CheckRequest \/ RunFatal \/ FatalRequest \/ RunStatus
  BY <1>5, <1>6 DEF Create, FrameworkStep, ErrfatalTest, ErrfatalClear, StatusLow, StatusClear
     , StatusRequest, StatusUp, CheckStatus, CheckRequest, RunFatal, FatalRequest, RunStatus
     , mdmVars, countVars
<1>7. CASE \/ ReconnectTimer \/ RunReconnectConnected
           \/ RamdumpDone \/ PowerupBooted
           \/ \E w \in SilentThreads : SilentBooted(w) \/ SilentTimeout(w) \/ SilentEnd(w)
           \/ \E j \in Jobs : RamdumpEnd(j) \/ RamdumpUnwanted(j) \/ PowerupEnd(j)
  BY <1>5, <1>7 DEF ReconnectTimer, RunReconnectConnected, SilentBooted, SilentTimeout
     , SilentEnd, RamdumpDone, RamdumpEnd, RamdumpUnwanted, PowerupBooted, PowerupEnd
     , mdmVars, countVars
<1>8. CASE \/ WakeCharm \/ LoadFails \/ BootDoneReady \/ BootDoneArm \/ WaitForRestart
           \/ ReadBootType \/ ResetNeedsReload \/ InterruptedReset
           \/ RamDumpStatus \/ ModemUp \/ ModemConnects \/ Halted
           \/ Settled \/ UNCHANGED vars
  BY <1>5, <1>8 DEF WakeCharm, LoadFails, BootDoneReady, BootDoneArm, WaitForRestart
     , ReadBootType, ResetNeedsReload, InterruptedReset, RamDumpStatus, ModemUp
     , ModemConnects, Halted, Settled, ModemStep, vars, mdmVars, countVars
<1> QED
  BY <1>2, <1>3, <1>4, <1>6, <1>7, <1>8
  DEF Next, ErrfatalStep, StatusStep, CheckStep, QueueStep, SilentStep, CallbackStep,
     DaemonStep, ModemActs

\* Few events, and the first of them, come out of a calm state.
LEMMA FewStep ==
  ASSUME CharmType, [Next]_vars, Few'
  PROVE  /\ Few /\ Causes \in Nat
         /\ \/ bound' = bound /\ Causes' = Causes
            \/ Cause /\ Causes = 0 /\ Causes' = 1
<1>1. bound' = bound => Causes' = Causes
  BY DEF Causes
<1> QED BY <1>1, CausesGrow DEF Few

\* What most steps leave of all that.
CallsKept ==
  /\ callerAt' = callerAt /\ jobAt' = jobAt /\ ongoing' = ongoing
  /\ panic' = panic \/ panic' # "died"
NoNewAsk ==
  /\ ErrAsks' => ErrAsks
  /\ FatalAsks' => FatalAsks
  /\ WorkerAsks' => WorkerAsks
  /\ ThreadAsks' => ThreadAsks
  /\ EdgeAsks' => EdgeAsks
  /\ CheckAsks' => CheckAsks
RestKept ==
  /\ Reconnects /\ modem # "fatal" => Reconnects'
  /\ modem' = "fatal" <=> modem = "fatal"
  /\ CheckFor => CheckFor'
BootKept ==
  /\ Booting' => Booting /\ (modem \in {"loaded", "up"} => modem' \in {"loaded", "up"})
  /\ Booted' => Booting \/ Booted
  /\ BootSeen' => Booted \/ BootSeen

LEMMA KeptIsEnough ==
  ASSUME CauseCore, CallsKept, NoNewAsk, RestKept, BootKept, Causes' = 0 => Causes = 0
  PROVE  CauseCore'
<1>1. panic' # "died"
  BY DEF CallsKept, CauseCore
<1>2. Alone'
  BY DEF CallsKept, CauseCore, Alone
<1>3. (Idle' <=> Idle) /\ (NobodyAsks => NobodyAsks') /\ (OneAsks => OneAsks')
  BY DEF CallsKept, NoNewAsk, Idle, NobodyAsks, OneAsks
<1>4. AsksAlone'
  BY <1>3 DEF CauseCore, AsksAlone, CallsKept, NoNewAsk, RestKept
<1>5. LoadedAlone'
  BY <1>3 DEF CauseCore, LoadedAlone, BootKept
<1>6. Causes' = 0 => Calm'
  BY <1>3 DEF CauseCore, Calm, RestKept
<1> QED BY <1>1, <1>2, <1>4, <1>5, <1>6 DEF CauseCore

\* What the types say of the records the proofs below look into.
LEMMA CauseTypes ==
  ASSUME CharmType
  PROVE  /\ drv \in DrvSet /\ hist \in HistSet /\ irq \in IrqSet
         /\ DoneType /\ DaemonType /\ CheckType /\ WqType
         /\ wq.queue \in Seq(Works) /\ Distinct(wq.queue)
         /\ done.boot \in Nat
  BY BoundsAreNat DEF CharmType, DrvType, HistType, IrqType, WqType, DoneType

\* A callback under way belongs to a job.
LEMMA CallbackBusy ==
  ASSUME CharmType, CallbackHasJob
  PROVE  /\ cb \in {"boot", "bootInit"} => \E j \in Jobs : jobAt[j] = "powerup"
         /\ Idle => cb = "none"
         /\ Booting \/ Booted \/ BootSeen => ~Idle
  BY DEF CharmType, CbType, CallbackHasJob, Idle, Booting, Booted, BootSeen

\* The interrupts, the works and the silent reset, but for the requests.
LEMMA ThreadsKeep ==
  ASSUME Prompt, CharmType, ConnectedUp, CauseCore, Causes' = 0 => Causes = 0,
         \/ Create \/ ErrfatalTest \/ StatusClear \/ StatusUp \/ RunStatus \/ ReconnectTimer
         \/ RunReconnectConnected \/ RunReconnectSilent \/ ForceSilentReset
         \/ \E w \in SilentThreads : SilentBooted(w) \/ SilentTimeout(w) \/ SilentEnd(w)
  PROVE  CauseCore'
<1>0. /\ drv \in DrvSet /\ irq \in IrqSet /\ DoneType /\ CheckType /\ WqType
      /\ wq.queue \in Seq(Works) /\ Distinct(wq.queue) /\ done.boot \in Nat
  BY CauseTypes
<1>1. UNCHANGED ssrVars => CallsKept
  BY DEF ssrVars, CallsKept
<1>2. UNCHANGED <<wq, modem, connected>> => (Reconnects => Reconnects')
  BY DEF Reconnects
<1>3. UNCHANGED <<check, daemon, modem>> => (CheckFor => CheckFor')
  BY DEF CheckFor
<1>4. UNCHANGED <<cb, daemon, drv, done, modem>> => BootKept
  BY DEF BootKept, Booting, Booted, BootSeen
<1>5. UNCHANGED <<irq, wq, check, modem>> => NoNewAsk
  BY DEF NoNewAsk, ErrAsks, FatalAsks, WorkerAsks, ThreadAsks, EdgeAsks, CheckAsks, StatusHigh
<1>6. CASE Create \/ \E w \in SilentThreads : SilentTimeout(w)
  <2>1. UNCHANGED mdmVars
    BY <1>6 DEF Create, SilentTimeout
  <2>2. CallsKept
    BY <1>6 DEF Create, SilentTimeout, CallsKept, SSR!Register, SSR!PanicElsewhere, SSR!Panic,
       SSR!callerVars, SSR!jobVars
  <2> QED BY <1>2, <1>3, <1>4, <1>5, <2>1, <2>2, KeptIsEnough DEF mdmVars, RestKept
<1>7. CASE ErrfatalTest \/ StatusClear
  <2>1. /\ irq'.edge = irq.edge
        /\ irq'.err # "none" => irq.err # "none"
        /\ irq'.thread # "idle" => irq.thread # "idle"
    BY <1>0, <1>7 DEF ErrfatalTest, StatusClear, IrqSet
  <2>2. /\ UNCHANGED <<wq, check, cb, daemon, modem, connected, done>> /\ CallsKept
        /\ drv'.firstBoot = drv.firstBoot /\ drv'.bootStatus = drv.bootStatus
    BY <1>0, <1>1, <1>7 DEF ErrfatalTest, StatusClear, threadVars, modemVars, Local, DrvSet
  <2>3. NoNewAsk
    BY <2>1, <2>2 DEF NoNewAsk, ErrAsks, FatalAsks, WorkerAsks, ThreadAsks, EdgeAsks,
       CheckAsks, StatusHigh
  <2>4. BootKept
    BY <2>2 DEF BootKept, Booting, Booted, BootSeen
  <2> QED BY <1>2, <1>3, <2>2, <2>3, <2>4, KeptIsEnough DEF RestKept
<1>8. CASE StatusUp
  <2>1. /\ irq'.err = irq.err /\ irq'.thread = irq.thread /\ ~irq'.edge
        /\ wq'.worker = wq.worker /\ wq'.reconnect = wq.reconnect
        /\ wq'.queue = Enqueue(wq.queue, "status")
        /\ check'.running = check.running /\ ~check'.due
    BY <1>0, <1>8 DEF StatusUp, IrqSet, WqType, CheckType
  <2>2. \A x \in {"fatal", "reconnect"} : Pending(wq'.queue, x) <=> Pending(wq.queue, x)
    BY <1>0, <2>1, PendingEnqueue DEF Works
  <2>3. UNCHANGED <<drv, done, cb, daemon, modem, connected>> /\ CallsKept
    BY <1>1, <1>8 DEF StatusUp, modemVars, Local
  <2>4. NoNewAsk
    BY <2>1, <2>2, <2>3 DEF NoNewAsk, ErrAsks, FatalAsks, WorkerAsks, ThreadAsks, EdgeAsks,
       CheckAsks
  <2>5. RestKept
    BY <2>1, <2>2, <2>3 DEF RestKept, Reconnects, CheckFor
  <2> QED BY <1>4, <2>3, <2>4, <2>5, KeptIsEnough
<1>9. CASE RunStatus \/ ReconnectTimer \/ RunReconnectConnected
  <2>1. UNCHANGED <<drv, done, check, irq, cb, daemon, modem, connected>> /\ CallsKept
    BY <1>1, <1>9 DEF RunStatus, ReconnectTimer, RunReconnectConnected, NextWork, modemVars, Local
  <2>2. /\ wq'.worker = wq.worker
        /\ Pending(wq'.queue, "fatal") => Pending(wq.queue, "fatal")
        /\ Pending(wq'.queue, "reconnect")
             => Pending(wq.queue, "reconnect") \/ (wq.reconnect /\ ModemSlow)
        /\ wq'.reconnect => wq.reconnect \/ StatusHigh
    <3>1. CASE RunStatus
      <4>1. /\ wq'.worker = wq.worker /\ wq'.queue = Tail(wq.queue) /\ wq.queue # <<>>
            /\ wq'.reconnect => wq.reconnect \/ StatusHigh
        BY <1>0, <3>1 DEF RunStatus, NextWork, WqType
      <4> QED BY <1>0, <4>1, PendingTail DEF Works
    <3>2. CASE RunReconnectConnected
      <4>1. /\ wq'.worker = wq.worker /\ wq'.queue = Tail(wq.queue) /\ wq.queue # <<>>
            /\ wq'.reconnect = wq.reconnect
        BY <1>0, <3>2 DEF RunReconnectConnected, NextWork, WqType
      <4> QED BY <1>0, <4>1, PendingTail DEF Works
    <3>3. CASE ReconnectTimer
      <4>1. /\ wq'.worker = wq.worker /\ wq'.queue = Enqueue(wq.queue, "reconnect")
            /\ ~wq'.reconnect /\ wq.reconnect /\ ModemSlow
        BY <1>0, <3>3 DEF ReconnectTimer, WqType
      <4> QED BY <1>0, <4>1, PendingEnqueue DEF Works
    <3> QED BY <1>9, <3>1, <3>2, <3>3
  <2>3. NoNewAsk
    BY <2>1, <2>2 DEF NoNewAsk, ErrAsks, FatalAsks, WorkerAsks, ThreadAsks, EdgeAsks,
       CheckAsks, StatusHigh
  <2>4. Reconnects /\ modem # "fatal" => Reconnects'
    BY <2>1, <2>2 DEF Reconnects, StatusHigh, High, ModemSlow
  <2> QED BY <1>3, <1>4, <2>1, <2>3, <2>4, KeptIsEnough DEF RestKept
<1>10. CASE RunReconnectSilent
  <2>1. UNCHANGED <<check, irq, cb, daemon, modem, connected>> /\ CallsKept
    BY <1>1, <1>10 DEF RunReconnectSilent, NextWork, modemVars, Local
  <2>2. /\ wq'.worker = "silent" /\ wq'.queue = Tail(wq.queue) /\ wq.queue # <<>>
        /\ wq'.reconnect = wq.reconnect /\ ~connected /\ Head(wq.queue) = "reconnect"
    BY <1>0, <1>10 DEF RunReconnectSilent, NextWork, WqType
  <2>3. ~Reconnects /\ (Pending(wq'.queue, "fatal") => Pending(wq.queue, "fatal"))
    BY <1>0, <2>2, PendingTail DEF Reconnects, Works
  <2>4. NoNewAsk
    BY <2>1, <2>2, <2>3 DEF NoNewAsk, ErrAsks, FatalAsks, WorkerAsks, ThreadAsks, EdgeAsks,
       CheckAsks, StatusHigh
  <2>5. /\ drv'.firstBoot = drv.firstBoot /\ drv'.bootStatus = drv.bootStatus
        /\ done'.boot = done.boot
    BY <1>0, <1>10 DEF RunReconnectSilent, SilentBegin, DrvSet, DoneType
  <2>6. BootKept
    BY <2>1, <2>5 DEF BootKept, Booting, Booted, BootSeen
  <2> QED BY <1>3, <2>1, <2>3, <2>4, <2>6, KeptIsEnough DEF RestKept
<1>11. CASE ForceSilentReset
  <2>1. UNCHANGED <<wq, check, irq, cb, daemon, modem, connected>> /\ CallsKept
    BY <1>1, <1>11 DEF ForceSilentReset, modemVars, Local
  <2>2. /\ drv'.firstBoot = drv.firstBoot /\ drv'.bootStatus = drv.bootStatus
        /\ done'.boot = done.boot
    BY <1>0, <1>11 DEF ForceSilentReset, SilentBegin, DrvSet, DoneType
  <2>3. BootKept
    BY <2>1, <2>2 DEF BootKept, Booting, Booted, BootSeen
  <2> QED BY <1>2, <1>3, <1>5, <2>1, <2>3, KeptIsEnough DEF RestKept
<1>12. CASE \E w \in SilentThreads : SilentBooted(w) \/ SilentEnd(w)
  <2>1. UNCHANGED <<drv, check, irq, cb, daemon, modem, connected>> /\ CallsKept
    BY <1>1, <1>12 DEF SilentBooted, SilentEnd, modemVars, Local
  <2>2. done'.boot > 0 => done.boot > 0
    BY <1>0, <1>12 DEF SilentBooted, SilentEnd, DoneType
  <2>3. /\ wq'.queue = wq.queue /\ wq'.reconnect = wq.reconnect
        /\ wq'.worker = wq.worker \/ wq'.worker = "idle"
    BY <1>0, <1>12 DEF SilentBooted, SilentEnd, WqType
  <2>4. NoNewAsk /\ (Reconnects => Reconnects')
    BY <2>1, <2>3 DEF NoNewAsk, ErrAsks, FatalAsks, WorkerAsks, ThreadAsks, EdgeAsks,
       CheckAsks, StatusHigh, Reconnects
  <2>5. BootKept
    BY <2>1, <2>2 DEF BootKept, Booting, Booted, BootSeen
  <2> QED BY <1>3, <2>1, <2>4, <2>5, KeptIsEnough DEF RestKept
<1> QED BY <1>6, <1>7, <1>8, <1>9, <1>10, <1>11, <1>12

\* A boot that is reported is asked for: with nobody waiting for it, it is the
\* first one, and completes nothing.
LEMMA ReportAnswers ==
  ASSUME CharmType, DaemonFacts, AnswerInv, ~hist.mixed, daemon.at \in {"report", "signal"}
  PROVE  cb = "bootInit" \/ done.boot > 0 => FALSE
<1>1. CASE drv.firstBoot
  BY <1>1 DEF DaemonFacts, AnswerInv, FreshAnswer
<1>2. CASE ~drv.firstBoot
  <2>1. Answering
    BY <1>2 DEF Answering
  <2>2. Waiting /\ ~(done.boot > 0)
    BY <2>1, OneAtMost
  <2>3. cb # "bootInit"
    BY <2>2 DEF AnswerInv, OneWaiter, Waiting
  <2> QED BY <2>2, <2>3
<1> QED BY <1>1, <1>2

\* With prompt threads nobody asks while the daemon loads for a callback.
LEMMA QuietWhenLoading ==
  ASSUME Prompt, Takes, CauseCore, ~Idle
  PROVE  NobodyAsks
<1>1. ~ErrAsks /\ ~FatalAsks /\ ~WorkerAsks
  BY DEF CauseCore, AsksAlone
<1>2. ~ThreadAsks /\ ~EdgeAsks /\ ~CheckAsks
  BY DEF Takes, KernelQuiet, ThreadAsks, EdgeAsks, CheckAsks
<1> QED BY <1>1, <1>2 DEF NobodyAsks

LEMMA DaemonKeeps ==
  ASSUME Prompt, FreshInv, ConnectedUp, Few, CauseCore, Causes' = 0 => Causes = 0,
         DaemonStep \/ WaitInterrupted
  PROVE  CauseCore'
<1>0. /\ drv \in DrvSet /\ irq \in IrqSet /\ DoneType /\ CheckType /\ DaemonType
      /\ done.boot \in Nat /\ ~hist.mixed
      /\ CharmType /\ CallbackHasJob /\ DaemonFacts /\ AnswerInv
  BY CauseTypes DEF FreshInv, Few
<1>1. CallsKept /\ UNCHANGED <<wq, cb>> /\ check'.running = check.running
  BY <1>0 DEF DaemonStep, WakeCharm, Load, LoadFails, BootDoneReady, BootDoneSignal, BootDoneArm,
     WaitForRestart, ReadBootType, ResetNeedsReload, InterruptedReset, RamDumpStatus,
     RamDumpSignal, WaitInterrupted, DaemonAt, Local, ssrVars, threadVars, CallsKept, CheckType
<1>2. CASE UNCHANGED <<irq, modem, connected>> /\ BootKept /\ (CheckFor => CheckFor')
  <2>1. NoNewAsk
    BY <1>1, <1>2 DEF NoNewAsk, ErrAsks, FatalAsks, WorkerAsks, ThreadAsks, EdgeAsks,
       CheckAsks, StatusHigh
  <2>2. RestKept
    BY <1>1, <1>2 DEF RestKept, Reconnects
  <2> QED BY <1>1, <1>2, <2>1, <2>2, KeptIsEnough
<1>3. CASE WakeCharm
  <2>1. /\ SetModem(PoweredOn, irq) /\ UNCHANGED <<drv, done, check>>
        /\ daemon'.at = "load"
    BY <1>0, <1>3 DEF WakeCharm, threadVars, DaemonType
  <2>2. High(PoweredOn) = StatusHigh /\ PoweredOn = IF modem = "off" THEN "rom" ELSE modem
    BY DEF High, PoweredOn, StatusHigh
  <2>3. /\ modem' = PoweredOn /\ connected' = (connected /\ PoweredOn = "up")
        /\ irq'.err = irq.err /\ irq'.thread = irq.thread
        /\ irq'.edge => irq.edge
    BY <1>0, <2>1, <2>2, ModemMoves
  <2>4. StatusHigh' = StatusHigh
    BY <2>2, <2>3 DEF StatusHigh
  <2>5. NoNewAsk
    BY <1>1, <2>3, <2>4 DEF NoNewAsk, ErrAsks, FatalAsks, WorkerAsks, ThreadAsks, EdgeAsks,
       CheckAsks
  <2>6. Reconnects => Reconnects'
    BY <1>1, <2>2, <2>3 DEF Reconnects, ConnectedUp
  <2>7. RestKept
    BY <2>1, <2>2, <2>3, <2>6 DEF RestKept, CheckFor
  <2>8. BootKept
    BY <1>1, <2>1 DEF BootKept, Booting, Booted, BootSeen
  <2> QED BY <1>1, <2>5, <2>7, <2>8, KeptIsEnough
<1>4. CASE LoadFails
  <2>1. /\ UNCHANGED <<drv, done, irq, check, modem, connected>> /\ ~daemon'.ok
    BY <1>0, <1>4 DEF LoadFails, threadVars, modemVars, DaemonType
  <2> QED BY <1>1, <1>2, <2>1 DEF BootKept, Booting, Booted, BootSeen, CheckFor
<1>5. CASE BootDoneReady
  <2>1. /\ UNCHANGED <<done, irq, check, modem, connected>> /\ daemon'.ok = daemon.ok
        /\ daemon.at = "report" /\ daemon'.at = "signal" /\ drv'.firstBoot = drv.firstBoot
    BY <1>0, <1>5 DEF BootDoneReady, threadVars, modemVars, DaemonType, DaemonAt, DrvSet
  <2>2. cb # "bootInit" /\ ~(done.boot > 0)
    BY <1>0, <2>1, ReportAnswers
  <2>3. BootKept
    BY <1>1, <2>1, <2>2 DEF BootKept, Booting, Booted, BootSeen
  <2> QED BY <1>1, <1>2, <2>1, <2>3 DEF CheckFor
<1>6. CASE BootDoneSignal
  <2>1. /\ UNCHANGED <<irq, check, modem, connected>> /\ daemon'.ok = daemon.ok
        /\ daemon.at = "signal" /\ daemon'.at = "arm" /\ drv'.bootStatus = drv.bootStatus
        /\ drv.firstBoot => done' = done
    BY <1>0, <1>6 DEF BootDoneSignal, threadVars, modemVars, DaemonType, DaemonAt, DrvSet
  <2>2. drv.bootStatus = "ok" => daemon.ok
    BY <1>0, <2>1 DEF DaemonFacts
  <2>3. BootKept
    BY <1>1, <2>1, <2>2 DEF BootKept, Booting, Booted, BootSeen
  <2> QED BY <1>1, <1>2, <2>1, <2>3 DEF CheckFor
<1>7. CASE BootDoneArm
  <2>1. /\ UNCHANGED <<drv, done, irq, modem, connected>> /\ daemon'.ok = daemon.ok
        /\ daemon.at = "arm" /\ daemon'.at = "wait"
        /\ check'.due => check.due \/ daemon.ok
    BY <1>0, <1>7 DEF BootDoneArm, modemVars, DaemonType, DaemonAt, CheckType
  <2> QED BY <1>1, <1>2, <2>1 DEF BootKept, Booting, Booted, BootSeen, CheckFor
<1>8. CASE \/ WaitForRestart \/ ReadBootType \/ ResetNeedsReload \/ WaitInterrupted
           \/ InterruptedReset \/ RamDumpStatus \/ RamDumpSignal
  <2>1. UNCHANGED <<irq, check, modem, connected>>
    BY <1>8 DEF WaitForRestart, ReadBootType, ResetNeedsReload, InterruptedReset, RamDumpStatus,
       RamDumpSignal, WaitInterrupted, threadVars, modemVars
  <2>2. daemon'.at \notin {"report", "signal", "arm"}
    BY <1>0, <1>8 DEF WaitForRestart, ReadBootType, ResetNeedsReload, InterruptedReset, RamDumpStatus,
       RamDumpSignal, WaitInterrupted, DaemonType
  <2>3. done'.boot = done.boot /\ drv'.bootStatus = drv.bootStatus
    BY <1>0, <1>8 DEF WaitForRestart, ReadBootType, ResetNeedsReload, InterruptedReset, RamDumpStatus,
       RamDumpSignal, WaitInterrupted, DoneType, DrvSet
  <2> QED BY <1>1, <1>2, <2>1, <2>2, <2>3 DEF BootKept, Booting, Booted, BootSeen, CheckFor
<1>9. CASE Load
  <2>1. /\ SetModem("loaded", irq) /\ UNCHANGED <<drv, done, check>> /\ modem = "rom" /\ Takes
        /\ panic' = panic
    BY <1>9 DEF Load, threadVars, DaemonAt, Local, ssrVars
  <2>2. ~High("loaded") /\ ~StatusHigh /\ High("loaded") = StatusHigh
    BY <2>1 DEF High, StatusHigh
  <2>3. /\ modem' = "loaded" /\ ~connected'
        /\ irq'.err = irq.err /\ irq'.thread = irq.thread
        /\ irq'.edge => irq.edge
    <3>1. /\ modem' = "loaded" /\ connected' = (connected /\ "loaded" = "up")
          /\ irq'.err = irq.err /\ irq'.thread = irq.thread
          /\ irq'.edge => irq.edge \/ High("loaded") # StatusHigh
      BY <1>0, <2>1, ModemMoves
    <3> QED BY <2>2, <3>1
  <2>4. NoNewAsk
    BY <1>1, <2>1, <2>2, <2>3 DEF NoNewAsk, ErrAsks, FatalAsks, WorkerAsks, ThreadAsks,
       EdgeAsks, CheckAsks
  <2>5. Reconnects => Reconnects'
    BY <1>1, <2>1, <2>3 DEF Reconnects, ConnectedUp
  <2>6. (Idle' <=> Idle) /\ (NobodyAsks => NobodyAsks') /\ (OneAsks => OneAsks')
    BY <1>1, <2>4 DEF CallsKept, NoNewAsk, Idle, NobodyAsks, OneAsks
  <2>7. AsksAlone'
    BY <1>1, <2>1, <2>4, <2>5, <2>6 DEF CauseCore, AsksAlone, CallsKept, NoNewAsk
  <2>8. LoadedAlone'
    <3>1. ASSUME Booting' \/ Booted' \/ BootSeen' PROVE NobodyAsks'
      <4>1. ~Idle
        BY <1>0, <1>1, <3>1, CallbackBusy DEF Booting, Booted, BootSeen
      <4> QED BY <2>1, <2>6, <4>1, QuietWhenLoading
    <3> QED BY <2>3, <3>1 DEF LoadedAlone
  <2>9. Alone'
    BY <1>1 DEF CallsKept, CauseCore, Alone
  <2>10. Causes' = 0 => Calm'
    BY <2>3, <2>5, <2>6 DEF CauseCore, Calm, CheckFor
  <2> QED BY <2>1, <2>7, <2>8, <2>9, <2>10 DEF CauseCore
<1> QED BY <1>3, <1>4, <1>5, <1>6, <1>7, <1>8, <1>9 DEF DaemonStep

\* The job goes on to another step of its sequence.
JobMoves(j, to) ==
  /\ jobAt[j] # "free" /\ jobAt' = [jobAt EXCEPT ![j] = to] /\ to # "free"
  /\ callerAt' = callerAt /\ ongoing' = ongoing

LEMMA MovingAlone ==
  ASSUME Framework!IInv, CauseCore, NEW j \in Jobs, NEW to, JobMoves(j, to)
  PROVE  /\ ~Idle /\ ~Idle' /\ Alone' /\ Causes # 0
         /\ \A c \in Contexts : callerAt[c] = "idle"
         /\ \A k \in Jobs : jobAt[k] # "free" => k = j
         /\ ~ErrAsks /\ ~FatalAsks /\ ~WorkerAsks
<1>1. /\ jobAt'[j] = to
      /\ \A k \in Jobs : k # j => jobAt'[k] = jobAt[k]
  BY DEF JobMoves, Framework!IInv, Framework!TypeOK
<1>2. ~Idle /\ ~Idle'
  BY <1>1 DEF Idle, JobMoves
<1>3. Alone'
  BY <1>1 DEF Alone, CauseCore, JobMoves
<1>4. Causes # 0
  BY <1>2 DEF CauseCore, Calm
<1>5. ~ErrAsks /\ ~FatalAsks /\ ~WorkerAsks
  BY <1>2 DEF CauseCore, AsksAlone
<1> QED BY <1>2, <1>3, <1>4, <1>5 DEF CauseCore, Alone, JobMoves

LEMMA MovingKeeps ==
  ASSUME Framework!IInv, CauseCore, NEW j \in Jobs, NEW to, JobMoves(j, to),
         panic' # "died", Causes' = 0 => Causes = 0,
         ErrAsks' => ErrAsks, FatalAsks' => FatalAsks, WorkerAsks' => WorkerAsks,
         to \in Settling => NobodyAsks', LoadedAlone'
  PROVE  CauseCore'
<1>1. /\ jobAt'[j] = to
      /\ \A k \in Jobs : k # j => jobAt'[k] = jobAt[k]
      /\ callerAt' = callerAt
  BY DEF JobMoves, Framework!IInv, Framework!TypeOK
<1>2. /\ ~Idle' /\ Alone' /\ Causes # 0
      /\ \A c \in Contexts : callerAt[c] = "idle"
      /\ \A k \in Jobs : jobAt[k] # "free" => k = j
      /\ ~ErrAsks' /\ ~FatalAsks' /\ ~WorkerAsks'
  BY MovingAlone
<1>3. \A k \in Jobs : jobAt'[k] \in Settling => NobodyAsks'
  BY <1>1, <1>2 DEF Settling
<1>4. AsksAlone'
  BY <1>1, <1>2, <1>3 DEF AsksAlone
<1> QED BY <1>2, <1>4 DEF CauseCore

LEMMA CallbacksKeep ==
  ASSUME Prompt, FreshInv, Framework!IInv, ConnectedUp, Few, Few', CauseCore,
         Causes' = 0 => Causes = 0, CallbackStep
  PROVE  CauseCore'
<1>0. /\ drv \in DrvSet /\ irq \in IrqSet /\ hist \in HistSet /\ DoneType
      /\ done.boot \in Nat /\ ~hist.mixed /\ ~hist'.mixed
      /\ CharmType /\ CallbackHasJob /\ DaemonFacts /\ AnswerInv
  BY CauseTypes DEF FreshInv, Few
<1>1. ~RamdumpTimeout /\ ~PowerupTimeout
  BY <1>0 DEF RamdumpTimeout, PowerupTimeout, HistSet
<1>2. UNCHANGED <<irq, wq, check, modem>> => NoNewAsk
  BY DEF NoNewAsk, ErrAsks, FatalAsks, WorkerAsks, ThreadAsks, EdgeAsks, CheckAsks, StatusHigh
<1>3. UNCHANGED <<wq, check, daemon, modem, connected>> => RestKept
  BY DEF RestKept, Reconnects, CheckFor
<1>4. CASE RamdumpDone \/ PowerupBooted \/ \E j \in Jobs : RamdumpBegin(j)
  <2>1. UNCHANGED <<wq, check, irq, daemon, modem, connected>> /\ CallsKept
    BY <1>4 DEF RamdumpDone, PowerupBooted, RamdumpBegin, threadVars, modemVars, Local, ssrVars,
       CallsKept
  <2>2. \/ cb' \in {"dump", "dumpInit"}
        \/ cb = "boot" /\ done.boot > 0 /\ drv' = drv /\ cb' = "bootInit"
    BY <1>4 DEF RamdumpDone, PowerupBooted, RamdumpBegin
  <2>3. BootKept
    BY <2>2 DEF BootKept, Booting, Booted, BootSeen
  <2> QED BY <1>2, <1>3, <2>1, <2>3, KeptIsEnough
<1>5. CASE \E j \in Jobs : PowerupBegin(j)
  <2>1. /\ SetModem(PoweredOn, irq) /\ UNCHANGED <<wq, check, daemon>> /\ CallsKept
        /\ cb = "none" /\ cb' = "boot"
        /\ drv'.firstBoot = drv.firstBoot /\ done'.boot = done.boot
        /\ hist'.mixed = (hist.mixed \/ Reloading)
    BY <1>0, <1>5 DEF PowerupBegin, threadVars, Local, ssrVars, CallsKept, DrvSet, DoneType,
       HistSet
  <2>2. ~Waiting
    BY <1>0, <2>1 DEF Waiting, Reloading, SilentThreads
  <2>3. ~Answering /\ ~(done.boot > 0)
    BY <1>0, <2>2, OneAtMost
  <2>4. BootKept
    BY <2>1, <2>3 DEF BootKept, Booting, Booted, BootSeen, Answering
  <2>5. High(PoweredOn) = StatusHigh /\ PoweredOn = IF modem = "off" THEN "rom" ELSE modem
    BY DEF High, PoweredOn, StatusHigh
  <2>6. /\ modem' = PoweredOn /\ connected' = (connected /\ PoweredOn = "up")
        /\ irq'.err = irq.err /\ irq'.thread = irq.thread
        /\ irq'.edge => irq.edge
    BY <1>0, <2>1, <2>5, ModemMoves
  <2>7. StatusHigh' = StatusHigh
    BY <2>5, <2>6 DEF StatusHigh
  <2>8. NoNewAsk
    BY <2>1, <2>6, <2>7 DEF NoNewAsk, ErrAsks, FatalAsks, WorkerAsks, ThreadAsks, EdgeAsks,
       CheckAsks
  <2>9. Reconnects => Reconnects'
    BY <2>1, <2>5, <2>6 DEF Reconnects, ConnectedUp
  <2>10. RestKept
    BY <2>1, <2>5, <2>6, <2>9 DEF RestKept, CheckFor
  <2> QED BY <2>1, <2>4, <2>8, <2>10, KeptIsEnough
<1>6. ASSUME NEW j \in Jobs, Shutdown(j) \/ RamdumpEnd(j) \/ RamdumpUnwanted(j)
      PROVE  CauseCore'
  <2>1. PICK to \in {"unlockShutdown", "powerup"} : JobMoves(j, to)
    BY <1>6 DEF Shutdown, RamdumpEnd, RamdumpUnwanted, SSR!Shutdown, SSR!Ramdump, SSR!Goto,
       SSR!callerVars, JobMoves
  <2>2. wq' = wq /\ panic' = panic
    BY <1>6 DEF Shutdown, RamdumpEnd, RamdumpUnwanted, SSR!Shutdown, SSR!Ramdump, SSR!Goto,
       threadVars
  <2>3. irq'.err = irq.err
    <3>1. CASE Shutdown(j) \/ RamdumpEnd(j)
      BY <1>0, <3>1, ModemMoves DEF Shutdown, RamdumpEnd
    <3>2. CASE RamdumpUnwanted(j)
      BY <3>2 DEF RamdumpUnwanted
    <3> QED BY <1>6, <3>1, <3>2
  <2>4. (ErrAsks' => ErrAsks) /\ (FatalAsks' => FatalAsks) /\ (WorkerAsks' => WorkerAsks)
    BY <2>2, <2>3 DEF ErrAsks, FatalAsks, WorkerAsks
  <2>5. jobAt[j] \in {"shutdown", "ramdump"} /\ (cb' = cb \/ cb' = "none")
    BY <1>6 DEF Shutdown, RamdumpEnd, RamdumpUnwanted, SSR!Shutdown, SSR!Ramdump, SSR!Goto
  <2>6. cb' \notin {"boot", "bootInit"}
    BY <1>0, <2>1, <2>5, MovingAlone, CallbackBusy
  <2>7. LoadedAlone'
    BY <2>6 DEF LoadedAlone, Booting, Booted, BootSeen
  <2>8. to \notin Settling
    BY <2>1 DEF Settling
  <2> QED BY <2>1, <2>2, <2>4, <2>7, <2>8, MovingKeeps DEF CauseCore
<1>7. ASSUME NEW j \in Jobs, PowerupEnd(j)
      PROVE  CauseCore'
  <2>1. cb = "bootInit" /\ cb' = "none" /\ UNCHANGED <<drv, wq, check, irq, daemon, modem, connected>>
    BY <1>7 DEF PowerupEnd, threadVars, modemVars
  <2>2. NoNewAsk /\ LoadedAlone' /\ BootKept
    BY <1>2, <2>1 DEF LoadedAlone, BootKept, Booting, Booted, BootSeen
  <2>3. CASE drv.bootStatus = "ok"
    <3>1. JobMoves(j, "unlockPowerup") /\ panic' = panic
      BY <1>7, <2>3 DEF PowerupEnd, SSR!Powerup, SSR!Goto, SSR!callerVars, JobMoves
    <3>2. NobodyAsks
      BY <2>1, <2>3 DEF CauseCore, LoadedAlone, BootSeen
    <3>3. NobodyAsks'
      BY <2>2, <3>2 DEF NobodyAsks, NoNewAsk
    <3> QED BY <2>2, <3>1, <3>3, MovingKeeps DEF CauseCore, NoNewAsk
  <2>4. CASE drv.bootStatus # "ok"
    <3>1. UNCHANGED <<callerAt, jobAt, ongoing>> /\ panic' = "powerup"
      BY <1>7, <2>4 DEF PowerupEnd, SSR!PowerupFails, SSR!Panic, SSR!callerVars, SSR!jobVars
    <3> QED BY <1>3, <2>1, <2>2, <3>1, KeptIsEnough DEF CallsKept
  <2> QED BY <2>3, <2>4
<1> QED BY <1>1, <1>4, <1>5, <1>6, <1>7 DEF CallbackStep

LEMMA FrameworkKeeps ==
  ASSUME Framework!IInv, CauseCore, Causes' = 0 => Causes = 0, FrameworkStep
  PROVE  CauseCore'
<1> USE DEF SSR!lockVars, SSR!callerVars, SSR!jobVars
<1>0. /\ callerAt \in [Contexts -> {"idle", "mark", "alloc"}]
      /\ DOMAIN jobAt = Jobs /\ ongoing \in [{Modem} -> BOOLEAN] /\ registered \subseteq {Modem}
      /\ \A j \in Jobs : powerupLock[Modem] # NoJob => powerupLock[Modem] \in Jobs
  BY DEF Framework!IInv, Framework!TypeOK, Framework!CallerStates
<1>1. UNCHANGED mdmVars
  BY DEF FrameworkStep
<1>2. /\ NobodyAsks' <=> NobodyAsks
      /\ OneAsks' <=> OneAsks
      /\ ErrAsks' <=> ErrAsks
      /\ FatalAsks' <=> FatalAsks
      /\ WorkerAsks' <=> WorkerAsks
      /\ LoadedAlone'
  BY <1>1 DEF mdmVars, NobodyAsks, OneAsks, ErrAsks, FatalAsks, WorkerAsks, ThreadAsks, EdgeAsks,
     CheckAsks, StatusHigh, LoadedAlone, Booting, Booted, BootSeen, CauseCore
<1>3. Reconnects' <=> Reconnects
  BY <1>1 DEF mdmVars, Reconnects
<1>4. ASSUME NEW c \in Contexts, SSR!CallerStep(c) PROVE CauseCore'
  <2>1. callerAt[c] # "idle"
    BY <1>4 DEF SSR!CallerStep, SSR!MarkOngoing, SSR!AllocFails, SSR!Schedule
  <2>2. /\ \A d \in Contexts : callerAt[d] # "idle" => d = c
        /\ \A k \in Jobs : jobAt[k] = "free"
        /\ NobodyAsks /\ ~Idle
    BY <2>1 DEF CauseCore, Alone, AsksAlone, Idle
  <2>3. Causes # 0
    BY <2>2 DEF CauseCore, Calm
  <2>4. CASE SSR!AllocFails(c)
    <3>1. UNCHANGED <<callerAt, jobAt, ongoing>> /\ panic' = "alloc"
      BY <2>4 DEF SSR!AllocFails, SSR!Panic
    <3> QED BY <1>1, <1>2, <2>3, <3>1 DEF CauseCore, Alone, AsksAlone, Idle, Reconnects, mdmVars
  <2>5. CASE SSR!MarkOngoing(c)
    <3>1. /\ callerAt' = [callerAt EXCEPT ![c] = "alloc"] /\ jobAt' = jobAt /\ panic' = panic
          /\ ongoing' = [ongoing EXCEPT ![callerFor[c]] = TRUE]
      BY <2>5 DEF SSR!MarkOngoing
    <3>2. callerFor[c] = Modem
      BY <1>0, <2>1 DEF Framework!IInv, Framework!TargetsInv
    <3>3. /\ ongoing'[Modem] /\ callerAt'[c] = "alloc"
          /\ \A d \in Contexts : d # c => callerAt'[d] = callerAt[d]
      BY <1>0, <3>1, <3>2
    <3>4. Alone'
      BY <2>2, <3>1, <3>3 DEF Alone
    <3>5. ~Idle' /\ \A k \in Jobs : jobAt'[k] = "free"
      BY <2>2, <3>1, <3>3 DEF Idle
    <3>6. AsksAlone'
      BY <1>2, <2>2, <3>5 DEF AsksAlone, NobodyAsks, Settling
    <3> QED BY <1>2, <2>3, <3>1, <3>4, <3>6 DEF CauseCore
  <2>6. ASSUME NEW j \in Jobs, SSR!Schedule(c, j) PROVE CauseCore'
    <3>1. /\ callerAt' = [callerAt EXCEPT ![c] = "idle"] /\ ongoing' = ongoing /\ panic' = panic
          /\ jobAt' = [jobAt EXCEPT ![j] = "queued"] /\ callerAt[c] = "alloc"
      BY <2>6 DEF SSR!Schedule
    <3>2. /\ ongoing[Modem] /\ jobAt'[j] = "queued"
          /\ \A k \in Jobs : k # j => jobAt'[k] = "free"
          /\ \A d \in Contexts : callerAt'[d] = "idle"
      BY <1>0, <2>2, <3>1 DEF CauseCore, Alone
    <3>3. Alone'
      BY <3>1, <3>2 DEF Alone
    <3>4. ~Idle'
      BY <3>2 DEF Idle
    <3>5. AsksAlone'
      BY <1>2, <2>2, <3>2, <3>4 DEF AsksAlone, NobodyAsks
    <3> QED BY <1>2, <2>3, <3>1, <3>3, <3>5 DEF CauseCore
  <2> QED BY <1>4, <2>4, <2>5, <2>6 DEF SSR!CallerStep
<1>5. ASSUME NEW j \in Jobs,
             \/ SSR!TakeShutdown(j) \/ SSR!AlreadyShuttingDown(j) \/ SSR!TakePowerup(j)
             \/ SSR!LockReg(j) \/ SSR!UnlockShutdown(j) \/ SSR!UnlockPowerup(j)
             \/ SSR!UnlockReg(j)
      PROVE  CauseCore'
  <2>1. PICK to : /\ JobMoves(j, to) /\ panic' = panic
                  /\ to \in Settling => jobAt[j] \in Settling
    BY <1>5 DEF SSR!TakeShutdown, SSR!AlreadyShuttingDown, SSR!TakePowerup, SSR!LockReg,
       SSR!UnlockShutdown, SSR!UnlockPowerup, SSR!UnlockReg, SSR!Goto, JobMoves, Settling
  <2>2. to \in Settling => NobodyAsks'
    BY <1>2, <2>1 DEF CauseCore, AsksAlone
  <2> QED BY <1>2, <2>1, <2>2, MovingKeeps DEF CauseCore
<1>6. ASSUME NEW j \in Jobs, SSR!DiedDuringPowerup(j) PROVE FALSE
  <2>1. jobAt[j] = "tryPowerup" /\ powerupLock[jobFor[j]] # NoJob
    BY <1>6 DEF SSR!DiedDuringPowerup
  <2>2. jobFor[j] = Modem
    BY <1>0, <2>1 DEF Framework!IInv, Framework!TargetsInv
  <2>3. /\ powerupLock[Modem] \in Jobs
        /\ jobAt[powerupLock[Modem]] \in Framework!HoldsPowerup
    BY <1>0, <2>1, <2>2 DEF Framework!IInv, Framework!LockInv, Framework!HeldInv
  <2>4. /\ jobAt[powerupLock[Modem]] # "free" /\ powerupLock[Modem] # j
    BY <2>1, <2>3 DEF Framework!HoldsPowerup, Framework!Sequence
  <2> QED BY <2>1, <2>3, <2>4 DEF CauseCore, Alone
<1>7. ASSUME NEW j \in Jobs, SSR!Finish(j) PROVE CauseCore'
  <2>1. /\ jobAt[j] = "out" /\ jobAt' = [jobAt EXCEPT ![j] = "free"]
        /\ callerAt' = callerAt /\ panic' = panic
    BY <1>7 DEF SSR!Finish
  <2>2. /\ \A k \in Jobs : jobAt[k] # "free" => k = j
        /\ \A c \in Contexts : callerAt[c] = "idle"
        /\ NobodyAsks /\ ~Idle
    BY <2>1 DEF CauseCore, Alone, AsksAlone, Settling, Idle
  <2>3. Idle'
    BY <1>0, <2>1, <2>2 DEF Idle
  <2>4. Causes # 0
    BY <2>2 DEF CauseCore, Calm
  <2>5. Alone'
    BY <2>3 DEF Alone, Idle
  <2>6. AsksAlone'
    BY <1>2, <2>2, <2>3 DEF AsksAlone, OneAsks, NobodyAsks, Idle, Settling
  <2> QED BY <1>2, <2>1, <2>4, <2>5, <2>6 DEF CauseCore
<1> QED BY <1>4, <1>5, <1>6, <1>7 DEF FrameworkStep

\* A request that finds nobody else at work, and `ongoing` clear.
LEMMA AcceptedAlone ==
  ASSUME Framework!IInv, CauseCore, NEW c \in Contexts, SSR!Accept(c, Modem), Idle,
         NobodyAsks', LoadedAlone', Causes' # 0
  PROVE  CauseCore'
<1>1. /\ callerAt' = [callerAt EXCEPT ![c] = "mark"] /\ jobAt' = jobAt /\ panic' = panic
  BY DEF SSR!Accept, SSR!jobVars
<1>2. callerAt \in [Contexts -> {"idle", "mark", "alloc"}]
  BY DEF Framework!IInv, Framework!TypeOK, Framework!CallerStates
<1>3. /\ callerAt'[c] = "mark"
      /\ \A d \in Contexts : d # c => callerAt'[d] = "idle"
      /\ \A j \in Jobs : jobAt'[j] = "free"
  BY <1>1, <1>2 DEF Idle
<1>4. Alone' /\ ~Idle'
  BY <1>3 DEF Alone, Idle
<1>5. AsksAlone'
  BY <1>3, <1>4 DEF AsksAlone, NobodyAsks, Settling
<1> QED BY <1>1, <1>4, <1>5 DEF CauseCore

\* One of those that ask makes its request.
LEMMA AskerKeeps ==
  ASSUME Framework!IInv, CauseCore, Causes' = 0 => Causes = 0,
         NEW c \in Contexts, Request(c), ~NobodyAsks,
         NoNewAsk, OneAsks => NobodyAsks', RestKept, BootKept, LoadedAlone'
  PROVE  CauseCore'
<1>1. Causes # 0 /\ Causes' # 0 /\ \A d \in Contexts : callerAt[d] = "idle"
  BY DEF CauseCore, Calm, AsksAlone
<1>2. CASE SSR!Refuse(c, Modem)
  <2>1. CallsKept
    BY <1>2 DEF SSR!Refuse, SSR!callerVars, SSR!jobVars, CallsKept
  <2> QED BY <2>1, KeptIsEnough
<1>3. CASE SSR!Accept(c, Modem)
  <2>1. ~ongoing[Modem]
    BY <1>3 DEF SSR!Accept
  <2>2. Idle
    BY <1>1, <2>1 DEF CauseCore, Alone, Idle
  <2>3. NobodyAsks'
    BY <2>2 DEF CauseCore, AsksAlone
  <2> QED BY <1>1, <1>3, <2>2, <2>3, AcceptedAlone
<1> QED BY <1>2, <1>3 DEF Request

LEMMA RequestsKeep ==
  ASSUME CharmType, Framework!IInv, CauseCore, Causes' = 0 => Causes = 0,
         StatusRequest \/ CheckRequest \/ FatalRequest
  PROVE  CauseCore'
<1>0. irq \in IrqSet /\ CheckType /\ WqType
  BY CauseTypes
<1>1. UNCHANGED <<drv, done, cb, daemon, modem, connected>>
  BY DEF StatusRequest, CheckRequest, FatalRequest, modemVars
<1>2. BootKept
  BY <1>1 DEF BootKept, Booting, Booted, BootSeen
<1> USE DEF NobodyAsks, ErrAsks, FatalAsks, WorkerAsks, ThreadAsks, EdgeAsks, CheckAsks,
            StatusHigh, Contexts
<1>3. CASE StatusRequest
  <2>1. /\ irq.thread = "request" /\ irq'.thread = "idle" /\ irq'.err = irq.err
        /\ irq'.edge = irq.edge /\ wq' = wq /\ check' = check /\ Request("irq")
    BY <1>0, <1>3 DEF StatusRequest, IrqSet, threadVars
  <2>2. ~NobodyAsks /\ NoNewAsk /\ (OneAsks => NobodyAsks')
    BY <1>1, <2>1 DEF NoNewAsk, OneAsks
  <2>3. RestKept
    BY <1>1, <2>1 DEF RestKept, Reconnects, CheckFor
  <2>4. LoadedAlone'
    BY <1>2, <2>2 DEF CauseCore, LoadedAlone, BootKept
  <2> QED BY <1>2, <2>1, <2>2, <2>3, <2>4, AskerKeeps
<1>4. CASE CheckRequest
  <2>1. /\ check.running /\ ~check'.running /\ check'.due = check.due
        /\ wq' = wq /\ irq' = irq /\ Request("timer")
    BY <1>0, <1>4 DEF CheckRequest, CheckType
  <2>2. ~NobodyAsks /\ NoNewAsk /\ (OneAsks => NobodyAsks')
    BY <1>1, <2>1 DEF NoNewAsk, OneAsks
  <2>3. RestKept
    BY <1>1, <2>1 DEF RestKept, Reconnects, CheckFor
  <2>4. LoadedAlone'
    BY <1>2, <2>2 DEF CauseCore, LoadedAlone, BootKept
  <2> QED BY <1>2, <2>1, <2>2, <2>3, <2>4, AskerKeeps
<1>5. CASE FatalRequest
  <2>1. /\ wq.worker = "request" /\ wq'.worker = "idle" /\ wq'.queue = wq.queue
        /\ wq'.reconnect = wq.reconnect
        /\ check' = check /\ irq' = irq /\ Request("queue")
    BY <1>0, <1>5 DEF FatalRequest, WqType
  <2>2. ~NobodyAsks /\ NoNewAsk /\ (OneAsks => NobodyAsks')
    BY <1>1, <2>1 DEF NoNewAsk, OneAsks
  <2>3. RestKept
    BY <1>1, <2>1 DEF RestKept, Reconnects, CheckFor
  <2>4. LoadedAlone'
    BY <1>2, <2>2 DEF CauseCore, LoadedAlone, BootKept
  <2> QED BY <1>2, <2>1, <2>2, <2>3, <2>4, AskerKeeps
<1> QED BY <1>3, <1>4, <1>5

\* A request on its way from one place to another while nothing restarts.
LEMMA IdleMoves ==
  ASSUME CauseCore, CharmType, CallbackHasJob, CallsKept, Idle, cb' = cb, OneAsks',
         ErrAsks' \/ FatalAsks' => modem' = "fatal" \/ Reconnects', Causes' # 0
  PROVE  CauseCore'
<1>1. Idle' /\ Alone'
  BY DEF CallsKept, CauseCore, Alone, Idle
<1>2. LoadedAlone'
  <2>1. cb' = "none"
    BY CallbackBusy
  <2> QED BY <2>1 DEF LoadedAlone, Booting, Booted, BootSeen
<1>3. AsksAlone'
  BY <1>1 DEF AsksAlone, Idle, Settling
<1> QED BY <1>1, <1>2, <1>3 DEF CauseCore, CallsKept

\* The status interrupt and the boot check, which may find a restart under way.
LEMMA AskKeeps ==
  ASSUME CauseCore, CallsKept, RestKept, Causes' # 0,
         \A c \in Contexts : callerAt[c] = "idle",
         \A j \in Jobs : jobAt[j] \notin Settling,
         ErrAsks' => ErrAsks, FatalAsks' => FatalAsks, WorkerAsks' => WorkerAsks,
         Idle /\ OneAsks => OneAsks', LoadedAlone'
  PROVE  CauseCore'
<1>1. Alone' /\ (Idle' <=> Idle)
  BY DEF CallsKept, CauseCore, Alone, Idle
<1>2. AsksAlone'
  BY <1>1 DEF CauseCore, AsksAlone, CallsKept, RestKept
<1> QED BY <1>1, <1>2 DEF CauseCore, CallsKept

LEMMA AsksKeep ==
  ASSUME Prompt, CharmType, CallbackHasJob, CauseCore, Causes' = 0 => Causes = 0,
         ErrfatalClear \/ StatusLow \/ CheckStatus \/ RunFatal
  PROVE  CauseCore'
<1>0. /\ drv \in DrvSet /\ irq \in IrqSet /\ CheckType /\ WqType
      /\ wq.queue \in Seq(Works) /\ Distinct(wq.queue)
  BY CauseTypes
<1>1. /\ CallsKept /\ UNCHANGED <<done, cb, daemon, modem, connected>>
  BY DEF ErrfatalClear, StatusLow, CheckStatus, RunFatal, NextWork, Local, ssrVars, modemVars,
     CallsKept
<1>2. drv'.firstBoot = drv.firstBoot /\ drv'.bootStatus = drv.bootStatus
  BY <1>0 DEF ErrfatalClear, StatusLow, CheckStatus, RunFatal, DrvSet
<1>3. BootKept
  BY <1>1, <1>2 DEF BootKept, Booting, Booted, BootSeen
<1> USE DEF ErrAsks, FatalAsks, WorkerAsks, ThreadAsks, EdgeAsks, CheckAsks, StatusHigh
<1>4. CASE ErrfatalClear
  <2>1. /\ irq.err = "clear" /\ irq'.err = "none" /\ irq'.thread = irq.thread
        /\ irq'.edge = irq.edge /\ check' = check
        /\ wq'.queue = Enqueue(wq.queue, "fatal") /\ wq'.worker = wq.worker
        /\ wq'.reconnect = wq.reconnect
    BY <1>0, <1>4 DEF ErrfatalClear, IrqSet, WqType
  <2>2. Pending(wq'.queue, "reconnect") <=> Pending(wq.queue, "reconnect")
    BY <1>0, <2>1, PendingEnqueue DEF Works
  <2>3. Idle /\ OneAsks /\ Causes' # 0
    BY <2>1 DEF CauseCore, AsksAlone, Calm, NobodyAsks
  <2>4. OneAsks'
    BY <1>1, <2>1, <2>3 DEF OneAsks
  <2>5. modem' = "fatal" \/ Reconnects'
    BY <1>1, <2>1, <2>2 DEF CauseCore, AsksAlone, Reconnects
  <2> QED BY <1>1, <2>3, <2>4, <2>5, IdleMoves
<1>5. CASE RunFatal
  <2>1. /\ wq.queue # <<>> /\ Head(wq.queue) = "fatal" /\ wq'.queue = Tail(wq.queue)
        /\ wq'.worker = "request" /\ irq' = irq /\ check' = check
    BY <1>0, <1>5 DEF RunFatal, NextWork, WqType
  <2>2. Pending(wq.queue, "fatal") /\ ~Pending(wq'.queue, "fatal")
    BY <1>0, <2>1, PendingTail
  <2>3. Idle /\ OneAsks /\ Causes' # 0
    BY <2>2 DEF CauseCore, AsksAlone, Calm, NobodyAsks
  <2>4. OneAsks' /\ ~ErrAsks' /\ ~FatalAsks'
    BY <1>1, <2>1, <2>2, <2>3 DEF OneAsks
  <2> QED BY <1>1, <2>3, <2>4, IdleMoves
<1>6. CASE StatusLow
  <2>1. /\ irq.edge /\ ~StatusHigh /\ irq'.err = irq.err /\ ~irq'.edge /\ irq.thread = "idle"
        /\ wq' = wq /\ check' = check
    BY <1>0, <1>6 DEF StatusLow, IrqSet, threadVars
  <2>2. ~NobodyAsks
    BY <2>1 DEF NobodyAsks
  <2>3. /\ \A c \in Contexts : callerAt[c] = "idle"
        /\ \A j \in Jobs : jobAt[j] \notin Settling
        /\ Causes' # 0
    BY <2>2 DEF CauseCore, AsksAlone, Calm
  <2>4. LoadedAlone'
    BY <1>3, <2>2 DEF CauseCore, LoadedAlone, BootKept
  <2>5. OneAsks => OneAsks'
    BY <1>1, <2>1 DEF OneAsks
  <2>6. RestKept
    BY <1>1, <2>1 DEF RestKept, Reconnects, CheckFor
  <2> QED BY <1>1, <2>1, <2>3, <2>4, <2>5, <2>6, AskKeeps
<1>7. CASE CheckStatus
  <2>1. /\ check.due /\ ~check.running /\ ~check'.due /\ wq' = wq /\ irq' = irq
        /\ check'.running => ~StatusHigh
        /\ Takes /\ ModemSlow
    BY <1>0, <1>7 DEF CheckStatus, CheckType
  <2>2. RestKept
    BY <1>1, <2>1 DEF RestKept, Reconnects, CheckFor
  <2>3. CASE StatusHigh
    <3>1. NoNewAsk
      BY <1>1, <2>1, <2>3 DEF NoNewAsk
    <3> QED BY <1>1, <1>3, <2>2, <3>1, KeptIsEnough
  <2>4. CASE ~StatusHigh
    <3>1. modem \notin {"loaded", "up", "fatal"}
      BY <2>1, <2>4 DEF ModemSlow, High
    <3>2. KernelQuiet
      BY <2>1 DEF Takes
    <3>3. /\ \A c \in Contexts : callerAt[c] = "idle"
          /\ \A j \in Jobs : jobAt[j] \notin Settling
      BY <3>2 DEF KernelQuiet, Settling
    <3>4. ~ErrAsks /\ ~ThreadAsks /\ ~EdgeAsks /\ ~CheckAsks /\ ~WorkerAsks
      BY <3>2 DEF KernelQuiet
    <3>5. ~FatalAsks
      <4>1. CASE wq.worker = "silent"
        BY <3>1, <4>1 DEF CauseCore, AsksAlone, Reconnects
      <4>2. CASE wq.queue = <<>>
        BY <4>2 DEF Pending
      <4> QED BY <3>2, <4>1, <4>2 DEF KernelQuiet
    <3>6. Causes' # 0
      BY <2>1, <3>1 DEF CauseCore, Calm, CheckFor
    <3>7. OneAsks'
      BY <1>1, <2>1, <3>4, <3>5 DEF OneAsks
    <3>8. LoadedAlone'
      <4>1. ~Booting
        BY <3>1 DEF CauseCore, LoadedAlone
      <4>2. ~Booted /\ ~BootSeen
        BY <3>2 DEF KernelQuiet, CallbackHasJob, Booted, BootSeen
      <4> QED BY <1>3, <4>1, <4>2 DEF LoadedAlone, BootKept
    <3> QED BY <1>1, <2>1, <2>2, <3>3, <3>6, <3>7, <3>8, AskKeeps
  <2> QED BY <2>3, <2>4
<1> QED BY <1>4, <1>5, <1>6, <1>7

\* The first event comes out of a calm state.
LEMMA EventsKeep ==
  ASSUME CharmType, CallbackHasJob, Framework!IInv, ConnectedUp, CauseCore,
         Causes = 0, Causes' = 1,
         ForceFatal \/ ForceFatalInIrq \/ ModemFatal \/ ModemResets
  PROVE  CauseCore'
<1>0. /\ irq \in IrqSet /\ WqType /\ wq.queue \in Seq(Works) /\ Distinct(wq.queue)
  BY CauseTypes
<1>1. Idle /\ NobodyAsks /\ Reconnects /\ modem # "fatal" /\ cb = "none"
  BY CallbackBusy DEF CauseCore, Calm
<1> USE DEF NobodyAsks, ErrAsks, FatalAsks, WorkerAsks, ThreadAsks, EdgeAsks, CheckAsks, StatusHigh
<1>2. CASE ForceFatal
  <2>1. UNCHANGED <<drv, done, wq, check, irq, cb, daemon, modem, connected>>
    BY <1>2 DEF ForceFatal, threadVars, modemVars
  <2>2. NobodyAsks' /\ LoadedAlone'
    BY <1>1, <2>1 DEF LoadedAlone, Booting, Booted, BootSeen
  <2>3. CASE SSR!Accept("user", Modem)
    BY <1>1, <2>2, <2>3, AcceptedAlone DEF Contexts
  <2>4. CASE SSR!Refuse("user", Modem)
    <3>1. CallsKept
      BY <2>4 DEF SSR!Refuse, SSR!callerVars, SSR!jobVars, CallsKept
    <3>2. OneAsks' /\ ~ErrAsks' /\ ~FatalAsks'
      BY <2>2 DEF OneAsks
    <3> QED BY <1>1, <2>1, <3>1, <3>2, IdleMoves
  <2> QED BY <1>2, <2>3, <2>4 DEF ForceFatal, Request
<1>3. CASE ForceFatalInIrq
  <2>1. /\ UNCHANGED <<check, irq, cb, modem, connected>> /\ CallsKept
        /\ wq'.queue = Enqueue(wq.queue, "fatal") /\ wq'.worker = wq.worker
        /\ wq'.reconnect = wq.reconnect
    BY <1>0, <1>3 DEF ForceFatalInIrq, Local, ssrVars, modemVars, CallsKept, WqType
  <2>2. Pending(wq'.queue, "reconnect") <=> Pending(wq.queue, "reconnect")
    BY <1>0, <2>1, PendingEnqueue DEF Works
  <2>3. OneAsks' /\ Reconnects'
    BY <1>1, <2>1, <2>2 DEF OneAsks, Reconnects
  <2> QED BY <1>1, <2>1, <2>3, IdleMoves
<1>4. CASE ModemFatal \/ ModemResets
  <2>1. UNCHANGED <<wq, check, cb>> /\ CallsKept
    BY <1>4 DEF ModemFatal, ModemResets, ModemStep, threadVars, Local, ssrVars, CallsKept
  <2>2. CASE ModemFatal
    <3>1. PICK q \in IrqSet : /\ SetModem("fatal", q) /\ q.edge = irq.edge
                              /\ q.thread = irq.thread
      <4>1. /\ [irq EXCEPT !.err = "pending"] \in IrqSet
            /\ [irq EXCEPT !.err = "pending"].edge = irq.edge
            /\ [irq EXCEPT !.err = "pending"].thread = irq.thread
        BY <1>0 DEF IrqSet
      <4>2. SetModem("fatal", irq) \/ SetModem("fatal", [irq EXCEPT !.err = "pending"])
        BY <2>2 DEF ModemFatal, ModemStep
      <4> QED BY <1>0, <4>1, <4>2
    <3>2. modem' = "fatal" /\ irq'.thread = irq.thread
      BY <3>1, ModemMoves
    <3>3. StatusHigh'
      BY <3>2 DEF High
    <3>4. OneAsks'
      BY <1>1, <2>1, <3>2, <3>3 DEF OneAsks
    <3> QED BY <1>1, <2>1, <3>2, <3>4, IdleMoves
  <2>3. CASE ModemResets
    <3>1. SetModem("rom", irq)
      BY <2>3 DEF ModemResets, ModemStep
    <3>2. irq'.err = irq.err /\ irq'.thread = irq.thread
      BY <1>0, <3>1, ModemMoves
    <3>3. OneAsks' /\ ~ErrAsks' /\ ~FatalAsks'
      BY <1>1, <2>1, <3>2 DEF OneAsks
    <3> QED BY <1>1, <2>1, <3>3, IdleMoves
  <2> QED BY <1>4, <2>2, <2>3
<1> QED BY <1>2, <1>3, <1>4

\* A loaded image starts, and enumerates.
LEMMA ModemKeeps ==
  ASSUME CharmType, ConnectedUp, CauseCore, Causes' = 0 => Causes = 0, ModemActs
  PROVE  CauseCore'
<1>0. irq \in IrqSet
  BY CauseTypes
<1>1. /\ UNCHANGED <<drv, done, wq, check, cb, daemon>> /\ CallsKept
  BY DEF ModemActs, ModemUp, ModemConnects, ModemStep, threadVars, Local, ssrVars, CallsKept
<1> USE DEF ErrAsks, FatalAsks, WorkerAsks, ThreadAsks, EdgeAsks, CheckAsks, StatusHigh
<1>2. CASE ModemUp
  <2>1. SetModem("up", irq) /\ modem = "loaded"
    BY <1>2 DEF ModemUp, ModemStep
  <2>2. modem' = "up" /\ irq'.err = irq.err /\ irq'.thread = irq.thread
    BY <1>0, <2>1, ModemMoves
  <2>3. StatusHigh'
    BY <2>2 DEF High
  <2>4. NoNewAsk
    BY <1>1, <2>2, <2>3 DEF NoNewAsk
  <2>5. RestKept
    BY <1>1, <2>1, <2>2 DEF RestKept, Reconnects, CheckFor, ConnectedUp
  <2>6. BootKept
    BY <1>1, <2>2 DEF BootKept, Booting, Booted, BootSeen
  <2> QED BY <1>1, <2>4, <2>5, <2>6, KeptIsEnough
<1>3. CASE ModemConnects
  <2>1. irq' = irq /\ modem' = modem /\ connected'
    BY <1>3 DEF ModemConnects
  <2>2. NoNewAsk /\ RestKept /\ BootKept
    BY <1>1, <2>1 DEF NoNewAsk, RestKept, Reconnects, CheckFor, BootKept, Booting, Booted,
       BootSeen
  <2> QED BY <1>1, <2>2, KeptIsEnough
<1> QED BY <1>2, <1>3 DEF ModemActs

LEMMA CauseStep ==
  ASSUME Prompt, FreshInv, Framework!IInv, CauseInv, [Next]_vars
  PROVE  CauseInv'
<1>1. CharmType /\ CallbackHasJob /\ ConnectedUp
  BY DEF FreshInv, CauseInv
<1>2. ConnectedUp'
  BY <1>1, ConnectedUpStep
<1>3. ASSUME Few' PROVE CauseCore'
  <2>1. /\ Few /\ CauseCore
        /\ Causes' = 0 => Causes = 0
        /\ \/ bound' = bound
           \/ Cause /\ Causes = 0 /\ Causes' = 1
    BY <1>1, <1>3, FewStep DEF CauseInv
  <2>2. CASE \/ Create \/ ErrfatalTest \/ StatusClear \/ StatusUp \/ RunStatus \/ ReconnectTimer
             \/ RunReconnectConnected \/ RunReconnectSilent \/ ForceSilentReset
             \/ \E w \in SilentThreads : SilentStep(w)
    BY <1>1, <2>1, <2>2, ThreadsKeep DEF SilentStep
  <2>3. CASE DaemonStep \/ WaitInterrupted
    BY <1>1, <2>1, <2>3, DaemonKeeps
  <2>4. CASE CallbackStep
    BY <1>1, <1>3, <2>1, <2>4, CallbacksKeep
  <2>5. CASE FrameworkStep
    BY <2>1, <2>5, FrameworkKeeps
  <2>6. CASE StatusRequest \/ CheckRequest \/ FatalRequest
    BY <1>1, <2>1, <2>6, RequestsKeep
  <2>7. CASE ErrfatalClear \/ StatusLow \/ CheckStatus \/ RunFatal
    BY <1>1, <2>1, <2>7, AsksKeep
  <2>8. CASE ForceFatal \/ ForceFatalInIrq \/ ModemFatal \/ ModemResets
    <3>1. bound' # bound
      <4>1. bound.faults \in Nat /\ bound.forces \in Nat
        BY <1>1, BoundsAreNat DEF CharmType, BoundType
      <4>2. bound'.faults = bound.faults + 1 \/ bound'.forces = bound.forces + 1
        BY <1>1, <2>8 DEF ForceFatal, ForceFatalInIrq, Forcing, ModemFatal, ModemResets, Fault,
           CharmType, BoundType
      <4> QED BY <4>1, <4>2
    <3> QED BY <1>1, <2>1, <2>8, <3>1, EventsKeep
  <2>9. CASE ModemActs
    BY <1>1, <2>1, <2>9, ModemKeeps
  <2>10. CASE Halted \/ Settled \/ UNCHANGED vars
    <3>1. UNCHANGED vars
      BY <2>10 DEF Halted, Settled
    <3>2. CallsKept /\ NoNewAsk /\ RestKept /\ BootKept
      BY <3>1 DEF vars, ssrVars, mdmVars, CallsKept, NoNewAsk, RestKept, BootKept, ErrAsks,
         FatalAsks, WorkerAsks, ThreadAsks, EdgeAsks, CheckAsks, StatusHigh, Reconnects,
         CheckFor, Booting, Booted, BootSeen
    <3> QED BY <2>1, <3>2, KeptIsEnough
  <2> QED
    BY <2>2, <2>3, <2>4, <2>5, <2>6, <2>7, <2>8, <2>9, <2>10
    DEF Next, ErrfatalStep, StatusStep, CheckStep, QueueStep
<1> QED BY <1>2, <1>3 DEF CauseInv

\* With kernel threads prompt enough that none lags while images load, one crash
\* or forced restart is never "died during powerup": the several requests it leads
\* to (mdm_common.c:378, :426, :637) find `ongoing` set, or are gone before the
\* powerup they could hit (subsystem_restart.c:120-133, :223).
THEOREM OneCauseNoDeath ==
  ASSUME Prompt
  PROVE  SafeSpec => []DeathNeedsTwoCauses
<1>1. Init => CauseInv
  <2> SUFFICES ASSUME Init PROVE CauseInv
    OBVIOUS
  <2>1. Idle /\ NobodyAsks /\ OneAsks /\ Reconnects
    BY DEF Init, SSR!Init, Idle, NobodyAsks, OneAsks, Reconnects, ErrAsks, FatalAsks,
       WorkerAsks, ThreadAsks, EdgeAsks, CheckAsks, Pending
  <2>2. Calm
    BY <2>1 DEF Init, Calm, CheckFor
  <2>3. Alone /\ AsksAlone
    BY <2>1 DEF Alone, AsksAlone, Idle, Settling
  <2>4. panic # "died" /\ LoadedAlone /\ ConnectedUp
    BY DEF Init, SSR!Init, LoadedAlone, Booting, Booted, BootSeen, ConnectedUp
  <2> QED BY <2>2, <2>3, <2>4 DEF CauseInv, CauseCore
<1>2. FreshInv /\ Framework!IInv /\ CauseInv /\ [Next]_vars => CauseInv'
  BY CauseStep
<1>3. FreshInv /\ CauseInv => DeathNeedsTwoCauses
  <2> SUFFICES ASSUME FreshInv, CauseInv, panic = "died", ~(Causes > 1), ~hist.mixed
               PROVE  FALSE
    BY DEF DeathNeedsTwoCauses, Causes
  <2>1. Causes \in Nat
    BY BoundsAreNat DEF FreshInv, CharmType, BoundType, Causes
  <2> QED BY <2>1 DEF CauseInv, Few, CauseCore
<1> QED BY <1>1, <1>2, <1>3, FreshInductive, ModemExclusion, PTL DEF SafeSpec

-----------------------------------------------------------------------------
(***************************************************************************)
(* The release of boot_wake is not forgotten.  WAKE_CHARM takes it once,   *)
(* before the modem can be up, so that its status line has yet to rise;    *)
(* then the edge is there, or the status work it queues, which no other    *)
(* work of mdm_queue takes out.  The modem may fall and rise again, report *)
(* a fatal error or reset in between.                                      *)
(***************************************************************************)
ReleaseComing == irq.edge \/ Pending(wq.queue, "status")
WakeDue == bootWake /\ StatusHigh => ReleaseComing
StartLow == daemon.at = "start" => modem \in {"off", "rom"}

\* The modem is not up while the daemon is to begin a boot.
LEMMA StartLowStep ==
  ASSUME CharmType, StartLow, [Next]_vars
  PROVE  StartLow'
<1>1. CASE daemon' = daemon /\ modem' = modem
  BY <1>1 DEF StartLow
<1>2. CASE DaemonStep
  BY <1>2 DEF DaemonStep, WakeCharm, Load, LoadFails, BootDoneReady, BootDoneSignal,
     BootDoneArm, WaitForRestart, ReadBootType, ResetNeedsReload, InterruptedReset,
     RamDumpStatus, RamDumpSignal, CharmType, DaemonType, StartLow
<1>3. CASE WaitInterrupted
  BY <1>3 DEF WaitInterrupted, CharmType, DaemonType, StartLow
<1>4. CASE \E j \in Jobs : Shutdown(j) \/ RamdumpEnd(j) \/ PowerupBegin(j)
  BY <1>4 DEF Shutdown, RamdumpEnd, PowerupBegin, SetModem, PoweredOn, StartLow
<1>5. CASE ModemUp \/ ModemFatal \/ ModemResets
  BY <1>5 DEF ModemUp, ModemFatal, ModemResets, ModemStep, SetModem, StartLow
<1>6. CASE \/ Create \/ FrameworkStep \/ ErrfatalTest \/ ErrfatalClear \/ StatusLow
           \/ StatusClear \/ StatusRequest \/ StatusUp \/ CheckStatus
           \/ CheckRequest \/ RunFatal \/ FatalRequest \/ ReconnectTimer \/ RunStatus
  BY <1>1, <1>6 DEF Create, FrameworkStep, ErrfatalTest, ErrfatalClear, StatusLow, StatusClear
     , StatusRequest, StatusUp, CheckStatus, CheckRequest, RunFatal, FatalRequest
     , ReconnectTimer, RunStatus, mdmVars, modemVars
<1>7. CASE \/ RunReconnectConnected \/ RunReconnectSilent \/ ForceFatal
           \/ ForceFatalInIrq \/ ForceSilentReset
           \/ \E w \in SilentThreads : SilentBooted(w) \/ SilentTimeout(w) \/ SilentEnd(w)
  BY <1>1, <1>7 DEF RunReconnectConnected, RunReconnectSilent, SilentBooted, SilentTimeout
     , SilentEnd, ForceFatal, ForceFatalInIrq, ForceSilentReset, mdmVars, modemVars
<1>8. CASE \/ RamdumpDone \/ RamdumpTimeout \/ PowerupBooted \/ PowerupTimeout
           \/ \E j \in Jobs : RamdumpBegin(j) \/ RamdumpUnwanted(j) \/ PowerupEnd(j)
  BY <1>1, <1>8 DEF RamdumpBegin, RamdumpDone, RamdumpTimeout, RamdumpUnwanted
     , PowerupBooted, PowerupTimeout, PowerupEnd, modemVars
<1>9. CASE ModemConnects \/ Halted \/ Settled \/ UNCHANGED vars
  BY <1>1, <1>9 DEF ModemConnects, Halted, Settled, vars, mdmVars, modemVars
<1> QED
  BY <1>2, <1>3, <1>4, <1>5, <1>6, <1>7, <1>8, <1>9
  DEF Next, ErrfatalStep, StatusStep, CheckStep, QueueStep, SilentStep, CallbackStep, ModemActs

\* A work that another one is taken before stays in the queue.
LEMMA PendingKept ==
  ASSUME NEW q \in Seq(Works), NEW w \in Works, q # <<>>, Head(q) # w, Pending(q, w)
  PROVE  Pending(Tail(q), w)
<1>1. /\ DOMAIN q = 1..Len(q) /\ Len(q) \in Nat /\ Head(q) = q[1]
      /\ DOMAIN Tail(q) = 1..(Len(q) - 1)
      /\ \A i \in 1..(Len(q) - 1) : Tail(q)[i] = q[i + 1]
  OBVIOUS
<1>2. PICK i \in 1..Len(q) : q[i] = w
  BY <1>1 DEF Pending
<1>3. i - 1 \in 1..(Len(q) - 1) /\ (i - 1) + 1 = i
  BY <1>1, <1>2
<1>4. Tail(q)[i - 1] = w
  BY <1>1, <1>2, <1>3
<1> QED BY <1>1, <1>3, <1>4 DEF Pending

\* Where boot_wake is held and the line high, both were before the step, unless
\* the line rose, and the interrupt with it.
LEMMA WakeDueStep ==
  ASSUME "status" \in Irqs, CharmType, StartLow, WakeDue, [Next]_vars
  PROVE  WakeDue'
<1>0. /\ irq \in IrqSet /\ wq.queue \in Seq(Works) /\ {"fatal", "status", "reconnect"} = Works
      /\ wq = [queue |-> wq.queue, worker |-> wq.worker, reconnect |-> wq.reconnect]
      /\ bootWake \in BOOLEAN
  BY DEF CharmType, IrqType, WqType, ModemType, Works
<1>1. ASSUME bootWake' => bootWake, StatusHigh' => StatusHigh, ReleaseComing => ReleaseComing'
      PROVE  WakeDue'
  BY <1>1 DEF WakeDue
<1>2. ASSUME NEW m, NEW q \in IrqSet, SetModem(m, q), q.edge = irq.edge,
             wq' = wq, bootWake' => bootWake
      PROVE  WakeDue'
  <2>1. CASE High(m) # StatusHigh
    <3>1. irq' = [q EXCEPT !.edge = TRUE]
      BY <1>2, <2>1 DEF SetModem
    <3> QED BY <3>1 DEF IrqSet, WakeDue, ReleaseComing
  <2>2. CASE High(m) = StatusHigh
    <3>1. irq' = q /\ StatusHigh' = StatusHigh
      BY <1>2, <2>2 DEF SetModem, StatusHigh
    <3> QED BY <1>1, <1>2, <3>1 DEF ReleaseComing
  <2> QED BY <2>1, <2>2
<1>3. CASE WakeCharm
  <2>1. modem' \in {"rom"}
    BY <1>3 DEF WakeCharm, DaemonAt, SetModem, PoweredOn, StartLow
  <2> QED BY <2>1 DEF WakeDue, StatusHigh, High
<1>4. CASE Load \/ ModemUp \/ ModemResets \/ \E j \in Jobs : Shutdown(j) \/ RamdumpEnd(j) \/ PowerupBegin(j)
  <2>1. wq' = wq /\ bootWake' = bootWake
    BY <1>4 DEF Load, ModemUp, ModemResets, ModemStep, Shutdown, RamdumpEnd, PowerupBegin,
       threadVars
  <2>2. PICK m : SetModem(m, irq)
    BY <1>4 DEF Load, ModemUp, ModemResets, ModemStep, Shutdown, RamdumpEnd, PowerupBegin
  <2> QED BY <1>0, <1>2, <2>1, <2>2
<1>5. CASE ModemFatal
  <2> DEFINE q == IF "errfatal" \in Irqs /\ irq.err = "none"
                  THEN [irq EXCEPT !.err = "pending"] ELSE irq
  <2>1. q \in IrqSet /\ q.edge = irq.edge
    BY <1>0 DEF IrqSet
  <2>2. SetModem("fatal", q) /\ wq' = wq /\ bootWake' = bootWake
    BY <1>5 DEF ModemFatal, ModemStep, threadVars
  <2> HIDE DEF q
  <2> QED BY <1>2, <2>1, <2>2
<1>6. CASE StatusUp
  <2>1. wq'.queue = Enqueue(wq.queue, "status")
    BY <1>0, <1>6 DEF StatusUp
  <2>2. Pending(wq'.queue, "status")
    BY <1>0, <2>1, PendingEnqueue
  <2> QED BY <2>2 DEF WakeDue, ReleaseComing
<1>7. CASE StatusLow
  BY <1>7 DEF StatusLow, modemVars, StatusHigh, WakeDue
<1>8. CASE ErrfatalTest \/ StatusClear \/ StatusRequest
  <2>1. irq'.edge = irq.edge
    BY <1>0, <1>8 DEF ErrfatalTest, StatusClear, StatusRequest, IrqSet
  <2>2. wq' = wq /\ modem' = modem /\ bootWake' = bootWake
    BY <1>8 DEF ErrfatalTest, StatusClear, StatusRequest, threadVars, modemVars
  <2> QED BY <1>1, <2>1, <2>2 DEF ReleaseComing, StatusHigh
<1>9. CASE ErrfatalClear \/ ForceFatalInIrq \/ ReconnectTimer
  <2>1. PICK w \in {"fatal", "reconnect"} : wq'.queue = Enqueue(wq.queue, w)
    BY <1>0, <1>9 DEF ErrfatalClear, ForceFatalInIrq, ReconnectTimer
  <2>2. Pending(wq.queue, "status") => Pending(wq'.queue, "status")
    BY <1>0, <2>1, PendingEnqueue
  <2>3. irq'.edge = irq.edge /\ modem' = modem /\ bootWake' = bootWake
    BY <1>0, <1>9 DEF ErrfatalClear, ForceFatalInIrq, ReconnectTimer, modemVars, IrqSet
  <2> QED BY <1>1, <2>2, <2>3 DEF ReleaseComing, StatusHigh
<1>10. CASE RunFatal \/ RunReconnectConnected \/ RunReconnectSilent
  <2>1. wq.queue # <<>> /\ Head(wq.queue) # "status" /\ wq'.queue = Tail(wq.queue)
    BY <1>0, <1>10 DEF RunFatal, RunReconnectConnected, RunReconnectSilent, NextWork
  <2>2. Pending(wq.queue, "status") => Pending(wq'.queue, "status")
    BY <1>0, <2>1, PendingKept
  <2>3. irq' = irq /\ modem' = modem /\ bootWake' = bootWake
    BY <1>10 DEF RunFatal, RunReconnectConnected, RunReconnectSilent, modemVars
  <2> QED BY <1>1, <2>2, <2>3 DEF ReleaseComing, StatusHigh
<1>11. CASE RunStatus
  <2>1. bootWake' => ~StatusHigh
    BY <1>11 DEF RunStatus
  <2>2. StatusHigh' = StatusHigh
    BY <1>11 DEF RunStatus, StatusHigh
  <2> QED BY <2>1, <2>2 DEF WakeDue
<1>12. CASE FatalRequest \/ \E w \in SilentThreads : SilentEnd(w)
  <2>1. wq'.queue = wq.queue
    BY <1>0, <1>12 DEF FatalRequest, SilentEnd
  <2>2. irq' = irq /\ modem' = modem /\ bootWake' = bootWake
    BY <1>12 DEF FatalRequest, SilentEnd, modemVars
  <2> QED BY <1>1, <2>1, <2>2 DEF ReleaseComing, StatusHigh
<1>13. CASE UNCHANGED <<wq, irq, modem, bootWake>>
  BY <1>1, <1>13 DEF ReleaseComing, StatusHigh
<1>14. CASE \/ Create \/ FrameworkStep \/ CheckStatus \/ CheckRequest \/ ForceFatal
            \/ ForceSilentReset \/ WaitInterrupted \/ ModemConnects
            \/ \E w \in SilentThreads : SilentBooted(w) \/ SilentTimeout(w)
  BY <1>13, <1>14 DEF Create, FrameworkStep, CheckStatus, CheckRequest, ForceFatal,
     ForceSilentReset, WaitInterrupted, ModemConnects, SilentBooted, SilentTimeout,
     mdmVars, modemVars, threadVars
<1>15. CASE \/ RamdumpDone \/ RamdumpTimeout \/ PowerupBooted \/ PowerupTimeout
            \/ \E j \in Jobs : RamdumpBegin(j) \/ RamdumpUnwanted(j) \/ PowerupEnd(j)
  BY <1>13, <1>15 DEF RamdumpBegin, RamdumpDone, RamdumpTimeout, RamdumpUnwanted
     , PowerupBooted, PowerupTimeout, PowerupEnd, modemVars, threadVars
<1>16. CASE \/ LoadFails \/ BootDoneReady \/ BootDoneSignal \/ BootDoneArm \/ WaitForRestart
            \/ ReadBootType \/ ResetNeedsReload \/ InterruptedReset \/ RamDumpStatus
            \/ RamDumpSignal
  BY <1>13, <1>16 DEF LoadFails, BootDoneReady, BootDoneSignal, BootDoneArm, WaitForRestart
     , ReadBootType, ResetNeedsReload, InterruptedReset, RamDumpStatus, RamDumpSignal
     , modemVars, threadVars
<1>17. CASE Halted \/ Settled \/ UNCHANGED vars
  BY <1>13, <1>17 DEF Halted, Settled, vars, mdmVars, modemVars, threadVars
<1> QED
  BY <1>3, <1>4, <1>5, <1>6, <1>7, <1>8, <1>9, <1>10, <1>11, <1>12, <1>14, <1>15, <1>16, <1>17
  DEF Next, ErrfatalStep, StatusStep, CheckStep, QueueStep, SilentStep, CallbackStep,
     DaemonStep, ModemActs

\* While boot_wake is held and the status line is high, the interrupt or the work
\* that releases it is pending, however often the modem fell and rose since
\* WAKE_CHARM (mdm_common.c:265, :404, :639); BootWakeReleased adds that it runs.
THEOREM BootWakeOwned ==
  ASSUME "status" \in Irqs
  PROVE  SafeSpec => []WakeDue
<1>1. Init => StartLow /\ WakeDue
  BY DEF Init, StartLow, WakeDue
<1>2. CharmType /\ StartLow /\ WakeDue /\ [Next]_vars => StartLow' /\ WakeDue'
  BY StartLowStep, WakeDueStep
<1> QED BY <1>1, <1>2, CharmTypeInit, CharmTypeStep, PTL DEF SafeSpec

-----------------------------------------------------------------------------
(***************************************************************************)
(* A crash is not forgotten.  The modem that crashed while it was taken to *)
(* be ready, outside a restart, is in its boot ROM or in its fatal error   *)
(* until a shutdown or a load, and meanwhile the crash is in one place at  *)
(* least: with an interrupt, the boot check or NORMAL_BOOT_DONE; with      *)
(* somebody who asks for a restart, or a restart before its shutdown; or   *)
(* with a silent reset, whose load is still to come.  Clearing mdm_ready   *)
(* hands it from the first to the others.                                  *)
(***************************************************************************)

\* A restart before its shutdown, or a caller about to schedule one.
Early == {"queued", "tryPowerup", "lockReg", "shutdown"}
Underway ==
  \/ \E c \in Contexts : callerAt[c] # "idle"
  \/ \E j \in Jobs : jobAt[j] \in Early

\* Jobs since the crash: none has passed its shutdown, and one that gave up found
\* another that holds the shutdown lock.
EarlyJobs ==
  /\ \A j \in Jobs : jobAt[j] \in Early \union {"free", "out"}
  /\ (\E j \in Jobs : jobAt[j] = "out") => \E j \in Jobs : jobAt[j] \in Early \ {"queued"}
CrashJobs == hist.crashed /\ Running => EarlyJobs

\* Whoever asks for a restart has one: a request that is refused finds another.
LEMMA RequestGoes ==
  ASSUME Framework!IInv, Framework!ServedInv, EarlyJobs, NEW c \in Contexts, Request(c)
  PROVE  EarlyJobs' /\ Underway'
<1>0. callerAt \in [Contexts -> {"idle", "mark", "alloc"}]
  BY DEF Framework!IInv, Framework!TypeOK, Framework!CallerStates
<1>1. CASE SSR!Accept(c, Modem)
  <2>1. callerAt' = [callerAt EXCEPT ![c] = "mark"] /\ jobAt' = jobAt
    BY <1>1 DEF SSR!Accept, SSR!jobVars
  <2>2. callerAt'[c] # "idle"
    BY <1>0, <2>1
  <2> QED BY <2>1, <2>2 DEF EarlyJobs, Underway
<1>2. CASE SSR!Refuse(c, Modem)
  <2>1. callerAt' = callerAt /\ jobAt' = jobAt /\ ongoing[Modem]
    BY <1>2 DEF SSR!Refuse, SSR!jobVars, SSR!callerVars
  <2>2. \/ \E d \in Contexts : callerAt[d] = "alloc"
        \/ \E j \in Jobs : jobAt[j] # "free"
    BY <2>1 DEF Framework!ServedInv, Framework!BusyMeansRestart
  <2>3. Underway
    BY <2>2 DEF EarlyJobs, Underway
  <2> QED BY <2>1, <2>3 DEF EarlyJobs, Underway
<1> QED BY <1>1, <1>2 DEF Request

\* And it goes on until its shutdown, or the kernel panics.
LEMMA FrameworkGoes ==
  ASSUME Framework!IInv, Framework!ServedInv, EarlyJobs, FrameworkStep, Running'
  PROVE  EarlyJobs' /\ (Underway => Underway')
<1>0. /\ callerAt \in [Contexts -> {"idle", "mark", "alloc"}]
      /\ DOMAIN jobAt = Jobs
      /\ \A j \in Jobs : jobAt[j] # "free" => jobFor[j] = Modem
  BY DEF Framework!IInv, Framework!TypeOK, Framework!CallerStates, Framework!TargetsInv
<1>1. ASSUME NEW c \in Contexts, SSR!CallerStep(c) PROVE EarlyJobs' /\ (Underway => Underway')
  <2>1. CASE SSR!MarkOngoing(c)
    <3>1. callerAt' = [callerAt EXCEPT ![c] = "alloc"] /\ jobAt' = jobAt
      BY <2>1 DEF SSR!MarkOngoing, SSR!jobVars
    <3>2. callerAt'[c] # "idle"
      BY <1>0, <3>1
    <3> QED BY <3>1, <3>2 DEF EarlyJobs, Underway
  <2>2. CASE SSR!AllocFails(c)
    BY <2>2 DEF SSR!AllocFails, SSR!Panic, SSR!Running, Running
  <2>3. ASSUME NEW j \in Jobs, SSR!Schedule(c, j) PROVE EarlyJobs' /\ Underway'
    <3>1. jobAt[j] = "free" /\ jobAt' = [jobAt EXCEPT ![j] = "queued"]
      BY <2>3 DEF SSR!Schedule
    <3>2. jobAt'[j] = "queued" /\ \A k \in Jobs : k # j => jobAt'[k] = jobAt[k]
      BY <1>0, <3>1
    <3> QED BY <3>1, <3>2 DEF EarlyJobs, Underway, Early
  <2> QED BY <1>1, <2>1, <2>2, <2>3 DEF SSR!CallerStep
<1>2. ASSUME NEW j \in Jobs,
             SSR!TakeShutdown(j) \/ SSR!TakePowerup(j) \/ SSR!LockReg(j)
      PROVE  EarlyJobs' /\ Underway'
  <2>1. PICK to \in Early \ {"queued"} : jobAt' = [jobAt EXCEPT ![j] = to]
    BY <1>2 DEF SSR!TakeShutdown, SSR!TakePowerup, SSR!LockReg, SSR!Goto, Early
  <2>2. jobAt'[j] = to /\ \A k \in Jobs : k # j => jobAt'[k] = jobAt[k]
    BY <1>0, <2>1
  <2> QED BY <2>2 DEF EarlyJobs, Underway
<1>3. ASSUME NEW j \in Jobs, SSR!AlreadyShuttingDown(j) PROVE EarlyJobs' /\ Underway'
  <2>1. /\ jobAt[j] = "queued" /\ jobAt' = [jobAt EXCEPT ![j] = "out"]
        /\ shutdownLock[jobFor[j]] # NoJob
    BY <1>3 DEF SSR!AlreadyShuttingDown, SSR!Goto
  <2>2. jobFor[j] = Modem
    BY <1>0, <2>1
  <2> DEFINE k == shutdownLock[Modem]
  <2>3. k \in Jobs /\ jobAt[k] \in Framework!HoldsShutdown
    BY <2>1, <2>2 DEF Framework!ServedInv, Framework!ShutHeldInv, Framework!IInv, Framework!TypeOK
  <2>4. jobAt[k] \in Early \ {"queued"} /\ k # j
    BY <2>1, <2>3 DEF EarlyJobs, Framework!HoldsShutdown, Early
  <2>5. /\ jobAt'[j] = "out" /\ jobAt'[k] = jobAt[k]
        /\ \A i \in Jobs : i # j => jobAt'[i] = jobAt[i]
    BY <1>0, <2>1, <2>3, <2>4
  <2> HIDE DEF k
  <2> QED BY <2>3, <2>4, <2>5 DEF EarlyJobs, Underway
<1>4. ASSUME NEW j \in Jobs, SSR!DiedDuringPowerup(j) PROVE FALSE
  BY <1>4 DEF SSR!DiedDuringPowerup, SSR!Panic, SSR!Running, Running
<1>5. ASSUME NEW j \in Jobs, \/ SSR!UnlockShutdown(j) \/ SSR!UnlockPowerup(j) \/ SSR!UnlockReg(j)
      PROVE  FALSE
  <2>1. jobAt[j] \in {"unlockShutdown", "unlockPowerup", "unlockReg"}
    BY <1>5 DEF SSR!UnlockShutdown, SSR!UnlockPowerup, SSR!UnlockReg, SSR!Goto
  <2> QED BY <2>1 DEF EarlyJobs, Early
<1>6. ASSUME NEW j \in Jobs, SSR!Finish(j) PROVE EarlyJobs' /\ Underway'
  <2>1. /\ jobAt[j] = "out" /\ jobAt' = [jobAt EXCEPT ![j] = "free"]
    BY <1>6 DEF SSR!Finish
  <2>2. PICK k \in Jobs : jobAt[k] \in Early \ {"queued"}
    BY <2>1 DEF EarlyJobs
  <2>3. k # j
    BY <2>1, <2>2 DEF Early
  <2>4. /\ jobAt'[j] = "free" /\ jobAt'[k] = jobAt[k]
        /\ \A i \in Jobs : i # j => jobAt'[i] = jobAt[i]
    BY <1>0, <2>1, <2>3
  <2> QED BY <2>2, <2>4 DEF EarlyJobs, Underway
<1> QED BY <1>1, <1>2, <1>3, <1>4, <1>5, <1>6 DEF FrameworkStep

\* Somebody is to ask the framework for a restart, or one has begun that is still to
\* shut the modem down.
Asking == FatalAsks \/ WorkerAsks \/ CheckAsks \/ Underway

\* A silent reset waits, and no boot reported since answers it.
Unanswered ==
  /\ \E w \in SilentThreads : silent[w] = "wait"
  /\ done.boot = 0
  /\ ~(daemon.at = "report" /\ daemon.ok)
  /\ daemon.at = "signal" => drv.firstBoot

\* The crash needs mdm_ready no more to be served; and a crash that is in hand is taken,
\* or the modem fell back to its ROM and mdm_ready is yet to be cleared by who sees it.
Taken ==
  \/ Asking \/ irq.thread = "request" \/ Unanswered
  \/ drv.ready /\ modem = "fatal" /\ ErrAsks
InHand ==
  /\ modem \in {"fatal", "rom"}
  /\ Taken \/ (drv.ready /\ modem = "rom")

\* The daemon has not reported that it could not load the images, or is about to
\* report that it could.
Relevant == drv.bootStatus # "io" \/ (daemon.at = "report" /\ daemon.ok)

CrashFacts == EarlyJobs /\ (~hist.mixed /\ Relevant => InHand)

\* Nothing is taken to be ready before the first boot is reported, a timeout makes
\* late answers possible, and mdm_queue is busy while its silent reset is.
FirstQuiet == drv.firstBoot /\ daemon.at # "signal" => ~drv.ready /\ ~hist.crashed
LateMixed == drv.bootStatus = "timeout" => hist.mixed
LoopSilent == silent["queue"] # "no" => wq.worker = "silent"

CrashInv ==
  /\ hist.crashed /\ Running => CrashFacts
  /\ FirstQuiet /\ LateMixed /\ LoopSilent

\* Only a fault is a crash, of a modem taken to be ready, outside a restart.
LEMMA CrashGrows ==
  ASSUME CharmType, [Next]_vars, hist'.crashed
  PROVE  \/ hist.crashed
         \/ (ModemFatal \/ ModemResets) /\ drv.ready /\ ~Restarting
<1>0. hist \in HistSet
  BY CauseTypes
<1>1. CASE ModemFatal \/ ModemResets
  BY <1>0, <1>1 DEF ModemFatal, ModemResets, Fault, HistSet
<1>2. CASE \/ Load \/ RamdumpTimeout \/ PowerupTimeout \/ RamDumpSignal \/ BootDoneSignal
           \/ RunReconnectSilent \/ ForceSilentReset
           \/ \E j \in Jobs : Shutdown(j) \/ RamdumpBegin(j) \/ PowerupBegin(j)
  BY <1>0, <1>2 DEF Load, RamdumpTimeout, PowerupTimeout, RamDumpSignal, BootDoneSignal,
     RunReconnectSilent, ForceSilentReset, SilentBegin, Shutdown, RamdumpBegin, PowerupBegin,
     HistSet
<1>3. CASE hist' = hist
  BY <1>3
<1>4. CASE \/ Create \/ FrameworkStep \/ ErrfatalTest \/ ErrfatalClear \/ StatusLow
           \/ StatusClear \/ StatusRequest \/ StatusUp \/ CheckStatus
           \/ CheckRequest \/ RunFatal \/ FatalRequest \/ RunStatus
  BY <1>3, <1>4 DEF Create, FrameworkStep, ErrfatalTest, ErrfatalClear, StatusLow, StatusClear
     , StatusRequest, StatusUp, CheckStatus, CheckRequest, RunFatal, FatalRequest, RunStatus
     , mdmVars, countVars
<1>5. CASE \/ ReconnectTimer \/ RunReconnectConnected \/ ForceFatal \/ ForceFatalInIrq
           \/ WaitInterrupted \/ RamdumpDone \/ PowerupBooted
           \/ \E w \in SilentThreads : SilentBooted(w) \/ SilentTimeout(w) \/ SilentEnd(w)
           \/ \E j \in Jobs : RamdumpEnd(j) \/ RamdumpUnwanted(j) \/ PowerupEnd(j)
  BY <1>3, <1>5 DEF ReconnectTimer, RunReconnectConnected, SilentBooted, SilentTimeout
     , SilentEnd, ForceFatal, ForceFatalInIrq, WaitInterrupted, RamdumpDone, RamdumpEnd
     , RamdumpUnwanted, PowerupBooted, PowerupEnd, mdmVars, countVars
<1>6. CASE \/ WakeCharm \/ LoadFails \/ BootDoneReady \/ BootDoneArm \/ WaitForRestart
           \/ ReadBootType \/ ResetNeedsReload \/ InterruptedReset
           \/ RamDumpStatus \/ ModemUp \/ ModemConnects \/ Halted
           \/ Settled \/ UNCHANGED vars
  BY <1>3, <1>6 DEF WakeCharm, LoadFails, BootDoneReady, BootDoneArm, WaitForRestart
     , ReadBootType, ResetNeedsReload, InterruptedReset, RamDumpStatus, ModemUp
     , ModemConnects, Halted, Settled, ModemStep, vars, mdmVars, countVars
<1> QED
  BY <1>1, <1>2, <1>4, <1>5, <1>6
  DEF Next, ErrfatalStep, StatusStep, CheckStep, QueueStep, SilentStep, CallbackStep,
     DaemonStep, ModemActs

\* Until the daemon reports the first boot no step sets mdm_ready, and no fault is a crash.
LEMMA FirstQuietStep ==
  ASSUME CharmType, DaemonFacts, FirstQuiet, [Next]_vars
  PROVE  FirstQuiet'
<1>0. drv \in DrvSet /\ DaemonType
  BY CauseTypes
<1> DEFINE Quiet == /\ drv'.firstBoot => drv.firstBoot
                    /\ drv'.ready => drv.ready
                    /\ daemon.at = "signal" => daemon'.at = "signal"
<1>1. CASE Quiet
  BY <1>1, CrashGrows DEF FirstQuiet
<1>2. CASE BootDoneReady
  BY <1>0, <1>2 DEF BootDoneReady, DaemonType, FirstQuiet
<1>3. CASE BootDoneSignal
  BY <1>0, <1>3 DEF BootDoneSignal, DrvSet, FirstQuiet
<1>4. CASE \/ ErrfatalClear \/ StatusClear \/ CheckStatus \/ RunReconnectSilent
           \/ ForceSilentReset
  <2>1. Quiet
    BY <1>0, <1>4 DEF ErrfatalClear, StatusClear, CheckStatus, RunReconnectSilent,
       ForceSilentReset, SilentBegin, DrvSet
  <2> QED BY <1>1, <2>1
<1>5. CASE \/ RamdumpDone \/ RamdumpTimeout \/ PowerupTimeout
           \/ \E j \in Jobs : RamdumpBegin(j) \/ RamdumpUnwanted(j) \/ PowerupBegin(j)
  <2>1. Quiet
    BY <1>0, <1>5 DEF RamdumpDone, RamdumpTimeout, PowerupTimeout, RamdumpBegin,
       RamdumpUnwanted, PowerupBegin, DrvSet
  <2> QED BY <1>1, <2>1
<1>6. CASE \/ WakeCharm \/ Load \/ LoadFails \/ BootDoneArm \/ WaitForRestart \/ ReadBootType
           \/ ResetNeedsReload \/ InterruptedReset \/ WaitInterrupted \/ RamDumpSignal
  <2>1. Quiet
    BY <1>6 DEF WakeCharm, Load, LoadFails, BootDoneArm, WaitForRestart, ReadBootType,
       ResetNeedsReload, InterruptedReset, WaitInterrupted, RamDumpSignal, DaemonAt
  <2> QED BY <1>1, <2>1
<1>7. CASE RamDumpStatus
  <2>1. Quiet
    BY <1>0, <1>7 DEF RamDumpStatus, DaemonAt, DrvSet
  <2> QED BY <1>1, <2>1
<1>8. CASE \/ Create \/ FrameworkStep \/ ErrfatalTest \/ StatusLow \/ StatusRequest
           \/ StatusUp \/ CheckRequest \/ RunFatal \/ FatalRequest
           \/ RunStatus \/ ReconnectTimer \/ RunReconnectConnected \/ ForceFatal
           \/ ForceFatalInIrq
           \/ \E w \in SilentThreads : SilentBooted(w) \/ SilentTimeout(w) \/ SilentEnd(w)
  <2>1. drv' = drv /\ daemon' = daemon
    BY <1>8 DEF Create, FrameworkStep, ErrfatalTest, StatusLow, StatusRequest, StatusUp
       , CheckRequest, RunFatal, FatalRequest, RunStatus, ReconnectTimer, ForceFatal
       , ForceFatalInIrq, RunReconnectConnected, SilentBooted, SilentTimeout, SilentEnd, mdmVars
  <2> QED BY <1>1, <2>1
<1>9. CASE \/ PowerupBooted \/ ModemUp \/ ModemConnects \/ ModemFatal
           \/ ModemResets \/ Halted \/ Settled \/ UNCHANGED vars
           \/ \E j \in Jobs : Shutdown(j) \/ RamdumpEnd(j) \/ PowerupEnd(j)
  <2>1. drv' = drv /\ daemon' = daemon
    BY <1>9 DEF PowerupBooted, ModemUp, ModemConnects, ModemFatal, ModemResets, Halted, Settled
       , Shutdown, RamdumpEnd, PowerupEnd, ModemStep, vars, mdmVars
  <2> QED BY <1>1, <2>1
<1> QED
  BY <1>2, <1>3, <1>4, <1>5, <1>6, <1>7, <1>8, <1>9
  DEF Next, ErrfatalStep, StatusStep, CheckStep, QueueStep, SilentStep, CallbackStep,
     DaemonStep, ModemActs

\* A status of a timeout is one of a wait that timed out, which is mixed.
LEMMA LateMixedStep ==
  ASSUME CharmType, LateMixed, [Next]_vars
  PROVE  LateMixed'
<1>0. drv \in DrvSet /\ hist \in HistSet /\ (hist.mixed => hist'.mixed)
  BY CauseTypes, CausesGrow
<1>1. CASE drv'.bootStatus \in {drv.bootStatus, "ok", "io"}
  BY <1>0, <1>1 DEF LateMixed
<1>2. CASE PowerupTimeout
  BY <1>0, <1>2 DEF PowerupTimeout, HistSet, LateMixed
<1>3. CASE BootDoneReady
  BY <1>0, <1>1, <1>3 DEF BootDoneReady, DrvSet
<1>4. CASE \/ ErrfatalClear \/ StatusClear \/ CheckStatus \/ RunReconnectSilent
           \/ ForceSilentReset \/ RamDumpStatus \/ BootDoneSignal
  BY <1>0, <1>1, <1>4 DEF ErrfatalClear, StatusClear, CheckStatus, RunReconnectSilent,
     ForceSilentReset, SilentBegin, RamDumpStatus, BootDoneSignal, DrvSet
<1>5. CASE \/ RamdumpDone \/ RamdumpTimeout
           \/ \E j \in Jobs : RamdumpBegin(j) \/ RamdumpUnwanted(j) \/ PowerupBegin(j)
  BY <1>0, <1>1, <1>5 DEF RamdumpDone, RamdumpTimeout, RamdumpBegin, RamdumpUnwanted,
     PowerupBegin, DrvSet
<1>6. CASE \/ Create \/ FrameworkStep \/ ErrfatalTest \/ StatusLow \/ StatusRequest
           \/ StatusUp \/ CheckRequest \/ RunFatal \/ FatalRequest
           \/ RunStatus \/ ReconnectTimer \/ RunReconnectConnected \/ ForceFatal
           \/ ForceFatalInIrq
           \/ \E w \in SilentThreads : SilentBooted(w) \/ SilentTimeout(w) \/ SilentEnd(w)
  BY <1>1, <1>6 DEF Create, FrameworkStep, ErrfatalTest, StatusLow, StatusRequest, StatusUp
     , CheckRequest, RunFatal, FatalRequest, RunStatus, ReconnectTimer, ForceFatal
     , ForceFatalInIrq, RunReconnectConnected, SilentBooted, SilentTimeout, SilentEnd, mdmVars
<1>7. CASE \/ WakeCharm \/ Load \/ LoadFails \/ BootDoneArm \/ WaitForRestart \/ ReadBootType
           \/ ResetNeedsReload \/ InterruptedReset \/ WaitInterrupted \/ RamDumpSignal
  BY <1>1, <1>7 DEF WakeCharm, Load, LoadFails, BootDoneArm, WaitForRestart, ReadBootType,
     ResetNeedsReload, InterruptedReset, WaitInterrupted, RamDumpSignal
<1>8. CASE \/ PowerupBooted \/ ModemUp \/ ModemConnects \/ ModemFatal
           \/ ModemResets \/ Halted \/ Settled \/ UNCHANGED vars
           \/ \E j \in Jobs : Shutdown(j) \/ RamdumpEnd(j) \/ PowerupEnd(j)
  BY <1>1, <1>8 DEF PowerupBooted, ModemUp, ModemConnects, ModemFatal, ModemResets, Halted
     , Settled, Shutdown, RamdumpEnd, PowerupEnd, ModemStep, vars, mdmVars
<1> QED
  BY <1>2, <1>3, <1>4, <1>5, <1>6, <1>7, <1>8
  DEF Next, ErrfatalStep, StatusStep, CheckStep, QueueStep, SilentStep, CallbackStep,
     DaemonStep, ModemActs

\* Only the worker of mdm_queue, and none but for that, runs the queue's silent reset.
LEMMA LoopSilentStep ==
  ASSUME CharmType, LoopSilent, [Next]_vars
  PROVE  LoopSilent'
<1>0. /\ silent \in [SilentThreads -> {"no", "wait", "init"}]
      /\ {"queue", "user"} = SilentThreads
      /\ wq = [queue |-> wq.queue, worker |-> wq.worker, reconnect |-> wq.reconnect]
  BY DEF CharmType, SilentType, WqType, SilentThreads
<1>1. CASE silent' = silent /\ wq'.worker = wq.worker
  BY <1>1 DEF LoopSilent
<1>2. CASE RunFatal \/ FatalRequest
  BY <1>0, <1>2 DEF RunFatal, FatalRequest, NextWork, LoopSilent
<1>3. CASE RunReconnectSilent
  BY <1>0, <1>3 DEF RunReconnectSilent, LoopSilent
<1>4. CASE ForceSilentReset
  <2>1. silent'["queue"] = silent["queue"] /\ wq' = wq
    BY <1>0, <1>4 DEF ForceSilentReset, SilentBegin
  <2> QED BY <2>1 DEF LoopSilent
<1>5. ASSUME NEW w \in SilentThreads, SilentBooted(w) PROVE LoopSilent'
  <2>1. silent'["queue"] # "no" => silent["queue"] # "no"
    BY <1>0, <1>5 DEF SilentBooted
  <2> QED BY <1>5, <2>1 DEF SilentBooted, LoopSilent
<1>6. ASSUME NEW w \in SilentThreads, SilentEnd(w) PROVE LoopSilent'
  <2>1. CASE w = "queue"
    BY <1>0, <1>6, <2>1 DEF SilentEnd, LoopSilent
  <2>2. CASE w # "queue"
    BY <1>0, <1>6, <2>2 DEF SilentEnd, LoopSilent
  <2> QED BY <2>1, <2>2
<1>7. CASE \/ ErrfatalClear \/ StatusUp \/ RunStatus \/ ReconnectTimer \/ RunReconnectConnected
           \/ ForceFatalInIrq
  BY <1>0, <1>1, <1>7 DEF ErrfatalClear, StatusUp, RunStatus, ReconnectTimer,
     RunReconnectConnected, ForceFatalInIrq
<1>8. CASE \/ Create \/ FrameworkStep \/ ErrfatalTest \/ StatusLow \/ StatusClear
           \/ StatusRequest \/ CheckStatus \/ CheckRequest \/ ForceFatal \/ WaitInterrupted
           \/ \E w \in SilentThreads : SilentTimeout(w)
  BY <1>1, <1>8 DEF Create, FrameworkStep, ErrfatalTest, StatusLow, StatusClear, StatusRequest
     , CheckStatus, CheckRequest, ForceFatal, WaitInterrupted, SilentTimeout, mdmVars, threadVars
<1>9. CASE \/ RamdumpDone \/ RamdumpTimeout \/ PowerupBooted \/ PowerupTimeout
           \/ \E j \in Jobs : Shutdown(j) \/ RamdumpBegin(j) \/ RamdumpEnd(j)
                \/ RamdumpUnwanted(j) \/ PowerupBegin(j) \/ PowerupEnd(j)
  BY <1>1, <1>9 DEF RamdumpDone, RamdumpTimeout, PowerupBooted, PowerupTimeout, Shutdown
     , RamdumpBegin, RamdumpEnd, RamdumpUnwanted, PowerupBegin, PowerupEnd, threadVars
<1>10. CASE \/ WakeCharm \/ Load \/ LoadFails \/ BootDoneReady \/ BootDoneSignal \/ BootDoneArm
            \/ WaitForRestart \/ ReadBootType \/ ResetNeedsReload \/ InterruptedReset
            \/ RamDumpStatus \/ RamDumpSignal
  BY <1>1, <1>10 DEF WakeCharm, Load, LoadFails, BootDoneReady, BootDoneSignal, BootDoneArm
     , WaitForRestart, ReadBootType, ResetNeedsReload, InterruptedReset, RamDumpStatus
     , RamDumpSignal, threadVars
<1>11. CASE ModemUp \/ ModemConnects \/ ModemFatal \/ ModemResets \/ Halted \/ Settled \/ UNCHANGED vars
  BY <1>1, <1>11 DEF ModemUp, ModemConnects, ModemFatal, ModemResets, Halted, Settled, ModemStep
     , vars, mdmVars, threadVars
<1> QED
  BY <1>2, <1>3, <1>4, <1>5, <1>6, <1>7, <1>8, <1>9, <1>10, <1>11
  DEF Next, ErrfatalStep, StatusStep, CheckStep, QueueStep, SilentStep, CallbackStep,
     DaemonStep, ModemActs

\* What most steps leave of it.
LEMMA CrashKept ==
  ASSUME CrashFacts, modem' = modem, drv'.ready = drv.ready, hist.mixed => hist'.mixed,
         callerAt' = callerAt, jobAt' = jobAt, Relevant' => Relevant,
         FatalAsks => FatalAsks', WorkerAsks => WorkerAsks', CheckAsks => CheckAsks',
         irq.thread = "request" => irq'.thread = "request",
         drv.ready /\ modem = "fatal" /\ ErrAsks => ErrAsks',
         Unanswered => Unanswered'
  PROVE  CrashFacts'
<1>1. EarlyJobs'
  BY DEF CrashFacts, EarlyJobs
<1>2. Underway => Underway'
  BY DEF Underway
<1>3. Taken => Taken'
  BY <1>2 DEF Taken, Asking
<1>4. InHand => InHand'
  BY <1>3 DEF InHand
<1> QED BY <1>1, <1>4 DEF CrashFacts

\* Those who take it over.
LEMMA CrashTakenOver ==
  ASSUME CrashFacts, modem' = modem, hist.mixed => hist'.mixed, EarlyJobs',
         Relevant' => Relevant, Taken'
  PROVE  CrashFacts'
  BY DEF CrashFacts, InHand

\* The interrupts, the boot check and mdm_queue.
LEMMA CrashThreads ==
  ASSUME CharmType, Framework!IInv, Framework!ServedInv, CrashFacts, Running',
         \/ Create \/ FrameworkStep \/ ErrfatalStep \/ StatusStep \/ CheckStep
         \/ RunFatal \/ FatalRequest \/ RunStatus \/ RunReconnectConnected \/ ReconnectTimer
         \/ ForceFatal \/ ForceFatalInIrq
  PROVE  CrashFacts'
<1>0. /\ drv \in DrvSet /\ irq \in IrqSet /\ CheckType /\ wq.queue \in Seq(Works)
      /\ wq = [queue |-> wq.queue, worker |-> wq.worker, reconnect |-> wq.reconnect]
      /\ {"fatal", "status", "reconnect"} = Works
  BY CauseTypes DEF CharmType, WqType, Works
<1>1. /\ modem' = modem /\ hist' = hist /\ daemon' = daemon /\ done' = done /\ silent' = silent
      /\ drv'.bootStatus = drv.bootStatus /\ drv'.firstBoot = drv.firstBoot
  BY <1>0 DEF Create, FrameworkStep, ErrfatalStep, ErrfatalTest, ErrfatalClear, StatusStep,
     StatusLow, StatusClear, StatusRequest, StatusUp, CheckStep, CheckStatus, CheckRequest,
     RunFatal, FatalRequest, RunStatus, RunReconnectConnected, ReconnectTimer, ForceFatal,
     ForceFatalInIrq, mdmVars, modemVars, countVars, threadVars, DrvSet
<1>2. (Relevant' <=> Relevant) /\ (Unanswered' <=> Unanswered) /\ (hist.mixed => hist'.mixed)
  BY <1>1 DEF Relevant, Unanswered
<1>3. ASSUME UNCHANGED ssrVars PROVE callerAt' = callerAt /\ jobAt' = jobAt /\ EarlyJobs'
  BY <1>3 DEF ssrVars, CrashFacts, EarlyJobs
<1>4. CASE \E c \in Contexts : Request(c)
  <2>1. EarlyJobs' /\ Underway'
    BY <1>4, RequestGoes DEF CrashFacts
  <2> QED BY <1>1, <1>2, <2>1, CrashTakenOver DEF Taken, Asking
<1>5. CASE StatusRequest \/ CheckRequest \/ FatalRequest \/ ForceFatal
  BY <1>4, <1>5 DEF StatusRequest, CheckRequest, FatalRequest, ForceFatal, Contexts
<1>6. CASE FrameworkStep
  <2>1. EarlyJobs' /\ (Underway => Underway')
    BY <1>6, FrameworkGoes DEF CrashFacts
  <2>2. UNCHANGED mdmVars
    BY <1>6 DEF FrameworkStep
  <2>3. Taken => Taken'
    BY <1>2, <2>1, <2>2 DEF mdmVars, Taken, Asking, FatalAsks, WorkerAsks, CheckAsks, ErrAsks
  <2>4. InHand => InHand'
    BY <2>2, <2>3 DEF mdmVars, InHand
  <2> QED BY <1>2, <2>1, <2>4, <1>1 DEF CrashFacts
<1>7. CASE ErrfatalClear \/ ForceFatalInIrq
  <2>1. wq'.queue = Enqueue(wq.queue, "fatal") /\ UNCHANGED ssrVars
    BY <1>0, <1>7 DEF ErrfatalClear, ForceFatalInIrq, Local
  <2>2. FatalAsks'
    BY <1>0, <2>1, PendingEnqueue DEF FatalAsks
  <2> QED BY <1>1, <1>2, <1>3, <2>1, <2>2, CrashTakenOver DEF Taken, Asking
<1>8. CASE StatusClear
  <2>1. irq'.thread = "request" /\ UNCHANGED ssrVars
    BY <1>0, <1>8 DEF StatusClear, Local, IrqSet
  <2> QED BY <1>1, <1>2, <1>3, <2>1, CrashTakenOver DEF Taken
<1>9. CASE RunFatal
  <2>1. wq'.worker = "request" /\ UNCHANGED ssrVars
    BY <1>0, <1>9 DEF RunFatal, NextWork, Local
  <2> QED BY <1>1, <1>2, <1>3, <2>1, CrashTakenOver DEF Taken, Asking, WorkerAsks
<1>10. CASE CheckStatus
  <2>1. CASE ~StatusHigh
    <3>1. check'.running /\ UNCHANGED ssrVars
      BY <1>10, <2>1 DEF CheckStatus, Local
    <3> QED BY <1>1, <1>2, <1>3, <3>1, CrashTakenOver DEF Taken, Asking, CheckAsks
  <2>2. CASE StatusHigh
    <3>1. /\ drv' = drv /\ wq' = wq /\ irq' = irq /\ ~check.running /\ UNCHANGED ssrVars
      BY <1>10, <2>2 DEF CheckStatus, Local
    <3> QED BY <1>1, <1>2, <1>3, <3>1, CrashKept DEF FatalAsks, WorkerAsks, CheckAsks, ErrAsks
  <2> QED BY <2>1, <2>2
<1>11. CASE ErrfatalTest
  <2>1. /\ drv' = drv /\ wq' = wq /\ check' = check /\ irq'.thread = irq.thread
        /\ UNCHANGED ssrVars
        /\ drv.ready /\ modem = "fatal" => irq'.err = "clear"
    BY <1>0, <1>11 DEF ErrfatalTest, Local, threadVars, IrqSet, StatusHigh, High
  <2> QED BY <1>1, <1>2, <1>3, <2>1, CrashKept DEF FatalAsks, WorkerAsks, CheckAsks, ErrAsks
<1>12. CASE StatusLow
  <2>1. /\ drv' = drv /\ wq' = wq /\ check' = check /\ irq.thread = "idle"
        /\ irq'.err = irq.err /\ UNCHANGED ssrVars
    BY <1>0, <1>12 DEF StatusLow, Local, threadVars, IrqSet
  <2> QED BY <1>1, <1>2, <1>3, <2>1, CrashKept DEF FatalAsks, WorkerAsks, CheckAsks, ErrAsks
<1>13. CASE StatusUp
  <2>1. /\ drv' = drv /\ irq'.thread = irq.thread /\ irq'.err = irq.err
        /\ check'.running = check.running /\ UNCHANGED ssrVars
        /\ wq'.worker = wq.worker /\ wq'.queue = Enqueue(wq.queue, "status")
    BY <1>0, <1>13 DEF StatusUp, Local, IrqSet, CheckType
  <2>2. FatalAsks => FatalAsks'
    BY <1>0, <2>1, PendingEnqueue DEF FatalAsks
  <2> QED BY <1>1, <1>2, <1>3, <2>1, <2>2, CrashKept DEF WorkerAsks, CheckAsks, ErrAsks
<1>14. CASE ReconnectTimer
  <2>1. /\ drv' = drv /\ irq' = irq /\ check' = check /\ UNCHANGED ssrVars
        /\ wq'.worker = wq.worker /\ wq'.queue = Enqueue(wq.queue, "reconnect")
    BY <1>0, <1>14 DEF ReconnectTimer, Local
  <2>2. FatalAsks => FatalAsks'
    BY <1>0, <2>1, PendingEnqueue DEF FatalAsks
  <2> QED BY <1>1, <1>2, <1>3, <2>1, <2>2, CrashKept DEF WorkerAsks, CheckAsks, ErrAsks
<1>15. CASE RunStatus \/ RunReconnectConnected
  <2>1. /\ drv' = drv /\ irq' = irq /\ check' = check /\ UNCHANGED ssrVars
        /\ wq'.worker = wq.worker /\ wq'.queue = Tail(wq.queue)
        /\ wq.queue # <<>> /\ Head(wq.queue) # "fatal"
    BY <1>0, <1>15 DEF RunStatus, RunReconnectConnected, NextWork, Local
  <2>2. FatalAsks => FatalAsks'
    BY <1>0, <2>1, PendingKept DEF FatalAsks
  <2> QED BY <1>1, <1>2, <1>3, <2>1, <2>2, CrashKept DEF WorkerAsks, CheckAsks, ErrAsks
<1>16. CASE Create
  <2>1. UNCHANGED mdmVars /\ callerAt' = callerAt /\ jobAt' = jobAt
    BY <1>16 DEF Create, SSR!Register, SSR!callerVars, SSR!jobVars
  <2> QED BY <1>1, <1>2, <2>1, CrashKept DEF FatalAsks, WorkerAsks, CheckAsks, ErrAsks, mdmVars
<1> QED
  BY <1>5, <1>6, <1>7, <1>8, <1>9, <1>10, <1>11, <1>12, <1>13, <1>14, <1>15, <1>16
  DEF ErrfatalStep, StatusStep, CheckStep

\* A silent reset clears mdm_ready and takes the crash over: nothing was asked of
\* the daemon, so that what it answers comes after a load.
LEMMA CrashReset ==
  ASSUME FreshInv, CrashFacts, FirstQuiet, hist.crashed,
         RunReconnectSilent \/ ForceSilentReset
  PROVE  CrashFacts'
<1>0. /\ CharmType /\ CallbackHasJob /\ AnswerInv /\ DaemonFacts
      /\ hist \in HistSet /\ drv \in DrvSet /\ silent \in [SilentThreads -> {"no", "wait", "init"}]
  BY AnswerTypes DEF FreshInv, SilentType
<1>1. PICK w \in SilentThreads : SilentBegin(w)
  BY DEF RunReconnectSilent, ForceSilentReset, SilentThreads
<1>2. /\ modem' = modem /\ daemon' = daemon /\ UNCHANGED ssrVars
      /\ drv'.bootStatus = drv.bootStatus /\ drv'.firstBoot = drv.firstBoot
      /\ done'.boot = done.boot /\ silent'[w] = "wait"
      /\ hist.mixed => hist'.mixed
      /\ Restarting \/ Reloading => hist'.mixed
  BY <1>0, <1>1 DEF RunReconnectSilent, ForceSilentReset, SilentBegin, NextWork, Local, modemVars,
     DrvSet, HistSet, CharmType, DoneType
<1>3. EarlyJobs' /\ (Relevant' <=> Relevant)
  BY <1>2 DEF ssrVars, CrashFacts, EarlyJobs, Relevant
<1>4. CASE hist'.mixed
  BY <1>3, <1>4 DEF CrashFacts
<1>5. CASE ~hist'.mixed
  <2>1. ~hist.mixed /\ ~Restarting /\ ~Reloading
    BY <1>2, <1>5
  <2>2. ~Waiting
    BY <1>0, <2>1 DEF CallbackHasJob, Restarting, Reloading, Waiting, SilentThreads
  <2>3. done.boot = 0 /\ ~Answering
    BY <1>0, <2>1, <2>2, OneAtMost
  <2>4. daemon.at = "report" => drv.firstBoot
    BY <2>3 DEF Answering
  <2>5. daemon.at # "report" /\ (daemon.at = "signal" => drv.firstBoot)
    BY <2>3, <2>4 DEF Answering, FirstQuiet
  <2>6. Unanswered'
    BY <1>2, <2>3, <2>5 DEF Unanswered
  <2> QED BY <1>2, <1>3, <2>6, CrashTakenOver DEF Taken
<1> QED BY <1>4, <1>5

\* A step of a thread that handles a reset without notice keeps the crash in hand.
LEMMA CrashSilent ==
  ASSUME CharmType, CrashFacts, LoopSilent, Running',
         NEW w \in SilentThreads, SilentStep(w)
  PROVE  CrashFacts'
<1>0. /\ silent \in [SilentThreads -> {"no", "wait", "init"}] /\ DoneType
      /\ wq = [queue |-> wq.queue, worker |-> wq.worker, reconnect |-> wq.reconnect]
  BY DEF CharmType, SilentType, WqType
<1>1. CASE SilentTimeout(w)
  BY <1>1 DEF SilentTimeout, SSR!PanicElsewhere, SSR!Panic, Running, SSR!Running
<1>2. CASE SilentBooted(w)
  <2>1. /\ modem' = modem /\ drv' = drv /\ daemon' = daemon /\ hist' = hist /\ irq' = irq
        /\ wq' = wq /\ check' = check /\ UNCHANGED ssrVars /\ done.boot # 0
    BY <1>0, <1>2 DEF SilentBooted, Local, modemVars, countVars
  <2>2. ~Unanswered
    BY <2>1 DEF Unanswered
  <2> QED BY <2>1, <2>2, CrashKept DEF ssrVars, Relevant, FatalAsks, WorkerAsks, CheckAsks, ErrAsks
<1>3. CASE SilentEnd(w)
  <2>1. /\ modem' = modem /\ drv' = drv /\ daemon' = daemon /\ hist' = hist /\ irq' = irq
        /\ check' = check /\ UNCHANGED ssrVars /\ done'.boot = 0 /\ silent[w] = "init"
        /\ silent' = [silent EXCEPT ![w] = "no"]
    BY <1>0, <1>3 DEF SilentEnd, Local, modemVars, countVars, DoneType
  <2>2. wq'.queue = wq.queue /\ (wq.worker = "request" => wq'.worker = "request")
    BY <1>0, <1>3, <2>1 DEF SilentEnd, LoopSilent
  <2>3. \A v \in SilentThreads : silent[v] = "wait" => silent'[v] = "wait"
    BY <1>0, <2>1
  <2>4. Unanswered => Unanswered'
    BY <2>1, <2>3 DEF Unanswered
  <2> QED
    BY <2>1, <2>2, <2>4, CrashKept DEF ssrVars, Relevant, FatalAsks, WorkerAsks, CheckAsks, ErrAsks
<1> QED BY <1>1, <1>2, <1>3 DEF SilentStep

\* No callback but the shutdown runs, and that ends the crash.
LEMMA CrashCallback ==
  ASSUME CharmType, CallbackHasJob, EarlyJobs, CallbackStep
  PROVE  ~hist'.crashed
<1>0. hist \in HistSet
  BY CauseTypes
<1>1. ASSUME NEW j \in Jobs, jobAt[j] \in {"ramdump", "powerup"} PROVE FALSE
  BY <1>1 DEF EarlyJobs, Early
<1>2. CASE RamdumpDone \/ RamdumpTimeout \/ PowerupBooted \/ PowerupTimeout
  <2>1. cb \in {"dump", "boot"}
    BY <1>2 DEF RamdumpDone, RamdumpTimeout, PowerupBooted, PowerupTimeout
  <2> QED BY <1>1, <2>1 DEF CallbackHasJob
<1>3. ASSUME NEW j \in Jobs, Shutdown(j) PROVE ~hist'.crashed
  BY <1>0, <1>3 DEF Shutdown, HistSet
<1>4. ASSUME NEW j \in Jobs,
             \/ RamdumpBegin(j) \/ RamdumpEnd(j) \/ RamdumpUnwanted(j)
             \/ PowerupBegin(j) \/ PowerupEnd(j)
      PROVE  FALSE
  <2>1. jobAt[j] \in {"ramdump", "powerup"}
    BY <1>4 DEF RamdumpBegin, RamdumpEnd, RamdumpUnwanted, PowerupBegin, PowerupEnd,
       SSR!Ramdump, SSR!Powerup, SSR!PowerupFails, SSR!Goto
  <2> QED BY <1>1, <2>1
<1> QED BY <1>2, <1>3, <1>4 DEF CallbackStep

\* The daemon: a load ends the crash, and a report of one finds it taken over, or
\* the modem ready again.
LEMMA CrashDaemon ==
  ASSUME CharmType, DaemonFacts, FirstQuiet, CrashFacts, hist.crashed, hist'.crashed,
         DaemonStep \/ WaitInterrupted
  PROVE  CrashFacts'
<1>0. drv \in DrvSet /\ hist \in HistSet /\ DaemonType /\ DoneType
  BY CauseTypes
<1>1. ~WakeCharm /\ ~Load
  BY <1>0 DEF WakeCharm, Load, DaemonAt, DaemonFacts, FirstQuiet, HistSet
<1>2. UNCHANGED ssrVars /\ callerAt' = callerAt /\ jobAt' = jobAt
  BY <1>1 DEF DaemonStep, WaitInterrupted, LoadFails, BootDoneReady, BootDoneSignal, BootDoneArm,
     WaitForRestart, ReadBootType, ResetNeedsReload, InterruptedReset, RamDumpStatus,
     RamDumpSignal, DaemonAt, Local, ssrVars
<1>3. modem' = modem /\ irq' = irq /\ wq' = wq /\ silent' = silent /\ hist'.mixed = hist.mixed
  BY <1>0, <1>1 DEF DaemonStep, WaitInterrupted, LoadFails, BootDoneReady, BootDoneSignal,
     BootDoneArm, WaitForRestart, ReadBootType, ResetNeedsReload, InterruptedReset,
     RamDumpStatus, RamDumpSignal, modemVars, threadVars, countVars, HistSet
<1>4. check'.running = check.running
  BY <1>1 DEF DaemonStep, WaitInterrupted, LoadFails, BootDoneReady, BootDoneSignal,
     BootDoneArm, WaitForRestart, ReadBootType, ResetNeedsReload, InterruptedReset,
     RamDumpStatus, RamDumpSignal, threadVars, CharmType, CheckType
<1>5. CASE BootDoneReady
  <2>1. /\ daemon.at = "report" /\ daemon'.at = "signal" /\ daemon'.ok = daemon.ok
        /\ drv'.bootStatus = (IF daemon.ok THEN "ok" ELSE "io") /\ drv'.ready
    BY <1>0, <1>5 DEF BootDoneReady, DaemonAt, DaemonType, DrvSet
  <2>2. EarlyJobs'
    BY <1>2 DEF CrashFacts, EarlyJobs
  <2>3. CASE ~daemon.ok
    BY <2>1, <2>2, <2>3 DEF Relevant, CrashFacts
  <2>4. CASE daemon.ok
    <3>1. Relevant /\ ~Unanswered
      BY <2>1, <2>4 DEF Relevant, Unanswered
    <3>2. InHand => InHand'
      BY <1>2, <1>3, <1>4, <2>1, <3>1
      DEF InHand, Taken, Asking, FatalAsks, WorkerAsks, CheckAsks, ErrAsks, Underway
    <3> QED BY <1>3, <2>2, <3>1, <3>2 DEF CrashFacts
  <2> QED BY <2>3, <2>4
<1>6. CASE ~BootDoneReady
  <2>1. drv'.ready = drv.ready /\ drv'.bootStatus = drv.bootStatus
    BY <1>0, <1>1, <1>6 DEF DaemonStep, WaitInterrupted, LoadFails, BootDoneSignal,
       BootDoneArm, WaitForRestart, ReadBootType, ResetNeedsReload, InterruptedReset,
       RamDumpStatus, RamDumpSignal, DrvSet
  <2>2. Relevant' => Relevant
    BY <1>0, <1>1, <1>6, <2>1 DEF DaemonStep, WaitInterrupted, LoadFails, BootDoneSignal,
       BootDoneArm, WaitForRestart, ReadBootType, ResetNeedsReload, InterruptedReset,
       RamDumpStatus, RamDumpSignal, DaemonAt, DaemonType, Relevant
  <2>3. CASE BootDoneSignal
    <3>1. Unanswered => done' = done
      BY <2>3 DEF Unanswered, BootDoneSignal, DaemonAt
    <3>2. daemon'.at = "arm"
      BY <1>0, <2>3 DEF BootDoneSignal, DaemonType
    <3>3. Unanswered => Unanswered'
      BY <1>3, <3>1, <3>2 DEF Unanswered
    <3> QED
      BY <1>2, <1>3, <1>4, <2>1, <2>2, <3>3, CrashKept DEF FatalAsks, WorkerAsks, CheckAsks, ErrAsks
  <2>4. CASE ~BootDoneSignal
    <3>1. done'.boot = done.boot /\ drv'.firstBoot = drv.firstBoot
      BY <1>0, <1>1, <1>6, <2>4 DEF DaemonStep, WaitInterrupted, LoadFails,
         BootDoneArm, WaitForRestart, ReadBootType, ResetNeedsReload, InterruptedReset,
         RamDumpStatus, RamDumpSignal, DoneType, DrvSet
    <3>2. daemon'.at # "signal" /\ (daemon'.at = "report" => ~daemon'.ok)
      BY <1>0, <1>1, <1>6, <2>4 DEF DaemonStep, WaitInterrupted, LoadFails,
         BootDoneArm, WaitForRestart, ReadBootType, ResetNeedsReload, InterruptedReset,
         RamDumpStatus, RamDumpSignal, DaemonType
    <3>3. Unanswered => Unanswered'
      BY <1>3, <3>1, <3>2 DEF Unanswered
    <3> QED
      BY <1>2, <1>3, <1>4, <2>1, <2>2, <3>3, CrashKept DEF FatalAsks, WorkerAsks, CheckAsks, ErrAsks
  <2> QED BY <2>3, <2>4
<1> QED BY <1>5, <1>6

\* The modem that crashed does not start, and is fatal before it resets.
LEMMA CrashModem ==
  ASSUME "errfatal" \in Irqs, CharmType, hist.crashed => CrashFacts,
         hist.crashed \/ ((ModemFatal \/ ModemResets) /\ drv.ready /\ ~Restarting),
         ModemActs \/ ModemFatal \/ ModemResets
  PROVE  CrashFacts'
<1>0. hist \in HistSet /\ irq \in IrqSet
  BY CauseTypes
<1>1. /\ drv' = drv /\ daemon' = daemon /\ done' = done /\ silent' = silent /\ wq' = wq
      /\ check' = check /\ hist'.mixed = hist.mixed /\ irq'.thread = irq.thread
      /\ callerAt' = callerAt /\ jobAt' = jobAt
      /\ ErrAsks \/ ModemFatal => ErrAsks'
  <2>1. CASE ModemUp \/ ModemConnects
    <3>1. modem' = "up"
      BY <2>1 DEF ModemUp, ModemConnects, ModemStep, SetModem
    <3>2. ~ModemFatal
      BY <3>1 DEF ModemFatal, ModemStep, SetModem
    <3> QED BY <1>0, <2>1, <3>2, ModemMoves DEF ModemUp, ModemConnects, ModemStep, Local, ssrVars,
             threadVars, countVars, ErrAsks
  <2>2. CASE ModemFatal
    <3> DEFINE q == IF "errfatal" \in Irqs /\ irq.err = "none"
                    THEN [irq EXCEPT !.err = "pending"] ELSE irq
    <3>1. q \in IrqSet /\ q.err # "none" /\ q.thread = irq.thread
      BY <1>0 DEF IrqSet
    <3>2. SetModem("fatal", q)
      BY <2>2 DEF ModemFatal, ModemStep
    <3> HIDE DEF q
    <3>3. irq'.err # "none" /\ irq'.thread = irq.thread
      BY <3>1, <3>2, ModemMoves
    <3> QED BY <1>0, <2>2, <3>3 DEF ModemFatal, ModemStep, Fault, Local, ssrVars, threadVars,
             ErrAsks, HistSet
  <2>3. CASE ModemResets
    <3>1. SetModem("rom", irq)
      BY <2>3 DEF ModemResets, ModemStep
    <3>2. irq'.err = irq.err /\ irq'.thread = irq.thread
      BY <1>0, <3>1, ModemMoves
    <3> QED BY <1>0, <2>3, <3>1, <3>2 DEF ModemResets, ModemFatal, ModemStep, SetModem, Fault, Local, ssrVars, threadVars,
             ErrAsks, HistSet
  <2> QED BY <2>1, <2>2, <2>3 DEF ModemActs
<1>2. Relevant' <=> Relevant
  BY <1>1 DEF Relevant
<1>3. EarlyJobs' <=> EarlyJobs
  BY <1>1 DEF EarlyJobs
<1>4. CASE hist.crashed
  <2>1. EarlyJobs'
    BY <1>3, <1>4 DEF CrashFacts
  <2>2. CASE InHand
    <3>1. modem \in {"fatal", "rom"} /\ ModemResets
      BY <2>2 DEF InHand, ModemActs, ModemUp, ModemConnects, ModemFatal
    <3>2. modem = "fatal" /\ modem' = "rom"
      BY <3>1 DEF ModemResets, ModemStep, SetModem
    <3>3. InHand'
      BY <1>1, <2>2, <3>2 DEF InHand, Taken, Asking, FatalAsks, WorkerAsks, CheckAsks, Underway,
         Unanswered
    <3> QED BY <2>1, <3>3 DEF CrashFacts
  <2>3. CASE ~InHand
    BY <1>1, <1>2, <1>4, <2>1, <2>3 DEF CrashFacts
  <2> QED BY <2>2, <2>3
<1>5. CASE ~hist.crashed
  <2>1. EarlyJobs'
    BY <1>3, <1>5 DEF Restarting, EarlyJobs
  <2>2. drv'.ready
    BY <1>1, <1>5
  <2>3. \/ modem' = "fatal" /\ ErrAsks'
        \/ modem' = "rom"
    BY <1>1, <1>5 DEF ModemFatal, ModemResets, ModemStep, SetModem
  <2> QED BY <2>1, <2>2, <2>3 DEF CrashFacts, InHand, Taken
<1> QED BY <1>4, <1>5

\* No step loses the crash: each one that takes it from a holder gives it to another.
LEMMA CrashStep ==
  ASSUME "errfatal" \in Irqs, FreshInv, Framework!IInv, Framework!ServedInv, CrashInv,
         [Next]_vars
  PROVE  CrashInv'
<1>0. CharmType /\ CallbackHasJob /\ DaemonFacts /\ FirstQuiet /\ LoopSilent
  BY DEF FreshInv, CrashInv
<1>1. FirstQuiet' /\ LateMixed' /\ LoopSilent'
  BY <1>0, FirstQuietStep, LateMixedStep, LoopSilentStep DEF CrashInv
<1>2. ASSUME hist'.crashed, Running' PROVE CrashFacts'
  <2>1. Running
    BY <1>2, StepIsFrameworkStep DEF Running, SSR!Running, Framework!Next, Framework!Register,
       Framework!Accept, Framework!Refuse, Framework!CallerStep, Framework!MarkOngoing,
       Framework!AllocFails, Framework!Schedule, Framework!JobStep, Framework!TakeShutdown,
       Framework!AlreadyShuttingDown, Framework!TakePowerup, Framework!DiedDuringPowerup,
       Framework!LockReg, Framework!Shutdown, Framework!ShutdownFails, Framework!UnlockShutdown,
       Framework!Ramdump, Framework!Powerup, Framework!PowerupFails, Framework!UnlockPowerup,
       Framework!UnlockReg, Framework!Finish, Framework!PanicElsewhere, Framework!Goto,
       Framework!Running, Framework!Halted, Framework!vars
  <2>2. hist.crashed => CrashFacts
    BY <2>1 DEF CrashInv
  <2>3. \/ hist.crashed
        \/ (ModemFatal \/ ModemResets) /\ drv.ready /\ ~Restarting
    BY <1>0, <1>2, CrashGrows
  <2>4. CASE ModemActs \/ ModemFatal \/ ModemResets
    BY <1>0, <2>2, <2>3, <2>4, CrashModem
  <2>5. CASE ~(ModemActs \/ ModemFatal \/ ModemResets)
    <3>1. hist.crashed /\ CrashFacts
      BY <2>2, <2>3, <2>5
    <3>2. CASE \/ Create \/ FrameworkStep \/ ErrfatalStep \/ StatusStep \/ CheckStep
               \/ RunFatal \/ FatalRequest \/ RunStatus \/ RunReconnectConnected
               \/ ReconnectTimer \/ ForceFatal \/ ForceFatalInIrq
      BY <1>0, <1>2, <3>1, <3>2, CrashThreads
    <3>3. CASE RunReconnectSilent \/ ForceSilentReset
      BY <1>0, <3>1, <3>3, CrashReset
    <3>4. CASE \E w \in SilentThreads : SilentStep(w)
      BY <1>0, <1>2, <3>1, <3>4, CrashSilent
    <3>5. CASE CallbackStep
      BY <1>0, <1>2, <3>1, <3>5, CrashCallback DEF CrashFacts
    <3>6. CASE DaemonStep \/ WaitInterrupted
      BY <1>0, <1>2, <3>1, <3>6, CrashDaemon
    <3>7. CASE Halted \/ Settled \/ UNCHANGED vars
      <4>1. UNCHANGED vars
        BY <3>7 DEF Halted, Settled
      <4> QED BY <3>1, <4>1, CrashKept DEF vars, ssrVars, mdmVars, Relevant, Unanswered, FatalAsks,
               WorkerAsks, CheckAsks, ErrAsks
    <3> QED BY <2>5, <3>2, <3>3, <3>4, <3>5, <3>6, <3>7 DEF Next, QueueStep
  <2> QED BY <2>4, <2>5
<1> QED BY <1>1, <1>2 DEF CrashInv

\* What is accepted of the framework is owned under the driver too.
LEMMA ServedModem == SafeSpec => []Framework!ServedInv
<1>1. FALSE \in BOOLEAN
  OBVIOUS
<1>2. Framework!SafeSpec => []Framework!ServedInv
  BY <1>1, Framework!ServedInductive
<1> QED BY <1>2, UsesFramework, PTL

\* Who has a crash that no shutdown and no load has ended yet, when the daemon has
\* not reported a failed load.
CrashNoticed ==
  hist.crashed /\ Running /\ drv.bootStatus # "io" /\ ~hist.mixed =>
    \/ irq.err # "none" \/ irq.edge \/ irq.thread # "idle"
    \/ ~StatusHigh /\ (check.due \/ daemon.at \in {"signal", "arm"})
    \/ Asking
    \/ Unanswered

\* With both interrupts, the crash of a modem taken to be ready is not forgotten,
\* whichever of them, the boot check, forced restarts and silent resets races:
\* clearing mdm_ready hides it from the others only once a request or a reload has
\* it (mdm_common.c:376-381, :421-427, :629-641, :229-237).  CrashIsServed adds
\* that whoever has it goes on.
THEOREM CrashKeptInMind ==
  ASSUME "errfatal" \in Irqs, "status" \in Irqs
  PROVE  SafeSpec => []CrashNoticed
<1>1. Init => CrashInv
  BY DEF Init, CrashInv, FirstQuiet, LateMixed, LoopSilent, SilentThreads
<1>2. FreshInv /\ Framework!IInv /\ Framework!ServedInv /\ CrashInv /\ [Next]_vars => CrashInv'
  BY CrashStep
<1>3. Init => WatchedInv
  BY DEF Init, WatchedInv
<1>4. FreshInv /\ WatchedInv /\ [Next]_vars => WatchedInv'
  BY WatchedStep DEF FreshInv
<1>5. FreshInv /\ CrashInv /\ WatchedInv => CrashNoticed
  <2> SUFFICES ASSUME FreshInv, CrashInv, WatchedInv, hist.crashed, Running,
                      drv.bootStatus # "io", ~hist.mixed
               PROVE  CrashNoticed
    BY DEF CrashNoticed
  <2>1. InHand
    BY DEF CrashInv, CrashFacts, Relevant
  <2>2. CASE Taken
    BY <2>2 DEF Taken, ErrAsks, CrashNoticed
  <2>3. CASE drv.ready /\ modem = "rom"
    <3>1. drv.bootStatus = "ok"
      BY CauseTypes DEF FreshInv, CrashInv, LateMixed, DrvSet
    <3>2. ~StatusHigh
      BY <2>3 DEF StatusHigh, High
    <3> QED BY <2>3, <3>1, <3>2 DEF WatchedInv, CrashNoticed
  <2> QED BY <2>1, <2>2, <2>3 DEF InHand
<1> QED
  BY <1>1, <1>2, <1>3, <1>4, <1>5, FreshInductive, ModemExclusion, ServedModem, PTL DEF SafeSpec

=============================================================================
