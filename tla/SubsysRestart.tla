--------------------------- MODULE SubsysRestart ---------------------------
(***************************************************************************)
(* arch/arm/mach-exynos/subsystem_restart.c: callers in any context ask    *)
(* for the restart of a subsystem (subsystem_restart); each accepted       *)
(* request becomes a work item, here a job, that some kworker runs         *)
(* (subsystem_restart_wq_func).  Work items of one subsystem, and of       *)
(* different subsystems, run concurrently: two mutexes per subsystem taken *)
(* with mutex_trylock, one global mutex and the flag `ongoing` order them. *)
(*                                                                         *)
(* A panic stops every processor: no action is enabled afterwards.         *)
(***************************************************************************)

CONSTANTS
  Subsystems,   \* the subsystems that may register
  Callers,      \* the contexts that call subsystem_restart
  Jobs,         \* the restart_wq_data records the allocator can hand out
  NoJob,        \* an unlocked mutex
  NoSubsystem,  \* the target of an idle caller or of a free record
  Remember      \* whether the history variables are kept

ASSUME NoJobIsNoJob == NoJob \notin Jobs
ASSUME NoSubsystemIsNone == NoSubsystem \notin Subsystems
ASSUME RememberIsBool == Remember \in BOOLEAN

VARIABLES
  registered,    \* the subsystems on subsystem_list
  ongoing,       \* ongoing[s]: subsys->ongoing
  shutdownLock,  \* shutdownLock[s]: the job holding subsys->shutdown_lock
  powerupLock,   \* powerupLock[s]: the job holding subsys->powerup_lock
  regLock,       \* the job holding soc_order_reg_lock
  callerAt,      \* where each caller is in subsystem_restart
  callerFor,     \* the subsystem it asks for
  callerLate,    \* history: it asked during a powerup sequence
  jobAt,         \* where each work item is in subsystem_restart_wq_func
  jobFor,        \* r_work->subsys
  jobLate,       \* history: callerLate of the request behind the job
  power,         \* power[s]: what the callbacks have done to the subsystem
  due,           \* history: requests since the last shutdown phase of s ended
  panic          \* "no", or why the kernel panicked

callerVars == <<callerAt, callerFor, callerLate>>
jobVars == <<jobAt, jobFor, jobLate>>
lockVars == <<shutdownLock, powerupLock, regLock>>
vars == <<registered, ongoing, lockVars, callerVars, jobVars, power, due, panic>>

CallerStates == {"idle", "mark", "alloc"}

\* The job states in which the powerup lock, the registration lock are held.
Sequence == {"shutdown", "unlockShutdown", "ramdump", "powerup", "unlockPowerup"}
HoldsPowerup == {"lockReg"} \union Sequence
HoldsReg == Sequence \union {"unlockReg"}
HoldsShutdown == {"tryPowerup", "lockReg", "shutdown", "unlockShutdown"}
JobStates == {"free", "queued", "tryPowerup", "lockReg", "unlockReg", "out"}
               \union Sequence

\* The window of the powerup sequence: the shutdown lock has been released
\* and the powerup lock has not.
InPowerupSequence(s) ==
  \E j \in Jobs : /\ jobFor[j] = s
                  /\ jobAt[j] \in {"ramdump", "powerup", "unlockPowerup"}

TypeOK ==
  /\ registered \subseteq Subsystems
  /\ ongoing \in [Subsystems -> BOOLEAN]
  /\ shutdownLock \in [Subsystems -> Jobs \union {NoJob}]
  /\ powerupLock \in [Subsystems -> Jobs \union {NoJob}]
  /\ regLock \in Jobs \union {NoJob}
  /\ callerAt \in [Callers -> CallerStates]
  /\ callerFor \in [Callers -> Subsystems \union {NoSubsystem}]
  /\ callerLate \in [Callers -> BOOLEAN]
  /\ jobAt \in [Jobs -> JobStates]
  /\ jobFor \in [Jobs -> Subsystems \union {NoSubsystem}]
  /\ jobLate \in [Jobs -> BOOLEAN]
  /\ power \in [Subsystems -> {"up", "off", "dumped"}]
  /\ due \in [Subsystems -> SUBSET {"accepted", "refused"}]
  /\ panic \in {"no", "alloc", "died", "shutdown", "powerup", "elsewhere"}

Init ==
  /\ registered = {}
  /\ ongoing = [s \in Subsystems |-> FALSE]
  /\ shutdownLock = [s \in Subsystems |-> NoJob]
  /\ powerupLock = [s \in Subsystems |-> NoJob]
  /\ regLock = NoJob
  /\ callerAt = [c \in Callers |-> "idle"]
  /\ callerFor = [c \in Callers |-> NoSubsystem]
  /\ callerLate = [c \in Callers |-> FALSE]
  /\ jobAt = [j \in Jobs |-> "free"]
  /\ jobFor = [j \in Jobs |-> NoSubsystem]
  /\ jobLate = [j \in Jobs |-> FALSE]
  /\ power = [s \in Subsystems |-> "up"]
  /\ due = [s \in Subsystems |-> {}]
  /\ panic = "no"

Running == panic = "no"

\* panic(): the machine stops where it stands.
Panic(why) ==
  /\ panic' = why
  /\ UNCHANGED <<registered, ongoing, lockVars, callerVars, jobVars, power, due>>

(***************************************************************************)
(* ssr_register_subsystem.  Its two mutexes are initialised unlocked.      *)
(***************************************************************************)
Register(s) ==
  /\ Running
  /\ s \notin registered
  /\ registered' = registered \union {s}
  /\ shutdownLock' = [shutdownLock EXCEPT ![s] = NoJob]
  /\ powerupLock' = [powerupLock EXCEPT ![s] = NoJob]
  /\ UNCHANGED <<ongoing, regLock, callerVars, jobVars, power, due, panic>>

(***************************************************************************)
(* subsystem_restart.  The test of `ongoing` and its assignment are two    *)
(* steps: nothing locks them together.                                     *)
(***************************************************************************)

\* A request is remembered until the next shutdown phase ends.
Asked(s, answer) ==
  due' = IF Remember THEN [due EXCEPT ![s] = @ \union {answer}] ELSE due

\* The request finds `ongoing` clear and goes on to set it.
Accept(c, s) ==
  /\ Running
  /\ callerAt[c] = "idle"
  /\ s \in registered
  /\ ~ongoing[s]
  /\ callerAt' = [callerAt EXCEPT ![c] = "mark"]
  /\ callerFor' = [callerFor EXCEPT ![c] = s]
  /\ callerLate' = [callerLate EXCEPT ![c] = Remember /\ InPowerupSequence(s)]
  /\ Asked(s, "accepted")
  /\ UNCHANGED <<registered, ongoing, lockVars, jobVars, power, panic>>

\* The request finds `ongoing` set and returns -EBUSY.
Refuse(c, s) ==
  /\ Running
  /\ callerAt[c] = "idle"
  /\ s \in registered
  /\ ongoing[s]
  /\ Asked(s, "refused")
  /\ UNCHANGED <<registered, ongoing, lockVars, callerVars, jobVars, power, panic>>

\* Mutant of MarkOngoing: the request does not set the flag.
MarkNothing(c) ==
  /\ Running
  /\ callerAt[c] = "mark"
  /\ callerAt' = [callerAt EXCEPT ![c] = "alloc"]
  /\ UNCHANGED <<registered, ongoing, lockVars, callerFor, callerLate, jobVars,
                 power, due, panic>>

MarkOngoing(c) ==
  /\ Running
  /\ callerAt[c] = "mark"
  /\ ongoing' = [ongoing EXCEPT ![callerFor[c]] = TRUE]
  /\ callerAt' = [callerAt EXCEPT ![c] = "alloc"]
  /\ UNCHANGED <<registered, lockVars, callerFor, callerLate, jobVars,
                 power, due, panic>>

\* kzalloc succeeds, the work item is queued and the caller returns 0.
Schedule(c, j) ==
  /\ Running
  /\ callerAt[c] = "alloc"
  /\ jobAt[j] = "free"
  /\ jobAt' = [jobAt EXCEPT ![j] = "queued"]
  /\ jobFor' = [jobFor EXCEPT ![j] = callerFor[c]]
  /\ jobLate' = [jobLate EXCEPT ![j] = callerLate[c]]
  /\ callerAt' = [callerAt EXCEPT ![c] = "idle"]
  /\ callerFor' = [callerFor EXCEPT ![c] = NoSubsystem]
  /\ callerLate' = [callerLate EXCEPT ![c] = FALSE]
  /\ UNCHANGED <<registered, ongoing, lockVars, power, due, panic>>

AllocFails(c) ==
  /\ Running
  /\ callerAt[c] = "alloc"
  /\ Panic("alloc")

(***************************************************************************)
(* subsystem_restart_wq_func, one step per lock operation and callback.    *)
(***************************************************************************)
Goto(j, from, to) ==
  /\ Running
  /\ jobAt[j] = from
  /\ jobAt' = [jobAt EXCEPT ![j] = to]
  /\ UNCHANGED <<registered, callerVars, jobFor, jobLate, panic>>

\* mutex_trylock(shutdown_lock) succeeds.
TakeShutdown(j) ==
  /\ Goto(j, "queued", "tryPowerup")
  /\ shutdownLock[jobFor[j]] = NoJob
  /\ shutdownLock' = [shutdownLock EXCEPT ![jobFor[j]] = j]
  /\ UNCHANGED <<ongoing, powerupLock, regLock, power, due>>

\* Mutant of AlreadyShuttingDown: the job tries the other lock, so that it also
\* gives up during another job's powerup sequence.
AlreadyPoweringUp(j) ==
  /\ Goto(j, "queued", "out")
  /\ powerupLock[jobFor[j]] # NoJob
  /\ UNCHANGED <<ongoing, lockVars, power, due>>

\* It fails: the subsystem is already being restarted, the job gives up.
AlreadyShuttingDown(j) ==
  /\ Goto(j, "queued", "out")
  /\ shutdownLock[jobFor[j]] # NoJob
  /\ UNCHANGED <<ongoing, lockVars, power, due>>

\* Mutant of TakePowerup: the result of the trylock is ignored.
TakePowerupUntested(j) ==
  /\ Goto(j, "tryPowerup", "lockReg")
  /\ powerupLock' = [powerupLock EXCEPT ![jobFor[j]] = j]
  /\ UNCHANGED <<ongoing, shutdownLock, regLock, power, due>>

\* mutex_trylock(powerup_lock) succeeds.
TakePowerup(j) ==
  /\ Goto(j, "tryPowerup", "lockReg")
  /\ powerupLock[jobFor[j]] = NoJob
  /\ powerupLock' = [powerupLock EXCEPT ![jobFor[j]] = j]
  /\ UNCHANGED <<ongoing, shutdownLock, regLock, power, due>>

\* It fails: another job is in its powerup sequence.
DiedDuringPowerup(j) ==
  /\ Running
  /\ jobAt[j] = "tryPowerup"
  /\ powerupLock[jobFor[j]] # NoJob
  /\ Panic("died")

\* mutex_lock(&soc_order_reg_lock) blocks until the lock is free.
LockReg(j) ==
  /\ Goto(j, "lockReg", "shutdown")
  /\ regLock = NoJob
  /\ regLock' = j
  /\ UNCHANGED <<ongoing, shutdownLock, powerupLock, power, due>>

\* The shutdown callback returns.
Shutdown(j) ==
  /\ Goto(j, "shutdown", "unlockShutdown")
  /\ power' = [power EXCEPT ![jobFor[j]] = "off"]
  /\ UNCHANGED <<ongoing, lockVars, due>>

ShutdownFails(j) ==
  /\ Running
  /\ jobAt[j] = "shutdown"
  /\ Panic("shutdown")

\* Mutant of UnlockShutdown: soc_order_reg_lock is released with it.
UnlockShutdownAndReg(j) ==
  /\ Goto(j, "unlockShutdown", "ramdump")
  /\ shutdownLock' = [shutdownLock EXCEPT ![jobFor[j]] = NoJob]
  /\ regLock' = NoJob
  /\ due' = [due EXCEPT ![jobFor[j]] = {}]
  /\ UNCHANGED <<ongoing, powerupLock, power>>

\* Mutant of UnlockShutdown: the ramdump loop is skipped.
UnlockShutdownNoDump(j) ==
  /\ Goto(j, "unlockShutdown", "powerup")
  /\ shutdownLock' = [shutdownLock EXCEPT ![jobFor[j]] = NoJob]
  /\ due' = [due EXCEPT ![jobFor[j]] = {}]
  /\ UNCHANGED <<ongoing, powerupLock, regLock, power>>

UnlockShutdown(j) ==
  /\ Goto(j, "unlockShutdown", "ramdump")
  /\ shutdownLock' = [shutdownLock EXCEPT ![jobFor[j]] = NoJob]
  /\ due' = [due EXCEPT ![jobFor[j]] = {}]
  /\ UNCHANGED <<ongoing, powerupLock, regLock, power>>

\* The ramdump callback returns; its failure is only logged.
Ramdump(j) ==
  /\ Goto(j, "ramdump", "powerup")
  /\ power' = [power EXCEPT ![jobFor[j]] = "dumped"]
  /\ UNCHANGED <<ongoing, lockVars, due>>

\* The powerup callback returns.
Powerup(j) ==
  /\ Goto(j, "powerup", "unlockPowerup")
  /\ power' = [power EXCEPT ![jobFor[j]] = "up"]
  /\ UNCHANGED <<ongoing, lockVars, due>>

PowerupFails(j) ==
  /\ Running
  /\ jobAt[j] = "powerup"
  /\ Panic("powerup")

UnlockPowerup(j) ==
  /\ Goto(j, "unlockPowerup", "unlockReg")
  /\ powerupLock' = [powerupLock EXCEPT ![jobFor[j]] = NoJob]
  /\ UNCHANGED <<ongoing, shutdownLock, regLock, power, due>>

UnlockReg(j) ==
  /\ Goto(j, "unlockReg", "out")
  /\ regLock' = NoJob
  /\ UNCHANGED <<ongoing, shutdownLock, powerupLock, power, due>>

\* Mutant of Finish: the record is not freed.
FinishLeaks(j) ==
  /\ Running
  /\ jobAt[j] = "out"
  /\ jobAt' = [jobAt EXCEPT ![j] = "leaked"]
  /\ ongoing' = [ongoing EXCEPT ![jobFor[j]] = FALSE]
  /\ UNCHANGED <<registered, lockVars, callerVars, jobFor, jobLate, power,
                 due, panic>>

\* The label out: the record is freed and `ongoing` cleared.
Finish(j) ==
  /\ Running
  /\ jobAt[j] = "out"
  /\ jobAt' = [jobAt EXCEPT ![j] = "free"]
  /\ jobFor' = [jobFor EXCEPT ![j] = NoSubsystem]
  /\ jobLate' = [jobLate EXCEPT ![j] = FALSE]
  /\ ongoing' = [ongoing EXCEPT ![jobFor[j]] = FALSE]
  /\ UNCHANGED <<registered, lockVars, callerVars, power, due, panic>>

\* Another part of the kernel panics.
PanicElsewhere ==
  /\ Running
  /\ Panic("elsewhere")

\* The panicked machine does nothing more.
Halted == ~Running /\ UNCHANGED vars

CallerStep(c) ==
  \/ MarkOngoing(c)
  \/ AllocFails(c)
  \/ \E j \in Jobs : Schedule(c, j)

\* What a worker thread does on its own once a job is queued.
JobStep(j) ==
  \/ TakeShutdown(j) \/ AlreadyShuttingDown(j)
  \/ TakePowerup(j) \/ DiedDuringPowerup(j)
  \/ LockReg(j)
  \/ Shutdown(j) \/ ShutdownFails(j) \/ UnlockShutdown(j)
  \/ Ramdump(j)
  \/ Powerup(j) \/ PowerupFails(j) \/ UnlockPowerup(j)
  \/ UnlockReg(j) \/ Finish(j)

Next ==
  \/ \E s \in Subsystems : Register(s)
  \/ \E c \in Callers, s \in Subsystems : Accept(c, s) \/ Refuse(c, s)
  \/ \E c \in Callers : CallerStep(c)
  \/ \E j \in Jobs : JobStep(j)
  \/ PanicElsewhere
  \/ Halted

SafeSpec == Init /\ [][Next]_vars

(***************************************************************************)
(* Fairness.  A caller that has begun goes on, a queued job is run and its *)
(* callbacks return (they wait with a timeout), and a job blocked in       *)
(* mutex_lock is not overtaken for ever: the mutex queues its waiters.     *)
(* Nobody is obliged to ask for a restart.                                 *)
(***************************************************************************)
Fairness ==
  /\ \A c \in Callers : WF_vars(CallerStep(c))
  /\ \A j \in Jobs : WF_vars(JobStep(j)) /\ SF_vars(LockReg(j))

Spec == SafeSpec /\ Fairness

-----------------------------------------------------------------------------

(***************************************************************************)
(* The exclusion the two try-locks and the registration lock are there    *)
(* for: however requests race, one job at most is between its successful   *)
(* trylock of the powerup lock (subsystem_restart.c:126) and its unlock    *)
(* (:186) for a given subsystem, and one job at most, of any subsystem, is *)
(* between mutex_lock and mutex_unlock of soc_order_reg_lock.              *)
(***************************************************************************)
SequencesDisjoint ==
  /\ \A i, j \in Jobs :
       /\ jobAt[i] \in HoldsPowerup
       /\ jobAt[j] \in HoldsPowerup
       /\ jobFor[i] = jobFor[j]
       => i = j
  /\ \A i, j \in Jobs :
       jobAt[i] \in HoldsReg /\ jobAt[j] \in HoldsReg => i = j

(***************************************************************************)
(* The callbacks of a subsystem come in rounds, shutdown then ramdump then *)
(* powerup, whatever jobs make the calls: a powered-off modem is never     *)
(* shut down again, and none is powered up that was not shut down and      *)
(* dumped (subsystem_restart.c:139-181).                                   *)
(***************************************************************************)
CallbacksInRounds ==
  [][\A s \in Subsystems : power'[s] # power[s] =>
       <<power[s], power'[s]>> \in {<<"up", "off">>, <<"off", "dumped">>,
                                   <<"dumped", "up">>}]_vars

(***************************************************************************)
(* Every accepted request is honoured: after subsystem_restart returned 0  *)
(* a shutdown phase of the subsystem ends, and a powerup follows, by this  *)
(* request's job or by the one that made its trylock fail, unless the      *)
(* kernel panics.  So a job that "goes to out" (:117) has lost nothing.    *)
(***************************************************************************)
AcceptedIsServed ==
  \A s \in Subsystems :
    ("accepted" \in due[s]) ~> (due[s] = {} \/ ~Running)

\* `ongoing` is set for as long as a restart of the subsystem has a record
\* (subsystem_restart.c:223-228 and :196).  True of one caller at a time, which
\* SubsysRestartProofs proves; with racing callers a job that loses the trylock
\* clears it too early.
OngoingCoversRestart ==
  \A j \in Jobs : jobAt[j] # "free" => ongoing[jobFor[j]]

(***************************************************************************)
(* The comment at subsystem_restart.c:121: when the powerup lock is taken, *)
(* "some other thread is doing the powerup sequence [...] a subsystem died *)
(* in its powerup sequence".  So the request behind the job that panics    *)
(* was made during the powerup sequence of the job that holds the lock.    *)
(* Proved of one caller; two whose requests race panic without such cause. *)
(***************************************************************************)
DiedMeansLate ==
  panic = "died" =>
    \E j \in Jobs : jobAt[j] = "tryPowerup" /\ jobLate[j]

(***************************************************************************)
(* The comment at subsystem_restart.c:152: "If a subsystem restart request *)
(* comes in [...] after the unlock below, and before the powerup lock is   *)
(* released, panic and bail out."  So a request made in that window, even  *)
(* a refused one, is followed by a panic (or at least by another shutdown).*)
(***************************************************************************)
LateRequestPanics ==
  \A s \in Subsystems :
    ("refused" \in due[s] /\ InPowerupSequence(s)) ~> (due[s] = {} \/ ~Running)

\* The restart under way, as RestartAbs sees it, is the one of the job that
\* holds the registration lock.
Abs == INSTANCE RestartAbs WITH
         Nobody     <- NoSubsystem,
         restarting <- IF regLock = NoJob THEN NoSubsystem ELSE jobFor[regLock],
         power      <- power,
         dead       <- ~Running

(***************************************************************************)
(* The locks, jobs and callers together implement RestartAbs: one restart  *)
(* at a time, its callbacks once each and in order, and each restart that  *)
(* begins ends or the kernel panics.                                       *)
(***************************************************************************)
ImplementsAbs == Abs!ASpec
=============================================================================
