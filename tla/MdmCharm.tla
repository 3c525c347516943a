------------------------------ MODULE MdmCharm ------------------------------
(***************************************************************************)
(* arch/arm/mach-exynos/mdm_common.c, the driver of the external modem,    *)
(* on top of the restart framework of SubsysRestart: its two interrupts,   *)
(* its single-threaded work queue mdm_queue, its delayed works, the ioctls *)
(* of /dev/mdm as the boot daemon calls them, the shutdown, ramdump and    *)
(* powerup callbacks and the silent reset.  None of them takes a lock; the *)
(* three completions are counters their waiters reset after waking up.     *)
(*                                                                         *)
(* The modem, the daemon and mdm2.c (power_on_mdm_cb, power_down_mdm_cb)   *)
(* are not part of the repository; they are modelled from how mdm_common.c *)
(* uses them.                                                              *)
(***************************************************************************)
EXTENDS Naturals, Sequences

CONSTANTS
  Modem,        \* the subsystem "external_modem"
  Jobs, NoJob, NoSubsystem,   \* as in SubsysRestart
  Irqs,         \* the interrupts whose request_irq succeeded
  WantDumps,    \* the values mdm_dump, a parameter that may be written, takes
  Prompt,       \* kernel threads outrun the daemon and the modem, and these
                \* outrun the timeouts
  MaxFaults,    \* bound: crashes and resets of the modem
  MaxForces,    \* bound: forced restarts, forced silent resets, signals
  MaxCount      \* bound: completions counted by the model

ASSUME NoJobIsNone == NoJob \notin Jobs
ASSUME NoSubsystemIsNoModem == NoSubsystem \notin {Modem}
ASSUME PromptIsBool == Prompt \in BOOLEAN /\ WantDumps \subseteq BOOLEAN
ASSUME IrqsKnown == Irqs \subseteq {"errfatal", "status"}
ASSUME BoundsAreNat == {MaxFaults, MaxForces, MaxCount} \subseteq Nat

\* The contexts that call subsystem_restart: the mdm_queue worker, the status
\* interrupt thread, the delayed boot check, and any thread (an ioctl, the HSIC
\* driver) that calls mdm_force_fatal.
Contexts == {"queue", "irq", "timer", "user"}

VARIABLES
  registered, ongoing, shutdownLock, powerupLock, regLock, callerAt, callerFor,
  callerLate, jobAt, jobFor, jobLate, power, due, panic,   \* SubsysRestart
  drv,          \* the flags of mdm_drv, and first_boot
  done,         \* the completions mdm_needs_reload, mdm_boot, mdm_ram_dumps
  wq,           \* mdm_queue: pending works, its thread, the reconnect timer
  silent,       \* silent[w]: progress of mdm_silent_reset in thread w
  check,        \* the delayed work mdm2ap_status_check_work
  irq,          \* the errfatal interrupt, the status edge and its thread
  cb,           \* progress of the ramdump or powerup callback
  daemon,       \* the boot daemon: where it is, its boot type, its last load
  modem,        \* the modem itself
  connected,    \* its main interfaces are enumerated on HSIC
  bootWake,     \* the boot_wake wake lock
  hist,         \* history, read by properties only: what the daemon reported
                \* since the callback began (booted, dumped); a ready modem
                \* crashed (crashed); a late answer is possible (mixed)
  bound         \* faults and forced restarts so far

ssrVars == <<registered, ongoing, shutdownLock, powerupLock, regLock, callerAt,
             callerFor, callerLate, jobAt, jobFor, jobLate, power, due, panic>>
mdmVars == <<drv, done, wq, silent, check, irq, cb, daemon, modem, connected,
             bootWake, hist, bound>>
vars == <<ssrVars, mdmVars>>

threadVars == <<wq, silent, check>>
modemVars == <<modem, connected, bootWake>>
countVars == <<hist, bound>>

SSR == INSTANCE SubsysRestart WITH Subsystems <- {Modem}, Callers <- Contexts,
                                   Remember <- FALSE

Running == SSR!Running

\* MDM2AP_STATUS in modem state m.
High(m) == m \in {"up", "fatal"}
StatusHigh == High(modem)

Works == {"fatal", "status", "reconnect"}
SilentThreads == {"queue", "user"}

TypeOK ==
  /\ SSR!TypeOK
  /\ drv \in [ready : BOOLEAN, bootType : {"normal", "dump"}, firstBoot : BOOLEAN,
              bootStatus : {"ok", "io", "timeout"}, dumpStatus : {"ok", "io", "timeout"}]
  /\ done \in [reload : 0..MaxCount, boot : 0..MaxCount, dump : 0..MaxCount]
  /\ wq.queue \in UNION {[1..n -> Works] : n \in 0..3}
  /\ wq.worker \in {"idle", "request", "silent"} /\ wq.reconnect \in BOOLEAN
  /\ silent \in [SilentThreads -> {"no", "wait", "init"}]
  /\ check \in [due : BOOLEAN, running : BOOLEAN]
  /\ irq \in [err : {"none", "pending", "clear"}, edge : BOOLEAN,
              thread : {"idle", "clear", "request"}]
  /\ cb \in {"none", "dump", "dumpInit", "boot", "bootInit"}
  /\ daemon \in [at : {"start", "load", "report", "signal", "arm", "wait", "read",
                       "reset", "interrupted", "dump", "dumped"},
                 type : {"normal", "dump"}, ok : BOOLEAN]
  /\ modem \in {"off", "rom", "loaded", "up", "fatal"}
  /\ connected \in BOOLEAN
  /\ bootWake \in BOOLEAN
  /\ hist \in [booted : BOOLEAN, dumped : BOOLEAN, crashed : BOOLEAN,
               mixed : BOOLEAN]
  /\ bound \in [faults : 0..MaxFaults, forces : 0..MaxForces]

Init ==
  /\ SSR!Init
  /\ drv = [ready |-> FALSE, bootType |-> "normal", firstBoot |-> TRUE,
            bootStatus |-> "ok", dumpStatus |-> "ok"]
  /\ done = [reload |-> 0, boot |-> 0, dump |-> 0]
  /\ wq = [queue |-> <<>>, worker |-> "idle", reconnect |-> FALSE]
  /\ silent = [w \in SilentThreads |-> "no"]
  /\ check = [due |-> FALSE, running |-> FALSE]
  /\ irq = [err |-> "none", edge |-> FALSE, thread |-> "idle"]
  /\ cb = "none"
  /\ daemon = [at |-> "start", type |-> "normal", ok |-> TRUE]
  /\ modem = "off" /\ connected = FALSE /\ bootWake = FALSE
  /\ hist = [booted |-> FALSE, dumped |-> FALSE, crashed |-> FALSE,
             mixed |-> FALSE]
  /\ bound = [faults |-> 0, forces |-> 0]

-----------------------------------------------------------------------------
(***************************************************************************)
(* Helpers.                                                                *)
(***************************************************************************)

\* complete(), counted up to the bound.
Count(n) == IF n < MaxCount THEN n + 1 ELSE n

\* queue_work adds a work that is not pending already.
Pending(q, w) == \E i \in DOMAIN q : q[i] = w
Enqueue(q, w) == IF Pending(q, w) THEN q ELSE Append(q, w)

\* The modem changes state; both edges of its status line interrupt.
SetModem(m, irqNow) ==
  /\ modem' = m
  /\ connected' = (connected /\ m = "up")
  /\ irq' = IF "status" \in Irqs /\ High(m) # StatusHigh
            THEN [irqNow EXCEPT !.edge = TRUE]
            ELSE irqNow

\* power_on_mdm_cb powers a modem that is off: it comes up in its boot ROM.
PoweredOn == IF modem = "off" THEN "rom" ELSE modem

\* Nothing in the kernel is ready to run: its threads wait for the daemon or
\* for the modem.
KernelQuiet ==
  /\ irq.err = "none" /\ ~irq.edge /\ irq.thread = "idle"
  /\ ~check.running
  /\ wq.worker = "silent" \/ (wq.worker = "idle" /\ wq.queue = <<>>)
  /\ \A w \in SilentThreads : silent[w] # "init"
  /\ \A c \in Contexts : callerAt[c] = "idle"
  /\ \A j \in Jobs : \/ jobAt[j] = "free"
                     \/ jobAt[j] = "ramdump" /\ cb = "dump" /\ done.dump = 0
                     \/ jobAt[j] = "powerup" /\ cb = "boot" /\ done.boot = 0

\* Loading images, collecting a dump, starting an image take seconds.  With
\* Prompt the kernel's threads are faster than that, and slower still are its
\* timeouts: they expire only when the daemon or the modem they watch hangs.
Takes == Prompt => KernelQuiet
DaemonHangs ==
  \/ daemon.at = "wait" /\ done.reload = 0
  \/ daemon.at = "load" /\ modem # "rom"
Expires == Prompt => KernelQuiet /\ DaemonHangs
ModemSlow == Prompt => modem # "loaded" /\ (modem = "up" => connected)

Restarting == \E j \in Jobs : jobAt[j] # "free"
Reloading == \E w \in SilentThreads : silent[w] # "no"

\* subsystem_restart(EXTERNAL_MODEM) up to its test of `ongoing`; the rest of
\* the call are steps of SubsysRestart.
Request(c) == SSR!Accept(c, Modem) \/ SSR!Refuse(c, Modem)

\* A step of the driver that makes no call to the restart framework.
Local == Running /\ UNCHANGED ssrVars

\* mdm_common_create registers the subsystem before anything can happen.
Create == SSR!Register(Modem) /\ UNCHANGED mdmVars

-----------------------------------------------------------------------------
(***************************************************************************)
(* The errfatal interrupt.  It runs on one processor while threads run on  *)
(* the others, so its test and its assignment of mdm_ready are two steps.  *)
(***************************************************************************)
ErrfatalTest ==
  /\ Local
  /\ irq.err = "pending"
  /\ irq' = [irq EXCEPT !.err = IF drv.ready /\ StatusHigh THEN "clear" ELSE "none"]
  /\ UNCHANGED <<drv, done, threadVars, cb, daemon, modemVars, countVars>>

\* Mutant of ErrfatalClear: the work is not queued.
ErrfatalForgets ==
  /\ Local
  /\ irq.err = "clear"
  /\ irq' = [irq EXCEPT !.err = "none"]
  /\ drv' = [drv EXCEPT !.ready = FALSE]
  /\ UNCHANGED <<done, threadVars, cb, daemon, modemVars, countVars>>

ErrfatalClear ==
  /\ Local
  /\ irq.err = "clear"
  /\ irq' = [irq EXCEPT !.err = "none"]
  /\ drv' = [drv EXCEPT !.ready = FALSE]
  /\ wq' = [wq EXCEPT !.queue = Enqueue(@, "fatal")]
  /\ UNCHANGED <<done, silent, check, cb, daemon, modemVars, countVars>>

(***************************************************************************)
(* The status interrupt thread, mdm_status_change.                         *)
(***************************************************************************)
StatusLow ==
  /\ Local
  /\ irq.edge /\ irq.thread = "idle"
  /\ ~StatusHigh
  /\ irq' = [irq EXCEPT !.edge = FALSE,
                        !.thread = IF drv.ready THEN "clear" ELSE "idle"]
  /\ UNCHANGED <<drv, done, threadVars, cb, daemon, modemVars, countVars>>

\* An unexpected reset: mdm_ready is cleared, then the HSIC side notified.
StatusClear ==
  /\ Local
  /\ irq.thread = "clear"
  /\ irq' = [irq EXCEPT !.thread = "request"]
  /\ drv' = [drv EXCEPT !.ready = FALSE]
  /\ UNCHANGED <<done, threadVars, cb, daemon, modemVars, countVars>>

StatusRequest ==
  /\ irq.thread = "request"
  /\ Request("irq")
  /\ irq' = [irq EXCEPT !.thread = "idle"]
  /\ UNCHANGED <<drv, done, threadVars, cb, daemon, modemVars, countVars>>

\* The modem is up: the pending boot check is cancelled, the work queued.
StatusUp ==
  /\ Local
  /\ irq.edge /\ irq.thread = "idle"
  /\ StatusHigh
  /\ irq' = [irq EXCEPT !.edge = FALSE]
  /\ check' = [check EXCEPT !.due = FALSE]
  /\ wq' = [wq EXCEPT !.queue = Enqueue(@, "status")]
  /\ UNCHANGED <<drv, done, silent, cb, daemon, modemVars, countVars>>

(***************************************************************************)
(* The delayed boot check, mdm2ap_status_check, 300 s after a boot.        *)
(***************************************************************************)
CheckStatus ==
  /\ Local
  /\ check.due /\ ~check.running
  /\ Takes /\ ModemSlow
  /\ check' = [due |-> FALSE, running |-> ~StatusHigh]
  /\ drv' = IF StatusHigh THEN drv ELSE [drv EXCEPT !.ready = FALSE]
  /\ UNCHANGED <<done, wq, silent, irq, cb, daemon, modemVars, countVars>>

CheckRequest ==
  /\ check.running
  /\ Request("timer")
  /\ check' = [check EXCEPT !.running = FALSE]
  /\ UNCHANGED <<drv, done, wq, silent, irq, cb, daemon, modemVars, countVars>>

-----------------------------------------------------------------------------
(***************************************************************************)
(* mdm_queue runs one work at a time: the fatal work asks for a restart,   *)
(* the status work releases boot_wake and starts the reconnect timer, the  *)
(* reconnect work performs a silent reset unless the modem is connected.   *)
(***************************************************************************)
NextWork(w) ==
  /\ Local
  /\ wq.worker = "idle"
  /\ wq.queue # <<>>
  /\ Head(wq.queue) = w

RunFatal ==
  /\ NextWork("fatal")
  /\ wq' = [wq EXCEPT !.queue = Tail(@), !.worker = "request"]
  /\ UNCHANGED <<drv, done, silent, check, irq, cb, daemon, modemVars, countVars>>

FatalRequest ==
  /\ wq.worker = "request"
  /\ Request("queue")
  /\ wq' = [wq EXCEPT !.worker = "idle"]
  /\ UNCHANGED <<drv, done, silent, check, irq, cb, daemon, modemVars, countVars>>

\* Mutant of RunStatus: everything is done for a ready modem only.
RunStatusIfReady ==
  /\ NextWork("status")
  /\ wq' = [wq EXCEPT !.queue = Tail(@),
               !.reconnect = @ \/ (StatusHigh /\ ~Pending(wq.queue, "reconnect"))]
  /\ bootWake' = (bootWake /\ ~(StatusHigh /\ drv.ready))
  /\ UNCHANGED <<drv, done, silent, check, irq, cb, daemon, modem, connected, countVars>>

RunStatus ==
  /\ NextWork("status")
  /\ wq' = [wq EXCEPT !.queue = Tail(@),
               !.reconnect = @ \/ (StatusHigh /\ ~Pending(wq.queue, "reconnect"))]
  /\ bootWake' = (bootWake /\ ~StatusHigh)
  /\ UNCHANGED <<drv, done, silent, check, irq, cb, daemon, modem, connected, countVars>>

ReconnectTimer ==
  /\ Local
  /\ wq.reconnect
  /\ ModemSlow
  /\ wq' = [wq EXCEPT !.reconnect = FALSE, !.queue = Enqueue(@, "reconnect")]
  /\ UNCHANGED <<drv, done, silent, check, irq, cb, daemon, modemVars, countVars>>

RunReconnectConnected ==
  /\ NextWork("reconnect")
  /\ connected
  /\ wq' = [wq EXCEPT !.queue = Tail(@)]
  /\ UNCHANGED <<drv, done, silent, check, irq, cb, daemon, modemVars, countVars>>

(***************************************************************************)
(* mdm_silent_reset, in the mdm_queue thread or in an ioctl: the daemon is *)
(* told to reload, then mdm_boot is awaited as powerup does.               *)
(***************************************************************************)
SilentBegin(w) ==
  /\ silent[w] = "no"
  /\ silent' = [silent EXCEPT ![w] = "wait"]
  /\ drv' = [drv EXCEPT !.ready = FALSE, !.bootType = "normal"]
  /\ done' = [done EXCEPT !.reload = Count(@)]
  /\ hist' = [hist EXCEPT !.mixed = @ \/ Restarting \/ Reloading]

RunReconnectSilent ==
  /\ NextWork("reconnect")
  /\ ~connected
  /\ SilentBegin("queue")
  /\ wq' = [wq EXCEPT !.queue = Tail(@), !.worker = "silent"]
  /\ UNCHANGED <<check, irq, cb, daemon, modemVars, bound>>

SilentBooted(w) ==
  /\ Local
  /\ silent[w] = "wait"
  /\ done.boot > 0
  /\ done' = [done EXCEPT !.boot = @ - 1]
  /\ silent' = [silent EXCEPT ![w] = "init"]
  /\ UNCHANGED <<drv, wq, check, irq, cb, daemon, modemVars, countVars>>

SilentTimeout(w) ==
  /\ silent[w] = "wait"
  /\ Expires
  /\ SSR!PanicElsewhere
  /\ UNCHANGED mdmVars

\* INIT_COMPLETION(mdm_boot), whatever was signalled meanwhile.
SilentEnd(w) ==
  /\ Local
  /\ silent[w] = "init"
  /\ done' = [done EXCEPT !.boot = 0]
  /\ silent' = [silent EXCEPT ![w] = "no"]
  /\ wq' = IF w = "queue" THEN [wq EXCEPT !.worker = "idle"] ELSE wq
  /\ UNCHANGED <<drv, check, irq, cb, daemon, modemVars, countVars>>

-----------------------------------------------------------------------------
(***************************************************************************)
(* Any thread: mdm_force_fatal leaves mdm_ready as it is; the ioctl        *)
(* GET_FORCE_RAMDUMP with 0 performs a silent reset.                       *)
(***************************************************************************)
Forcing ==
  /\ registered # {}
  /\ bound.forces < MaxForces
  /\ bound' = [bound EXCEPT !.forces = @ + 1]

ForceFatal ==
  /\ Forcing
  /\ Request("user")
  /\ UNCHANGED <<drv, done, threadVars, irq, cb, daemon, modemVars, hist>>

\* In interrupt context the restart is left to mdm_queue.
ForceFatalInIrq ==
  /\ Local
  /\ Forcing
  /\ wq' = [wq EXCEPT !.queue = Enqueue(@, "fatal")]
  /\ UNCHANGED <<drv, done, silent, check, irq, cb, daemon, modemVars, hist>>

ForceSilentReset ==
  /\ Local
  /\ Forcing
  /\ SilentBegin("user")
  /\ UNCHANGED <<wq, check, irq, cb, daemon, modemVars>>

-----------------------------------------------------------------------------
(***************************************************************************)
(* The callbacks, on the kworker of the restart job j.                     *)
(***************************************************************************)

\* mdm_subsys_shutdown raises AP2MDM_ERRFATAL: a modem that runs its image
\* falls back to its boot ROM, ready to be dumped.
Shutdown(j) ==
  /\ SSR!Shutdown(j)
  /\ SetModem(IF modem = "off" THEN "off" ELSE "rom", irq)
  /\ hist' = [hist EXCEPT !.crashed = FALSE]
  /\ UNCHANGED <<drv, done, threadVars, cb, daemon, bootWake, bound>>

\* mdm_subsys_ramdumps: tell the daemon to dump, wait for mdm_ram_dumps.
RamdumpBegin(j) ==
  /\ Local
  /\ jobAt[j] = "ramdump" /\ cb = "none" /\ TRUE \in WantDumps
  /\ drv' = [drv EXCEPT !.bootType = "dump", !.dumpStatus = "ok"]
  /\ done' = [done EXCEPT !.reload = Count(@)]
  /\ cb' = "dump"
  /\ hist' = [hist EXCEPT !.dumped = FALSE, !.mixed = @ \/ Reloading]
  /\ UNCHANGED <<threadVars, irq, daemon, modemVars, bound>>

\* Mutant of RamdumpDone: the callback does not wait.
RamdumpNotWaiting ==
  /\ Local
  /\ cb = "dump"
  /\ cb' = "dumpInit"
  /\ UNCHANGED <<drv, done, threadVars, irq, daemon, modemVars, countVars>>

RamdumpDone ==
  /\ Local
  /\ cb = "dump"
  /\ done.dump > 0
  /\ done' = [done EXCEPT !.dump = @ - 1]
  /\ drv' = [drv EXCEPT !.dumpStatus = "ok"]
  /\ cb' = "dumpInit"
  /\ UNCHANGED <<threadVars, irq, daemon, modemVars, countVars>>

RamdumpTimeout ==
  /\ Local
  /\ cb = "dump"
  /\ Expires
  /\ drv' = [drv EXCEPT !.dumpStatus = "timeout"]
  /\ cb' = "dumpInit"
  /\ hist' = [hist EXCEPT !.mixed = TRUE]
  /\ UNCHANGED <<done, threadVars, irq, daemon, modemVars, bound>>

\* INIT_COMPLETION(mdm_ram_dumps), then the modem is powered down.
RamdumpEnd(j) ==
  /\ SSR!Ramdump(j)
  /\ cb = "dumpInit"
  /\ done' = [done EXCEPT !.dump = 0]
  /\ SetModem("off", irq)
  /\ cb' = "none"
  /\ UNCHANGED <<drv, threadVars, daemon, bootWake, countVars>>

\* mdm_dump = 0: nothing is waited for and the modem stays powered.
RamdumpUnwanted(j) ==
  /\ SSR!Ramdump(j)
  /\ cb = "none" /\ FALSE \in WantDumps
  /\ drv' = [drv EXCEPT !.dumpStatus = "ok"]
  /\ UNCHANGED <<done, threadVars, irq, cb, daemon, modemVars, countVars>>

\* mdm_subsys_powerup: power on, tell the daemon to load, wait for mdm_boot.
PowerupBegin(j) ==
  /\ Local
  /\ jobAt[j] = "powerup" /\ cb = "none"
  /\ SetModem(PoweredOn, irq)
  /\ drv' = [drv EXCEPT !.bootType = "normal"]
  /\ done' = [done EXCEPT !.reload = Count(@)]
  /\ cb' = "boot"
  /\ hist' = [hist EXCEPT !.booted = FALSE, !.mixed = @ \/ Reloading]
  /\ UNCHANGED <<threadVars, daemon, bootWake, bound>>

\* Mutant of PowerupBooted: the callback does not wait.
PowerupNotWaiting ==
  /\ Local
  /\ cb = "boot"
  /\ done' = [done EXCEPT !.boot = @ - 1]
  /\ cb' = "bootInit"
  /\ UNCHANGED <<drv, threadVars, irq, daemon, modemVars, countVars>>

PowerupBooted ==
  /\ Local
  /\ cb = "boot"
  /\ done.boot > 0
  /\ done' = [done EXCEPT !.boot = @ - 1]
  /\ cb' = "bootInit"
  /\ UNCHANGED <<drv, threadVars, irq, daemon, modemVars, countVars>>

PowerupTimeout ==
  /\ Local
  /\ cb = "boot"
  /\ Expires
  /\ drv' = [drv EXCEPT !.bootStatus = "timeout"]
  /\ cb' = "bootInit"
  /\ hist' = [hist EXCEPT !.mixed = TRUE]
  /\ UNCHANGED <<done, threadVars, irq, daemon, modemVars, bound>>

\* INIT_COMPLETION(mdm_boot); the callback returns mdm_boot_status.
PowerupEnd(j) ==
  /\ cb = "bootInit"
  /\ IF drv.bootStatus = "ok" THEN SSR!Powerup(j) ELSE SSR!PowerupFails(j)
  /\ done' = [done EXCEPT !.boot = 0]
  /\ cb' = "none"
  /\ UNCHANGED <<drv, threadVars, irq, daemon, modemVars, countVars>>

-----------------------------------------------------------------------------
(***************************************************************************)
(* The boot daemon's ioctls.  It wakes the modem once, then loads images   *)
(* or collects dumps as WAIT_FOR_RESTART tells it to.                      *)
(***************************************************************************)
DaemonAt(from) == Local /\ registered # {} /\ daemon.at = from

WakeCharm ==
  /\ DaemonAt("start")
  /\ bootWake' = TRUE
  /\ SetModem(PoweredOn, irq)
  /\ daemon' = [daemon EXCEPT !.at = "load"]
  /\ UNCHANGED <<drv, done, threadVars, cb, countVars>>

\* The images are loaded into the modem's boot ROM.
Load ==
  /\ DaemonAt("load")
  /\ Takes
  /\ modem = "rom"
  /\ SetModem("loaded", irq)
  /\ daemon' = [daemon EXCEPT !.at = "report", !.ok = TRUE]
  /\ hist' = [hist EXCEPT !.crashed = FALSE]
  /\ UNCHANGED <<drv, done, threadVars, cb, bootWake, bound>>

LoadFails ==
  /\ DaemonAt("load")
  /\ Takes
  /\ daemon' = [daemon EXCEPT !.at = "report", !.ok = FALSE]
  /\ UNCHANGED <<drv, done, threadVars, irq, cb, modemVars, countVars>>

\* NORMAL_BOOT_DONE, first part: the status, then mdm_ready in any case.
BootDoneReady ==
  /\ DaemonAt("report")
  /\ drv' = [drv EXCEPT !.bootStatus = IF daemon.ok THEN "ok" ELSE "io",
                        !.ready = TRUE]
  /\ daemon' = [daemon EXCEPT !.at = "signal"]
  /\ UNCHANGED <<done, threadVars, irq, cb, modemVars, countVars>>

\* Mutant of BootDoneSignal: the first boot completes mdm_boot as well.
SignalsFirstBoot ==
  /\ DaemonAt("signal")
  /\ done' = [done EXCEPT !.boot = Count(@)]
  /\ drv' = [drv EXCEPT !.firstBoot = FALSE]
  /\ hist' = [hist EXCEPT !.booted = daemon.ok]
  /\ daemon' = [daemon EXCEPT !.at = "arm"]
  /\ UNCHANGED <<threadVars, irq, cb, modemVars, bound>>

\* Second part: mdm_boot is completed except for the first boot.
BootDoneSignal ==
  /\ DaemonAt("signal")
  /\ done' = IF drv.firstBoot THEN done ELSE [done EXCEPT !.boot = Count(@)]
  /\ drv' = [drv EXCEPT !.firstBoot = FALSE]
  /\ hist' = [hist EXCEPT !.booted = daemon.ok]
  /\ daemon' = [daemon EXCEPT !.at = "arm"]
  /\ UNCHANGED <<threadVars, irq, cb, modemVars, bound>>

\* Mutant of BootDoneArm: the test of the status line is inverted.
ArmsIfHigh ==
  /\ DaemonAt("arm")
  /\ check' = [check EXCEPT !.due = @ \/ (daemon.ok /\ StatusHigh)]
  /\ daemon' = [daemon EXCEPT !.at = "wait"]
  /\ UNCHANGED <<drv, done, wq, silent, irq, cb, modemVars, countVars>>

\* Third part: the boot check is armed unless the status line is high.
BootDoneArm ==
  /\ DaemonAt("arm")
  /\ check' = [check EXCEPT !.due = @ \/ (daemon.ok /\ ~StatusHigh)]
  /\ daemon' = [daemon EXCEPT !.at = "wait"]
  /\ UNCHANGED <<drv, done, wq, silent, irq, cb, modemVars, countVars>>

\* WAIT_FOR_RESTART: wake up, read boot_type, INIT_COMPLETION.
WaitForRestart ==
  /\ DaemonAt("wait")
  /\ done.reload > 0
  /\ done' = [done EXCEPT !.reload = @ - 1]
  /\ daemon' = [daemon EXCEPT !.at = "read"]
  /\ UNCHANGED <<drv, threadVars, irq, cb, modemVars, countVars>>

ReadBootType ==
  /\ DaemonAt("read")
  /\ daemon' = [daemon EXCEPT !.at = "reset", !.type = drv.bootType]
  /\ UNCHANGED <<drv, done, threadVars, irq, cb, modemVars, countVars>>

ResetNeedsReload ==
  /\ DaemonAt("reset")
  /\ done' = [done EXCEPT !.reload = 0]
  /\ daemon' = [daemon EXCEPT !.at = IF daemon.type = "dump" THEN "dump" ELSE "load"]
  /\ UNCHANGED <<drv, threadVars, irq, cb, modemVars, countVars>>

\* A signal ends the wait; INIT_COMPLETION follows all the same.
WaitInterrupted ==
  /\ DaemonAt("wait")
  /\ done.reload = 0
  /\ Forcing
  /\ daemon' = [daemon EXCEPT !.at = "interrupted"]
  /\ UNCHANGED <<drv, done, threadVars, irq, cb, modemVars, hist>>

InterruptedReset ==
  /\ DaemonAt("interrupted")
  /\ done' = [done EXCEPT !.reload = 0]
  /\ daemon' = [daemon EXCEPT !.at = "wait"]
  /\ UNCHANGED <<drv, threadVars, irq, cb, modemVars, countVars>>

\* RAM_DUMP_DONE with its status (SILENT_RESET_CONTROL is the same without a
\* dump), then the completion.
RamDumpStatus ==
  /\ DaemonAt("dump")
  /\ Takes
  /\ \E status \in {"ok", "io"} : drv' = [drv EXCEPT !.dumpStatus = status]
  /\ daemon' = [daemon EXCEPT !.at = "dumped"]
  /\ UNCHANGED <<done, threadVars, irq, cb, modemVars, countVars>>

RamDumpSignal ==
  /\ DaemonAt("dumped")
  /\ done' = [done EXCEPT !.dump = Count(@)]
  /\ hist' = [hist EXCEPT !.dumped = TRUE]
  /\ daemon' = [daemon EXCEPT !.at = "wait"]
  /\ UNCHANGED <<drv, threadVars, irq, cb, modemVars, bound>>

-----------------------------------------------------------------------------
(***************************************************************************)
(* The modem.  Loaded images start, raise the status line, enumerate; an   *)
(* image may report a fatal error or reset without a word.                 *)
(***************************************************************************)
ModemStep(m, irqNow) ==
  /\ Local
  /\ SetModem(m, irqNow)
  /\ UNCHANGED <<drv, done, threadVars, cb, daemon, bootWake>>

ModemUp ==
  /\ Takes
  /\ modem = "loaded"
  /\ ModemStep("up", irq)
  /\ UNCHANGED <<countVars>>

ModemConnects ==
  /\ Local
  /\ modem = "up" /\ ~connected
  /\ connected' = TRUE
  /\ UNCHANGED <<drv, done, threadVars, irq, cb, daemon, modem, bootWake, countVars>>

Fault ==
  /\ bound.faults < MaxFaults
  /\ bound' = [bound EXCEPT !.faults = @ + 1]
  /\ hist' = [hist EXCEPT !.crashed = @ \/ (drv.ready /\ ~Restarting)]

ModemFatal ==
  /\ modem = "up"
  /\ Fault
  /\ ModemStep("fatal", IF "errfatal" \in Irqs /\ irq.err = "none"
                        THEN [irq EXCEPT !.err = "pending"] ELSE irq)

ModemResets ==
  /\ modem \in {"up", "fatal", "loaded"}
  /\ Fault
  /\ ModemStep("rom", irq)

-----------------------------------------------------------------------------
\* The steps of SubsysRestart that are not callbacks of the driver.
FrameworkStep ==
  /\ \/ \E c \in Contexts : SSR!CallerStep(c)
     \/ \E j \in Jobs :
          \/ SSR!TakeShutdown(j) \/ SSR!AlreadyShuttingDown(j)
          \/ SSR!TakePowerup(j) \/ SSR!DiedDuringPowerup(j)
          \/ SSR!LockReg(j) \/ SSR!UnlockShutdown(j)
          \/ SSR!UnlockPowerup(j) \/ SSR!UnlockReg(j) \/ SSR!Finish(j)
  /\ UNCHANGED mdmVars

ErrfatalStep == ErrfatalTest \/ ErrfatalClear
StatusStep == StatusLow \/ StatusClear \/ StatusRequest \/ StatusUp

CheckStep == CheckStatus \/ CheckRequest

QueueStep ==
  \/ RunFatal \/ FatalRequest \/ RunStatus
  \/ RunReconnectConnected \/ RunReconnectSilent

SilentStep(w) == SilentBooted(w) \/ SilentTimeout(w) \/ SilentEnd(w)

CallbackStep ==
  \/ RamdumpDone \/ RamdumpTimeout \/ PowerupBooted \/ PowerupTimeout
  \/ \E j \in Jobs : \/ Shutdown(j) \/ RamdumpBegin(j) \/ RamdumpEnd(j)
                      \/ RamdumpUnwanted(j) \/ PowerupBegin(j) \/ PowerupEnd(j)

DaemonStep ==
  \/ WakeCharm \/ Load \/ LoadFails
  \/ BootDoneReady \/ BootDoneSignal \/ BootDoneArm
  \/ WaitForRestart \/ ReadBootType \/ ResetNeedsReload \/ InterruptedReset
  \/ RamDumpStatus \/ RamDumpSignal

ModemActs == ModemUp \/ ModemConnects

\* The panicked machine, and the settled one with nothing left to do.
Halted == ~Running /\ UNCHANGED vars
Settled ==
  /\ daemon.at \in {"wait", "load"}
  /\ \A j \in Jobs : jobAt[j] = "free"
  /\ wq.queue = <<>> /\ wq.worker = "idle"
  /\ UNCHANGED vars

Next ==
  \/ Create \/ FrameworkStep \/ ErrfatalStep \/ StatusStep \/ CheckStep
  \/ QueueStep \/ ReconnectTimer
  \/ \E w \in SilentThreads : SilentStep(w)
  \/ ForceFatal \/ ForceFatalInIrq \/ ForceSilentReset \/ WaitInterrupted
  \/ CallbackStep \/ DaemonStep
  \/ ModemActs \/ ModemFatal \/ ModemResets
  \/ Halted \/ Settled

SafeSpec == Init /\ [][Next]_vars

(***************************************************************************)
(* Fairness: interrupts are delivered, kernel threads run, timers expire.  *)
(* The daemon goes on (its load may fail) and a loaded image starts: the   *)
(* timeouts of the driver are what ends the wait for those that do not.    *)
(* Nobody is obliged to wake the modem, to crash it or to force a restart. *)
(***************************************************************************)
Fairness ==
  /\ WF_vars(ErrfatalStep) /\ WF_vars(StatusStep)
  /\ WF_vars(CheckStep) /\ WF_vars(ReconnectTimer)
  /\ WF_vars(QueueStep)
  /\ \A w \in SilentThreads : WF_vars(SilentStep(w))
  /\ WF_vars(CallbackStep) /\ WF_vars(FrameworkStep)
  /\ WF_vars(DaemonStep) /\ WF_vars(ModemUp) /\ WF_vars(ModemConnects)

Spec == SafeSpec /\ Fairness

-----------------------------------------------------------------------------

(***************************************************************************)
(* The three waits (mdm_common.c:235, :687, :711) share completions that   *)
(* are reset only after a wait.  When the powerup callback goes on with    *)
(* mdm_boot_status 0, the daemon has reported a boot that succeeded since  *)
(* the callback began: no completion of an earlier boot, or of the first   *)
(* one (first_boot), is taken for this one.  Not so once a silent reset    *)
(* overlapped a restart or a wait timed out (mixed).                       *)
(***************************************************************************)
PowerupIsFresh ==
  cb = "bootInit" /\ drv.bootStatus = "ok" => hist.booted \/ hist.mixed

\* Likewise a ramdump callback that goes on without a timeout was told so by
\* the daemon after it began (mdm_common.c:709-721).
DumpIsFresh ==
  cb = "dumpInit" /\ drv.dumpStatus # "timeout" => hist.dumped \/ hist.mixed

(***************************************************************************)
(* A modem taken to be ready whose status line is low does not go          *)
(* unnoticed: the boot check is pending, the status interrupt is, the      *)
(* daemon is still in NORMAL_BOOT_DONE, or a restart is under way.  The    *)
(* hand-over is between the check armed at mdm_common.c:298 and the        *)
(* interrupt thread at :632 and :639, which share no lock.                 *)
(***************************************************************************)
Watched ==
  drv.ready /\ drv.bootStatus = "ok" /\ ~StatusHigh /\ Running =>
    \/ check.due
    \/ irq.edge \/ irq.thread # "idle"
    \/ daemon.at \in {"signal", "arm"}
    \/ Restarting

(***************************************************************************)
(* "Subsystem died during powerup" is never the panic of a machine whose   *)
(* modem crashed, or was forced to restart, only once: the several         *)
(* requests one event leads to (mdm_common.c:378, :637, and :426 with      *)
(* mdm_ready still set) are absorbed by `ongoing`.                         *)
(***************************************************************************)
DeathNeedsTwoCauses ==
  panic = "died" => bound.faults + bound.forces > 1 \/ hist.mixed

(***************************************************************************)
(* The driver's callbacks run on one thread at a time, the one that holds  *)
(* the registration lock of the framework, whatever requests raced.  They  *)
(* share boot_type and the completions without a lock of their own.        *)
(***************************************************************************)
CallbackHasJob ==
  /\ cb \in {"dump", "dumpInit"} =>
       \E j \in Jobs : jobAt[j] = "ramdump" /\ regLock = j
  /\ cb \in {"boot", "bootInit"} =>
       \E j \in Jobs : jobAt[j] = "powerup" /\ regLock = j

(***************************************************************************)
(* A crash of a modem taken to be ready, outside a restart, is followed by *)
(* a restart or a reload, unless the kernel panics or the daemon reports   *)
(* that it could not load the images.                                      *)
(***************************************************************************)
CrashIsServed ==
  hist.crashed ~> (~hist.crashed \/ ~Running \/ drv.bootStatus = "io")

(***************************************************************************)
(* boot_wake, taken by WAKE_CHARM (:265), keeps the phone awake; once the  *)
(* modem is up it is released (:404) although it may crash meanwhile.      *)
(***************************************************************************)
BootWakeReleased ==
  (bootWake /\ StatusHigh) ~> (~bootWake \/ ~Running)
=============================================================================
