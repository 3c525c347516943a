------------------------------- MODULE HsicPm -------------------------------
(***************************************************************************)
(* arch/arm/mach-exynos/mdm_hsic_pm.c, the power management of the HSIC    *)
(* link to the modem: registration of the interfaces of the modem's USB    *)
(* device, notification of a fatal modem, the autopm lock, the delayed     *)
(* works of its single-threaded queue, the suspend notifier, the host-wake *)
(* interrupt and the host-ready / device-ready handshake.  No lock protects*)
(* its flags.                                                              *)
(*                                                                         *)
(* Around it, and modelled from how it is used: khubd, which binds and     *)
(* unbinds interfaces; the PM core; the EHCI driver, which calls           *)
(* check_udev_suspend_allowed, set_host_stat and wait_dev_pwr_stat when    *)
(* the phone suspends and resumes; the modem; and a restart framework that *)
(* serves one request at a time, as SubsysRestart does.                    *)
(***************************************************************************)
EXTENDS Integers, FiniteSets

CONSTANTS
  Intfs,        \* the interfaces of the modem's USB device
  Reporters,    \* the kernel threads that report a fatal modem
  User,         \* the thread of the ioctl AUTOPM_LOCK
  Uses,         \* which of low power audio and the autopm lock are used
  MaxFaults     \* bound: deaths of the modem and losses of the link

ASSUME UserIsNoReporter == User \notin Reporters
ASSUME IntfsFinite == IsFiniteSet(Intfs) /\ Intfs # {}
ASSUME UsesKnown == Uses \subseteq {"lpa", "autopm"} /\ MaxFaults \in Nat

Threads == Reporters \cup {User}

VARIABLES
  pm,           \* struct mdm_hsic_pm_data
  rt,           \* runtime power management of the registered device
  bus,          \* what USB knows: device present, interfaces bound
  works,        \* works pending on wq: "start", "resume"
  at,           \* at[t]: progress of notify_modem_fatal and the request after
  lock,         \* progress of request_autopm_lock
  lpa,          \* lpa_handling
  l2,           \* the wake lock l2_wake
  phase,        \* the suspend thread
  pins,         \* the GPIOs host ready and device ready
  modem,        \* the modem
  ssr,          \* the restart framework; "panic": the kernel stopped
  hist          \* history: faults, restarts so far; a host wake was blocked by
                \* this suspend; a host wake is unanswered; a fatal was notified
                \* since the device registered

vars == <<pm, rt, bus, works, at, lock, lpa, l2, phase, pins, modem, ssr, hist>>

pmVars == <<pm, rt, bus, works, lock>>
sleepVars == <<lpa, l2, phase, pins>>

\* run; PM_SUSPEND_PREPARE, its two assignments apart; the EHCI driver's check
\* and its handshake down; asleep; its handshake up; PM_POST_SUSPEND to come.
\* In low power audio the processors idle: only a wake-up leaves that phase.
Phases == {"run", "clearing", "prepared", "offTest", "offWrite", "offWait", "asleep",
           "onTest", "onWrite", "onWait", "thaw", "lpa"}

TypeOK ==
  /\ pm \in [intf : Int, udev : BOOLEAN, shutdown : BOOLEAN, block : BOOLEAN,
             busy : BOOLEAN, locks : Nat]
  /\ rt \in [active : BOOLEAN, refs : Int, auto : BOOLEAN]
  /\ bus \in [present : BOOLEAN, lost : BOOLEAN, bound : SUBSET Intfs]
  /\ works \in SUBSET {"start", "resume"}
  /\ at \in [Threads -> {"idle", "told", "set", "block", "settle", "request"}]
  /\ lock \in {"free", "spin", "fatal", "held"}
  /\ lpa \in BOOLEAN /\ l2 \in BOOLEAN
  /\ phase \in Phases
  /\ pins \in [host : BOOLEAN, device : BOOLEAN]
  /\ modem \in {"up", "dead", "off"}
  /\ ssr \in {"idle", "down", "up", "panic"}
  /\ hist \in [faults : Nat, restarts : Nat, blocked : BOOLEAN, want : BOOLEAN,
               fatal : BOOLEAN]

\* A new USB device: active, and its autosuspend forbidden by the USB core.
NewDevice == [active |-> TRUE, refs |-> 1, auto |-> FALSE]

Init ==
  /\ pm = [intf |-> 0, udev |-> FALSE, shutdown |-> FALSE, block |-> FALSE,
           busy |-> FALSE, locks |-> 0]
  /\ rt = NewDevice
  /\ bus = [present |-> FALSE, lost |-> FALSE, bound |-> {}]
  /\ works = {} /\ at = [t \in Threads |-> "idle"] /\ lock = "free"
  /\ lpa = FALSE /\ l2 = FALSE /\ phase = "run"
  /\ pins = [host |-> TRUE, device |-> TRUE]
  /\ modem = "up" /\ ssr = "idle"
  /\ hist = [faults |-> 0, restarts |-> 0, blocked |-> FALSE, want |-> FALSE,
             fatal |-> FALSE]

Running == ssr # "panic" /\ phase \notin {"asleep", "lpa"}
Awake == Running /\ phase = "run"       \* khubd and user threads are not frozen

-----------------------------------------------------------------------------
(***************************************************************************)
(* Runtime PM of the device.  forbid and allow hold and drop one reference,*)
(* once; a reference taken resumes the device.                             *)
(***************************************************************************)
Forbid(r) == IF r.auto THEN [r EXCEPT !.auto = FALSE, !.refs = @ + 1, !.active = TRUE]
                       ELSE r
Allow(r) == IF r.auto THEN r ELSE [r EXCEPT !.auto = TRUE, !.refs = @ - 1]
Get(r) == [r EXCEPT !.refs = @ + 1, !.active = TRUE]
GetNoResume(r) == [r EXCEPT !.refs = @ + 1]
Put(r) == [r EXCEPT !.refs = @ - 1]

\* Mutant: a request is accepted while a restart is going on.
RestartedAnew == ssr' = "down" /\ hist' = [hist EXCEPT !.restarts = @ + 1]

\* subsystem_restart: accepted unless a restart is going on.
Restarted ==
  IF ssr = "idle"
  THEN ssr' = "down" /\ hist' = [hist EXCEPT !.restarts = @ + 1]
  ELSE UNCHANGED <<ssr, hist>>

\* The device is idle and nobody holds it.
Autosuspend ==
  /\ Awake /\ bus.present /\ rt.active /\ rt.refs = 0
  /\ rt' = [rt EXCEPT !.active = FALSE]
  /\ UNCHANGED <<pm, bus, works, at, lock, sleepVars, modem, ssr, hist>>

-----------------------------------------------------------------------------
(***************************************************************************)
(* Registration, from the interface drivers' probe and disconnect.         *)
(***************************************************************************)
RegisterNew(p) ==
  [intf |-> 1, udev |-> TRUE, shutdown |-> FALSE, block |-> p.block, busy |-> p.busy,
   locks |-> 0]

Register(p) == IF p.intf = 0 THEN RegisterNew(p) ELSE [p EXCEPT !.intf = @ + 1]

\* register_udev_to_pm_dev
Probe(i) ==
  /\ Awake /\ bus.present /\ ~bus.lost /\ i \notin bus.bound
  /\ bus' = [bus EXCEPT !.bound = @ \cup {i}]
  /\ pm' = Register(pm)
  /\ works' = works \cup {"start"}
  /\ rt' = IF pm.intf = 0 THEN Forbid(rt) ELSE rt
  /\ hist' = [hist EXCEPT !.fatal = @ /\ pm.intf # 0]
  /\ UNCHANGED <<at, lock, sleepVars, modem, ssr>>

\* Mutant: the device stays registered until a new one replaces it.
UnregisterKeepsUdev(p) == [p EXCEPT !.intf = @ - 1]

Unregister(p) ==
  [intf |-> p.intf - 1, udev |-> IF p.intf = 1 THEN FALSE ELSE p.udev,
   shutdown |-> p.shutdown, block |-> p.block, busy |-> p.busy, locks |-> p.locks]

\* Mutant: a disconnect is not taken for a death.
NeverUnannounced(p) == FALSE

\* The last interface went and nobody announced it.
LostUnannounced(p) == p.intf = 1 /\ ~p.shutdown

\* unregister_udev_from_pm_dev; mdm_force_fatal finds nothing registered to
\* notify and asks for a restart.
Disconnect(i) ==
  /\ Awake /\ bus.lost /\ i \in bus.bound
  /\ bus' = [bus EXCEPT !.bound = @ \ {i}]
  /\ pm' = Unregister(pm)
  /\ IF LostUnannounced(pm) THEN Restarted ELSE UNCHANGED <<ssr, hist>>
  /\ UNCHANGED <<rt, works, at, lock, sleepVars, modem>>

\* khubd: the device appears, and is gone once its interfaces are.
Enumerate ==
  /\ Awake /\ ~bus.present /\ modem = "up" /\ ~bus.lost
  /\ bus' = [bus EXCEPT !.present = TRUE]
  /\ rt' = NewDevice
  /\ UNCHANGED <<pm, works, at, lock, sleepVars, modem, ssr, hist>>

DeviceGone ==
  /\ Awake /\ bus.lost /\ bus.bound = {} /\ bus.present
  /\ bus' = [bus EXCEPT !.present = FALSE]
  /\ hist' = [hist EXCEPT !.want = FALSE]
  /\ UNCHANGED <<pm, rt, works, at, lock, sleepVars, modem, ssr>>

-----------------------------------------------------------------------------
(***************************************************************************)
(* notify_modem_fatal, then subsystem_restart, as mdm_fatal_fn, the status *)
(* interrupt, the boot check and mdm_force_fatal call them.  The test of   *)
(* `shutdown`, its assignment, the test of `block_request` and the resume  *)
(* 100 ms later are steps of their own.                                    *)
(***************************************************************************)
Notified(t, next) ==
  /\ Running /\ at' = [at EXCEPT ![t] = next]
  /\ UNCHANGED <<bus, works, lock, sleepVars, modem>>

NotifyTest(t) ==
  /\ at[t] = "told"
  /\ Notified(t, IF pm.intf = 0 \/ ~pm.udev \/ pm.shutdown THEN "request" ELSE "set")
  /\ UNCHANGED <<pm, rt, ssr, hist>>

NotifySet(t) ==
  /\ at[t] = "set"
  /\ Notified(t, "block")
  /\ pm' = [pm EXCEPT !.shutdown = TRUE]
  /\ hist' = [hist EXCEPT !.fatal = TRUE, !.want = FALSE]
  /\ UNCHANGED <<rt, ssr>>

NotifyHold(t) ==
  /\ at[t] = "block"
  /\ Notified(t, IF pm.block THEN "request" ELSE "settle")
  /\ rt' = IF pm.block THEN rt ELSE GetNoResume(rt)
  /\ UNCHANGED <<pm, ssr, hist>>

\* pm_runtime_resume and the second reference, on the device seen before the
\* sleep; a device that is gone meanwhile has no references to count.
NotifyResume(t) ==
  /\ at[t] = "settle"
  /\ Notified(t, "request")
  /\ rt' = IF bus.present
           THEN GetNoResume([rt EXCEPT !.active = @ \/ modem = "up"])
           ELSE rt
  /\ UNCHANGED <<pm, ssr, hist>>

RequestRestart(t) ==
  /\ at[t] = "request"
  /\ Notified(t, "idle")
  /\ Restarted
  /\ UNCHANGED <<pm, rt>>

\* mdm_silent_reset: set_shutdown, then the daemon reloads the modem, which is
\* powered off first; nobody asks the framework for a restart.
SilentReset ==
  /\ Awake /\ ssr = "idle" /\ modem = "up" /\ \A t \in Threads : at[t] = "idle"
  /\ hist.faults < MaxFaults
  /\ hist' = [faults |-> hist.faults + 1, restarts |-> hist.restarts + 1,
              blocked |-> hist.blocked, want |-> FALSE, fatal |-> FALSE]
  /\ pm' = [pm EXCEPT !.shutdown = TRUE]
  /\ ssr' = "down"
  /\ UNCHANGED <<rt, bus, works, at, lock, sleepVars, modem>>

-----------------------------------------------------------------------------
(***************************************************************************)
(* request_autopm_lock, called by one user thread.  Between the count and  *)
(* the reference it waits, up to six times a second, for the device's      *)
(* status to settle; when it does not, it forces a fatal and goes on.      *)
(***************************************************************************)
AutopmLock ==
  /\ "autopm" \in Uses /\ Awake /\ lock = "free" /\ pm.udev
  /\ pm' = [pm EXCEPT !.locks = @ + 1]
  /\ lock' = IF pm.locks = 0 THEN "spin" ELSE "held"
  /\ UNCHANGED <<rt, bus, works, at, sleepVars, modem, ssr, hist>>

AutopmStuck ==
  /\ Awake /\ lock = "spin" /\ modem # "up" /\ at[User] = "idle"
  /\ lock' = "fatal"
  /\ at' = [at EXCEPT ![User] = "told"]
  /\ UNCHANGED <<pm, rt, bus, works, sleepVars, modem, ssr, hist>>

\* Mutant: the first locker takes no reference of its own.
HeldByForbid(r) == Forbid(r)

Held(r) == Forbid(Get(r))

\* pm_data->udev is read again: the kernel stops if it is gone.
AutopmGet ==
  /\ Awake /\ lock \in {"spin", "fatal"} /\ at[User] = "idle"
  /\ IF pm.udev
     THEN rt' = Held(rt) /\ lock' = "held" /\ UNCHANGED ssr
     ELSE ssr' = "panic" /\ UNCHANGED <<rt, lock>>
  /\ UNCHANGED <<pm, bus, works, at, sleepVars, modem, hist>>

\* Mutant: the count is dropped without looking at it.
ReleasedBlindly(p) == IF p.udev THEN [p EXCEPT !.locks = @ - 1] ELSE p

Released(p) == IF p.udev /\ p.locks > 0 THEN [p EXCEPT !.locks = @ - 1] ELSE p

\* Nothing is done without a registered device, nor when the count is zero.
AutopmRelease ==
  /\ Awake /\ lock = "held"
  /\ lock' = "free"
  /\ pm' = Released(pm)
  /\ rt' = IF pm.udev /\ pm.locks = 1 THEN Put(Allow(rt)) ELSE rt
  /\ UNCHANGED <<bus, works, at, sleepVars, modem, ssr, hist>>

-----------------------------------------------------------------------------
(***************************************************************************)
(* The delayed works.  wq has one thread, and is not frozen.               *)
(***************************************************************************)
Worked(w) == Running /\ w \in works /\ UNCHANGED <<bus, at, lock, sleepVars, modem, ssr>>

\* mdm_hsic_rpm_start, three seconds after an interface registered.
RpmStart ==
  /\ Worked("start")
  /\ works' = works \ {"start"}
  /\ IF pm.intf = 0 \/ ~pm.udev THEN UNCHANGED <<pm, rt>>
     ELSE rt' = Allow(rt) /\ pm' = [pm EXCEPT !.shutdown = FALSE]
  /\ UNCHANGED hist

ResumeIgnored == pm.shutdown \/ ~pm.udev \/ lpa

\* mdm_hsic_rpm_check: a resume that fails, as every resume does while the
\* system is suspending, is tried again.
RpmCheck ==
  /\ Worked("resume")
  /\ \/ ResumeIgnored
        /\ works' = works \ {"resume"} /\ hist' = [hist EXCEPT !.want = FALSE]
        /\ UNCHANGED rt
     \/ ~ResumeIgnored /\ phase = "run" /\ modem = "up" /\ ~bus.lost
        /\ works' = works \ {"resume"} /\ hist' = [hist EXCEPT !.want = FALSE]
        /\ rt' = [rt EXCEPT !.active = TRUE]
  /\ UNCHANGED pm

\* store_runtime: the user asks for a resume.
RuntimeResume ==
  /\ Awake /\ pm.udev /\ modem = "up" /\ ~bus.lost /\ ~rt.active
  /\ rt' = [rt EXCEPT !.active = TRUE]
  /\ hist' = [hist EXCEPT !.want = FALSE]
  /\ UNCHANGED <<pm, bus, works, at, lock, sleepVars, modem, ssr>>

-----------------------------------------------------------------------------
(***************************************************************************)
(* Suspend: mdm_hsic_pm_notify_event, and what the EHCI driver calls.      *)
(***************************************************************************)
Suspending(from, to) ==
  /\ ssr # "panic" /\ phase = from /\ phase' = to
  /\ UNCHANGED <<rt, bus, at, lock, modem>>

ClearBusy(p) == [p EXCEPT !.busy = FALSE]
BlockRequests(p) == [p EXCEPT !.block = TRUE]

\* PM_SUSPEND_PREPARE, not while a wake lock is held.
SuspendClear ==
  /\ Suspending("run", "clearing")
  /\ ~l2 /\ lpa = FALSE
  /\ pm' = ClearBusy(pm)
  /\ hist' = [hist EXCEPT !.blocked = FALSE]
  /\ UNCHANGED <<works, lpa, l2, pins, ssr>>

SuspendBlock ==
  /\ Suspending("clearing", "prepared")
  /\ pm' = BlockRequests(pm)
  /\ UNCHANGED <<works, lpa, l2, pins, ssr, hist>>

\* Mutant: the test of state_busy is dropped.
NotBusy == TRUE

Quiet == ~pm.busy

\* check_udev_suspend_allowed: a blocked request fails the suspend, no device
\* and a device still active keep the link from L3.
EhciSuspend ==
  /\ \/ Suspending("prepared", "asleep") /\ ~l2 /\ ~pm.udev
     \/ Suspending("prepared", "asleep") /\ ~l2 /\ pm.udev /\ Quiet /\ rt.active
     \/ Suspending("prepared", "offTest") /\ pm.udev /\ Quiet /\ ~rt.active
     \/ Suspending("prepared", "thaw") /\ (l2 \/ (pm.udev /\ ~Quiet))
  /\ UNCHANGED <<pm, works, lpa, l2, pins, ssr, hist>>

\* set_host_stat's test: "crash during kernel suspend/resume, do not control
\* host ready pin".
PinBlocked == pm.block /\ pm.shutdown

\* set_host_stat(POWER_OFF): the pin is written 10 ms after the test.
HostOffTest ==
  /\ Suspending("offTest", IF PinBlocked THEN "offWait" ELSE "offWrite")
  /\ UNCHANGED <<pm, works, lpa, l2, pins, ssr, hist>>

HostOff ==
  /\ Suspending("offWrite", "offWait")
  /\ pins' = [pins EXCEPT !.host = FALSE]
  /\ UNCHANGED <<pm, works, lpa, l2, ssr, hist>>

\* wait_dev_pwr_stat: done at once in shutdown, or when the device agrees; a
\* modem that does not answer within 100 ms is restarted.
DeviceIs(on) == pm.shutdown \/ pins.device = on
DeviceSilent(on) == ~DeviceIs(on) /\ modem # "up"

\* The PM core stops on a wake lock ("to return at dpm suspend").
HostOffWait ==
  /\ \/ Suspending("offWait", "asleep") /\ DeviceIs(FALSE) /\ ~l2 /\ UNCHANGED <<ssr, hist>>
     \/ Suspending("offWait", "onTest") /\ DeviceIs(FALSE) /\ l2 /\ UNCHANGED <<ssr, hist>>
     \/ Suspending("offWait", "onTest") /\ DeviceSilent(FALSE) /\ Restarted
  /\ UNCHANGED <<pm, works, lpa, l2, pins>>

WakeUp ==
  /\ Suspending("asleep", "onTest")
  /\ UNCHANGED <<pm, works, lpa, l2, pins, ssr, hist>>

HostOnTest ==
  /\ Suspending("onTest", IF PinBlocked THEN "onWait" ELSE "onWrite")
  /\ UNCHANGED <<pm, works, lpa, l2, pins, ssr, hist>>

HostOn ==
  /\ Suspending("onWrite", "onWait")
  /\ pins' = [pins EXCEPT !.host = TRUE]
  /\ UNCHANGED <<pm, works, lpa, l2, ssr, hist>>

HostOnWait ==
  /\ Suspending("onWait", "thaw")
  /\ \/ DeviceIs(TRUE) /\ UNCHANGED <<ssr, hist>>
     \/ DeviceSilent(TRUE) /\ Restarted
  /\ UNCHANGED <<pm, works, lpa, l2, pins>>

\* Mutant: the lost request is not caught up.
CatchupDelay == {}

\* What PM_POST_SUSPEND queues "for the lost request"; the other work it queues,
\* mdm_hsic_rpm_restart, only sets the autosuspend delay.
Catchup == {"resume"}

\* PM_POST_SUSPEND.  notify_modem_fatal is called in shutdown, where it returns
\* at once.
PostSuspend ==
  /\ Suspending("thaw", "run")
  /\ pm' = [pm EXCEPT !.block = FALSE]
  /\ works' = IF pm.shutdown THEN works ELSE works \cup Catchup
  /\ l2' = (l2 \/ ~pm.shutdown)
  /\ UNCHANGED <<lpa, pins, ssr, hist>>

\* The EHCI driver drops the wake lock when the link is suspended, or gone.
L2Release ==
  /\ Awake /\ l2 /\ (~rt.active \/ ~bus.present)
  /\ l2' = FALSE
  /\ UNCHANGED <<pmVars, at, lpa, phase, pins, modem, ssr, hist>>

\* Mutant: a blocked request takes no wake lock.
WakeUnlocked(p, held) == held

WakeLocked(p, held) == held \/ p.block

\* mdm_hsic_irq_handler: a rising edge of host wake, which wakes a sleeping phone.
HostWake ==
  /\ ssr # "panic" /\ phase # "lpa" /\ modem = "up" /\ bus.present /\ ~rt.active
  /\ pm.intf # 0 /\ pm.udev /\ ~pm.shutdown
  /\ pm' = [pm EXCEPT !.busy = @ \/ pm.block]
  /\ works' = IF pm.block THEN works ELSE works \cup {"resume"}
  /\ hist' = [hist EXCEPT !.blocked = @ \/ pm.block, !.want = TRUE]
  /\ phase' = IF phase = "asleep" THEN "onTest" ELSE phase
  /\ l2' = WakeLocked(pm, l2)
  /\ UNCHANGED <<rt, bus, at, lock, lpa, pins, modem, ssr>>

-----------------------------------------------------------------------------
(***************************************************************************)
(* Low power audio: set_hsic_lpa_states as the idle loop calls it.         *)
(***************************************************************************)
LpaEnter ==
  /\ "lpa" \in Uses /\ Awake /\ ~lpa /\ ~rt.active
  /\ pins' = [host |-> FALSE, device |-> pins.device /\ modem # "up"]
  /\ IF pm.shutdown \/ ~pins'.device
     THEN phase' = "lpa" /\ UNCHANGED <<ssr, hist>>
     ELSE Restarted /\ UNCHANGED phase
  /\ UNCHANGED <<pmVars, at, lpa, l2, modem>>

LpaWake ==
  /\ phase = "lpa" /\ phase' = "run"
  /\ lpa' = TRUE /\ l2' = TRUE
  /\ UNCHANGED <<pmVars, at, pins, modem, ssr, hist>>

\* The EHCI driver brings the link up again and clears lpa_handling.
LpaDone ==
  /\ Awake /\ lpa
  /\ lpa' = FALSE
  /\ pins' = [host |-> TRUE, device |-> modem = "up"]
  /\ UNCHANGED <<pmVars, at, l2, phase, modem, ssr, hist>>

-----------------------------------------------------------------------------
(***************************************************************************)
(* The modem and the restart framework.                                    *)
(***************************************************************************)
Outside == Running /\ UNCHANGED <<pm, rt, works, lock, lpa, l2, phase>>

\* The device-ready line follows host ready.
DeviceFollows ==
  /\ ssr # "panic" /\ modem = "up" /\ pins.device # pins.host
  /\ pins' = [pins EXCEPT !.device = pins.host]
  /\ UNCHANGED <<pmVars, at, lpa, l2, phase, modem, ssr, hist>>

Fault == hist.faults < MaxFaults /\ hist' = [hist EXCEPT !.faults = @ + 1]

\* The modem dies; who learns of it reports it.
Dies(heard) ==
  /\ Outside /\ Fault
  /\ modem = "up" /\ ssr = "idle" /\ \A t \in Threads : at[t] = "idle"
  /\ modem' = "dead"
  /\ at' = [t \in Threads |-> IF t \in heard THEN "told" ELSE "idle"]
  /\ UNCHANGED <<bus, pins, ssr>>

\* The link drops though the modem lives.
LinkFails ==
  /\ Outside /\ Fault
  /\ modem = "up" /\ ssr = "idle" /\ bus.bound = Intfs /\ ~bus.lost
  /\ \A t \in Threads : at[t] = "idle"
  /\ bus' = [bus EXCEPT !.lost = TRUE]
  /\ UNCHANGED <<at, modem, pins, ssr>>

\* A modem that is dead or off drops off the bus.
LinkDrops ==
  /\ Outside
  /\ modem # "up" /\ bus.present /\ ~bus.lost
  /\ bus' = [bus EXCEPT !.lost = TRUE]
  /\ UNCHANGED <<at, modem, pins, ssr, hist>>

\* The restart powers the modem off, and on once the old device is gone.
PowerOff ==
  /\ Outside /\ ssr = "down" /\ modem # "off"
  /\ modem' = "off"
  /\ UNCHANGED <<bus, at, pins, ssr, hist>>

\* Loading an image takes longer than the reports of the crash and than the six
\* seconds the autopm lock may wait.
PowerOn ==
  /\ Outside /\ ssr = "down" /\ modem = "off" /\ ~bus.present
  /\ \A t \in Threads : at[t] = "idle"
  /\ lock \notin {"spin", "fatal"}
  /\ modem' = "up" /\ ssr' = "up"
  /\ bus' = [bus EXCEPT !.lost = FALSE]
  /\ pins' = [host |-> TRUE, device |-> TRUE]
  /\ UNCHANGED <<at, hist>>

\* NORMAL_BOOT_DONE comes over the new link.
Restored ==
  /\ Outside /\ ssr = "up" /\ bus.bound = Intfs
  /\ ssr' = "idle"
  /\ UNCHANGED <<bus, at, modem, pins, hist>>

Halted == ssr = "panic" /\ UNCHANGED vars

Next ==
  \/ Autosuspend \/ Enumerate \/ DeviceGone
  \/ \E i \in Intfs : Probe(i) \/ Disconnect(i)
  \/ \E t \in Threads : NotifyTest(t) \/ NotifySet(t) \/ NotifyHold(t)
                         \/ NotifyResume(t) \/ RequestRestart(t)
  \/ SilentReset
  \/ AutopmLock \/ AutopmStuck \/ AutopmGet \/ AutopmRelease
  \/ RpmStart \/ RpmCheck \/ RuntimeResume
  \/ SuspendClear \/ SuspendBlock \/ EhciSuspend \/ HostOffTest \/ HostOff
  \/ HostOffWait \/ WakeUp \/ HostOnTest \/ HostOn \/ HostOnWait \/ PostSuspend
  \/ L2Release \/ HostWake \/ LpaEnter \/ LpaWake \/ LpaDone
  \/ DeviceFollows \/ LinkFails \/ LinkDrops \/ PowerOff \/ PowerOn \/ Restored
  \/ \E heard \in (SUBSET Reporters) \ {{}} : Dies(heard)
  \/ Halted

SafeSpec == Init /\ [][Next]_vars

Notify(t) == NotifyTest(t) \/ NotifySet(t) \/ NotifyHold(t) \/ NotifyResume(t)
                \/ RequestRestart(t)
Khubd == Enumerate \/ DeviceGone \/ \E i \in Intfs : Probe(i) \/ Disconnect(i)
SuspendThread ==
  \/ SuspendBlock \/ EhciSuspend \/ HostOffTest \/ HostOff \/ HostOffWait \/ WakeUp
  \/ HostOnTest \/ HostOn \/ HostOnWait \/ PostSuspend \/ LpaWake
Restart == PowerOff \/ PowerOn \/ Restored

\* Threads and timers go on, a phone that suspends wakes up again, the modem
\* answers, and the restart framework finishes what it began.  What stops while
\* the phone suspends or idles goes on between: strong fairness, as it may
\* suspend again and again.
Fairness ==
  /\ WF_vars(SuspendThread) /\ WF_vars(LpaDone)
  /\ WF_vars(DeviceFollows)
  /\ \A t \in Threads : SF_vars(Notify(t))
  /\ SF_vars(Khubd) /\ SF_vars(RpmCheck) /\ SF_vars(AutopmGet)
  /\ SF_vars(LinkDrops) /\ SF_vars(Restart)

Spec == SafeSpec /\ Fairness

-----------------------------------------------------------------------------
\* The count is that of the interfaces bound, and a device is registered
\* exactly while it is not zero (register_udev_to_pm_dev,
\* unregister_udev_from_pm_dev): with it go mdm_check_main_connect, the host
\* wake and the notification of a fatal.
CountsInterfaces ==
  /\ pm.intf = Cardinality(bus.bound)
  /\ pm.udev <=> bus.bound # {}

\* A user who holds the autopm lock on the registered device keeps it from
\* suspending, whatever the delayed start, a resume or a fatal did to its
\* references meanwhile; no reference is dropped twice, and none is left when
\* nobody holds the lock, the start has run and no fatal was notified.
LockHoldsDevice ==
  /\ lock = "held" /\ pm.udev /\ pm.locks > 0 => rt.refs > 0
  /\ rt.refs >= 0
  /\ bus.present /\ rt.auto /\ pm.locks = 0 /\ ~hist.fatal => rt.refs = 0

\* The phone does not go to sleep over a host wake it blocked: the interrupt's
\* wake lock stops the PM core ("to return at dpm suspend").
SleepsQuietly == phase = "asleep" => ~hist.blocked

\* The link is driven to L3 only in a suspend that has blocked no host wake so
\* far: state_busy "to catch blocked resume req".
L3IfQuiet == [][phase = "prepared" /\ phase' = "offTest" => ~hist.blocked]_vars

\* One fault is one restart, though a death is reported by several threads and
\* followed by a disconnect that may force a fatal of its own.
OneRestartPerFault == hist.restarts <= hist.faults

\* A host wake is answered: the device resumes, unless a fatal is notified, the
\* device goes, or the EHCI driver is itself waking the link.
HostWakeServed == hist.want ~> ~hist.want \/ ssr = "panic"

\* A link that is lost comes back, all its interfaces registered, unless the
\* kernel stopped.
LinkComesBack ==
  bus.lost ~> (~bus.lost /\ bus.bound = Intfs) \/ ssr = "panic"
=============================================================================
