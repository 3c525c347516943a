# Verification of the i9305 modem bring-up code

This directory is a TLA+ development kept beside the i9305 modem patches
(`src/`). It models the parts of the repository that run concurrently or keep
state: the subsystem restart framework, the external-modem driver on top of it, the
power management of the HSIC link, the EHCI power switch, the IPC network driver, and
the diag driver's pools, SDIO forwarding and HDLC framing. TLC checks them on small
instances; the main safety results are also proved, for every instance, with the
TLA+ proof system. Section 8 says what comes next.

## 1. The system

The repository brings up the Qualcomm MDM9x15 modem of a Samsung i9305 under
postmarketOS. The modem is a second processor behind a USB-HSIC link and a
handful of GPIOs. The kernel side is made of these parts.

| part | file (under `src/`) | state | operations |
|---|---|---|---|
| restart framework | `mainline-patches-2/tocopy/linux/arch/arm/mach-exynos/subsystem_restart.c` | per subsystem: `ongoing`, `shutdown_lock`, `powerup_lock`; global `soc_order_reg_lock`; one work item per request | `ssr_register_subsystem`, `subsystem_restart`, `subsystem_restart_wq_func`, panic notifier |
| modem driver | `mainline-patches-2/patches/linux/arch/arm/mach-exynos/mdm_common.c` | `mdm_ready`, `boot_type`, `first_boot`, `mdm_boot_status`, three completions, a single-threaded work queue, a delayed check, GPIOs | ioctls of `/dev/mdm`, errfatal and status interrupts, shutdown/ramdump/powerup callbacks, silent reset, reboot and panic notifiers |
| HSIC power management | `.../mdm_hsic_pm.c` | `udev`, `intf_cnt`, `shutdown`, `block_request`, `state_busy`, `pmlock_cnt`, wake locks, three delayed works | register/unregister of interfaces, modem-fatal notification, autopm lock, suspend notifier, host-wake interrupt, host/device ready GPIO handshake |
| EHCI power switch | `mainline-patches/HACK_usb_host_ehci-exynos_add_ehci_power_sysfs_node.patch`, `mainline-patches/Huge_hack_...` | `power_on`, hcd, phy count | sysfs store, probe, remove |
| IPC network driver | `mainline-patches/net_usb_add_Samsung_IPC-over-HSIC_driver_1of2.patch` | link data, URBs, callbacks | probe/disconnect, tx, rx completion |
| diag forwarding | `mainline-patches-2/tocopy/linux/drivers/char/diag/` | memory pools, busy flags, HDLC state | alloc/free, sdio read/write, HDLC encode/decode |
| bus frequency locks | `.../arch/arm/mach-exynos/dev.c` | list of locks | `dev_lock`, `dev_unlock` |
| init script | `aports/mdm9k-external_modem-boot/mdm9k.initdscript` | GPIO levels | start, stop |
| source patching | `*.sh` | a kernel tree and its `.config` | copy, switch options |
| board files of other phones, copied drivers and headers | `tocopy/linux/**` | - | not used by the i9305 modem |

How they interact:

* an error interrupt, a status interrupt, an expired boot check, an ioctl or an
  HSIC disconnect makes the modem driver call `notify_modem_fatal()` and then
  `subsystem_restart("external_modem")`;
* the framework runs, on a kworker, the driver's `shutdown`, `ramdump` and
  `powerup` callbacks; the last two wake a user-space daemon blocked in the
  ioctl `WAIT_FOR_RESTART` and wait, with a timeout, for the ioctls
  `RAM_DUMP_DONE` and `NORMAL_BOOT_DONE`;
* a failing callback, a failing allocation, or a second restart during the
  powerup sequence panics the kernel;
* the status interrupt, once the modem is up, starts a check that its main
  interfaces have enumerated on HSIC within three seconds; if not the driver
  performs a *silent reset*, which waits on the same completion as `powerup`;
* suspend blocks the HSIC side; what happens meanwhile is caught up at resume.

What is hard about it: hard interrupts, threaded interrupts, ioctls, delayed
works and two work queues share unlocked flags; completions are counters that
are reset with `INIT_COMPLETION` by their waiters; timeouts race late answers;
`ongoing` is tested and set without a lock.

## 2. Modules

| module | models |
|---|---|
| `RestartAbs` | what a restart framework promises: restarts one after the other, each powers off, dumps, powers up, ends or the machine panics |
| `SubsysRestart` | `subsystem_restart.c`: callers, work items, the three mutexes, `ongoing` |
| `MdmCharm` | `mdm_common.c` on top of `SubsysRestart` (`INSTANCE`), with the boot daemon and the modem |
| `SimDetect` | the SIM line, its debounced check and the polling daemon, in `mdm_common.c` |
| `HsicPm` | `mdm_hsic_pm.c`, with khubd, the PM core, the EHCI driver's calls, the modem and a restart framework reduced to one request at a time |
| `EhciPower` | the attribute `ehci_power` of the two HACK patches |
| `SipcHsic` | one endpoint of `sipc_hsic.c` |
| `HsicBus` | `EhciPower` and `SipcHsic` composed: the endpoint is probed when the controller runs and is disconnected before its removal returns |
| `DiagMem` | `diagmem.c`, the three memory pools |
| `DiagSdio` | `diagfwd_sdio.c`: the three works, the callbacks of USB and SDIO |
| `Hdlc` | `diagchar_hdlc.c`: encoder and decoder, buffer by buffer |
| `MC...` | the TLC instances: symmetry sets, and the assumptions evaluated |
| `SubsysRestartProofs`, `MdmCharmProofs`, `HsicPmProofs`, `HsicBusProofs`, `DiagMemProofs`, `DiagSdioProofs`, `HdlcProofs`, `SimDetectProofs` | the theorems of section 5 |

### SubsysRestart

Each call of `subsystem_restart` is a caller that goes `idle -> mark -> alloc ->
idle`: the test of `ongoing` (`Accept`, or `Refuse` with `-EBUSY`), its assignment
(`MarkOngoing`), the allocation and the queuing (`Schedule`, `AllocFails`) are
separate steps because nothing locks them together. Each `restart_wq_data` is a
job whose place in `subsystem_restart_wq_func` is `jobAt[j]`, with one step per
lock operation and per callback return. `power` is what the callbacks did to the
subsystem. `due`, `callerLate` and `jobLate` are history variables: requests not
yet followed by a completed shutdown phase, and whether a request was made during
a powerup sequence. With `Remember` false they stay at their initial values, which is
how the driver's module uses the framework: they only multiply states there. A panic
stops every step; `PanicElsewhere` is a panic raised by any other part of the kernel,
such as the silent reset of the modem driver.

### MdmCharm

The module keeps the framework's variables and adds the driver's. The framework's
steps are taken as they are; the three callback steps (`Shutdown`, `Ramdump`,
`Powerup`) are conjoined with what the driver's callbacks do, and a request is a call
`Request(c)` made by one of four contexts: the `mdm_queue` thread, the status interrupt
thread, the delayed boot check, any other thread.

| variable | code |
|---|---|
| `drv` | `mdm_ready`, `boot_type`, `mdm_boot_status`, `mdm_ram_dump_status`, `first_boot` |
| `done` | the counters of the completions `mdm_needs_reload`, `mdm_boot`, `mdm_ram_dumps` |
| `wq` | `mdm_queue`: its pending works in order, what its one thread is in, the delayed `mdm_reconnect_work` |
| `silent` | progress of `mdm_silent_reset` on the queue thread and in an ioctl |
| `check` | the delayed work `mdm2ap_status_check_work`: pending, and between its test and its request |
| `irq` | errfatal interrupt (its test and its assignment apart), latched status edge, status thread |
| `cb` | progress of the ramdump or powerup callback, around its wait |
| `daemon` | the ioctl the boot daemon is in; a wait, the read of `boot_type` and the `INIT_COMPLETION` after it are steps of their own |
| `modem`, `connected` | off, boot ROM, images loaded, up, fatal error; main interfaces enumerated (`mdm_check_main_connect`) |
| `bootWake` | the `boot_wake` wake lock |
| `hist`, `bound` | history read by properties only; number of crashes and forced restarts so far |

`wait_for_completion_timeout` is three actions: the completion was counted
(`PowerupBooted`), the timeout expired (`PowerupTimeout`), and the `INIT_COMPLETION`
that follows either (`PowerupEnd`), so that a late answer may fall between them.

`Prompt` chooses the relative speeds. When it is true, the daemon's and the modem's
slow steps (loading, dumping, starting an image) happen when the kernel's threads are
idle, and timeouts expire only when the daemon or the modem hangs: this is how the
phone runs: the boot, dump and status timeouts are 60, 120 and 300 s. When it is false
every interleaving is allowed, a timeout one instant after the wait began included.

The modem, the daemon and `mdm2.c` are not in the repository: they are modelled from
how `mdm_common.c` uses them. The modem may report a fatal error or reset without a
word at any moment it runs; a load may fail; a dump may fail; a wait of the daemon may
be interrupted by a signal.

`hist.mixed` records that two waits overlapped (a silent reset during a restart or
during another silent reset) or that a wait timed out. The completions then carry over
between waits, and `PowerupIsFresh`, `DumpIsFresh` and
`DeathNeedsTwoCauses` no longer hold: the reconnect timer (`mdm_common.c:406`) is never
cancelled, so a modem that crashes within three seconds of coming up is silently reset
and restarted at once, and the two share `mdm_boot` and `boot_type`. The properties are
stated for behaviours without the overlap.

`mdm_dump` is a writable module parameter: `WantDumps` is the set of values it may have
when a restart asks. `boot_wake` is modelled here, with the status interrupt that takes
it and the work that drops it.

### SimDetect

The interrupt thread schedules a check if `mdm_ready`; the check reads the line, then
compares it with `sim_state` and sets or clears `sim_changed`, so that an edge may fall
between the two steps. Registration of the modem's first interface takes the state
outside of any check. The daemon learns the state from `GET_SIM_DETECT` and of a change
from its poll. Two excuses are recorded and named by the properties: an edge after the
state was taken and before `mdm_ready` is lost (the interrupt ignores it), and a bounce
that a check confirms takes back a change that was not polled yet. A check ends before
the next boot (it is milliseconds against seconds); the fast-boot interrupt is left out.

### HsicPm

| variable | code |
|---|---|
| `pm` | `intf_cnt`, `udev`, `shutdown`, `block_request`, `state_busy`, `pmlock_cnt` |
| `rt`, `bus` | the device's runtime PM (active, references, autosuspend allowed) and what USB knows of it |
| `works` | `pm_rpm_start_work` and `request_resume_work` on the single-threaded queue |
| `at` | progress of `notify_modem_fatal` and the `subsystem_restart` after it, per reporting thread: its four tests and assignments are steps of their own |
| `lock` | progress of `request_autopm_lock`, which waits between the count and the reference |
| `phase`, `pins` | the suspend thread, from `PM_SUSPEND_PREPARE` through the L3 handshake to `PM_POST_SUSPEND`; host ready and device ready |
| `lpa`, `l2` | `lpa_handling`, the wake lock `l2_wake` |
| `modem`, `ssr`, `hist` | the modem, the restart framework; history |

Decisions. One HSIC port. khubd serialises probe and disconnect. Reading
`pm_data->udev` again after the wait of `request_autopm_lock`, when it has become NULL,
panics the kernel. The modem dies only while no restart is going on and no report is
under way: what a second death during a restart does is the subject of `MdmCharm`. The
restart powers the modem on after the reports of the crash and after the six seconds the
autopm lock may wait, since loading an image takes longer. `hist.want` is a host wake
that is not answered; it is dropped with the device, by a fatal, or when the check finds
`lpa_handling` set, where the EHCI driver is itself waking the link. `mdm_hsic_rpm_restart`
sets the autosuspend delay only and has no step.

### EhciPower, SipcHsic, HsicBus

A store takes the device lock, works and releases it in one step, after a step that
enters the attribute: removal of the attribute waits for those inside. Adding the
controller may fail. Phy #1 is a counter and whether it is powered. The endpoint is
probed with every error path, receives by a URB that resubmits itself, transmits on
behalf of a core outside the repository, and is disconnected. Releasing the data
interface calls the driver's disconnect a second time from within, which frees what the
outer call frees too: from there on the kernel is in no defined state and the endpoint
takes no further step. `HsicBus` lets the endpoint be probed only on a running
controller and makes every step that removes the controller wait for the disconnect.

### DiagMem

A thread opens, closes, allocates and frees; every test and every update of a counter
is a step of its own, inside the mutex where the code has it (allocation from the copy
pool only). `mempool_alloc` may find no memory; the buffer stays counted, as in the
code. `diagmem_exit` runs at a close and after each free; its test and the destruction
are apart, and `raced` records that the device was opened in between.

### DiagSdio

Three works share a queue of one thread; a work is cut where it looks at shared state
or sleeps, a callback is one step. The history variables say what has gone wrong by
itself: `fault`, a failed `sdio_close`, write to USB or an oversized packet, since the
last connection; `reset`, `in_busy_sdio` cleared by a connection while a reader in
memory mode had the buffer; `caught`, the channel removed under a work that had just
tested it.

### Hdlc

A byte is one of the five kinds the code tells apart. The encoder's state is
`src_desc` and `enc`: a step writes one byte, or an escape and its byte, or ends the
call. A packet comes in two fragments, its CRC is any two bytes (what it is computed
from is `summed`), buffers and pieces have any size up to the bound, so that every
cut is taken. The second fragment is resumed in the state `BUSY`, as the caller would.

## 3. Runs

| run | instance | shows |
|---|---|---|
| `ssr` | one subsystem, two racing callers, two records, fairness | restart sequences never overlap, callbacks come in rounds, accepted requests are served; the framework implements `RestartAbs` |
| `ssr_late` | one caller, fairness | violation: the finding of section 6 |
| `mdm_crash` | two faults and one forced action, prompt | types, no stale boot completion, the modem stays watched, callbacks on one job, no panic "died during powerup" from one event |
| `mdm_slow` | one forced action, all interleavings, timeouts at any time, errfatal interrupt only | no stale dump or boot completion |
| `mdm_live` | one fault, prompt, fairness | a crash is served, `boot_wake` is released |
| `hsic_safe` | two interfaces, two reporting threads, autopm lock, one fault | counts agree with USB, the lock keeps the device awake, no suspend over a blocked host wake, one restart per fault |
| `hsic_live` | one interface, one reporter, low power audio, one fault, fairness | a host wake is answered, a lost link comes back |
| `sim_detect` | four edges, one death of the modem | a change of the SIM is noted, a stale daemon is told |
| `hsic_bus` | two writers, six operations, two buffers, a RAW endpoint | the controller runs on a powered phy; buffers are freed once, no stray receive, no link without endpoint, on a bus that is taken away |
| `diagmem` | two threads, pools of two | counters cover buffers, overdraw is bounded, pools outlive their buffers |
| `diag_sdio` | every logging mode, fairness | the input buffer is not read over, data and closes are served, removal stops the works |
| `hdlc` | two bytes, two fragments, any CRC, buffers of 1 to 3 | the CRC steps over each byte once, the end is where it should be, decoding undoes encoding |

Bounds. Two callers and two records are what the hazards of the framework need: one
loser and one winner of each race. Records are reused, so a run is not limited to two
restarts. In the driver's runs the number of crashes and of forced actions is bounded
(`MaxFaults`, `MaxForces`), since each starts a restart, and a completion counts to
`MaxCount` = 2: an answer, and a late one before it. One fault and one force already
give two overlapping restart requests, an interrupted wait followed by a reload, or a
silent reset during a restart. `mdm_slow` takes the errfatal interrupt
only, as when the status interrupt could not be requested (`mdm_common.c:1023`), since
all interleavings with both are too many states; the driver then finds a silent modem
by the boot check. In `HsicPm` two interfaces give the first and the last of a device,
one fault a whole restart with suspends at any point of it, and suspend and host wake
are unbounded; the liveness run keeps one interface, and low power audio, which the
safety run leaves out to stay small. `HsicBus` bounds the operations on the attribute
(`MaxOps`): six cover off, on, on again, unbind and bind. A RAW endpoint has two links
where the others have one. Two threads in `DiagMem` are one between its test and its
update and one that does anything else; the bounds on the counters are proved for any
number. `Hdlc` needs an escape as the last byte that fits, the last of a piece, the last
of a fragment and in the CRC: buffers of one to three bytes give every combination.

Deadlock is checked in every run but three. A panicked machine and a settled one (the
daemon in a wait, no restart, an empty queue) stutter explicitly (`Halted`, `Settled`), so
that any other stop is reported. `Hdlc` ends when the packet is decoded, `HsicBus` when
the operations are used up (and in the deadlock of section 6), and `DiagSdio` may stop
with no channel and a modem that has nothing to say.

## 4. Fairness

`SubsysRestart`: a caller inside `subsystem_restart` goes on, a queued work item is run
and its callbacks return (weak fairness; the callbacks wait with timeouts), and a job
blocked in `mutex_lock` is not overtaken for ever (strong fairness; the mutex queues its
waiters). Nobody is obliged to ask for a restart.

`MdmCharm`: interrupts are delivered, works run, timers expire, the daemon and a loaded
image go on (weak fairness). A load may fail each time. Nobody is obliged to wake the
modem, to crash it or to force anything.

`HsicPm`: a phone that has begun to suspend goes through with it and wakes up again, the
modem follows host ready, the EHCI driver finishes what it began (weak fairness). The
threads that are frozen in a suspend, the delayed works and the restart go on between
suspends (strong fairness, since the phone may suspend again and again).

`SimDetect`: the interrupt thread, the check and the daemon's poll go on.

`DiagSdio`: the queue's thread runs, USB completes the writes it was given, and the modem
drains its channel, so that a write waiting for room gets it. The last is an assumption
about the modem; without it the close queued behind that write does wait for ever.

## 5. What is proved

`SubsysRestartProofs`, for every number of subsystems, callers and jobs:

* `TypeCorrect`: `SafeSpec => []TypeOK`;
* `Inductive`: `SafeSpec => []IInv`, where `IInv` adds to `TypeOK` the facts the
  exclusion rests on: every job and every caller under way has a target
  (`TargetsInv`); a job past a lock operation and before its unlock is the recorded
  owner of that lock (`OwnInv`), and a recorded owner is such a job (`HeldInv`); the
  place of a job agrees with what the callbacks have done to its subsystem
  (`RoundInv`). `SequencesDisjoint` alone is not inductive: a state in which a job is
  in its sequence and its lock reads free satisfies it, and a second job may enter;
* `Exclusion`: `SequencesDisjoint`; `Rounds`: `CallbacksInRounds`, from the invariant and
  one step;
* `Implements`: every behaviour of `SafeSpec` is, under the refinement mapping `Abs`, a
  behaviour of `RestartAbs` without its fairness;
* `SerialSafe`: with one caller, `OngoingCoversRestart` (`ongoing` covers the restart) and
  `DiedMeansLate` (the panic is never spurious). With two callers both fail, see section 6;
* `NothingForgotten`: while an accepted request is not served, a caller on its way to
  schedule a job, a queued job or a job that holds the shutdown lock is to serve it
  (`AcceptedHasOwner`), and `ongoing` is set only for a restart under way or about to be
  scheduled (`BusyMeansRestart`). A job that loses the trylock drops its request: the
  proof is that the owner of the lock is then a job before the end of its shutdown phase
  (`ShutHeldInv`).

`MdmCharmProofs`, for every set of jobs, interrupts, and every bound:

* `UsesFramework`: `SafeSpec => Framework!SafeSpec`. Every step of the driver is a step
  of `SubsysRestart` or leaves its variables unchanged. Hence, in `ModemExclusion`, all
  that was proved of the framework holds of the driver;
* `CallbacksExclusive`: `CallbackHasJob`. With the framework's invariant: only the job
  that holds `soc_order_reg_lock` can enter or leave the ramdump and powerup phases, so
  the driver's unlocked callbacks exclude one another;
* `ModemRounds`, `ModemImplements`: through `UsesFramework`, the modem's callbacks come in
  rounds and the driver, its daemon and its modem implement `RestartAbs` without its
  fairness;
* `CharmTyped`: `TypeOK`, with the fact that `mdm_queue` holds a work at most once, without
  which its length is not bounded;
* `PowerupFresh`, `DumpFresh`: `PowerupIsFresh` and `DumpIsFresh`. `FreshInv` says, until
  waits are mixed or time out: one waiter, one answer. A completion is counted only
  while the callback that reset it waits, the daemon is in one ioctl, and the status it
  answers with is of this wait. The two properties look at the instant a wait ends; they
  do not say where the count came from, and are not inductive;
* `ModemWatched`: `Watched`, if the status interrupt was requested (`"status" \in Irqs`).
  `WatchedInv` is stronger than `Watched`: it holds during a restart as well, and names the
  one step of the interrupt thread that still counts. A line that goes low leaves an edge
  behind, and the thread that takes the edge clears `mdm_ready` next;
* `OneCauseNoDeath`: `DeathNeedsTwoCauses`, if the kernel's threads are prompt (`Prompt`).
  `CauseInv` says, as long as there was one event at most and no mixed wait: before the
  event nobody asks and no restart is under way (`Calm`); afterwards there is one caller or
  one job, for which `ongoing` is set (`Alone`); with none under way at most one of the
  six places a request can wait in is taken (`OneAsks`), and none is while a caller or a
  job could let the request pass or be hit by it (`AsksAlone`); from the daemon's load on
  nobody asks until the powerup ends (`LoadedAlone`), and this is what `Prompt` is needed
  for. Without it a request made during the powerdown may lag until the powerup;
* `BootWakeOwned`, if the status interrupt was requested: while `boot_wake` is held and
  the status line is high, the edge or the status work is pending that releases it
  (`WakeDue`). `WAKE_CHARM` takes it before the modem can be up (`StartLow`), the edge
  of the rise queues the work, and nothing but the work that releases `boot_wake` takes
  it out of `mdm_queue`;
* `CrashKeptInMind`, if both interrupts were requested: until a shutdown or a load ends a
  crash, an interrupt has it, or a check or the daemon's arming is to find the line low,
  or somebody asks for a restart (`Asking`), or a silent reset waits for the daemon
  (`Unanswered`). Each of the four is needed: TLC finds, for each, a state in which it
  alone holds (on the constants of `mdm_crash`). The hazard is `mdm_ready`: whoever clears it hides the crash from the
  others, so the proof follows the crash from hand to hand (`InHand`). Two cases are
  excused: waits that were mixed, and a daemon that reported a failed load.

`HsicPmProofs`, for every finite set of interfaces, any reporters and any number of
faults:

* `Counted`: `CountsInterfaces`. With the types of `pm` and `bus` it is inductive by
  itself;
* `SleptQuietly`: `SleepsQuietly`, and `L3Quiet`: the action property `L3IfQuiet`. The
  inductive invariant says that requests are blocked exactly while the phone suspends,
  that a host wake that was blocked holds the wake lock until the phone runs again, and
  that `state_busy` remembers it until the EHCI driver looks. `SleepsQuietly` alone is
  broken by a state that is about to sleep with a blocked wake and no lock;
* `Typed`: `TypeOK`;
* `RestartedOnce`: `OneRestartPerFault`. `RestartInv` relates the two counts through what
  may still ask (`Trouble`: a modem that is not up, a lost link, a report under way). While
  the framework is idle it comes of a fault that no restart was begun for, and when the
  framework waits for the boot it is over;
* `LockHolds`: `LockHoldsDevice`. The references of the device are a sum over who holds
  one: the autosuspend that is forbidden before the delayed start, and the user of the lock
  on the registered device (`Owed`). They are never fewer. They are exactly that (`Exact`)
  but after a fatal was notified or the device went under a user of the lock, where the
  code takes or keeps references that nobody owes;
* `WakeKept`: a host wake that is not answered has its resume queued, or falls into a
  suspend whose end queues it, and the device is not in shutdown, where none is made up
  for (`WakeOrdered`);
* `LossNoticed`: while the link is lost or the modem not up and no restart is under way, a
  thread reports the fatal, or the device is registered and not in shutdown, so that its
  last disconnect forces one (`LinkWatched`). It needs `RestartInv` and that a registered
  device in shutdown is being restarted or reported (`BoundFacts`).

`HsicBusProofs`, for every set of writers and buffers, every number of operations and
every endpoint format:

* `BusHasController`, `BusHasEndpoint`: a behaviour of the bus is one of `EhciPower`, and
  one of `SipcHsic`: the composition restricts its parts and adds no step to either. What
  is proved of a part alone therefore holds on the bus;
* `LivePhy`: `RunsOnLivePhy`; `TwiceExcused`: `RemovedTwiceOnlyIf`. The inductive
  invariant: until the controller is removed twice the phy is powered exactly while it is
  counted, and counted while there is a controller (`PhyCounted`); a bound driver without
  a controller is powered off, or an add failed (`AddedOrExcused`); no store is
  inside the attribute of an unbound driver (`StoresInside`). `RunsOnLivePhy` alone is not
  inductive: a phy counted twice and dead satisfies it;
* `Freed`: `FreedOnce`; `NoStray`: `NoStrayReceive`; `Linked`: `LinkHasEndpoint`. The
  second needs that a URB in flight has an endpoint that is bound or in its disconnection
  (`UrbHasEndpoint`).

`DiagMemProofs`, for every finite set of threads and every pool size:

* `Typed`: the counters never fall below zero; `Covers`: a counter is never below the
  buffers out; `WithinPool`: the copy pool is never overdrawn; `Overshoot`: the others by
  less than the number of threads. The inductive invariant counts with each buffer out
  the thread that has counted its buffer and not got it yet, or given it back and counts
  it still: a counter is never below the sum. For the copy pool a thread between its test and its
  count holds the mutex, and what it tested still holds. For
  `Overshoot` it bounds the counter plus the threads that have passed the test;
* `StructsStay`: `OutstandingKeepsPool`. `KeepInv` adds that only a thread that has the
  device open allocates, and that what `diagmem_exit` found unused stays so until it
  destroys the pool, unless the device is opened in between (`raced`).

`DiagSdioProofs`, for every set of logging modes:

* `BufferIntact`: `InBufferIntact`; `RemoveStops`: `RemoveStopsIo`. No lock orders the
  works and the callbacks. The invariant says that data that is out keeps `in_busy_sdio`
  set, but for a reader of memory mode that a USB connection overtook (`BusyCovers`), and
  that a work about to use the channel has it or lost it to a removal (`ChannelHeld`);
* `DataIsOwned`: while USB is connected and nothing failed, data to read has a queued
  work, a work about to read, or a packet out whose completion looks again
  (`DataHasReader`). A work that finds `in_busy_sdio` set goes away without reading: the
  invariant that makes up for it is that `in_busy_sdio` is set only for a packet that is
  out (`BusyHasOwner`).

`HdlcProofs`, for packets and buffers of any size:

* `Once`: `SummedOnce`; `EndsOnce`: `ControlEnds`. The invariant gives, state by state,
  what was summed and what is left as a cut of the packet (`Summed`), and that nothing on
  the wire ends the packet before it is encoded (`Ended`). No induction over the packet is
  needed: a step moves one byte from the head of what is left to the end of what was
  summed (lemma `Moved`), and sends one or two bytes (lemma `PutSends`);
* `Decodes`: `RoundTrip`. What was decoded is what was summed, up to the byte on its way:
  the invariant names the cut of the wire and of the packet at which the decoder is, so
  that a step of either side moves a cut, and again no induction over data is needed.

`SimDetectProofs`, for any number of edges and of deaths of the modem:

* `StaleTold`: `StaleDaemonIsTold`, inductive with the types of the variables: each step
  that lets `sim_state` and what the daemon knows differ leaves `sim_changed` set, or is
  one of the two excuses;
* `ChangeNoticed`: a `sim_state` behind the line has an edge, a queued check or a check
  that read the new state to bring it up (`Noticed`), unless the edge fell between the
  registration and `NORMAL_BOOT_DONE`. It rests on that a check reads the line once
  (`ReadOnce`).

Assumptions: that `NoJob` is no job, `NoSubsystem` no subsystem, `NoThread` no thread,
`User` no reporter, that the sets counted are finite, and that the switches and bounds
have their types. Four theorems of `MdmCharmProofs` have a hypothesis besides:
`OneCauseNoDeath` that the kernel's threads are prompt (`Prompt`), as in the run that
checks the property; and `ModemWatched`, `BootWakeOwned` and `CrashKeptInMind` that the
interrupts were requested through which the driver hears of what they speak of (status,
status, both). A driver without the status interrupt relies on the boot check alone: it
does not notice a modem that goes down later without an errfatal, and never releases
`boot_wake`. The code goes on without either, which `UsesFramework` and the others cover.
Nothing else is assumed.

The prover and TLC read `SUBSET X \ Y` differently (`SUBSET (X \ Y)` and
`(SUBSET X) \ Y`); the modules write the parentheses.

Every invariant and every step property a run checks is stated by one of these theorems.
Only model-checked: the liveness properties, the counterexample of `ssr_late`, and the
fairness part of the refinement `ImplementsAbs`, since the prover handles neither fairness
nor `ENABLED`. What a liveness property may fail by is twofold: that what is to happen is
forgotten, or that who remembers it is never scheduled or passes it on for ever. The
first is a safety property, and proved for every instance:

| model-checked | proved: it is always somebody's to do |
|---|---|
| `AcceptedIsServed` | `NothingForgotten` |
| `CrashIsServed` | `CrashKeptInMind` |
| `BootWakeReleased` | `BootWakeOwned` |
| `HostWakeServed` | `WakeKept` |
| `LinkComesBack` | `LossNoticed` |
| `StateSettles` | `ChangeNoticed` |
| `DataServed` | `DataIsOwned` |

`CloseServed` has no such half: a close is a work of the queue, which no step drops, and
what could fail is only that the work before it waits for ever.

`Hdlc` shows that the decoder reads back what the encoder wrote; what CRC the bytes have is
outside the model, there and in the theorem.

## 6. Findings

`ssr_late`: the comment at `subsystem_restart.c:152` says a request during the powerup
sequence panics; it is answered `-EBUSY` and lost, because `ongoing` is still set.

Seen while modelling, and not stated as a run of their own; the models take these steps,
and the properties name the case where it excuses them:

* two contexts that report one crash both pass the test of `ongoing`
  (`subsystem_restart.c:223`); the later job may then panic the kernel with "Subsystem
  died during powerup!" though the subsystem did not (`DeathNeedsTwoCauses` says that
  one event alone does not do it while the kernel's threads are prompt; when they are
  not, TLC finds one forced restart, or one crash with both interrupts, enough);
* `schedule_delayed_work` at `mdm_common.c:298` does nothing while the check of an earlier
  boot is pending, which a restart does not cancel: a second image may be judged by the
  first one's timer;
* the reconnect timer (`mdm_common.c:406`) is never cancelled (section 2, `mixed`);
* the delayed start of runtime PM (`mdm_hsic_pm.c:755`) clears `shutdown` also after a
  fatal was notified, so that a suspend waits for a dead modem;
* the host-ready pin (`mdm_hsic_pm.c:463`) is written 10 ms after the test that forbids it;
* powering the controller on when it is on counts the phy twice: powering it off then
  leaves the phy powered. Unbinding the driver while a store waits for the device lock
  never returns;
* the second disconnect inside `sipc_disconnect` frees what the outer one frees;
* `diagmem_exit` tests the counters and destroys a pool without a lock: the device may be
  opened and a buffer allocated in between (`raced`);
* a USB connection that comes back before the queued close has run loses its channel;
  `diag_sdio_remove` clears `sdio_ch` under a work that has just tested it, and wakes
  nobody; `krealloc` at `diagfwd_sdio.c:44` leaves `buf_in_sdio` behind.

## 7. Not modelled

`PROJECT.json` lists every component and the reason.

* `mdm_common.c`: the reboot and panic notifiers, the platform shutdown and the error
  paths of `mdm_common_create`: they end the machine or run before anything else does.
* `mdm_hsic_pm.c`: probe, remove and the GPIO set-up, the network, tethering (rndis) and CPU
  hotplug notifiers, fast dormancy: they set frequencies and delays, which no property
  here tells apart. The EHCI driver's own runtime PM is outside the repository.
* `HsicPm` is checked against a framework reduced to one request at a time, not composed
  with `MdmCharm`: the product of the two is far beyond TLC, and what couples them
  (one restart per report, the interfaces registered again) is stated on either side.
* `dev.c`: of the modem code only the tethering notifier takes these locks.
* The init script and the shell scripts: straight-line commands on files and pins.
* The board files of other phones, the battery and GPIO drivers and the headers copied so
  that the tree compiles, the device trees and build files. They are nine tenths of the
  lines of the repository (`mach-types.h`, generated, alone is 14,350), keep no state of
  the modem bring-up, and most is third-party code copied unchanged. The share of the
  implementation the models cover is therefore small, although the files that carry the
  modem's logic are covered.

## 8. Plan

Modelling is complete as far as section 7 says; the invariants the runs check and the
safety half of their liveness properties are proved. What could follow:

1. What `Decodes` does not say: that an encoded packet has at least the bytes of its
   source, and how many buffers it may take.
2. `DeathNeedsTwoCauses` without `Prompt` for events that make one request only. On the
   constants of `mdm_slow` with one crash and no forced restart, where errfatal is the only
   interrupt, TLC finds no violation; a proof would replace what `Prompt` gives
   `LoadedAlone` by a count of the requests an event can still make.
