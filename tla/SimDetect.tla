----------------------------- MODULE SimDetect -----------------------------
(***************************************************************************)
(* SIM detection in mdm_common.c: the threaded interrupt of the SIM line,  *)
(* the debounced check, the state taken when the modem's first interface   *)
(* registers, and the daemon that polls /dev/mdm and reads the state.      *)
(***************************************************************************)
EXTENDS Naturals

CONSTANTS MaxEdges, MaxDeaths       \* bounds: edges of the line, modem deaths
ASSUME BoundsNat == MaxEdges \in Nat /\ MaxDeaths \in Nat

VARIABLES
  line,         \* the SIM is attached
  edge,         \* the interrupt thread of the line is to run
  sim,          \* sim_state, sim_changed; sync: the registration has a flag to clear
  boot,         \* which of "registered" and "ready" (mdm_ready) this boot reached
  check,        \* sim_status_check_work: pending; the set of what a running one read
  daemon,       \* what the daemon knows; told: its poll returned POLLHUP
  hist          \* bounds, and two excuses: an edge came after the state was taken
                \* and before mdm_ready; a check confirmed a change not yet polled

vars == <<line, edge, sim, boot, check, daemon, hist>>

Init ==
  /\ line \in BOOLEAN /\ edge = FALSE /\ boot = {}
  /\ sim = [state |-> FALSE, changed |-> FALSE, sync |-> FALSE]
  /\ check = [pending |-> FALSE, read |-> {}]
  /\ daemon = [knows |-> FALSE, told |-> FALSE]
  /\ hist = [edges |-> 0, deaths |-> 0, missed |-> TRUE, unpolled |-> FALSE]

Ready == "ready" \in boot

Toggle ==
  /\ hist.edges < MaxEdges
  /\ line' = ~line /\ edge' = TRUE
  /\ hist' = [hist EXCEPT !.edges = @ + 1]
  /\ UNCHANGED <<sim, boot, check, daemon>>

\* Mutant: a check that is running is taken for one still to come.
ScheduledOnce(c) == [c EXCEPT !.pending = @ \/ c.read = {}]

Scheduled(c) == [c EXCEPT !.pending = TRUE]

\* sim_detect_irq_handler
IrqThread ==
  /\ edge /\ edge' = FALSE
  /\ check' = IF Ready THEN Scheduled(check) ELSE check
  /\ hist' = [hist EXCEPT !.missed = @ \/ (~Ready /\ line # sim.state)]
  /\ UNCHANGED <<line, sim, boot, daemon>>

\* sim_status_check, up to the reading of the line.
CheckRead ==
  /\ check.pending /\ check.read = {}
  /\ check' = [pending |-> FALSE, read |-> IF Ready THEN {line} ELSE {}]
  /\ hist' = [hist EXCEPT !.missed = @ \/ (~Ready /\ line # sim.state)]
  /\ UNCHANGED <<line, edge, sim, boot, daemon>>

\* Mutant: a change reported already is not reported again.
NotedOnce(s, cur) == [s EXCEPT !.state = cur, !.changed = ~@ /\ cur # s.state]

\* A check that finds the state confirmed takes the report back.
Noted(s, cur) == [s EXCEPT !.state = cur, !.changed = cur # s.state]

CheckNote ==
  /\ \E cur \in check.read :
       /\ sim' = Noted(sim, cur)
       /\ hist' = [hist EXCEPT !.unpolled = @ \/ (sim.changed /\ cur = sim.state)]
  /\ check' = [check EXCEPT !.read = {}]
  /\ UNCHANGED <<line, edge, boot, daemon>>

\* get_sim_state_at_boot, called when the first interface registers: the state,
\* then the flag.
SyncState ==
  /\ "registered" \notin boot
  /\ boot' = boot \cup {"registered"}
  /\ sim' = [sim EXCEPT !.state = line, !.sync = TRUE]
  /\ hist' = [hist EXCEPT !.missed = FALSE, !.unpolled = TRUE]
  /\ UNCHANGED <<line, edge, check, daemon>>

SyncFlag ==
  /\ sim.sync /\ sim' = [sim EXCEPT !.sync = FALSE, !.changed = FALSE]
  /\ hist' = [hist EXCEPT !.unpolled = @ \/ sim.changed]
  /\ UNCHANGED <<line, edge, boot, check, daemon>>

\* NORMAL_BOOT_DONE, and a modem that dies: a running check ends before the next
\* boot, so none is running when it begins.
BootDone ==
  /\ boot' = boot \cup {"ready"} /\ ~Ready
  /\ UNCHANGED <<line, edge, sim, check, daemon, hist>>

Dies ==
  /\ Ready /\ check.read = {} /\ hist.deaths < MaxDeaths /\ boot' = {}
  /\ hist' = [hist EXCEPT !.deaths = @ + 1, !.missed = TRUE]
  /\ UNCHANGED <<line, edge, sim, check, daemon>>

\* mdm_modem_poll, then the ioctl GET_SIM_DETECT, which may also come unasked.
Poll ==
  /\ sim.changed /\ ~daemon.told
  /\ sim' = [sim EXCEPT !.changed = FALSE]
  /\ daemon' = [daemon EXCEPT !.told = TRUE]
  /\ UNCHANGED <<line, edge, boot, check, hist>>

GetSimDetect ==
  /\ daemon' = [knows |-> sim.state, told |-> FALSE]
  /\ hist' = [hist EXCEPT !.unpolled = FALSE]
  /\ UNCHANGED <<line, edge, sim, boot, check>>

Next ==
  \/ Toggle \/ IrqThread \/ CheckRead \/ CheckNote \/ SyncState \/ SyncFlag
  \/ BootDone \/ Dies \/ Poll \/ GetSimDetect

Spec ==
  /\ Init /\ [][Next]_vars
  /\ WF_vars(IrqThread) /\ WF_vars(CheckRead) /\ WF_vars(CheckNote)
  /\ WF_vars(SyncFlag) /\ WF_vars(Poll)
  /\ WF_vars(daemon.told /\ GetSimDetect)

\* A daemon that knows an old state is told, but for a change that a bounce
\* confirmed before it polled and for what registration took and wiped.
StaleDaemonIsTold ==
  daemon.knows # sim.state /\ ~hist.unpolled => sim.changed \/ daemon.told

\* A change of the SIM is noted in the end, while the modem is ready and unless an
\* edge fell between registration and ready.
StateSettles ==
  Ready /\ ~hist.missed /\ sim.state # line ~> sim.state = line \/ ~Ready
=============================================================================
