----------------------------- MODULE RestartAbs -----------------------------
(***************************************************************************)
(* What the subsystem restart framework promises, without its locks, its  *)
(* work items or its callers: at any time at most one subsystem is being   *)
(* restarted, a restart powers that subsystem off, collects its ram dump   *)
(* and powers it up again, in this order and once each, and every restart  *)
(* that begins also ends, unless the whole machine panics first.           *)
(***************************************************************************)

CONSTANTS
  Subsystems,   \* the subsystems known to the framework
  Nobody        \* "no subsystem is being restarted"

VARIABLES
  restarting,   \* the subsystem under restart, or Nobody
  power,        \* power[s]: "up", "off", or "dumped" (off, dump collected)
  dead          \* the machine has panicked

avars == <<restarting, power, dead>>

AInit ==
  /\ restarting = Nobody
  /\ power = [s \in Subsystems |-> "up"]
  /\ dead = FALSE

Begin(s) ==
  /\ ~dead
  /\ restarting = Nobody
  /\ restarting' = s
  /\ UNCHANGED <<power, dead>>

\* One callback of the subsystem under restart.
Callback(s, from, to) ==
  /\ ~dead
  /\ restarting = s
  /\ power[s] = from
  /\ power' = [power EXCEPT ![s] = to]
  /\ UNCHANGED <<restarting, dead>>

PowerOff(s) == Callback(s, "up", "off")
Dump(s)     == Callback(s, "off", "dumped")
PowerUp(s)  == Callback(s, "dumped", "up")

\* A restart may be over only when its subsystem is powered again.
End(s) ==
  /\ ~dead
  /\ restarting = s
  /\ power[s] = "up"
  /\ restarting' = Nobody
  /\ UNCHANGED <<power, dead>>

Die ==
  /\ ~dead
  /\ dead' = TRUE
  /\ UNCHANGED <<restarting, power>>

ANext ==
  \/ \E s \in Subsystems :
       Begin(s) \/ PowerOff(s) \/ Dump(s) \/ PowerUp(s) \/ End(s)
  \/ Die

\* The specification without its liveness part.
ASafeSpec == AInit /\ [][ANext]_avars

\* A restart that has begun goes on to its end unless the machine panics.
ASpec ==
  /\ ASafeSpec
  /\ \A s \in Subsystems :
       WF_avars(PowerOff(s) \/ Dump(s) \/ PowerUp(s) \/ End(s))
=============================================================================
