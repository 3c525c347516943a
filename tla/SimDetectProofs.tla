--------------------------- MODULE SimDetectProofs ---------------------------
(***************************************************************************)
(* Theorems about SimDetect, for any number of edges and of modem deaths:  *)
(* the daemon is told, and no change of the line is lost before it is      *)
(* noted.                                                                  *)
(***************************************************************************)
EXTENDS SimDetect, TLAPS

SimTyped ==
  /\ line \in BOOLEAN /\ edge \in BOOLEAN
  /\ sim \in [state : BOOLEAN, changed : BOOLEAN, sync : BOOLEAN]
  /\ boot \subseteq {"registered", "ready"}
  /\ check \in [pending : BOOLEAN, read : SUBSET BOOLEAN]
  /\ daemon \in [knows : BOOLEAN, told : BOOLEAN]
  /\ hist \in [edges : Nat, deaths : Nat, missed : BOOLEAN, unpolled : BOOLEAN]

LEMMA Typed == Spec => []SimTyped
<1> USE DEF SimTyped
<1>1. Init => SimTyped
  <2> SUFFICES ASSUME Init PROVE SimTyped
    OBVIOUS
  <2>1. line \in BOOLEAN /\ edge \in BOOLEAN /\ boot \subseteq {"registered", "ready"}
    BY DEF Init
  <2>2. sim \in [state : BOOLEAN, changed : BOOLEAN, sync : BOOLEAN]
    BY DEF Init
  <2>3. check \in [pending : BOOLEAN, read : SUBSET BOOLEAN]
    BY DEF Init
  <2>4. daemon \in [knows : BOOLEAN, told : BOOLEAN]
    BY DEF Init
  <2>5. hist \in [edges : Nat, deaths : Nat, missed : BOOLEAN, unpolled : BOOLEAN]
    BY DEF Init
  <2> QED BY <2>1, <2>2, <2>3, <2>4, <2>5
<1>2. SimTyped /\ [Next]_vars => SimTyped'
  <2> SUFFICES ASSUME SimTyped, [Next]_vars PROVE SimTyped'
    OBVIOUS
  <2>1. CASE Toggle
    BY <2>1 DEF Toggle
  <2>2. CASE IrqThread
    BY <2>2 DEF IrqThread, Scheduled, Ready
  <2>3. CASE CheckRead
    BY <2>3 DEF CheckRead, Ready
  <2>4. CASE CheckNote
    <3>1. PICK cur \in check.read :
            /\ sim' = Noted(sim, cur)
            /\ hist' = [hist EXCEPT !.unpolled = @ \/ (sim.changed /\ cur = sim.state)]
      BY <2>4 DEF CheckNote
    <3>2. sim' \in [state : BOOLEAN, changed : BOOLEAN, sync : BOOLEAN]
      BY <3>1 DEF Noted
    <3>3. (hist.unpolled \/ (sim.changed /\ cur = sim.state)) \in BOOLEAN
      OBVIOUS
    <3>4. hist' \in [edges : Nat, deaths : Nat, missed : BOOLEAN, unpolled : BOOLEAN]
      BY <3>1, <3>3
    <3>5. check' \in [pending : BOOLEAN, read : SUBSET BOOLEAN]
      BY <2>4 DEF CheckNote
    <3> QED BY <2>4, <3>2, <3>4, <3>5 DEF CheckNote
  <2>5. CASE SyncState
    BY <2>5 DEF SyncState
  <2>6. CASE SyncFlag
    <3>1. (hist.unpolled \/ sim.changed) \in BOOLEAN
      OBVIOUS
    <3>2. hist' \in [edges : Nat, deaths : Nat, missed : BOOLEAN, unpolled : BOOLEAN]
      BY <2>6, <3>1 DEF SyncFlag
    <3>3. sim' \in [state : BOOLEAN, changed : BOOLEAN, sync : BOOLEAN]
      BY <2>6 DEF SyncFlag
    <3> QED BY <2>6, <3>2, <3>3 DEF SyncFlag
  <2>7. CASE BootDone
    BY <2>7 DEF BootDone
  <2>8. CASE Dies
    <3>1. [hist EXCEPT !.deaths = @ + 1]
            \in [edges : Nat, deaths : Nat, missed : BOOLEAN, unpolled : BOOLEAN]
      OBVIOUS
    <3>2. hist' = [[hist EXCEPT !.deaths = @ + 1] EXCEPT !.missed = TRUE]
      BY <2>8 DEF Dies
    <3>3. hist' \in [edges : Nat, deaths : Nat, missed : BOOLEAN, unpolled : BOOLEAN]
      BY <3>1, <3>2
    <3> QED BY <2>8, <3>3 DEF Dies
  <2>9. CASE Poll
    BY <2>9 DEF Poll
  <2>10. CASE GetSimDetect
    <3>1. daemon' \in [knows : BOOLEAN, told : BOOLEAN]
      BY <2>10 DEF GetSimDetect
    <3>2. hist' \in [edges : Nat, deaths : Nat, missed : BOOLEAN, unpolled : BOOLEAN]
      BY <2>10 DEF GetSimDetect
    <3> QED BY <2>10, <3>1, <3>2 DEF GetSimDetect
  <2>11. CASE UNCHANGED vars
    BY <2>11 DEF vars
  <2> QED
    BY <2>1, <2>2, <2>3, <2>4, <2>5, <2>6, <2>7, <2>8, <2>9, <2>10, <2>11 DEF Next
<1> QED BY <1>1, <1>2, PTL DEF Spec

\* A daemon is behind only while it is about to be told, or what it missed is
\* excused.
LEMMA StaleStep == SimTyped /\ StaleDaemonIsTold /\ [Next]_vars => StaleDaemonIsTold'
<1> SUFFICES ASSUME SimTyped, StaleDaemonIsTold, [Next]_vars PROVE StaleDaemonIsTold'
  OBVIOUS
<1> USE DEF StaleDaemonIsTold
<1>1. CASE UNCHANGED <<sim, daemon>> /\ hist'.unpolled = hist.unpolled
  BY <1>1
<1>2. CASE Toggle \/ IrqThread \/ CheckRead \/ BootDone \/ Dies \/ UNCHANGED vars
  <2>1. hist'.unpolled = hist.unpolled
    BY <1>2 DEF Toggle, IrqThread, CheckRead, BootDone, Dies, vars, SimTyped
  <2> QED BY <1>1, <1>2, <2>1 DEF Toggle, IrqThread, CheckRead, BootDone, Dies, vars
<1>3. CASE CheckNote
  <2>1. PICK cur \in check.read :
          /\ sim' = Noted(sim, cur)
          /\ hist' = [hist EXCEPT !.unpolled = @ \/ (sim.changed /\ cur = sim.state)]
    BY <1>3 DEF CheckNote
  <2>2. /\ sim'.state = cur
        /\ sim'.changed = (cur # sim.state)
        /\ hist'.unpolled = (hist.unpolled \/ (sim.changed /\ cur = sim.state))
    BY <2>1 DEF Noted, SimTyped
  <2>3. UNCHANGED daemon
    BY <1>3 DEF CheckNote
  <2>4. CASE cur = sim.state
    BY <2>2, <2>3, <2>4
  <2>5. CASE cur # sim.state
    BY <2>2, <2>5
  <2> QED BY <2>4, <2>5
<1>4. CASE SyncState
  <2>1. hist'.unpolled = TRUE
    BY <1>4 DEF SyncState, SimTyped
  <2> QED BY <2>1
<1>5. CASE SyncFlag
  <2>1. sim'.state = sim.state /\ hist'.unpolled = (hist.unpolled \/ sim.changed)
    BY <1>5 DEF SyncFlag, SimTyped
  <2>2. UNCHANGED daemon
    BY <1>5 DEF SyncFlag
  <2> QED BY <2>1, <2>2
<1>6. CASE Poll
  <2>1. daemon'.told = TRUE
    BY <1>6 DEF Poll, SimTyped
  <2> QED BY <2>1
<1>7. CASE GetSimDetect
  <2>1. daemon'.knows = sim.state /\ UNCHANGED sim
    BY <1>7 DEF GetSimDetect
  <2> QED BY <2>1
<1> QED BY <1>2, <1>3, <1>4, <1>5, <1>6, <1>7 DEF Next

\* However interrupts, checks, registrations and polls interleave, a daemon that
\* knows an old state will be told, but for the two excuses (sim_status_check,
\* get_sim_state_at_boot, mdm_modem_poll).
THEOREM StaleTold == Spec => []StaleDaemonIsTold
<1>1. Init => StaleDaemonIsTold
  BY DEF Init, StaleDaemonIsTold
<1> QED BY <1>1, StaleStep, Typed, PTL DEF Spec

-----------------------------------------------------------------------------
\* What StateSettles leaves to be done has been ordered.

\* A check reads the line once, while the modem is ready; if the line moved since,
\* its edge or the check that edge ordered is still to come.
ReadOnce ==
  /\ \A a, b \in check.read : a = b
  /\ check.read # {} => Ready
  /\ check.read # {} /\ line \notin check.read => edge \/ check.pending

\* A state that is behind the line is under way to be noted: the edge waits for its
\* thread, or the modem is ready and a check is queued or has read the new state.
Noticed ==
  ~hist.missed /\ sim.state # line
  => edge \/ (Ready /\ (check.pending \/ line \in check.read))

LEMMA NoticedStep ==
  ASSUME SimTyped, ReadOnce, Noticed, [Next]_vars PROVE ReadOnce' /\ Noticed'
<1> USE DEF ReadOnce, Noticed, Ready
<1>1. CASE Toggle
  BY <1>1 DEF Toggle
<1>2. CASE IrqThread
  <2>1. /\ check'.read = check.read /\ (Ready => check'.pending)
        /\ check.pending => check'.pending
    BY <1>2 DEF IrqThread, Scheduled, SimTyped
  <2>2. hist'.missed = (hist.missed \/ (~Ready /\ line # sim.state))
    BY <1>2 DEF IrqThread, SimTyped
  <2>3. UNCHANGED <<line, sim, boot>>
    BY <1>2 DEF IrqThread
  <2> QED BY <2>1, <2>2, <2>3
<1>3. CASE CheckRead
  <2>1. check'.read = (IF Ready THEN {line} ELSE {})
    BY <1>3 DEF CheckRead
  <2>2. hist'.missed = (hist.missed \/ (~Ready /\ line # sim.state))
    BY <1>3 DEF CheckRead, SimTyped
  <2>3. UNCHANGED <<line, edge, sim, boot>>
    BY <1>3 DEF CheckRead
  <2>4. CASE Ready
    BY <2>1, <2>2, <2>3, <2>4
  <2>5. CASE ~Ready
    BY <2>1, <2>2, <2>3, <2>5
  <2> QED BY <2>4, <2>5
<1>4. CASE CheckNote
  <2>1. PICK cur \in check.read :
          /\ sim' = Noted(sim, cur)
          /\ hist' = [hist EXCEPT !.unpolled = @ \/ (sim.changed /\ cur = sim.state)]
    BY <1>4 DEF CheckNote
  <2>2. sim'.state = cur /\ hist'.missed = hist.missed
    BY <2>1 DEF Noted, SimTyped
  <2>3. check'.read = {} /\ check'.pending = check.pending
    BY <1>4 DEF CheckNote, SimTyped
  <2>4. UNCHANGED <<line, edge, boot>>
    BY <1>4 DEF CheckNote
  <2>5. cur # line => line \notin check.read
    OBVIOUS
  <2> QED BY <2>2, <2>3, <2>4, <2>5
<1>5. CASE SyncState
  <2>1. sim'.state = line
    BY <1>5 DEF SyncState, SimTyped
  <2>2. UNCHANGED <<line, edge, check>> /\ (Ready => Ready')
    BY <1>5 DEF SyncState
  <2> QED BY <2>1, <2>2
<1>6. CASE SyncFlag
  <2>1. sim'.state = sim.state /\ hist'.missed = hist.missed
    BY <1>6 DEF SyncFlag, SimTyped
  <2>2. UNCHANGED <<line, edge, boot, check>>
    BY <1>6 DEF SyncFlag
  <2> QED BY <2>1, <2>2
<1>7. CASE BootDone
  BY <1>7 DEF BootDone
<1>8. CASE Dies
  <2>1. hist'.missed = TRUE
    BY <1>8 DEF Dies, SimTyped
  <2>2. check'.read = {}
    BY <1>8 DEF Dies
  <2> QED BY <2>1, <2>2
<1>9. CASE Poll
  <2>1. sim'.state = sim.state
    BY <1>9 DEF Poll, SimTyped
  <2>2. UNCHANGED <<line, edge, boot, check, hist>>
    BY <1>9 DEF Poll
  <2> QED BY <2>1, <2>2
<1>10. CASE GetSimDetect
  <2>1. hist'.missed = hist.missed
    BY <1>10 DEF GetSimDetect, SimTyped
  <2>2. UNCHANGED <<line, edge, sim, boot, check>>
    BY <1>10 DEF GetSimDetect
  <2> QED BY <2>1, <2>2
<1>11. CASE UNCHANGED vars
  BY <1>11 DEF vars
<1> QED BY <1>1, <1>2, <1>3, <1>4, <1>5, <1>6, <1>7, <1>8, <1>9, <1>10, <1>11 DEF Next

\* No change of the SIM is lost: however edges, checks and registrations interleave,
\* a state behind the line has an edge, a queued check or a check that read the new
\* state to bring it up (sim_detect_irq_handler, sim_status_check), unless the edge
\* fell between the registration and NORMAL_BOOT_DONE.
THEOREM ChangeNoticed == Spec => []Noticed
<1>1. Init => ReadOnce /\ Noticed
  BY DEF Init, ReadOnce, Noticed
<1> QED BY <1>1, NoticedStep, Typed, PTL DEF Spec
=============================================================================
