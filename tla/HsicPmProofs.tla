---------------------------- MODULE HsicPmProofs ----------------------------
(***************************************************************************)
(* Theorems about HsicPm, for every set of interfaces, of reporting        *)
(* threads, and every bound on the faults: what the flags, counts and      *)
(* locks agree on, and that a host wake and a lost link have somebody to   *)
(* see to them.                                                            *)
(***************************************************************************)
EXTENDS HsicPm, FiniteSetTheorems, TLAPS

PmType == pm \in [intf : Int, udev : BOOLEAN, shutdown : BOOLEAN, block : BOOLEAN,
                  busy : BOOLEAN, locks : Nat]

\* The steps that leave pm and bus alone.
Rest ==
  \/ Autosuspend \/ AutopmStuck \/ AutopmGet \/ RpmCheck
  \/ RuntimeResume \/ EhciSuspend \/ HostOffTest \/ HostOff \/ HostOffWait \/ WakeUp
  \/ HostOnTest \/ HostOn \/ HostOnWait \/ L2Release \/ LpaEnter \/ LpaWake \/ LpaDone
  \/ DeviceFollows \/ PowerOff \/ Restored \/ Halted \/ UNCHANGED vars
  \/ \E t \in Threads : NotifyTest(t) \/ NotifyHold(t) \/ NotifyResume(t)
                         \/ RequestRestart(t)
  \/ \E heard \in (SUBSET Reporters) \ {{}} : Dies(heard)

\* Every step but those of the interface drivers, the reporters, the lock, the
\* works and the suspend thread leaves pm alone.
LEMMA PmTyped == PmType /\ [Next]_vars => PmType'
<1> SUFFICES ASSUME PmType, [Next]_vars PROVE PmType'
  OBVIOUS
<1> USE DEF PmType
<1>1. CASE \E i \in Intfs : Probe(i)
  <2>1. PICK i \in Intfs : Probe(i)
    BY <1>1
  <2>2. pm' = Register(pm)
    BY <2>1 DEF Probe
  <2>3. CASE pm.intf = 0
    BY <2>2, <2>3 DEF Register, RegisterNew
  <2>4. CASE pm.intf # 0
    BY <2>2, <2>4 DEF Register
  <2> QED BY <2>3, <2>4
<1>2. CASE \E i \in Intfs : Disconnect(i)
  <2>1. PICK i \in Intfs : Disconnect(i)
    BY <1>2
  <2>2. pm' = Unregister(pm)
    BY <2>1 DEF Disconnect
  <2>3. CASE pm.intf = 1
    BY <2>2, <2>3 DEF Unregister
  <2>4. CASE pm.intf # 1
    BY <2>2, <2>4 DEF Unregister
  <2> QED BY <2>3, <2>4
<1>3. CASE \E t \in Threads : NotifySet(t)
  BY <1>3 DEF NotifySet, Notified
<1>4. CASE SilentReset
  BY <1>4 DEF SilentReset
<1>5. CASE AutopmLock
  BY <1>5 DEF AutopmLock
<1>6. CASE AutopmRelease
  BY <1>6 DEF AutopmRelease, Released
<1>7. CASE RpmStart
  BY <1>7 DEF RpmStart, Worked
<1>8. CASE SuspendClear
  BY <1>8 DEF SuspendClear, ClearBusy, Suspending
<1>9. CASE SuspendBlock
  BY <1>9 DEF SuspendBlock, BlockRequests, Suspending
<1>10. CASE PostSuspend
  BY <1>10 DEF PostSuspend, Suspending
<1>11. CASE HostWake
  BY <1>11 DEF HostWake
<1>20. CASE Rest \/ Enumerate \/ DeviceGone \/ LinkFails \/ LinkDrops \/ PowerOn
  BY <1>20 DEF Rest, Autosuspend, Enumerate, DeviceGone, AutopmStuck, AutopmGet, RpmCheck,
     RuntimeResume, EhciSuspend, HostOffTest, HostOff, HostOffWait, WakeUp, HostOnTest,
     HostOn, HostOnWait, L2Release, LpaEnter, LpaWake, LpaDone, DeviceFollows,
     LinkFails, LinkDrops, PowerOff, PowerOn, Restored, Halted, vars, NotifyTest,
     NotifyHold, NotifyResume, RequestRestart, Dies, Notified, Worked, Suspending,
     Outside, pmVars
<1> QED
  BY <1>1, <1>2, <1>3, <1>4, <1>5, <1>6, <1>7, <1>8, <1>9, <1>10, <1>11, <1>20 DEF Next, Rest

BusType == bus \in [present : BOOLEAN, lost : BOOLEAN, bound : SUBSET Intfs]

CountInv == PmType /\ BusType /\ CountsInterfaces

LEMMA CountInit == Init => CountInv
  BY FS_EmptySet DEF Init, CountInv, PmType, BusType, CountsInterfaces

LEMMA CountStep == CountInv /\ [Next]_vars => CountInv'
<1> SUFFICES ASSUME CountInv, [Next]_vars PROVE CountInv'
  OBVIOUS
<1>1. PmType'
  BY PmTyped DEF CountInv
<1>2. BusType /\ CountsInterfaces /\ PmType
  BY DEF CountInv
<1>3. IsFiniteSet(bus.bound) /\ Cardinality(bus.bound) \in Nat
  BY <1>2, IntfsFinite, FS_Subset, FS_CardinalityType DEF BusType
<1>4. CASE \E i \in Intfs : Probe(i)
  <2>1. PICK i \in Intfs : Probe(i)
    BY <1>4
  <2>2. bus'.bound = bus.bound \cup {i} /\ i \notin bus.bound /\ BusType'
    BY <2>1, <1>2 DEF Probe, BusType
  <2>3. Cardinality(bus'.bound) = Cardinality(bus.bound) + 1
    BY <2>2, <1>3, FS_AddElement
  <2>4. pm'.intf = pm.intf + 1 /\ pm'.udev
    BY <2>1, <1>2, FS_EmptySet, <1>3 DEF Probe, Register, RegisterNew, PmType,
       CountsInterfaces
  <2> QED
    BY <1>1, <1>2, <2>2, <2>3, <2>4 DEF CountInv, CountsInterfaces
<1>5. CASE \E i \in Intfs : Disconnect(i)
  <2>1. PICK i \in Intfs : Disconnect(i)
    BY <1>5
  <2>2. bus'.bound = bus.bound \ {i} /\ i \in bus.bound /\ BusType'
    BY <2>1, <1>2 DEF Disconnect, BusType
  <2>3. Cardinality(bus'.bound) = Cardinality(bus.bound) - 1
    BY <2>2, <1>3, FS_RemoveElement
  <2>4. pm'.intf = pm.intf - 1 /\ pm'.udev = IF pm.intf = 1 THEN FALSE ELSE pm.udev
    BY <2>1, <1>2 DEF Disconnect, Unregister, PmType
  <2>5. pm.udev /\ (bus'.bound = {} <=> pm.intf = 1)
    BY <2>2, <2>3, <1>2, <1>3, FS_EmptySet, IntfsFinite, FS_Subset DEF CountsInterfaces, BusType
  <2> QED
    BY <1>1, <1>2, <2>2, <2>3, <2>4, <2>5 DEF CountInv, CountsInterfaces
<1>6. CASE /\ pm'.intf = pm.intf /\ pm'.udev = pm.udev
           /\ bus'.bound = bus.bound /\ BusType'
  BY <1>1, <1>2, <1>6 DEF CountInv, CountsInterfaces
<1>7. CASE \/ Enumerate \/ DeviceGone \/ LinkFails \/ LinkDrops \/ PowerOn
  BY <1>2, <1>6, <1>7 DEF Enumerate, DeviceGone, LinkFails, LinkDrops, PowerOn, Outside,
     BusType
<1>8. CASE \/ SilentReset \/ AutopmLock \/ AutopmRelease \/ RpmStart \/ SuspendClear
           \/ SuspendBlock \/ PostSuspend \/ HostWake
           \/ \E t \in Threads : NotifySet(t)
  <2>1. pm'.intf = pm.intf /\ pm'.udev = pm.udev
    BY <1>2, <1>8 DEF SilentReset, AutopmLock, AutopmRelease, Released, RpmStart, SuspendClear,
       SuspendBlock, PostSuspend, HostWake, NotifySet, PmType, ClearBusy, BlockRequests
  <2>2. bus' = bus
    BY <1>8 DEF SilentReset, AutopmLock, AutopmRelease, RpmStart, SuspendClear,
       SuspendBlock, PostSuspend, HostWake, NotifySet, Worked, Suspending, Notified
  <2> QED BY <1>2, <1>6, <2>1, <2>2 DEF BusType
<1>9. CASE pm' = pm /\ bus' = bus
  BY <1>2, <1>6, <1>9 DEF BusType
<1>10. CASE Rest
  <2>1. pm' = pm /\ bus' = bus
    BY <1>10 DEF Rest, Autosuspend, AutopmStuck, AutopmGet, RpmCheck,
       RuntimeResume, EhciSuspend, HostOffTest, HostOff, HostOffWait, WakeUp, HostOnTest,
       HostOn, HostOnWait, L2Release, LpaEnter, LpaWake, LpaDone, DeviceFollows,
       PowerOff, Restored, Halted, vars, NotifyTest,
       NotifyHold, NotifyResume, RequestRestart, Dies, Notified, Worked, Suspending,
       Outside, pmVars
  <2> QED BY <1>9, <2>1
<1> QED
  BY <1>4, <1>5, <1>7, <1>8, <1>10 DEF Next, Rest

\* The number of interfaces registered is that of the interfaces bound: each
\* step of khubd changes both, and no other step changes either.
THEOREM Counted == SafeSpec => []CountsInterfaces
<1>1. CountInv => CountsInterfaces
  BY DEF CountInv
<1> QED BY <1>1, CountInit, CountStep, PTL DEF SafeSpec

-----------------------------------------------------------------------------
HistType == hist \in [faults : Nat, restarts : Nat, blocked : BOOLEAN, want : BOOLEAN,
                      fatal : BOOLEAN]

\* Requests are blocked exactly while the phone suspends.
BlockedInSuspend == pm.block <=> phase \notin {"run", "clearing", "lpa"}

\* A host wake that was blocked holds the wake lock until the phone runs again,
\* and is remembered by state_busy until the EHCI driver looks.
WakeRemembered ==
  /\ phase = "clearing" => ~hist.blocked
  /\ hist.blocked /\ phase \notin {"run", "lpa"} => l2
  /\ hist.blocked /\ phase = "prepared" => pm.busy

QuietInv == PmType /\ HistType /\ BlockedInSuspend /\ WakeRemembered /\ SleepsQuietly

LEMMA HistTyped == HistType /\ [Next]_vars => HistType'
<1> SUFFICES ASSUME HistType, [Next]_vars PROVE HistType'
  OBVIOUS
<1> USE DEF HistType
<1>1. CASE Restarted \/ hist' = hist
  BY <1>1 DEF Restarted
<1>2. CASE \E b \in BOOLEAN : \/ hist' = [hist EXCEPT !.fatal = b]
                              \/ hist' = [hist EXCEPT !.want = b]
                              \/ hist' = [hist EXCEPT !.blocked = b]
  BY <1>2
<1>3. CASE \E i \in Intfs : Probe(i) \/ Disconnect(i)
  BY <1>1, <1>2, <1>3 DEF Probe, Disconnect
<1>4. CASE \E t \in Threads : NotifySet(t)
  BY <1>4 DEF NotifySet
<1>5. CASE SilentReset
  BY <1>5 DEF SilentReset
<1>6. CASE HostWake
  BY <1>6 DEF HostWake
<1>7. CASE LinkFails \/ \E heard \in (SUBSET Reporters) \ {{}} : Dies(heard)
  BY <1>7 DEF LinkFails, Dies, Fault
<1>8. CASE DeviceGone \/ RpmCheck \/ RuntimeResume \/ SuspendClear
  BY <1>2, <1>8 DEF DeviceGone, RpmCheck, RuntimeResume, SuspendClear
<1>9. CASE LpaEnter \/ HostOffWait \/ HostOnWait
  BY <1>1, <1>9 DEF LpaEnter, HostOffWait, HostOnWait
<1>10. CASE \E t \in Threads : NotifyTest(t) \/ NotifyHold(t) \/ NotifyResume(t)
                               \/ RequestRestart(t)
  BY <1>1, <1>10 DEF NotifyTest, NotifyHold, NotifyResume, RequestRestart
<1>11. CASE \/ Autosuspend \/ Enumerate \/ AutopmLock \/ AutopmStuck \/ AutopmGet
            \/ AutopmRelease \/ RpmStart \/ SuspendBlock \/ EhciSuspend \/ HostOffTest
            \/ HostOff \/ WakeUp \/ HostOnTest \/ HostOn \/ PostSuspend \/ L2Release
            \/ LpaWake \/ LpaDone \/ DeviceFollows \/ LinkDrops \/ PowerOff \/ PowerOn
            \/ Restored \/ Halted \/ UNCHANGED vars
  BY <1>11 DEF Autosuspend, Enumerate, AutopmLock, AutopmStuck, AutopmGet,
     AutopmRelease, RpmStart, SuspendBlock, EhciSuspend, HostOffTest, HostOff, WakeUp,
     HostOnTest, HostOn, PostSuspend, L2Release, LpaWake, LpaDone, DeviceFollows,
     LinkDrops, PowerOff, PowerOn, Restored, Halted, vars
<1> QED
  BY <1>3, <1>4, <1>5, <1>6, <1>7, <1>8, <1>9, <1>10, <1>11 DEF Next

\* The steps of the suspend thread, of the host wake and of low power audio.
LEMMA QuietSleep ==
  ASSUME QuietInv, HistType', PmType',
         \/ SuspendClear \/ SuspendBlock \/ EhciSuspend \/ HostOffTest \/ HostOff
         \/ HostOffWait \/ WakeUp \/ HostOnTest \/ HostOn \/ HostOnWait \/ PostSuspend
         \/ L2Release \/ HostWake \/ LpaEnter \/ LpaWake \/ LpaDone
  PROVE  QuietInv'
<1> USE DEF QuietInv, PmType, HistType, BlockedInSuspend, WakeRemembered, SleepsQuietly
<1>1. CASE SuspendClear
  BY <1>1 DEF SuspendClear, Suspending, ClearBusy
<1>2. CASE SuspendBlock
  BY <1>2 DEF SuspendBlock, Suspending, BlockRequests
<1>3. CASE EhciSuspend
  BY <1>3 DEF EhciSuspend, Suspending, Quiet
<1>4. CASE HostOffTest \/ HostOff \/ WakeUp \/ HostOnTest \/ HostOn
  BY <1>4 DEF HostOffTest, HostOff, WakeUp, HostOnTest, HostOn, Suspending
<1>5. CASE HostOffWait \/ HostOnWait
  BY <1>5 DEF HostOffWait, HostOnWait, Suspending, Restarted
<1>6. CASE PostSuspend
  BY <1>6 DEF PostSuspend, Suspending
<1>7. CASE L2Release
  BY <1>7 DEF L2Release, Awake, pmVars
<1>8. CASE HostWake
  <2>1. hist'.blocked = (hist.blocked \/ pm.block) /\ pm'.busy = (pm.busy \/ pm.block)
        /\ pm'.block = pm.block /\ l2' = (l2 \/ pm.block)
        /\ phase' = (IF phase = "asleep" THEN "onTest" ELSE phase)
    BY <1>8 DEF HostWake, WakeLocked
  <2> QED BY <2>1
<1>9. CASE LpaEnter \/ LpaWake \/ LpaDone
  BY <1>9 DEF LpaEnter, LpaWake, LpaDone, Awake, Restarted, pmVars
<1> QED BY <1>1, <1>2, <1>3, <1>4, <1>5, <1>6, <1>7, <1>8, <1>9

LEMMA QuietStep == QuietInv /\ [Next]_vars => QuietInv'
<1> SUFFICES ASSUME QuietInv, [Next]_vars PROVE QuietInv'
  OBVIOUS
<1>1. PmType' /\ HistType'
  BY PmTyped, HistTyped DEF QuietInv
<1> USE DEF QuietInv, PmType, HistType, BlockedInSuspend, WakeRemembered, SleepsQuietly
<1>2. CASE /\ pm'.block = pm.block /\ pm'.busy = pm.busy
           /\ hist'.blocked = hist.blocked /\ l2' = l2 /\ phase' = phase
  BY <1>1, <1>2
<1>3. CASE \E i \in Intfs : Probe(i) \/ Disconnect(i)
  <2>1. PICK i \in Intfs : Probe(i) \/ Disconnect(i)
    BY <1>3
  <2>2. CASE Probe(i)
    <3>1. pm' = Register(pm) /\ hist'.blocked = hist.blocked /\ l2' = l2 /\ phase' = phase
      BY <2>2 DEF Probe, sleepVars
    <3>2. pm'.block = pm.block /\ pm'.busy = pm.busy
      BY <3>1 DEF Register, RegisterNew
    <3> QED BY <1>2, <3>1, <3>2
  <2>3. CASE Disconnect(i)
    <3>1. pm'.block = pm.block /\ pm'.busy = pm.busy /\ l2' = l2 /\ phase' = phase
      BY <2>3 DEF Disconnect, Unregister, sleepVars
    <3>2. hist'.blocked = hist.blocked
      BY <2>3 DEF Disconnect, Restarted
    <3> QED BY <1>2, <3>1, <3>2
  <2> QED BY <2>1, <2>2, <2>3
<1>4. CASE \E t \in Threads : NotifyTest(t) \/ NotifySet(t) \/ NotifyHold(t)
                               \/ NotifyResume(t) \/ RequestRestart(t)
  BY <1>2, <1>4 DEF NotifyTest, NotifySet, NotifyHold, NotifyResume, RequestRestart,
     Notified, Restarted, sleepVars
<1>5. CASE SilentReset \/ AutopmLock \/ AutopmRelease \/ AutopmStuck \/ AutopmGet
  BY <1>2, <1>5 DEF SilentReset, AutopmLock, AutopmRelease, Released, AutopmStuck, AutopmGet,
     sleepVars
<1>6. CASE RpmStart \/ RpmCheck \/ RuntimeResume
  BY <1>2, <1>6 DEF RpmStart, RpmCheck, RuntimeResume, Worked, sleepVars
<1>7. CASE Autosuspend \/ Enumerate \/ DeviceGone \/ DeviceFollows
  BY <1>2, <1>7 DEF Autosuspend, Enumerate, DeviceGone, DeviceFollows, pmVars, sleepVars
<1>8. CASE \/ LinkFails \/ LinkDrops \/ PowerOff \/ PowerOn \/ Restored
           \/ \E heard \in (SUBSET Reporters) \ {{}} : Dies(heard)
  BY <1>2, <1>8 DEF LinkFails, LinkDrops, PowerOff, PowerOn, Restored, Dies, Outside, Fault
<1>9. CASE Halted \/ UNCHANGED vars
  BY <1>2, <1>9 DEF Halted, vars
<1> QED
  BY <1>1, <1>3, <1>4, <1>5, <1>6, <1>7, <1>8, <1>9, QuietSleep DEF Next

LEMMA QuietInit == Init => QuietInv
  BY DEF Init, QuietInv, PmType, HistType, BlockedInSuspend, WakeRemembered, SleepsQuietly

\* The phone never sleeps over a host wake that the suspend blocked: a blocked
\* wake holds the wake lock until the phone runs again.
THEOREM SleptQuietly == SafeSpec => []SleepsQuietly
<1>1. QuietInv => SleepsQuietly
  BY DEF QuietInv
<1> QED BY <1>1, QuietInit, QuietStep, PTL DEF SafeSpec

\* The link is driven to L3 only while no host wake was blocked: state_busy
\* remembers a blocked wake until the EHCI driver asks.
THEOREM L3Quiet == SafeSpec => L3IfQuiet
<1>1. QuietInv /\ [Next]_vars => (phase = "prepared" /\ phase' = "offTest" => ~hist.blocked)
  <2> SUFFICES ASSUME QuietInv, [Next]_vars, phase = "prepared", phase' = "offTest",
                      hist.blocked
               PROVE  FALSE
    OBVIOUS
  <2>1. pm.busy
    BY DEF QuietInv, WakeRemembered
  <2>2. CASE EhciSuspend
    BY <2>1, <2>2 DEF EhciSuspend, Suspending, Quiet
  <2>3. CASE phase' # "offTest" \/ phase' = phase
    BY <2>3
  <2>4. CASE \/ SuspendClear \/ SuspendBlock \/ HostOffTest \/ HostOff \/ HostOffWait
             \/ WakeUp \/ HostOnTest \/ HostOn \/ HostOnWait \/ PostSuspend \/ HostWake
             \/ LpaEnter \/ LpaWake
    BY <2>4 DEF SuspendClear, SuspendBlock, HostOffTest, HostOff, HostOffWait, WakeUp,
       HostOnTest, HostOn, HostOnWait, PostSuspend, HostWake, LpaEnter, LpaWake, Suspending
  <2>5. CASE \E i \in Intfs : Probe(i) \/ Disconnect(i)
    BY <2>3, <2>5 DEF Probe, Disconnect, sleepVars
  <2>6. CASE \E t \in Threads : NotifyTest(t) \/ NotifySet(t) \/ NotifyHold(t)
                                 \/ NotifyResume(t) \/ RequestRestart(t)
    BY <2>3, <2>6 DEF NotifyTest, NotifySet, NotifyHold, NotifyResume, RequestRestart,
       Notified, sleepVars
  <2>7. CASE \/ Autosuspend \/ Enumerate \/ DeviceGone \/ SilentReset \/ AutopmLock
             \/ AutopmStuck \/ AutopmGet \/ AutopmRelease \/ RpmStart \/ RpmCheck
             \/ RuntimeResume
    BY <2>3, <2>7 DEF Autosuspend, Enumerate, DeviceGone, SilentReset, AutopmLock,
       AutopmStuck, AutopmGet, AutopmRelease, RpmStart, RpmCheck, RuntimeResume, Worked,
       sleepVars
  <2>8. CASE \/ L2Release \/ LpaDone \/ DeviceFollows \/ LinkFails \/ LinkDrops
             \/ PowerOff \/ PowerOn \/ Restored \/ Halted \/ UNCHANGED vars
             \/ \E heard \in (SUBSET Reporters) \ {{}} : Dies(heard)
    BY <2>3, <2>8 DEF L2Release, LpaDone, DeviceFollows, LinkFails, LinkDrops, PowerOff,
       PowerOn, Restored, Halted, vars, Dies, Outside
  <2> QED
    BY <2>2, <2>4, <2>5, <2>6, <2>7, <2>8 DEF Next
<1> QED BY <1>1, QuietInit, QuietStep, PTL DEF SafeSpec, L3IfQuiet

-----------------------------------------------------------------------------
\* The types of the other variables.
RtSet == [active : BOOLEAN, refs : Int, auto : BOOLEAN]
RtType == rt \in RtSet
AtType == at \in [Threads -> {"idle", "told", "set", "block", "settle", "request"}]
PinsType == pins \in [host : BOOLEAN, device : BOOLEAN]
FlagType ==
  /\ works \in SUBSET {"start", "resume"}
  /\ lock \in {"free", "spin", "fatal", "held"}
  /\ lpa \in BOOLEAN /\ l2 \in BOOLEAN
  /\ phase \in Phases
  /\ modem \in {"up", "dead", "off"}
  /\ ssr \in {"idle", "down", "up", "panic"}

\* What the calls of runtime PM leave, field by field.
LEMMA RtChanged ==
  ASSUME NEW r \in RtSet
  PROVE  /\ Forbid(r) \in RtSet /\ ~Forbid(r).auto
         /\ Forbid(r).refs = (IF r.auto THEN r.refs + 1 ELSE r.refs)
         /\ Allow(r) \in RtSet /\ Allow(r).auto
         /\ Allow(r).refs = (IF r.auto THEN r.refs ELSE r.refs - 1)
         /\ Get(r) \in RtSet /\ Get(r).auto = r.auto /\ Get(r).refs = r.refs + 1
         /\ GetNoResume(r) \in RtSet /\ GetNoResume(r).auto = r.auto
         /\ GetNoResume(r).refs = r.refs + 1
         /\ Put(r) \in RtSet /\ Put(r).auto = r.auto /\ Put(r).refs = r.refs - 1
<1>1. \A q \in RtSet : q.refs \in Int /\ \A n \in Int : [q EXCEPT !.refs = n] \in RtSet
  BY DEF RtSet
<1>2. \A q \in RtSet : [q EXCEPT !.auto = FALSE] \in RtSet /\ [q EXCEPT !.auto = TRUE] \in RtSet
  BY DEF RtSet
<1>3. \A q \in RtSet : [q EXCEPT !.active = TRUE] \in RtSet
  BY DEF RtSet
<1>4. GetNoResume(r) \in RtSet /\ Put(r) \in RtSet
  <2>1. r.refs + 1 \in Int /\ r.refs - 1 \in Int
    BY <1>1
  <2> QED BY <1>1, <2>1 DEF GetNoResume, Put
<1>5. Get(r) \in RtSet
  <2>1. Get(r) = [GetNoResume(r) EXCEPT !.active = TRUE]
    BY DEF Get, GetNoResume, RtSet
  <2> QED BY <1>3, <1>4, <2>1
<1>6. CASE r.auto
  <2>1. Forbid(r) = [Get(r) EXCEPT !.auto = FALSE]
    BY <1>6 DEF Forbid, Get, RtSet
  <2>2. Forbid(r) \in RtSet
    BY <1>2, <1>5, <2>1
  <2> QED
    BY <1>4, <1>5, <1>6, <2>2 DEF Forbid, Allow, Get, GetNoResume, Put, RtSet
<1>7. CASE ~r.auto
  <2>1. Allow(r) = [Put(r) EXCEPT !.auto = TRUE]
    BY <1>7 DEF Allow, Put, RtSet
  <2>2. Allow(r) \in RtSet
    BY <1>2, <1>4, <2>1
  <2> QED
    BY <1>4, <1>5, <1>7, <2>2 DEF Forbid, Allow, Get, GetNoResume, Put, RtSet
<1> QED BY <1>6, <1>7

LEMMA RtTyped == RtType /\ [Next]_vars => RtType'
<1> SUFFICES ASSUME RtType, [Next]_vars PROVE RtType'
  OBVIOUS
<1> USE DEF RtType
<1>1. /\ Forbid(rt) \in RtSet /\ Allow(rt) \in RtSet /\ GetNoResume(rt) \in RtSet
      /\ Get(rt) \in RtSet
  BY RtChanged
<1>a. Held(rt) \in RtSet
  BY <1>1, RtChanged DEF Held
<1>b. Put(Allow(rt)) \in RtSet
  BY <1>1, RtChanged
<1>c. NewDevice \in RtSet
  BY DEF NewDevice, RtSet
<1>2. CASE \E t \in Threads : NotifyResume(t)
  <2> DEFINE awake == rt.active \/ modem = "up"
  <2>1. awake \in BOOLEAN
    OBVIOUS
  <2>2. \A b \in BOOLEAN : GetNoResume([rt EXCEPT !.active = b]) \in RtSet
    <3> SUFFICES ASSUME NEW b \in BOOLEAN
                 PROVE  GetNoResume([rt EXCEPT !.active = b]) \in RtSet
      OBVIOUS
    <3>1. [rt EXCEPT !.active = b] \in RtSet
      BY DEF RtSet
    <3> QED BY <3>1, RtChanged
  <2>3. rt' = rt \/ rt' = GetNoResume([rt EXCEPT !.active = awake])
    BY <1>2 DEF NotifyResume
  <2> HIDE DEF awake
  <2> QED BY <2>1, <2>2, <2>3
<1>3. CASE Autosuspend \/ RuntimeResume \/ RpmCheck
  BY <1>3 DEF Autosuspend, RuntimeResume, RpmCheck, RtSet
<1>4. CASE \/ Enumerate \/ AutopmGet \/ AutopmRelease \/ RpmStart
           \/ \E i \in Intfs : Probe(i)
           \/ \E t \in Threads : NotifyHold(t)
  BY <1>1, <1>a, <1>b, <1>c, <1>4 DEF Enumerate, AutopmGet, AutopmRelease, RpmStart, Probe, NotifyHold
<1>5. CASE \/ DeviceGone \/ SilentReset \/ AutopmLock \/ AutopmStuck
           \/ \E i \in Intfs : Disconnect(i)
           \/ \E t \in Threads : NotifyTest(t) \/ NotifySet(t) \/ RequestRestart(t)
  BY <1>5 DEF DeviceGone, SilentReset, AutopmLock, AutopmStuck, Disconnect, NotifyTest,
     NotifySet, RequestRestart
<1>6. CASE \/ SuspendClear \/ SuspendBlock \/ EhciSuspend \/ HostOffTest \/ HostOff
           \/ HostOffWait \/ WakeUp \/ HostOnTest \/ HostOn \/ HostOnWait \/ PostSuspend
  BY <1>6 DEF SuspendClear, SuspendBlock, EhciSuspend, HostOffTest, HostOff, HostOffWait,
     WakeUp, HostOnTest, HostOn, HostOnWait, PostSuspend, Suspending
<1>7. CASE \/ L2Release \/ HostWake \/ LpaEnter \/ LpaWake \/ LpaDone \/ DeviceFollows
           \/ LinkFails \/ LinkDrops \/ PowerOff \/ PowerOn \/ Restored \/ Halted
           \/ UNCHANGED vars \/ \E heard \in (SUBSET Reporters) \ {{}} : Dies(heard)
  BY <1>7 DEF L2Release, HostWake, LpaEnter, LpaWake, LpaDone, DeviceFollows, LinkFails,
     LinkDrops, PowerOff, PowerOn, Restored, Halted, vars, Dies, Outside, pmVars
<1> QED
  BY <1>2, <1>3, <1>4, <1>5, <1>6, <1>7 DEF Next

LEMMA AtTyped == AtType /\ [Next]_vars => AtType'
<1> SUFFICES ASSUME AtType, [Next]_vars PROVE AtType'
  OBVIOUS
<1> USE DEF AtType
<1>1. CASE \E t \in Threads : NotifyTest(t) \/ NotifySet(t) \/ NotifyHold(t)
                               \/ NotifyResume(t) \/ RequestRestart(t)
  BY <1>1 DEF NotifyTest, NotifySet, NotifyHold, NotifyResume, RequestRestart, Notified
<1>2. CASE AutopmStuck \/ \E heard \in (SUBSET Reporters) \ {{}} : Dies(heard)
  BY <1>2 DEF AutopmStuck, Dies
<1>3. CASE \/ Autosuspend \/ RuntimeResume \/ RpmCheck \/ Enumerate \/ AutopmGet
           \/ AutopmRelease \/ RpmStart \/ DeviceGone \/ SilentReset \/ AutopmLock
           \/ \E i \in Intfs : Probe(i) \/ Disconnect(i)
  BY <1>3 DEF Autosuspend, RuntimeResume, RpmCheck, Enumerate, AutopmGet, AutopmRelease,
     RpmStart, DeviceGone, SilentReset, AutopmLock, Probe, Disconnect, Worked
<1>4. CASE \/ SuspendClear \/ SuspendBlock \/ EhciSuspend \/ HostOffTest \/ HostOff
           \/ HostOffWait \/ WakeUp \/ HostOnTest \/ HostOn \/ HostOnWait \/ PostSuspend
  BY <1>4 DEF SuspendClear, SuspendBlock, EhciSuspend, HostOffTest, HostOff, HostOffWait,
     WakeUp, HostOnTest, HostOn, HostOnWait, PostSuspend, Suspending
<1>5. CASE \/ L2Release \/ HostWake \/ LpaEnter \/ LpaWake \/ LpaDone \/ DeviceFollows
           \/ LinkFails \/ LinkDrops \/ PowerOff \/ PowerOn \/ Restored \/ Halted
           \/ UNCHANGED vars
  BY <1>5 DEF L2Release, HostWake, LpaEnter, LpaWake, LpaDone, DeviceFollows, LinkFails,
     LinkDrops, PowerOff, PowerOn, Restored, Halted, vars
<1> QED
  BY <1>1, <1>2, <1>3, <1>4, <1>5 DEF Next


LEMMA FlagTyped == FlagType /\ [Next]_vars => FlagType'
<1> SUFFICES ASSUME FlagType, [Next]_vars PROVE FlagType'
  OBVIOUS
<1> USE DEF FlagType, Phases
<1>1. CASE \/ \E i \in Intfs : Probe(i) \/ Disconnect(i)
           \/ SilentReset
  BY <1>1 DEF Probe, Disconnect, SilentReset, Restarted, sleepVars
<1>2. CASE \E t \in Threads : NotifyTest(t) \/ NotifySet(t) \/ NotifyHold(t)
                               \/ NotifyResume(t) \/ RequestRestart(t)
  BY <1>2 DEF NotifyTest, NotifySet, NotifyHold, NotifyResume, RequestRestart, Notified,
     Restarted, sleepVars
<1>3. CASE Autosuspend \/ Enumerate \/ DeviceGone \/ RuntimeResume \/ RpmStart \/ RpmCheck
  BY <1>3 DEF Autosuspend, Enumerate, DeviceGone, RuntimeResume, RpmStart, RpmCheck, Worked,
     sleepVars
<1>4. CASE AutopmLock \/ AutopmStuck \/ AutopmGet \/ AutopmRelease
  BY <1>4 DEF AutopmLock, AutopmStuck, AutopmGet, AutopmRelease, sleepVars
<1>5. CASE \/ SuspendClear \/ SuspendBlock \/ EhciSuspend \/ HostOffTest \/ HostOff
           \/ WakeUp \/ HostOnTest \/ HostOn
  BY <1>5 DEF SuspendClear, SuspendBlock, EhciSuspend, HostOffTest, HostOff,
     WakeUp, HostOnTest, HostOn, Suspending
<1>6. CASE HostOffWait \/ HostOnWait
  BY <1>6 DEF HostOffWait, HostOnWait, Suspending, Restarted
<1>7. CASE PostSuspend \/ L2Release \/ DeviceFollows
  <2>1. (l2 \/ ~pm.shutdown) \in BOOLEAN
    OBVIOUS
  <2>2. CASE PostSuspend
    BY <2>1, <2>2 DEF PostSuspend, Suspending, Catchup
  <2>3. CASE L2Release
    BY <2>3 DEF L2Release, pmVars
  <2>4. CASE DeviceFollows
    BY <2>4 DEF DeviceFollows, pmVars
  <2> QED BY <1>7, <2>2, <2>3, <2>4
<1>8. CASE HostWake
  <2>1. (l2 \/ pm.block) \in BOOLEAN
    OBVIOUS
  <2> QED BY <1>8, <2>1 DEF HostWake, WakeLocked
<1>9. CASE LpaEnter \/ LpaWake \/ LpaDone
  <2>1. CASE LpaEnter
    <3>1. UNCHANGED <<works, lock, lpa, l2, modem>>
      BY <2>1 DEF LpaEnter, pmVars
    <3>2. phase' \in {phase, "lpa"} /\ ssr' \in {ssr, "down"}
      BY <2>1 DEF LpaEnter, Restarted
    <3> QED BY <3>1, <3>2
  <2>2. CASE LpaWake
    BY <2>2 DEF LpaWake, pmVars
  <2>3. CASE LpaDone
    BY <2>3 DEF LpaDone, pmVars
  <2> QED BY <1>9, <2>1, <2>2, <2>3
<1>10. CASE \/ LinkFails \/ LinkDrops \/ PowerOff \/ PowerOn \/ Restored \/ Halted
            \/ UNCHANGED vars \/ \E heard \in (SUBSET Reporters) \ {{}} : Dies(heard)
  BY <1>10 DEF LinkFails, LinkDrops, PowerOff, PowerOn, Restored, Halted, vars, Dies, Outside
<1> QED
  BY <1>1, <1>2, <1>3, <1>4, <1>5, <1>6, <1>7, <1>8, <1>9, <1>10 DEF Next

LEMMA PinsTyped == PinsType /\ [Next]_vars => PinsType'
<1> SUFFICES ASSUME PinsType, [Next]_vars PROVE PinsType'
  OBVIOUS
<1> USE DEF PinsType
<1>1. CASE HostOff \/ HostOn \/ PowerOn
  <2>1. \A h \in BOOLEAN : [pins EXCEPT !.host = h] \in [host : BOOLEAN, device : BOOLEAN]
    OBVIOUS
  <2>2. CASE HostOff
    BY <2>1, <2>2 DEF HostOff
  <2>3. CASE HostOn
    BY <2>1, <2>3 DEF HostOn
  <2>4. CASE PowerOn
    BY <2>4 DEF PowerOn
  <2> QED BY <1>1, <2>2, <2>3, <2>4
<1>a. ASSUME NEW h \in BOOLEAN, NEW d \in BOOLEAN
      PROVE  [host |-> h, device |-> d] \in [host : BOOLEAN, device : BOOLEAN]
  OBVIOUS
<1>2. CASE DeviceFollows
  <2>1. \A d \in BOOLEAN : [pins EXCEPT !.device = d] \in [host : BOOLEAN, device : BOOLEAN]
    OBVIOUS
  <2>2. pins.host \in BOOLEAN /\ pins' = [pins EXCEPT !.device = pins.host]
    BY <1>2 DEF DeviceFollows
  <2> QED BY <2>1, <2>2
<1>b. CASE LpaDone
  <2>1. pins' = [host |-> TRUE, device |-> modem = "up"]
    BY <1>b DEF LpaDone
  <2> QED BY <1>a, <2>1
<1>3. CASE LpaEnter
  <2>1. pins' = [host |-> FALSE, device |-> pins.device /\ modem # "up"]
    BY <1>3 DEF LpaEnter
  <2> QED BY <1>a, <2>1
<1>4. CASE pins' = pins
  BY <1>4
<1>5. CASE \/ Autosuspend \/ Enumerate \/ DeviceGone \/ SilentReset \/ RuntimeResume
           \/ RpmStart \/ RpmCheck \/ AutopmLock \/ AutopmStuck \/ AutopmGet
           \/ AutopmRelease \/ \E i \in Intfs : Probe(i) \/ Disconnect(i)
  BY <1>4, <1>5 DEF Autosuspend, Enumerate, DeviceGone, SilentReset, RuntimeResume, RpmStart,
     RpmCheck, AutopmLock, AutopmStuck, AutopmGet, AutopmRelease, Probe, Disconnect,
     Worked, sleepVars
<1>6. CASE \E t \in Threads : NotifyTest(t) \/ NotifySet(t) \/ NotifyHold(t)
                               \/ NotifyResume(t) \/ RequestRestart(t)
  BY <1>4, <1>6 DEF NotifyTest, NotifySet, NotifyHold, NotifyResume, RequestRestart,
     Notified, sleepVars
<1>7. CASE \/ SuspendClear \/ SuspendBlock \/ EhciSuspend \/ HostOffTest \/ HostOffWait
           \/ WakeUp \/ HostOnTest \/ HostOnWait \/ PostSuspend \/ L2Release \/ HostWake
           \/ LpaWake
  BY <1>4, <1>7 DEF SuspendClear, SuspendBlock, EhciSuspend, HostOffTest, HostOffWait,
     WakeUp, HostOnTest, HostOnWait, PostSuspend, L2Release, HostWake, LpaWake
<1>8. CASE \/ LinkFails \/ LinkDrops \/ PowerOff \/ Restored \/ Halted \/ UNCHANGED vars
           \/ \E heard \in (SUBSET Reporters) \ {{}} : Dies(heard)
  BY <1>4, <1>8 DEF LinkFails, LinkDrops, PowerOff, Restored, Halted, vars, Dies
<1> QED
  BY <1>1, <1>2, <1>b, <1>3, <1>5, <1>6, <1>7, <1>8 DEF Next

TypeInv == CountInv /\ HistType /\ RtType /\ AtType /\ FlagType /\ PinsType

LEMMA TypeInit == Init => TypeInv
<1> SUFFICES ASSUME Init PROVE TypeInv
  OBVIOUS
<1>1. CountInv
  BY CountInit
<1>2. HistType /\ RtType /\ PinsType
  BY DEF Init, HistType, RtType, RtSet, NewDevice, PinsType
<1>3. AtType /\ FlagType
  BY DEF Init, AtType, FlagType, Phases
<1> QED BY <1>1, <1>2, <1>3 DEF TypeInv

LEMMA TypeStep == TypeInv /\ [Next]_vars => TypeInv'
  BY CountStep, HistTyped, RtTyped, AtTyped, FlagTyped, PinsTyped DEF TypeInv

\* The variables keep their types.
THEOREM Typed == SafeSpec => []TypeOK
<1>1. TypeInv => TypeOK
  BY DEF TypeInv, CountInv, PmType, BusType, HistType, RtType, RtSet, AtType, FlagType,
     PinsType, TypeOK
<1> QED BY <1>1, TypeInit, TypeStep, PTL DEF SafeSpec

-----------------------------------------------------------------------------
\* Something that may yet ask for a restart: a modem that is not up, a link that
\* dropped, a report under way.
Trouble == modem # "up" \/ bus.lost \/ \E t \in Threads : at[t] # "idle"

\* What may yet ask for a restart while the framework is idle comes of a fault
\* that none was begun for; when the framework waits for the boot, all is over.
RestartInv ==
  /\ OneRestartPerFault
  /\ ssr = "idle" /\ Trouble => hist.restarts < hist.faults
  /\ ssr = "up" => ~Trouble

LEMMA RestartStep == TypeInv /\ RestartInv /\ [Next]_vars => RestartInv'
<1> SUFFICES ASSUME TypeInv, RestartInv, [Next]_vars PROVE RestartInv'
  OBVIOUS
<1>1. /\ hist.faults \in Nat /\ hist.restarts \in Nat
      /\ BusType /\ AtType /\ HistType /\ HistType'
  BY HistTyped DEF TypeInv, HistType, CountInv
<1> USE <1>1 DEF RestartInv, OneRestartPerFault
<1>2. CASE /\ hist'.faults = hist.faults /\ hist'.restarts = hist.restarts
           /\ ssr' = ssr /\ (Trouble' => Trouble)
  BY <1>2
<1>3. ASSUME Restarted, Trouble PROVE RestartInv'
  <2>1. CASE ssr = "idle"
    <3>1. hist'.restarts = hist.restarts + 1 /\ hist'.faults = hist.faults /\ ssr' = "down"
      BY <1>3, <2>1 DEF Restarted, HistType
    <3> QED BY <1>3, <2>1, <3>1
  <2>2. CASE ssr # "idle"
    BY <1>3, <2>2 DEF Restarted
  <2> QED BY <2>1, <2>2
<1>4. CASE \E i \in Intfs : Probe(i) \/ Disconnect(i)
  <2>1. PICK i \in Intfs : Probe(i) \/ Disconnect(i)
    BY <1>4
  <2>2. CASE Probe(i)
    <3>1. hist'.faults = hist.faults /\ hist'.restarts = hist.restarts /\ bus'.lost = bus.lost
      BY <2>2 DEF Probe, HistType, BusType
    <3>2. ssr' = ssr /\ at' = at /\ modem' = modem
      BY <2>2 DEF Probe
    <3> QED BY <1>2, <3>1, <3>2 DEF Trouble
  <2>3. CASE Disconnect(i)
    <3>1. Trouble /\ bus'.lost = bus.lost /\ at' = at /\ modem' = modem
      BY <2>3 DEF Disconnect, Trouble, BusType
    <3>2. Restarted \/ UNCHANGED <<ssr, hist>>
      BY <2>3 DEF Disconnect
    <3> QED BY <1>2, <1>3, <3>1, <3>2 DEF Trouble
  <2> QED BY <2>1, <2>2, <2>3
<1>5. CASE \E t \in Threads : NotifyTest(t) \/ NotifySet(t) \/ NotifyHold(t)
                               \/ NotifyResume(t) \/ RequestRestart(t)
  <2>1. PICK t \in Threads : \/ NotifyTest(t) \/ NotifySet(t) \/ NotifyHold(t)
                             \/ NotifyResume(t) \/ RequestRestart(t)
    BY <1>5
  <2>2. Trouble /\ modem' = modem /\ bus' = bus
    BY <2>1 DEF NotifyTest, NotifySet, NotifyHold, NotifyResume, RequestRestart, Notified,
       Trouble
  <2>3. CASE RequestRestart(t)
    BY <1>3, <2>2, <2>3 DEF RequestRestart
  <2>4. CASE NotifyTest(t) \/ NotifySet(t) \/ NotifyHold(t) \/ NotifyResume(t)
    <3>1. ssr' = ssr /\ hist'.faults = hist.faults /\ hist'.restarts = hist.restarts
      BY <2>4 DEF NotifyTest, NotifySet, NotifyHold, NotifyResume, HistType
    <3> QED BY <1>2, <2>2, <3>1
  <2> QED BY <2>1, <2>3, <2>4
<1>6. CASE SilentReset
  BY <1>6 DEF SilentReset
<1>7. CASE LinkFails \/ \E heard \in (SUBSET Reporters) \ {{}} : Dies(heard)
  <2>1. hist'.faults = hist.faults + 1 /\ hist'.restarts = hist.restarts
    BY <1>7 DEF LinkFails, Dies, Fault, HistType
  <2>2. ssr' = ssr /\ ssr = "idle"
    BY <1>7 DEF LinkFails, Dies
  <2> QED BY <2>1, <2>2
<1>8. CASE HostOffWait \/ HostOnWait
  <2>1. at' = at /\ bus' = bus /\ modem' = modem
    BY <1>8 DEF HostOffWait, HostOnWait, Suspending
  <2>2. UNCHANGED <<ssr, hist>> \/ (Restarted /\ Trouble)
    BY <1>8 DEF HostOffWait, HostOnWait, DeviceSilent, Trouble
  <2> QED BY <1>2, <1>3, <2>1, <2>2 DEF Trouble
<1>9. CASE LpaEnter
  <2>1. at' = at /\ bus' = bus /\ modem' = modem
    BY <1>9 DEF LpaEnter, pmVars
  <2>2. pins'.device = (pins.device /\ modem # "up")
    BY <1>9 DEF LpaEnter
  <2>3. UNCHANGED <<ssr, hist>> \/ (Restarted /\ Trouble)
    BY <1>9, <2>2 DEF LpaEnter, Trouble
  <2> QED BY <1>2, <1>3, <2>1, <2>3 DEF Trouble
<1>10. CASE PowerOff \/ PowerOn \/ Restored
  BY <1>10 DEF PowerOff, PowerOn, Restored, Trouble, BusType
<1>11. CASE Enumerate \/ DeviceGone \/ LinkDrops \/ AutopmStuck
  <2>1. hist'.faults = hist.faults /\ hist'.restarts = hist.restarts /\ ssr' = ssr
    BY <1>11 DEF Enumerate, DeviceGone, LinkDrops, AutopmStuck, HistType
  <2>2. Trouble' => Trouble
    BY <1>11 DEF Enumerate, DeviceGone, LinkDrops, AutopmStuck, Trouble, BusType
  <2> QED BY <1>2, <2>1, <2>2
<1>12. CASE AutopmGet
  BY <1>12 DEF AutopmGet, Trouble
<1>13. CASE \/ Autosuspend \/ RuntimeResume \/ RpmStart \/ RpmCheck \/ AutopmLock
            \/ AutopmRelease \/ L2Release \/ HostWake \/ LpaWake \/ LpaDone
            \/ DeviceFollows \/ Halted \/ UNCHANGED vars
  <2>1. hist'.faults = hist.faults /\ hist'.restarts = hist.restarts
    BY <1>13 DEF Autosuspend, RuntimeResume, RpmStart, RpmCheck, AutopmLock, AutopmRelease,
       L2Release, HostWake, LpaWake, LpaDone, DeviceFollows, Halted, vars, HistType
  <2>2. ssr' = ssr /\ at' = at /\ bus' = bus /\ modem' = modem
    BY <1>13 DEF Autosuspend, RuntimeResume, RpmStart, RpmCheck, AutopmLock, AutopmRelease,
       L2Release, HostWake, LpaWake, LpaDone, DeviceFollows, Halted, vars, Worked, pmVars
  <2> QED BY <1>2, <2>1, <2>2 DEF Trouble
<1>14. CASE \/ SuspendClear \/ SuspendBlock \/ EhciSuspend \/ HostOffTest \/ HostOff
            \/ WakeUp \/ HostOnTest \/ HostOn \/ PostSuspend
  <2>1. hist'.faults = hist.faults /\ hist'.restarts = hist.restarts
    BY <1>14 DEF SuspendClear, SuspendBlock, EhciSuspend, HostOffTest, HostOff, WakeUp,
       HostOnTest, HostOn, PostSuspend, HistType
  <2>2. ssr' = ssr /\ at' = at /\ bus' = bus /\ modem' = modem
    BY <1>14 DEF SuspendClear, SuspendBlock, EhciSuspend, HostOffTest, HostOff, WakeUp,
       HostOnTest, HostOn, PostSuspend, Suspending
  <2> QED BY <1>2, <2>1, <2>2 DEF Trouble
<1> QED
  BY <1>4, <1>5, <1>6, <1>7, <1>8, <1>9, <1>10, <1>11, <1>12, <1>13, <1>14 DEF Next

\* One fault is one restart: whatever could ask for a second restart is over
\* before the framework takes another request.
THEOREM RestartedOnce == SafeSpec => []OneRestartPerFault
<1>1. Init => RestartInv
  BY DEF Init, RestartInv, OneRestartPerFault, Trouble
<1>2. RestartInv => OneRestartPerFault
  BY DEF RestartInv
<1> QED BY <1>1, <1>2, TypeInit, TypeStep, RestartStep, PTL DEF SafeSpec

-----------------------------------------------------------------------------
\* What the lock's theorem needs of the fatal, the lock and the link: a fatal is
\* reported of a modem that is not up; the device notified is registered, or
\* lost since; the registered device's count is that of the one locker, who
\* still waits only on the registered device or a lost link.
LockFacts ==
  /\ \A t \in Threads : at[t] # "idle" => modem # "up"
  /\ \A t \in Threads : at[t] \in {"set", "block", "settle"} => pm.intf # 0 \/ bus.lost
  /\ \A t \in Threads : at[t] \in {"block", "settle"} => hist.fatal
  /\ pm.locks <= 1
  /\ lock = "free" /\ pm.udev => pm.locks = 0
  /\ lock \in {"spin", "fatal"} => pm.locks = 1 /\ (pm.udev \/ bus.lost)
  /\ bus.bound # {} => bus.present

LockFactsSame ==
  /\ at' = at /\ modem' = modem /\ lock' = lock
  /\ pm'.intf = pm.intf /\ pm'.udev = pm.udev /\ pm'.locks = pm.locks
  /\ bus'.present = bus.present /\ bus'.lost = bus.lost /\ bus'.bound = bus.bound
  /\ hist'.fatal = hist.fatal

\* The steps that leave all of it alone, and, the delayed start apart, the
\* device's references.
Elsewhere ==
  \/ Autosuspend \/ RpmCheck \/ RuntimeResume \/ RpmStart
  \/ SuspendClear \/ SuspendBlock \/ EhciSuspend \/ HostOffTest \/ HostOff
  \/ HostOffWait \/ WakeUp \/ HostOnTest \/ HostOn \/ HostOnWait \/ PostSuspend
  \/ L2Release \/ HostWake \/ LpaEnter \/ LpaWake \/ LpaDone \/ DeviceFollows
  \/ Restored \/ Halted \/ UNCHANGED vars

LEMMA LockSame ==
  ASSUME TypeInv, Elsewhere
  PROVE  /\ LockFactsSame
         /\ ~RpmStart => rt'.refs = rt.refs /\ rt'.auto = rt.auto
<1>0. /\ pm \in [intf : Int, udev : BOOLEAN, shutdown : BOOLEAN, block : BOOLEAN,
                  busy : BOOLEAN, locks : Nat]
      /\ hist \in [faults : Nat, restarts : Nat, blocked : BOOLEAN, want : BOOLEAN,
                    fatal : BOOLEAN]
      /\ rt \in [active : BOOLEAN, refs : Int, auto : BOOLEAN]
  BY DEF TypeInv, CountInv, PmType, HistType, RtType, RtSet
<1> USE DEF LockFactsSame, Elsewhere
<1>1. CASE Autosuspend \/ RpmCheck \/ RuntimeResume \/ RpmStart
  BY <1>0, <1>1 DEF Autosuspend, RpmCheck, RuntimeResume, RpmStart, Worked
<1>2. CASE SuspendClear \/ SuspendBlock \/ PostSuspend
  BY <1>0, <1>2 DEF SuspendClear, SuspendBlock, PostSuspend, Suspending, ClearBusy,
     BlockRequests
<1>3. CASE EhciSuspend \/ HostOffTest \/ HostOff \/ WakeUp \/ HostOnTest \/ HostOn
  BY <1>3 DEF EhciSuspend, HostOffTest, HostOff, WakeUp, HostOnTest, HostOn, Suspending
<1>4. CASE HostOffWait \/ HostOnWait \/ LpaEnter
  BY <1>0, <1>4 DEF HostOffWait, HostOnWait, LpaEnter, Suspending, Restarted, pmVars
<1>5. CASE HostWake
  BY <1>0, <1>5 DEF HostWake
<1>6. CASE L2Release \/ LpaWake \/ LpaDone \/ DeviceFollows \/ Restored \/ Halted \/ UNCHANGED vars
  BY <1>6 DEF L2Release, LpaWake, LpaDone, DeviceFollows, Restored, Halted, vars, Outside,
     pmVars
<1> QED BY <1>1, <1>2, <1>3, <1>4, <1>5, <1>6

LEMMA LockFactsStep == TypeInv /\ LockFacts /\ [Next]_vars => LockFacts'
<1> SUFFICES ASSUME TypeInv, LockFacts, [Next]_vars PROVE LockFacts'
  OBVIOUS
<1>0. /\ pm \in [intf : Int, udev : BOOLEAN, shutdown : BOOLEAN, block : BOOLEAN,
                  busy : BOOLEAN, locks : Nat]
      /\ hist \in [faults : Nat, restarts : Nat, blocked : BOOLEAN, want : BOOLEAN,
                    fatal : BOOLEAN]
      /\ BusType /\ AtType
      /\ (pm.udev <=> bus.bound # {}) /\ (pm.intf = 0 <=> bus.bound = {})
      /\ pm.intf >= 0
  <2>1. CountInv /\ HistType /\ AtType
    BY DEF TypeInv
  <2>2. IsFiniteSet(bus.bound)
    BY <2>1, IntfsFinite, FS_Subset DEF CountInv, BusType
  <2>3. (pm.intf = 0 <=> bus.bound = {}) /\ pm.intf >= 0
    BY <2>1, <2>2, FS_EmptySet, FS_CardinalityType DEF CountInv, CountsInterfaces
  <2> QED BY <2>1, <2>3 DEF CountInv, CountsInterfaces, PmType, HistType
<1> USE DEF LockFacts
<1>1. CASE LockFactsSame
  BY <1>1 DEF LockFactsSame
<1>2. CASE \E i \in Intfs : Probe(i) \/ Disconnect(i)
  <2>1. PICK i \in Intfs : Probe(i) \/ Disconnect(i)
    BY <1>2
  <2>2. CASE Probe(i)
    <3>1. /\ at' = at /\ modem' = modem /\ lock' = lock
          /\ bus.present /\ ~bus.lost /\ bus'.present /\ ~bus'.lost
      BY <2>2, <1>0 DEF Probe, BusType
    <3>2. hist'.fatal = (hist.fatal /\ pm.intf # 0)
      BY <2>2, <1>0 DEF Probe
    <3>3. CASE pm.intf = 0
      <4>1. pm' = RegisterNew(pm)
        BY <2>2, <3>3 DEF Probe, Register
      <4>2. pm'.locks = 0 /\ pm'.intf # 0
        BY <4>1 DEF RegisterNew
      <4>3. lock \notin {"spin", "fatal"}
        BY <1>0, <3>1, <3>3
      <4>4. \A t \in Threads : at[t] \notin {"set", "block", "settle"}
        BY <3>1, <3>3
      <4>5. lock' \notin {"spin", "fatal"} /\ \A t \in Threads : at'[t] \notin {"set", "block", "settle"}
        BY <3>1, <4>3, <4>4
      <4> QED BY <3>1, <4>2, <4>5
    <3>4. CASE pm.intf # 0
      <4>1. pm'.locks = pm.locks /\ pm'.udev = pm.udev /\ pm'.intf # 0
        BY <1>0, <2>2, <3>4 DEF Probe, Register
      <4>2. hist'.fatal = hist.fatal
        BY <1>0, <3>2, <3>4
      <4> QED BY <3>1, <3>4, <4>1, <4>2
    <3> QED BY <3>3, <3>4
  <2>3. CASE Disconnect(i)
    <3>1. /\ at' = at /\ modem' = modem /\ lock' = lock
          /\ bus.lost /\ bus'.lost /\ bus'.present = bus.present /\ bus.bound # {}
      BY <2>3, <1>0 DEF Disconnect, BusType
    <3>2. hist'.fatal = hist.fatal
      BY <2>3, <1>0 DEF Disconnect, Restarted
    <3>3. pm'.locks = pm.locks /\ (pm'.udev => pm.udev)
      BY <2>3, <1>0 DEF Disconnect, Unregister
    <3> QED BY <3>1, <3>2, <3>3
  <2> QED BY <2>1, <2>2, <2>3
<1>3. CASE \E t \in Threads : NotifyTest(t) \/ NotifySet(t) \/ NotifyHold(t)
                               \/ NotifyResume(t) \/ RequestRestart(t)
  <2>1. PICK t \in Threads : \/ NotifyTest(t) \/ NotifySet(t) \/ NotifyHold(t)
                             \/ NotifyResume(t) \/ RequestRestart(t)
    BY <1>3
  <2>2. /\ modem' = modem /\ lock' = lock /\ bus' = bus
        /\ pm'.intf = pm.intf /\ pm'.udev = pm.udev /\ pm'.locks = pm.locks
    BY <2>1, <1>0 DEF NotifyTest, NotifySet, NotifyHold, NotifyResume, RequestRestart,
       Notified
  <2>3. at[t] # "idle" /\ (\A u \in Threads : u # t => at'[u] = at[u])
    BY <2>1, <1>0 DEF NotifyTest, NotifySet, NotifyHold, NotifyResume, RequestRestart,
       Notified, AtType
  <2>4. hist'.fatal = (hist.fatal \/ NotifySet(t))
    BY <2>1, <1>0 DEF NotifyTest, NotifySet, NotifyHold, NotifyResume, RequestRestart,
       Restarted
  <2>5. /\ at'[t] \in {"set", "block", "settle"} => pm.intf # 0 \/ bus.lost
        /\ at'[t] \in {"block", "settle"} => hist'.fatal
    BY <2>1, <2>4, <1>0 DEF NotifyTest, NotifySet, NotifyHold, NotifyResume, RequestRestart,
       Notified, AtType
  <2> QED BY <2>2, <2>3, <2>4, <2>5
<1>4. CASE AutopmLock \/ AutopmGet \/ AutopmRelease
  <2>1. /\ at' = at /\ modem' = modem /\ bus' = bus /\ hist' = hist
        /\ pm'.intf = pm.intf /\ pm'.udev = pm.udev
    BY <1>0, <1>4 DEF AutopmLock, AutopmGet, AutopmRelease, Released
  <2>2. CASE AutopmLock
    BY <1>0, <2>1, <2>2 DEF AutopmLock
  <2>3. CASE AutopmGet
    BY <1>0, <2>1, <2>3 DEF AutopmGet
  <2>4. CASE AutopmRelease
    BY <1>0, <2>1, <2>4 DEF AutopmRelease, Released
  <2> QED BY <1>4, <2>2, <2>3, <2>4
<1>5. CASE AutopmStuck
  BY <1>0, <1>5 DEF AutopmStuck, AtType
<1>6. CASE SilentReset
  <2>1. /\ at' = at /\ modem' = modem /\ bus' = bus /\ lock' = lock
        /\ pm'.intf = pm.intf /\ pm'.udev = pm.udev /\ pm'.locks = pm.locks
        /\ \A t \in Threads : at[t] = "idle"
    BY <1>0, <1>6 DEF SilentReset
  <2> QED BY <2>1
<1>7. CASE Enumerate \/ DeviceGone
  BY <1>0, <1>7 DEF Enumerate, DeviceGone, BusType
<1>8. CASE LinkFails \/ LinkDrops
  BY <1>0, <1>8 DEF LinkFails, LinkDrops, Fault, Outside, BusType
<1>9. CASE PowerOff \/ PowerOn
  BY <1>0, <1>9 DEF PowerOff, PowerOn, Outside, BusType
<1>10. CASE \E heard \in (SUBSET Reporters) \ {{}} : Dies(heard)
  BY <1>0, <1>10 DEF Dies, Fault, Outside
<1>20. CASE Elsewhere
  BY <1>1, <1>20, LockSame
<1> QED
  BY <1>2, <1>3, <1>4, <1>5, <1>6, <1>7, <1>8, <1>9, <1>10, <1>20 DEF Next, Elsewhere

\* What is owed on the device: a reference of the forbidden autosuspend, and one
\* of the user who holds the lock on the device registered.
OneIf(b) == IF b THEN 1 ELSE 0
UserHolds == pm.udev /\ pm.locks > 0 /\ lock \notin {"spin", "fatal"}
Owed == OneIf(~rt.auto) + OneIf(UserHolds)

\* Where the references are exactly what is owed: no fatal was notified of the
\* modem on this device, and the device was not unregistered under a user who
\* holds the lock.
Exact ==
  /\ bus.present
  /\ modem = "up" \/ ~hist.fatal \/ (pm.intf = 0 /\ ~bus.lost)
  /\ pm.udev \/ pm.locks = 0 \/ ~bus.lost

RefsInv ==
  /\ rt.refs >= Owed
  /\ Exact => rt.refs = Owed

LockInv == TypeInv /\ LockFacts /\ RefsInv

LEMMA RefsStep == LockInv /\ [Next]_vars => RefsInv'
<1> SUFFICES ASSUME LockInv, [Next]_vars PROVE RefsInv'
  OBVIOUS
<1>0. /\ pm \in [intf : Int, udev : BOOLEAN, shutdown : BOOLEAN, block : BOOLEAN,
                  busy : BOOLEAN, locks : Nat]
      /\ hist \in [faults : Nat, restarts : Nat, blocked : BOOLEAN, want : BOOLEAN,
                    fatal : BOOLEAN]
      /\ BusType /\ AtType /\ LockFacts
      /\ rt \in RtSet /\ rt.refs \in Int /\ rt.auto \in BOOLEAN
      /\ (pm.udev <=> bus.bound # {}) /\ (pm.intf = 0 <=> bus.bound = {})
      /\ pm.intf >= 0
  <2>1. CountInv /\ HistType /\ AtType /\ RtType
    BY DEF LockInv, TypeInv
  <2>2. IsFiniteSet(bus.bound)
    BY <2>1, IntfsFinite, FS_Subset DEF CountInv, BusType
  <2>3. (pm.intf = 0 <=> bus.bound = {}) /\ pm.intf >= 0
    BY <2>1, <2>2, FS_EmptySet, FS_CardinalityType DEF CountInv, CountsInterfaces
  <2>4. rt.refs \in Int /\ rt.auto \in BOOLEAN
    BY <2>1 DEF RtType, RtSet
  <2> QED BY <2>1, <2>3, <2>4 DEF CountInv, CountsInterfaces, PmType, HistType, LockInv, RtType
<1>i. RefsInv
  BY DEF LockInv
<1> USE <1>i DEF RefsInv, Owed, OneIf, UserHolds, Exact
<1>1. CASE LockFactsSame /\ rt'.refs = rt.refs /\ rt'.auto = rt.auto
  BY <1>1 DEF LockFactsSame
<1>2. CASE \E i \in Intfs : Probe(i) \/ Disconnect(i)
  <2>1. PICK i \in Intfs : Probe(i) \/ Disconnect(i)
    BY <1>2
  <2>2. CASE Probe(i)
    <3>1. /\ modem' = modem /\ lock' = lock
          /\ bus.present /\ ~bus.lost /\ bus'.present /\ ~bus'.lost
      BY <2>2, <1>0 DEF Probe, BusType
    <3>2. hist'.fatal = (hist.fatal /\ pm.intf # 0)
      BY <2>2, <1>0 DEF Probe
    <3>3. CASE pm.intf = 0
      <4>1. pm' = RegisterNew(pm) /\ rt' = Forbid(rt)
        BY <2>2, <3>3 DEF Probe, Register
      <4>2. pm'.locks = 0
        BY <4>1 DEF RegisterNew
      <4>3. rt'.refs = (IF rt.auto THEN rt.refs + 1 ELSE rt.refs) /\ ~rt'.auto
        BY <1>0, <4>1, RtChanged
      <4>4. rt.refs = OneIf(~rt.auto)
        BY <1>0, <3>1, <3>3
      <4> QED BY <1>0, <4>2, <4>3, <4>4
    <3>4. CASE pm.intf # 0
      <4>1. /\ pm'.locks = pm.locks /\ pm'.udev = pm.udev /\ pm'.intf # 0
            /\ rt' = rt
        BY <1>0, <2>2, <3>4 DEF Probe, Register
      <4>2. hist'.fatal = hist.fatal
        BY <1>0, <3>2, <3>4
      <4> QED BY <1>0, <3>1, <3>4, <4>1, <4>2
    <3> QED BY <3>3, <3>4
  <2>3. CASE Disconnect(i)
    <3>1. /\ modem' = modem /\ lock' = lock /\ rt' = rt
          /\ bus.lost /\ bus'.lost /\ bus'.present = bus.present
      BY <2>3, <1>0 DEF Disconnect, BusType
    <3>2. hist'.fatal = hist.fatal
      BY <2>3, <1>0 DEF Disconnect, Restarted
    <3>3. pm'.locks = pm.locks /\ (pm'.udev => pm.udev)
      BY <2>3, <1>0 DEF Disconnect, Unregister
    <3> QED BY <1>0, <3>1, <3>2, <3>3
  <2> QED BY <2>1, <2>2, <2>3
<1>3. CASE \E t \in Threads : NotifyTest(t) \/ RequestRestart(t)
  <2>1. PICK t \in Threads : NotifyTest(t) \/ RequestRestart(t)
    BY <1>3
  <2>2. /\ rt' = rt /\ pm' = pm /\ bus' = bus /\ modem' = modem /\ lock' = lock
    BY <2>1 DEF NotifyTest, RequestRestart, Notified
  <2>3. hist'.fatal = hist.fatal
    BY <1>0, <2>1 DEF NotifyTest, RequestRestart, Restarted
  <2> QED BY <2>2, <2>3
<1>4. CASE \E t \in Threads : NotifySet(t) \/ NotifyHold(t) \/ NotifyResume(t)
  <2>1. PICK t \in Threads : NotifySet(t) \/ NotifyHold(t) \/ NotifyResume(t)
    BY <1>4
  <2>2. /\ bus' = bus /\ modem' = modem /\ lock' = lock
        /\ pm'.intf = pm.intf /\ pm'.udev = pm.udev /\ pm'.locks = pm.locks
    BY <2>1, <1>0 DEF NotifySet, NotifyHold, NotifyResume, Notified
  <2>3. modem # "up" /\ (pm.intf # 0 \/ bus.lost)
    BY <2>1, <1>0 DEF NotifySet, NotifyHold, NotifyResume, LockFacts
  <2>4. hist'.fatal
    BY <2>1, <1>0 DEF NotifySet, NotifyHold, NotifyResume, LockFacts
  <2>5. ~Exact'
    BY <2>2, <2>3, <2>4
  <2>6. rt'.auto = rt.auto /\ (rt'.refs = rt.refs \/ rt'.refs = rt.refs + 1)
    <3>1. CASE rt' = rt \/ rt' = GetNoResume(rt)
      BY <1>0, <3>1, RtChanged
    <3>2. CASE NotifyResume(t)
      BY <1>0, <3>2 DEF NotifyResume, GetNoResume, RtSet
    <3> QED BY <2>1, <3>1, <3>2 DEF NotifySet, NotifyHold
  <2> QED BY <1>0, <2>2, <2>5, <2>6
<1>5. CASE AutopmLock \/ AutopmStuck
  <2>1. /\ rt' = rt /\ modem' = modem /\ bus' = bus /\ hist' = hist
        /\ pm'.intf = pm.intf /\ pm'.udev = pm.udev
        /\ ~UserHolds /\ ~UserHolds'
        /\ Exact' => Exact
    BY <1>0, <1>5 DEF AutopmLock, AutopmStuck, LockFacts
  <2> QED BY <2>1
<1>6. CASE AutopmGet
  <2>1. modem' = modem /\ bus' = bus /\ hist' = hist /\ pm' = pm
    BY <1>6 DEF AutopmGet
  <2>2. CASE ~pm.udev
    BY <1>6, <2>1, <2>2 DEF AutopmGet
  <2>3. CASE pm.udev
    <3>1. rt' = Forbid(Get(rt)) /\ lock' = "held" /\ lock \in {"spin", "fatal"} /\ pm.locks = 1
      BY <1>0, <1>6, <2>3 DEF AutopmGet, Held, LockFacts
    <3>2. /\ rt'.refs = (IF rt.auto THEN rt.refs + 2 ELSE rt.refs + 1)
          /\ ~rt'.auto
      BY <1>0, <3>1, RtChanged
    <3>3. Exact' <=> Exact
      BY <2>1
    <3> QED BY <1>0, <2>1, <2>3, <3>1, <3>2, <3>3
  <2> QED BY <2>2, <2>3
<1>7. CASE AutopmRelease
  <2>1. modem' = modem /\ bus' = bus /\ hist' = hist /\ lock = "held" /\ lock' = "free"
    BY <1>7 DEF AutopmRelease
  <2>2. CASE pm.udev /\ pm.locks = 1
    <3>1. pm'.intf = pm.intf /\ pm'.udev /\ pm'.locks = 0 /\ rt' = Put(Allow(rt))
      BY <1>0, <1>7, <2>2 DEF AutopmRelease, Released
    <3>2. /\ rt'.refs = (IF rt.auto THEN rt.refs - 1 ELSE rt.refs - 2)
          /\ rt'.auto
      BY <1>0, <3>1, RtChanged
    <3>3. Exact' => Exact
      BY <2>1, <2>2, <3>1
    <3> QED BY <1>0, <2>1, <2>2, <3>1, <3>2, <3>3
  <2>3. CASE ~(pm.udev /\ pm.locks = 1)
    <3>1. pm' = pm /\ rt' = rt
      BY <1>0, <1>7, <2>3 DEF AutopmRelease, Released, LockFacts
    <3> QED BY <1>0, <2>1, <3>1
  <2> QED BY <2>2, <2>3
<1>8. CASE RpmStart
  <2>1. LockFactsSame
    BY <1>8, LockSame DEF LockInv, Elsewhere
  <2>2. CASE rt' = rt
    BY <1>1, <2>1, <2>2
  <2>3. CASE rt' = Allow(rt)
    <3>1. rt'.auto /\ rt'.refs = (IF rt.auto THEN rt.refs ELSE rt.refs - 1)
      BY <1>0, <2>3, RtChanged
    <3> QED BY <1>0, <2>1, <3>1 DEF LockFactsSame
  <2> QED BY <1>8, <2>2, <2>3 DEF RpmStart
<1>9. CASE Enumerate
  <2>1. rt'.refs = 1 /\ ~rt'.auto /\ pm' = pm /\ ~pm.udev
    BY <1>0, <1>9 DEF Enumerate, NewDevice, LockFacts
  <2> QED BY <2>1
<1>10. CASE DeviceGone \/ PowerOn
  <2>1. rt' = rt /\ pm' = pm /\ lock' = lock /\ ~bus'.present
    BY <1>0, <1>10 DEF DeviceGone, PowerOn, Outside, BusType
  <2> QED BY <2>1
<1>11. CASE SilentReset
  <2>1. /\ rt' = rt /\ bus' = bus /\ lock' = lock /\ modem' = modem /\ modem = "up"
        /\ pm'.intf = pm.intf /\ pm'.udev = pm.udev /\ pm'.locks = pm.locks
    BY <1>0, <1>11 DEF SilentReset
  <2> QED BY <2>1
<1>12. CASE LinkFails \/ LinkDrops \/ PowerOff \/ \E heard \in (SUBSET Reporters) \ {{}} : Dies(heard)
  <2>1. /\ rt' = rt /\ pm' = pm /\ lock' = lock /\ hist'.fatal = hist.fatal
        /\ bus'.present = bus.present
    BY <1>0, <1>12 DEF LinkFails, LinkDrops, PowerOff, Dies, Fault, Outside, BusType
  <2>2. /\ bus.lost => bus'.lost
        /\ modem' = "up" => modem = "up"
    BY <1>0, <1>12 DEF LinkFails, LinkDrops, PowerOff, Dies, Outside, BusType
  <2> QED BY <2>1, <2>2
<1>13. CASE Elsewhere /\ ~RpmStart
  BY <1>1, <1>13, LockSame DEF LockInv
<1> QED
  BY <1>2, <1>3, <1>4, <1>5, <1>6, <1>7, <1>8, <1>9, <1>10, <1>11, <1>12, <1>13
  DEF LockInv, Next, Elsewhere

\* A user who holds the autopm lock keeps the registered device from suspending,
\* and the references balance: they are never fewer than what is owed, and are
\* exactly that wherever no fatal was notified.
THEOREM LockHolds == SafeSpec => []LockHoldsDevice
<1>1. Init => LockFacts /\ RefsInv
  BY DEF Init, LockFacts, RefsInv, Owed, OneIf, UserHolds, Exact, NewDevice
<1>2. Init => LockInv
  BY <1>1, TypeInit DEF LockInv
<1>3. LockInv /\ [Next]_vars => LockInv'
  BY TypeStep, LockFactsStep, RefsStep DEF LockInv
<1>4. LockInv => LockHoldsDevice
  <2> SUFFICES ASSUME LockInv PROVE LockHoldsDevice
    OBVIOUS
  <2>1. rt.refs \in Int /\ RefsInv
    BY DEF LockInv, TypeInv, RtType, RtSet
  <2> QED BY <2>1 DEF LockHoldsDevice, RefsInv, Owed, OneIf, UserHolds, Exact
<1> QED BY <1>2, <1>3, <1>4, PTL DEF SafeSpec

-----------------------------------------------------------------------------
\* What HostWakeServed and LinkComesBack leave to be done has been ordered.

\* A host wake that is not answered has its resume queued, or falls into a suspend
\* whose end queues it; the device is not in shutdown, where none is made up for.
WakeOrdered == hist.want => ~pm.shutdown /\ ("resume" \in works \/ pm.block)

LEMMA WakeStep == TypeInv /\ WakeOrdered /\ [Next]_vars => WakeOrdered'
<1> SUFFICES ASSUME TypeInv, WakeOrdered, [Next]_vars PROVE WakeOrdered'
  OBVIOUS
<1>1. PmType /\ HistType /\ FlagType
  BY DEF TypeInv, CountInv
<1> USE DEF WakeOrdered
<1>2. CASE /\ hist'.want => hist.want
           /\ pm'.shutdown => pm.shutdown
           /\ pm.block => pm'.block \/ "resume" \in works'
           /\ "resume" \in works => "resume" \in works'
  BY <1>2
<1>3. CASE hist'.want = FALSE
  BY <1>3
<1>4. CASE \E i \in Intfs : Probe(i)
  <2>1. PICK i \in Intfs : Probe(i)
    BY <1>4
  <2>2. hist'.want = hist.want /\ works \subseteq works' /\ pm' = Register(pm)
    BY <2>1, <1>1 DEF Probe, HistType
  <2>3. (pm'.shutdown => pm.shutdown) /\ pm'.block = pm.block
    BY <2>2, <1>1 DEF Register, RegisterNew, PmType
  <2> QED BY <1>2, <2>2, <2>3
<1>5. CASE \E i \in Intfs : Disconnect(i)
  <2>1. (Restarted \/ hist' = hist) /\ works' = works
    BY <1>5 DEF Disconnect
  <2>2. pm'.shutdown = pm.shutdown /\ pm'.block = pm.block
    BY <1>5 DEF Disconnect, Unregister
  <2>3. hist'.want = hist.want
    BY <2>1, <1>1 DEF Restarted, HistType
  <2> QED BY <1>2, <2>1, <2>2, <2>3
<1>6. CASE DeviceGone \/ SilentReset \/ RuntimeResume \/ \E t \in Threads : NotifySet(t)
  <2>1. CASE DeviceGone \/ RuntimeResume
    BY <2>1, <1>1, <1>3 DEF DeviceGone, RuntimeResume, HistType
  <2>2. CASE SilentReset
    BY <2>2, <1>3 DEF SilentReset
  <2>3. CASE \E t \in Threads : NotifySet(t)
    <3>1. hist' = [hist EXCEPT !.fatal = TRUE, !.want = FALSE]
      BY <2>3 DEF NotifySet
    <3> QED BY <3>1, <1>1, <1>3 DEF HistType
  <2> QED BY <1>6, <2>1, <2>2, <2>3
<1>7. CASE RpmCheck
  <2>1. hist'.want = FALSE
    BY <1>7, <1>1 DEF RpmCheck, HistType
  <2> QED BY <1>3, <2>1
<1>8. CASE AutopmLock \/ AutopmRelease \/ RpmStart \/ SuspendClear \/ SuspendBlock
  <2>1. hist'.want = hist.want
    BY <1>8, <1>1 DEF AutopmLock, AutopmRelease, RpmStart, SuspendClear, SuspendBlock, HistType
  <2>2. (pm'.shutdown => pm.shutdown) /\ (pm.block => pm'.block)
    BY <1>8, <1>1 DEF AutopmLock, AutopmRelease, Released, RpmStart, SuspendClear, ClearBusy,
       SuspendBlock, BlockRequests, PmType
  <2>3. "resume" \in works => "resume" \in works'
    BY <1>8 DEF AutopmLock, AutopmRelease, RpmStart, SuspendClear, SuspendBlock
  <2> QED BY <1>2, <2>1, <2>2, <2>3
<1>9. CASE PostSuspend
  <2>1. hist' = hist /\ pm'.shutdown = pm.shutdown
    BY <1>9, <1>1 DEF PostSuspend, PmType
  <2>2. ~pm.shutdown => "resume" \in works'
    BY <1>9 DEF PostSuspend, Catchup
  <2> QED BY <2>1, <2>2
<1>10. CASE HostWake
  <2>1. pm'.shutdown = pm.shutdown /\ pm'.block = pm.block /\ ~pm.shutdown
    BY <1>10, <1>1 DEF HostWake, PmType
  <2>2. ~pm.block => "resume" \in works'
    BY <1>10 DEF HostWake
  <2> QED BY <2>1, <2>2
<1>11. CASE LinkFails \/ \E heard \in (SUBSET Reporters) \ {{}} : Dies(heard)
  <2>1. hist'.want = hist.want
    BY <1>11, <1>1 DEF LinkFails, Dies, Fault, HistType
  <2>2. pm' = pm /\ works' = works
    BY <1>11 DEF LinkFails, Dies, Outside
  <2> QED BY <1>2, <2>1, <2>2
<1>12. CASE \/ LpaEnter \/ HostOffWait \/ HostOnWait
            \/ \E t \in Threads : RequestRestart(t)
  <2>1. Restarted \/ hist' = hist
    BY <1>12 DEF LpaEnter, HostOffWait, HostOnWait, RequestRestart
  <2>2. pm' = pm /\ works' = works
    BY <1>12 DEF LpaEnter, HostOffWait, HostOnWait, RequestRestart, Notified, Suspending,
       pmVars
  <2>3. hist'.want = hist.want
    BY <2>1, <1>1 DEF Restarted, HistType
  <2> QED BY <1>2, <2>2, <2>3
<1>13. CASE \/ Autosuspend \/ Enumerate \/ AutopmStuck \/ AutopmGet \/ EhciSuspend
            \/ HostOffTest \/ HostOff \/ WakeUp \/ HostOnTest \/ HostOn \/ L2Release
            \/ LpaWake \/ LpaDone \/ DeviceFollows \/ LinkDrops \/ PowerOff \/ PowerOn
            \/ Restored \/ Halted \/ UNCHANGED vars
            \/ \E t \in Threads : NotifyTest(t) \/ NotifyHold(t) \/ NotifyResume(t)
  <2>1. pm' = pm /\ works' = works /\ hist' = hist
    BY <1>13 DEF Autosuspend, Enumerate, AutopmStuck, AutopmGet, EhciSuspend, HostOffTest,
       HostOff, WakeUp, HostOnTest, HostOn, L2Release, LpaWake, LpaDone, DeviceFollows,
       LinkDrops, PowerOff, PowerOn, Restored, Halted, vars, NotifyTest, NotifyHold,
       NotifyResume, Notified, Outside, pmVars
  <2> QED BY <1>2, <2>1
<1> QED
  BY <1>4, <1>5, <1>6, <1>7, <1>8, <1>9, <1>10, <1>11, <1>12, <1>13 DEF Next

\* No host wake is lost: whatever suspends, works and registrations come in between,
\* one that is not answered has its work queued or will be caught up after the
\* suspend (mdm_hsic_irq_handler, PM_POST_SUSPEND's "for the lost request").
THEOREM WakeKept == SafeSpec => []WakeOrdered
<1>1. Init => WakeOrdered
  BY DEF Init, WakeOrdered
<1> QED BY <1>1, WakeStep, TypeInit, TypeStep, PTL DEF SafeSpec

\* A thread reports a fatal.
Reporting == \E t \in Threads : at[t] # "idle"

\* Interfaces are bound only of a device that is present, and one that is in
\* shutdown is being restarted, or about to be.
BoundFacts ==
  /\ bus.bound # {} => bus.present
  /\ pm.shutdown /\ bus.bound # {} => ssr \in {"down", "panic"} \/ Reporting

\* A link or a modem that is gone while no restart is under way has somebody to ask
\* for one: a thread that reports the fatal, or the registered device, whose last
\* disconnect forces one as nobody announced it.
LinkWatched ==
  ssr = "idle" /\ (bus.lost \/ modem # "up")
  => Reporting \/ (bus.bound # {} /\ ~pm.shutdown)

WatchInv == TypeInv /\ RestartInv /\ BoundFacts /\ LinkWatched

\* Steps that can only add a restart or a reporter keep the watch.
LEMMA WatchKept ==
  ASSUME WatchInv, bus'.bound = bus.bound, bus'.present = bus.present,
         bus'.lost = bus.lost, modem' = modem, pm'.shutdown => pm.shutdown,
         Reporting => Reporting', ssr' = ssr \/ ssr' \in {"down", "panic"}
  PROVE  BoundFacts' /\ LinkWatched'
BY DEF WatchInv, BoundFacts, LinkWatched

LEMMA WatchKhubd ==
  ASSUME WatchInv,
         Enumerate \/ DeviceGone \/ \E i \in Intfs : Probe(i) \/ Disconnect(i)
  PROVE  BoundFacts' /\ LinkWatched'
<1>1. PmType /\ BusType /\ CountsInterfaces
  BY DEF WatchInv, TypeInv, CountInv
<1> USE DEF WatchInv, BoundFacts, LinkWatched, Reporting
<1>2. CASE Enumerate \/ DeviceGone
  <2>1. pm' = pm /\ at' = at /\ ssr' = ssr /\ modem' = modem
    BY <1>2 DEF Enumerate, DeviceGone
  <2>2. bus'.bound = bus.bound /\ bus'.lost = bus.lost /\ (bus.bound # {} => bus'.present)
    BY <1>2, <1>1 DEF Enumerate, DeviceGone, BusType
  <2> QED BY <2>1, <2>2
<1>3. ASSUME NEW i \in Intfs, Probe(i) PROVE BoundFacts' /\ LinkWatched'
  <2>1. at' = at /\ ssr' = ssr /\ modem' = modem /\ pm' = Register(pm)
    BY <1>3 DEF Probe
  <2>2. /\ bus'.lost = bus.lost /\ ~bus.lost /\ bus'.present /\ bus'.bound # {}
        /\ bus.bound \subseteq bus'.bound
    BY <1>3, <1>1 DEF Probe, BusType
  <2>3. (bus.bound = {} => ~pm'.shutdown) /\ (pm'.shutdown => pm.shutdown)
    <3>1. bus.bound = {} => pm.intf = 0
      BY <1>1, FS_EmptySet DEF CountsInterfaces
    <3>2. CASE pm.intf = 0
      BY <2>1, <3>2 DEF Register, RegisterNew
    <3>3. CASE pm.intf # 0
      BY <2>1, <3>1, <3>3, <1>1 DEF Register, PmType
    <3> QED BY <3>2, <3>3
  <2> QED BY <2>1, <2>2, <2>3
<1>4. ASSUME NEW i \in Intfs, Disconnect(i) PROVE BoundFacts' /\ LinkWatched'
  <2>1. at' = at /\ modem' = modem /\ bus.lost /\ pm'.shutdown = pm.shutdown
    BY <1>4 DEF Disconnect, Unregister
  <2>2. /\ bus'.lost = bus.lost /\ bus'.present = bus.present
        /\ bus'.bound = bus.bound \ {i} /\ i \in bus.bound
    BY <1>4, <1>1 DEF Disconnect, BusType
  <2>3. ssr' = ssr \/ ssr' = "down"
    BY <1>4 DEF Disconnect, Restarted
  <2>4. CASE bus'.bound # {}
    BY <2>1, <2>2, <2>3, <2>4
  <2>5. CASE bus'.bound = {}
    <3>1. pm.intf = 1
      <4>1. bus.bound = {i}
        BY <2>2, <2>5
      <4> QED BY <4>1, <1>1, FS_Singleton DEF CountsInterfaces
    <3>2. ~pm.shutdown => ssr' # "idle"
      BY <1>4, <3>1 DEF Disconnect, LostUnannounced, Restarted
    <3> QED BY <2>1, <2>2, <2>3, <2>5, <3>2
  <2> QED BY <2>4, <2>5
<1> QED BY <1>2, <1>3, <1>4

LEMMA WatchReport ==
  ASSUME WatchInv, NEW t \in Threads,
         NotifyTest(t) \/ NotifySet(t) \/ NotifyHold(t) \/ NotifyResume(t) \/ RequestRestart(t)
  PROVE  BoundFacts' /\ LinkWatched'
<1>1. at \in [Threads -> {"idle", "told", "set", "block", "settle", "request"}]
  BY DEF WatchInv, TypeInv, AtType
<1>2. bus' = bus /\ modem' = modem
  BY DEF NotifyTest, NotifySet, NotifyHold, NotifyResume, RequestRestart, Notified
<1> USE DEF WatchInv, BoundFacts, LinkWatched, Reporting
<1>3. CASE RequestRestart(t)
  <2>1. ssr # "idle" => ssr' = ssr
    BY <1>3 DEF RequestRestart, Restarted
  <2>2. ssr = "idle" => ssr' = "down"
    BY <1>3 DEF RequestRestart, Restarted
  <2>3. ssr # "up"
    BY <1>3 DEF RequestRestart, RestartInv, Trouble
  <2>4. ssr \in {"idle", "down", "up", "panic"}
    BY DEF TypeInv, FlagType
  <2> QED BY <1>2, <2>1, <2>2, <2>3, <2>4
<1>4. CASE NotifyTest(t) \/ NotifySet(t) \/ NotifyHold(t) \/ NotifyResume(t)
  <2>1. at'[t] # "idle"
    BY <1>1, <1>4 DEF NotifyTest, NotifySet, NotifyHold, NotifyResume, Notified
  <2>2. Reporting'
    BY <2>1
  <2> QED BY <1>2, <2>2
<1> QED BY <1>3, <1>4

LEMMA WatchFault ==
  ASSUME WatchInv,
         \/ SilentReset \/ LinkFails \/ LinkDrops \/ PowerOff \/ PowerOn \/ Restored
         \/ AutopmStuck \/ \E heard \in (SUBSET Reporters) \ {{}} : Dies(heard)
  PROVE  BoundFacts' /\ LinkWatched'
<1>1. BusType /\ AtType /\ PmType
  BY DEF WatchInv, TypeInv, CountInv
<1> USE DEF WatchInv, BoundFacts, LinkWatched, Reporting
<1>2. CASE SilentReset
  <2>1. ssr' = "down" /\ bus' = bus
    BY <1>2 DEF SilentReset
  <2> QED BY <2>1
<1>3. CASE LinkFails
  <2>1. /\ pm' = pm /\ ssr' = ssr /\ at' = at /\ modem' = modem
        /\ ssr = "idle" /\ bus.bound = Intfs /\ ~Reporting
    BY <1>3 DEF LinkFails, Outside
  <2>2. bus'.bound = bus.bound /\ bus'.present = bus.present
    BY <1>1, <1>3 DEF LinkFails, BusType
  <2> QED BY <2>1, <2>2, IntfsFinite
<1>4. CASE LinkDrops
  <2>1. pm' = pm /\ ssr' = ssr /\ at' = at /\ modem' = modem /\ modem # "up"
    BY <1>4 DEF LinkDrops, Outside
  <2>2. bus'.bound = bus.bound /\ bus'.present = bus.present
    BY <1>1, <1>4 DEF LinkDrops, BusType
  <2> QED BY <2>1, <2>2
<1>5. CASE PowerOff
  BY <1>5 DEF PowerOff, Outside
<1>6. CASE PowerOn
  <2>1. pm' = pm /\ ssr' = "up" /\ ~bus.present
    BY <1>6 DEF PowerOn, Outside
  <2>2. bus'.bound = bus.bound /\ bus'.present = bus.present
    BY <1>1, <1>6 DEF PowerOn, BusType
  <2> QED BY <2>1, <2>2
<1>7. CASE Restored
  <2>1. pm' = pm /\ ssr = "up" /\ bus' = bus /\ modem' = modem /\ at' = at
    BY <1>7 DEF Restored, Outside
  <2>2. ~Trouble
    BY <2>1 DEF RestartInv
  <2> QED BY <2>1, <2>2 DEF Trouble
<1>8. CASE AutopmStuck
  <2>1. at'[User] # "idle" /\ User \in Threads
    BY <1>1, <1>8 DEF AutopmStuck, AtType, Threads
  <2>2. pm' = pm /\ bus' = bus
    BY <1>8 DEF AutopmStuck
  <2> QED BY <2>1, <2>2
<1>9. CASE \E heard \in (SUBSET Reporters) \ {{}} : Dies(heard)
  <2>1. PICK heard \in (SUBSET Reporters) \ {{}} : Dies(heard)
    BY <1>9
  <2>2. PICK t \in heard : t \in Threads
    <3>1. heard # {} /\ heard \subseteq Threads
      BY <2>1 DEF Threads
    <3> QED BY <3>1
  <2>3. at'[t] = "told"
    BY <2>1, <2>2 DEF Dies
  <2>4. pm' = pm /\ bus' = bus
    BY <2>1 DEF Dies, Outside
  <2> QED BY <2>2, <2>3, <2>4
<1> QED BY <1>2, <1>3, <1>4, <1>5, <1>6, <1>7, <1>8, <1>9

LEMMA WatchStep == WatchInv /\ [Next]_vars => WatchInv'
<1> SUFFICES ASSUME WatchInv, [Next]_vars PROVE BoundFacts' /\ LinkWatched'
  BY TypeStep, RestartStep DEF WatchInv
<1>1. PmType
  BY DEF WatchInv, TypeInv, CountInv
<1>2. CASE \/ Autosuspend \/ AutopmGet \/ AutopmLock \/ AutopmRelease \/ RpmStart \/ RpmCheck
           \/ RuntimeResume
  <2>1. bus' = bus /\ at' = at /\ modem' = modem
    BY <1>2 DEF Autosuspend, AutopmGet, AutopmLock, AutopmRelease, RpmStart, RpmCheck,
       RuntimeResume, Worked
  <2>2. pm'.shutdown => pm.shutdown
    <3>1. CASE Autosuspend \/ AutopmGet \/ RpmCheck \/ RuntimeResume
      BY <3>1 DEF Autosuspend, AutopmGet, RpmCheck, RuntimeResume
    <3>2. CASE AutopmLock
      BY <1>1, <3>2 DEF AutopmLock, PmType
    <3>3. CASE AutopmRelease
      BY <1>1, <3>3 DEF AutopmRelease, Released, PmType
    <3>4. CASE RpmStart
      BY <1>1, <3>4 DEF RpmStart, PmType
    <3> QED BY <1>2, <3>1, <3>2, <3>3, <3>4
  <2>3. ssr' = ssr \/ ssr' = "panic"
    BY <1>2 DEF Autosuspend, AutopmGet, AutopmLock, AutopmRelease, RpmStart, RpmCheck,
       RuntimeResume, Worked
  <2> QED BY <2>1, <2>2, <2>3, WatchKept DEF Reporting
<1>3. CASE \/ SuspendClear \/ SuspendBlock \/ EhciSuspend \/ HostOffTest \/ HostOff
           \/ HostOffWait \/ WakeUp \/ HostOnTest \/ HostOn \/ HostOnWait \/ PostSuspend
  <2>1. bus' = bus /\ at' = at /\ modem' = modem
    BY <1>3 DEF SuspendClear, SuspendBlock, EhciSuspend, HostOffTest, HostOff, HostOffWait,
       WakeUp, HostOnTest, HostOn, HostOnWait, PostSuspend, Suspending
  <2>2. pm'.shutdown = pm.shutdown
    BY <1>1, <1>3 DEF SuspendClear, ClearBusy, SuspendBlock, BlockRequests, EhciSuspend,
       HostOffTest, HostOff, HostOffWait, WakeUp, HostOnTest, HostOn, HostOnWait, PostSuspend,
       PmType
  <2>3. ssr' = ssr \/ Restarted
    BY <1>3 DEF SuspendClear, SuspendBlock, EhciSuspend, HostOffTest, HostOff, HostOffWait,
       WakeUp, HostOnTest, HostOn, HostOnWait, PostSuspend
  <2> QED BY <2>1, <2>2, <2>3, WatchKept DEF Reporting, Restarted
<1>4. CASE \/ L2Release \/ HostWake \/ LpaEnter \/ LpaWake \/ LpaDone \/ DeviceFollows
           \/ Halted \/ UNCHANGED vars
  <2>1. bus' = bus /\ at' = at /\ modem' = modem
    BY <1>4 DEF L2Release, HostWake, LpaEnter, LpaWake, LpaDone, DeviceFollows, Halted, vars,
       pmVars
  <2>2. pm'.shutdown = pm.shutdown
    BY <1>1, <1>4 DEF L2Release, HostWake, LpaEnter, LpaWake, LpaDone, DeviceFollows, Halted,
       vars, pmVars, PmType
  <2>3. ssr' = ssr \/ Restarted
    BY <1>4 DEF L2Release, HostWake, LpaEnter, LpaWake, LpaDone, DeviceFollows, Halted, vars
  <2> QED BY <2>1, <2>2, <2>3, WatchKept DEF Reporting, Restarted
<1> QED
  BY <1>2, <1>3, <1>4, WatchKhubd, WatchReport, WatchFault DEF Next

\* No loss of the link goes unnoticed: whatever flags the reporters, khubd and the
\* restart set meanwhile, while the link is lost or the modem down a restart is
\* under way, or somebody is on the way to ask for one (notify_modem_fatal,
\* unregister_udev_from_pm_dev's mdm_force_fatal).
THEOREM LossNoticed == SafeSpec => []LinkWatched
<1>1. Init => WatchInv
  BY TypeInit DEF Init, WatchInv, RestartInv, OneRestartPerFault, Trouble, BoundFacts,
     LinkWatched
<1>2. WatchInv => LinkWatched
  BY DEF WatchInv
<1> QED BY <1>1, <1>2, WatchStep, PTL DEF SafeSpec
=============================================================================
