--------------------------- MODULE HsicBusProofs ---------------------------
(***************************************************************************)
(* Theorems about HsicBus, for every set of writers and buffers, every     *)
(* number of operations and every format: the composition adds no step to  *)
(* either part, and the promises of the parts.                             *)
(***************************************************************************)
EXTENDS HsicBus, TLAPS

-----------------------------------------------------------------------------
(***************************************************************************)
(* The composition.                                                        *)
(***************************************************************************)
LEMMA ControllerSteps == Controller => Next /\ UNCHANGED sipcVars
<1> SUFFICES ASSUME Controller PROVE Next /\ UNCHANGED sipcVars
  OBVIOUS
<1> QED BY DEF Controller, Removal, Next

LEMMA EndpointSteps == Endpoint => Sipc!Next /\ UNCHANGED vars
<1> SUFFICES ASSUME Endpoint PROVE Sipc!Next /\ UNCHANGED vars
  OBVIOUS
<1> QED BY DEF Endpoint, Sipc!Next

\* On the bus the attribute behaves as EhciPower says it does alone.
THEOREM BusHasController == BusSpec => Spec
<1>1. BusInit => Init
  BY DEF BusInit
<1>2. [Controller \/ Endpoint]_<<vars, sipcVars>> => [Next]_vars
  BY ControllerSteps, EndpointSteps
<1> QED BY <1>1, <1>2, PTL DEF BusSpec, Spec

\* On a bus that is taken away under it, the endpoint behaves as SipcHsic says.
THEOREM BusHasEndpoint == BusSpec => Sipc!Spec
<1>1. BusInit => Sipc!Init
  BY DEF BusInit
<1>2. [Controller \/ Endpoint]_<<vars, sipcVars>> => [Sipc!Next]_(Sipc!vars)
  BY ControllerSteps, EndpointSteps DEF sipcVars, Sipc!vars
<1> QED BY <1>1, <1>2, PTL DEF BusSpec, Sipc!Spec

-----------------------------------------------------------------------------
(***************************************************************************)
(* The controller.                                                         *)
(***************************************************************************)
PhyType == [count : Int, live : BOOLEAN]
HistType == [ops : Nat, failedOn : BOOLEAN, offUnbound : BOOLEAN, twice : BOOLEAN]

EhciTyped ==
  /\ driver \in {"unbound", "bound", "removing"}
  /\ powerOn \in BOOLEAN /\ added \in BOOLEAN
  /\ phy \in PhyType /\ hist \in HistType

\* Until the controller is removed twice, the phy is powered as long as it is
\* counted, and counted as long as there is a controller.
PhyCounted ==
  ~hist.twice =>
    /\ phy.count >= 0
    /\ phy.live <=> phy.count >= 1
    /\ added => phy.count >= 1

\* A driver without a controller was powered off, or an add failed.
AddedOrExcused ==
  /\ driver = "unbound" => ~added
  /\ driver = "bound" /\ powerOn /\ ~added => hist.failedOn
  /\ driver = "bound" /\ added => powerOn
  /\ driver = "removing" /\ ~added => hist.failedOn \/ hist.offUnbound

\* Only a bound driver, or one being removed, has a store inside the attribute.
StoresInside == driver = "unbound" => \A u \in Users : store[u] = "none"

EhciInv == EhciTyped /\ StoresInside /\ PhyCounted /\ AddedOrExcused /\ RemovedTwiceOnlyIf

\* What the two operations do, field by field.
LEMMA PhyFields ==
  ASSUME NEW p \in PhyType
  PROVE  /\ PhyOn(p) \in PhyType /\ PhyOff(p) \in PhyType
         /\ PhyOn(p).count = p.count + 1 /\ (PhyOn(p).live <=> p.live \/ p.count = 0)
         /\ PhyOff(p).count = p.count - 1 /\ (PhyOff(p).live <=> p.live /\ p.count # 1)
<1>1. PhyOn(p) \in PhyType /\ PhyOff(p) \in PhyType
  BY DEF PhyType, PhyOn, PhyOff
<1>2. PhyOn(p).count = p.count + 1 /\ PhyOff(p).count = p.count - 1
  BY DEF PhyType, PhyOn, PhyOff
<1>3. PhyOn(p).live = (p.live \/ p.count = 0)
  BY DEF PhyOn
<1>4. PhyOff(p).live = (p.live /\ p.count # 1)
  BY DEF PhyOff
<1> QED BY <1>1, <1>2, <1>3, <1>4

LEMMA EhciStep == EhciInv /\ [Next]_vars => EhciInv'
<1> SUFFICES ASSUME EhciInv, [Next]_vars PROVE EhciInv'
  OBVIOUS
<1> USE DEF EhciInv, EhciTyped, HistType, StoresInside, AddedOrExcused, RemovedTwiceOnlyIf
<1>p. phy \in PhyType /\ phy.count \in Int /\ phy.live \in BOOLEAN
  BY DEF PhyType
<1>1. CASE Bind
  <2>1. phy' = PhyOn(phy) /\ driver' = "bound" /\ added' /\ powerOn' /\ added' \in BOOLEAN
        /\ powerOn' \in BOOLEAN /\ UNCHANGED store
    BY <1>1 DEF Bind
  <2>2. hist' = [hist EXCEPT !.ops = @ + 1]
    BY <1>1 DEF Bind
  <2>3. /\ hist'.twice = hist.twice /\ hist'.failedOn = hist.failedOn
        /\ hist'.offUnbound = hist.offUnbound
    BY <2>2
  <2>f. /\ phy' \in PhyType /\ phy'.count = phy.count + 1
        /\ phy'.live <=> phy.live \/ phy.count = 0
    BY <1>p, <2>1, PhyFields
  <2>4. EhciTyped'
    BY <2>1, <2>2, <2>f
  <2>5. PhyCounted'
    BY <1>p, <2>1, <2>3, <2>f DEF PhyCounted
  <2> QED BY <2>1, <2>3, <2>4, <2>5
<1>2. CASE Unbind
  <2>1. /\ UNCHANGED <<added, phy, store>> /\ driver' = "removing" /\ driver = "bound"
        /\ powerOn' \in BOOLEAN
    BY <1>2 DEF Unbind
  <2>2. hist' = [hist EXCEPT !.ops = @ + 1, !.offUnbound = @ \/ ~powerOn]
    BY <1>2 DEF Unbind
  <2>3. /\ hist'.twice = hist.twice /\ hist'.failedOn = hist.failedOn
        /\ hist'.offUnbound = (hist.offUnbound \/ ~powerOn)
    BY <2>2
  <2>4. EhciTyped'
    <3>1. (hist.offUnbound \/ ~powerOn) \in BOOLEAN
      OBVIOUS
    <3>2. ASSUME NEW b \in BOOLEAN, hist' = [hist EXCEPT !.ops = @ + 1, !.offUnbound = b]
          PROVE  EhciTyped'
      <4>1. [hist EXCEPT !.ops = @ + 1] \in HistType
        BY DEF HistType
      <4>2. hist' = [[hist EXCEPT !.ops = @ + 1] EXCEPT !.offUnbound = b]
        BY <3>2
      <4>3. hist' \in HistType
        BY <4>1, <4>2 DEF HistType
      <4> QED BY <2>1, <4>3 DEF HistType
    <3> QED BY <2>2, <3>1, <3>2
  <2>5. PhyCounted'
    BY <2>1, <2>3 DEF PhyCounted
  <2> QED BY <2>1, <2>3, <2>4, <2>5
<1>3. CASE Unbound
  <2>1. /\ phy' = PhyOff(phy) /\ driver' = "unbound" /\ driver = "removing" /\ ~added'
        /\ added' \in BOOLEAN /\ UNCHANGED <<powerOn, store>>
        /\ \A u \in Users : store[u] = "none"
    BY <1>3 DEF Unbound
  <2>2. hist' = [hist EXCEPT !.twice = @ \/ ~added]
    BY <1>3 DEF Unbound
  <2>3. /\ hist'.twice = (hist.twice \/ ~added) /\ hist'.failedOn = hist.failedOn
        /\ hist'.offUnbound = hist.offUnbound
    BY <2>2
  <2>f. /\ phy' \in PhyType /\ phy'.count = phy.count - 1
        /\ phy'.live <=> phy.live /\ phy.count # 1
    BY <1>p, <2>1, PhyFields
  <2>4. EhciTyped'
    BY <2>1, <2>2, <2>f
  <2>5. PhyCounted'
    BY <1>p, <2>1, <2>3, <2>f DEF PhyCounted
  <2> QED BY <2>1, <2>3, <2>4, <2>5
<1>4. ASSUME NEW u \in Users, NEW cmd, Write(u, cmd) PROVE EhciInv'
  <2>1. UNCHANGED <<driver, powerOn, added, phy>> /\ driver = "bound"
    BY <1>4 DEF Write
  <2>2. hist' = [hist EXCEPT !.ops = @ + 1]
    BY <1>4 DEF Write
  <2>3. /\ hist'.twice = hist.twice /\ hist'.failedOn = hist.failedOn
        /\ hist'.offUnbound = hist.offUnbound
    BY <2>2
  <2>4. EhciTyped' /\ PhyCounted'
    BY <2>1, <2>2, <2>3 DEF PhyCounted
  <2> QED BY <2>1, <2>3, <2>4
<1>5. ASSUME NEW u \in Users, StoreOn(u) PROVE EhciInv'
  <2>0. driver = "bound" /\ UNCHANGED driver
    BY <1>5 DEF StoreOn, Stores
  <2>1. /\ phy' = PhyOn(phy) /\ added' \in BOOLEAN /\ powerOn' = (powerOn \/ added')
    BY <1>5 DEF StoreOn, PhyAgain
  <2>2. hist' = [hist EXCEPT !.twice = @ \/ (powerOn /\ ~added),
                             !.failedOn = @ \/ (powerOn /\ ~added')]
    BY <1>5 DEF StoreOn
  <2>3. /\ hist'.twice = (hist.twice \/ (powerOn /\ ~added))
        /\ hist'.failedOn = (hist.failedOn \/ (powerOn /\ ~added'))
        /\ hist'.offUnbound = hist.offUnbound
    BY <2>2
  <2>f. /\ phy' \in PhyType /\ phy'.count = phy.count + 1
        /\ phy'.live <=> phy.live \/ phy.count = 0
    BY <1>p, <2>1, PhyFields
  <2>4. EhciTyped'
    BY <2>0, <2>1, <2>2, <2>f
  <2>5. PhyCounted'
    BY <1>p, <2>1, <2>3, <2>f DEF PhyCounted
  <2> QED BY <2>0, <2>1, <2>3, <2>4, <2>5
<1>6. ASSUME NEW u \in Users, StoreOff(u) PROVE EhciInv'
  <2>0. driver = "bound" /\ UNCHANGED driver
    BY <1>6 DEF StoreOff, Stores
  <2>a. CASE powerOn
    <3>1. phy' = PhyOff(phy) /\ ~added' /\ ~powerOn' /\ added' \in BOOLEAN /\ powerOn' \in BOOLEAN
      BY <1>6, <2>a DEF StoreOff, PoweredOn
    <3>2. hist' = [hist EXCEPT !.twice = @ \/ ~added]
      BY <1>6, <2>a DEF StoreOff, PoweredOn
    <3>3. /\ hist'.twice = (hist.twice \/ ~added) /\ hist'.failedOn = hist.failedOn
          /\ hist'.offUnbound = hist.offUnbound
      BY <3>2
    <3>f. /\ phy' \in PhyType /\ phy'.count = phy.count - 1
          /\ phy'.live <=> phy.live /\ phy.count # 1
      BY <1>p, <3>1, PhyFields
    <3>4. EhciTyped'
      BY <2>0, <3>1, <3>2, <3>f
    <3>5. PhyCounted'
      <4>1. CASE hist'.twice
        BY <4>1 DEF PhyCounted
      <4>2. CASE ~hist'.twice
        <5>1. phy.count >= 1 /\ phy.live
          BY <1>p, <3>3, <4>2 DEF PhyCounted
        <5>2. phy'.count >= 0 /\ (phy'.live <=> phy'.count >= 1)
          BY <1>p, <3>f, <5>1
        <5> QED BY <3>1, <5>2 DEF PhyCounted
      <4> QED BY <4>1, <4>2
    <3> QED BY <2>0, <2>a, <3>1, <3>3, <3>4, <3>5
  <2>b. CASE ~powerOn
    <3>1. UNCHANGED <<driver, powerOn, added, phy, hist>>
      BY <1>6, <2>0, <2>b DEF StoreOff, PoweredOn
    <3>2. EhciTyped' /\ PhyCounted'
      BY <3>1 DEF PhyCounted
    <3>3. AddedOrExcused' /\ RemovedTwiceOnlyIf'
      BY <3>1
    <3> QED BY <2>0, <3>2, <3>3
  <2> QED BY <2>a, <2>b
<1>7. CASE UNCHANGED vars
  BY <1>7 DEF vars, PhyCounted
<1> QED BY <1>1, <1>2, <1>3, <1>4, <1>5, <1>6, <1>7 DEF Next

LEMMA EhciHolds == BusSpec => []EhciInv
<1>1. Init => EhciInv
  <2> SUFFICES ASSUME Init PROVE EhciInv
    OBVIOUS
  <2>1. phy.count = 0 /\ ~phy.live /\ ~hist.twice /\ ~added
    BY DEF Init
  <2>2. EhciTyped
    <3>1. phy \in PhyType
      BY DEF Init, PhyType
    <3>2. hist \in HistType
      BY DEF Init, HistType
    <3> QED BY <3>1, <3>2 DEF Init, EhciTyped, PhyType, HistType
  <2>3. PhyCounted
    BY <2>1 DEF PhyCounted
  <2> QED BY <2>1, <2>2, <2>3 DEF Init, EhciInv, AddedOrExcused, RemovedTwiceOnlyIf, StoresInside
<1>2. Spec => []EhciInv
  BY <1>1, EhciStep, PTL DEF Spec
<1> QED BY <1>2, BusHasController, PTL

\* A controller that was never removed twice runs on a powered phy
\* (store_ehci_power, probe and remove).
THEOREM LivePhy == BusSpec => []RunsOnLivePhy
<1>1. EhciInv => RunsOnLivePhy
  BY DEF EhciInv, EhciTyped, PhyType, HistType, PhyCounted, RunsOnLivePhy
<1> QED BY <1>1, EhciHolds, PTL

\* The controller is removed twice only after a failed add or an unbinding while
\* it is off.
THEOREM TwiceExcused == BusSpec => []RemovedTwiceOnlyIf
<1>1. EhciInv => RemovedTwiceOnlyIf
  BY DEF EhciInv
<1> QED BY <1>1, EhciHolds, PTL

-----------------------------------------------------------------------------
(***************************************************************************)
(* The endpoint.                                                           *)
(***************************************************************************)
SipcTyped ==
  /\ links \subseteq Sipc!Formats
  /\ skb \in [Skbs -> {"none", "sent", "back", "freed"}]
  /\ sipcHist \in [frees : [Skbs -> Nat], half : BOOLEAN, stray : BOOLEAN]

\* A URB flies, or completes, for an endpoint that is bound or being unbound.
UrbHasEndpoint == urb \in {"flying", "done"} => st \in {"bound", "clear", "release"}

SipcInv == SipcTyped /\ UrbHasEndpoint /\ FreedOnce /\ NoStrayReceive /\ LinkHasEndpoint

LEMMA SipcStep == SipcInv /\ [Sipc!Next]_(Sipc!vars) => SipcInv'
<1> SUFFICES ASSUME SipcInv, [Sipc!Next]_(Sipc!vars) PROVE SipcInv'
  OBVIOUS
<1> USE DEF SipcInv, SipcTyped, UrbHasEndpoint, FreedOnce, Sipc!FreedOnce, NoStrayReceive,
        Sipc!NoStrayReceive, LinkHasEndpoint, Sipc!LinkHasEndpoint
<1>1. CASE Sipc!ProbeRefused
  BY <1>1 DEF Sipc!ProbeRefused, Sipc!Formats
<1>2. CASE Sipc!Probe
  BY <1>2 DEF Sipc!Probe, Sipc!StartRx
<1>3. CASE Sipc!Arrive
  BY <1>3 DEF Sipc!Arrive
<1>4. CASE Sipc!RxComplete
  BY <1>4 DEF Sipc!RxComplete, Sipc!StartRx
<1>5. CASE Sipc!Disconnect
  BY <1>5 DEF Sipc!Disconnect, Sipc!Leave
<1>6. CASE Sipc!ClearLinks
  BY <1>6 DEF Sipc!ClearLinks, Sipc!Leave, Sipc!Cleared
<1>7. CASE Sipc!ReleaseData
  BY <1>7 DEF Sipc!ReleaseData, Sipc!Leave, Sipc!Killed
<1>8. ASSUME NEW s \in Skbs, Sipc!Transmit(s) PROVE SipcInv'
  BY <1>8 DEF Sipc!Transmit, Sipc!Refused
<1>9. ASSUME NEW s \in Skbs, Sipc!OpenFails(s) \/ Sipc!TxComplete(s) PROVE SipcInv'
  BY <1>9 DEF Sipc!OpenFails, Sipc!TxComplete, Sipc!Free
<1>10. CASE UNCHANGED Sipc!vars
  BY <1>10 DEF Sipc!vars
<1> QED
  BY <1>1, <1>2, <1>3, <1>4, <1>5, <1>6, <1>7, <1>8, <1>9, <1>10 DEF Sipc!Next

LEMMA SipcHolds == BusSpec => []SipcInv
<1>1. Sipc!Init => SipcInv
  BY DEF Sipc!Init, SipcInv, SipcTyped, UrbHasEndpoint, FreedOnce, Sipc!FreedOnce,
     NoStrayReceive, Sipc!NoStrayReceive, LinkHasEndpoint, Sipc!LinkHasEndpoint
<1>2. Sipc!Spec => []SipcInv
  BY <1>1, SipcStep, PTL DEF Sipc!Spec
<1> QED BY <1>2, BusHasEndpoint, PTL

\* A buffer is freed once, by the completion or by the caller whose transmission
\* was refused (sipc_link_transmit, sipc_tx_complete).
THEOREM Freed == BusSpec => []FreedOnce
<1>1. SipcInv => FreedOnce
  BY DEF SipcInv
<1> QED BY <1>1, SipcHolds, PTL

\* Nothing is received for what is not bound: a URB that flies or completes has
\* an endpoint until it is killed (sipc_disconnect).
THEOREM NoStray == BusSpec => []NoStrayReceive
<1>1. SipcInv => NoStrayReceive
  BY DEF SipcInv
<1> QED BY <1>1, SipcHolds, PTL

\* A link the core holds has an endpoint, but for one of a RAW endpoint half
\* registered.
THEOREM Linked == BusSpec => []LinkHasEndpoint
<1>1. SipcInv => LinkHasEndpoint
  BY DEF SipcInv
<1> QED BY <1>1, SipcHolds, PTL
=============================================================================
