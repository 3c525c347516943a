------------------------------ MODULE EhciPower ------------------------------
(***************************************************************************)
(* The sysfs attribute ehci_power that the two HACK patches add to         *)
(* ehci-exynos, by which the modem's boot program re-enumerates the HSIC   *)
(* bus.  Stores take the device lock; the driver core holds it during probe*)
(* and remove; removing the attribute waits for the stores that are inside.*)
(***************************************************************************)
EXTENDS Integers, FiniteSets

CONSTANTS Users,        \* the threads that write the attribute
          MaxOps        \* bound: stores, bindings and unbindings
ASSUME UsersFinite == IsFiniteSet(Users) /\ MaxOps \in Nat

VARIABLES
  driver,       \* "unbound", "bound", "removing" (device lock held)
  powerOn,      \* exynos_ehci->power_on
  added,        \* usb_add_hcd is in force
  phy,          \* power_count of phy #1, and whether it is powered
  store,        \* store[u]: what u's store waits to do: "none", "on", "off"
  hist          \* operations so far; an add failed while the power was on; the
                \* controller was unbound while off; it was removed twice

vars == <<driver, powerOn, added, phy, store, hist>>

Init ==
  /\ driver = "unbound" /\ powerOn = FALSE /\ added = FALSE
  /\ phy = [count |-> 0, live |-> FALSE]
  /\ store = [u \in Users |-> "none"]
  /\ hist = [ops |-> 0, failedOn |-> FALSE, offUnbound |-> FALSE, twice |-> FALSE]

Counted == hist.ops < MaxOps

\* phy_power_on and phy_power_off act on the hardware at a count of 0 and 1.
PhyOn(p) == [count |-> p.count + 1, live |-> p.live \/ p.count = 0]
PhyOff(p) == [count |-> p.count - 1, live |-> p.live /\ p.count # 1]

\* exynos_ehci_probe: the attribute comes last, under the device lock.
Bind ==
  /\ driver = "unbound" /\ Counted
  /\ driver' = "bound" /\ added' = TRUE /\ powerOn' = TRUE /\ phy' = PhyOn(phy)
  /\ hist' = [hist EXCEPT !.ops = @ + 1]
  /\ UNCHANGED store

Write(u, cmd) ==
  /\ driver = "bound" /\ store[u] = "none" /\ Counted
  /\ store' = [store EXCEPT ![u] = cmd]
  /\ hist' = [hist EXCEPT !.ops = @ + 1]
  /\ UNCHANGED <<driver, powerOn, added, phy>>

\* The device lock is taken, the store done and the lock released.
Stores(u, cmd) ==
  /\ driver # "removing" /\ store[u] = cmd
  /\ store' = [store EXCEPT ![u] = "none"]
  /\ UNCHANGED driver

\* Mutant: the power-off does not look whether the power is on.
AlwaysOn == TRUE

PoweredOn == powerOn

StoreOff(u) ==
  /\ Stores(u, "off")
  /\ IF PoweredOn
     THEN /\ powerOn' = FALSE /\ added' = FALSE /\ phy' = PhyOff(phy)
          /\ hist' = [hist EXCEPT !.twice = @ \/ ~added]
     ELSE UNCHANGED <<powerOn, added, phy, hist>>

\* Mutant: the power-on leaves the phy to the probe.
PhyUntouched == phy

PhyAgain == PhyOn(phy)

\* Powered on again, the controller is removed first; adding it may fail, and
\* leaves power_on as it was.
StoreOn(u) ==
  /\ Stores(u, "on")
  /\ phy' = PhyAgain
  /\ added' \in BOOLEAN
  /\ powerOn' = (powerOn \/ added')
  /\ hist' = [hist EXCEPT !.twice = @ \/ (powerOn /\ ~added),
                          !.failedOn = @ \/ (powerOn /\ ~added')]

\* exynos_ehci_remove, up to the removal of the attribute, and after it.
Unbind ==
  /\ driver = "bound" /\ Counted
  /\ driver' = "removing" /\ powerOn' = FALSE
  /\ hist' = [hist EXCEPT !.ops = @ + 1, !.offUnbound = @ \/ ~powerOn]
  /\ UNCHANGED <<added, phy, store>>

Unbound ==
  /\ driver = "removing" /\ \A u \in Users : store[u] = "none"
  /\ driver' = "unbound" /\ added' = FALSE /\ phy' = PhyOff(phy)
  /\ hist' = [hist EXCEPT !.twice = @ \/ ~added]
  /\ UNCHANGED <<powerOn, store>>

Next ==
  \/ Bind \/ Unbind \/ Unbound
  \/ \E u \in Users : Write(u, "on") \/ Write(u, "off") \/ StoreOn(u) \/ StoreOff(u)

Spec == Init /\ [][Next]_vars

\* A controller that was never removed twice runs on a powered phy, whatever
\* order stores, failed adds and bindings come in.
RunsOnLivePhy == added /\ ~hist.twice => phy.live

\* usb_remove_hcd meets a controller already removed only after an add that
\* failed while the power was on, or when the driver is unbound while off.
RemovedTwiceOnlyIf == hist.twice => hist.failedOn \/ hist.offUnbound
=============================================================================
