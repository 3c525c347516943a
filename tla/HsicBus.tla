------------------------------ MODULE HsicBus ------------------------------
(***************************************************************************)
(* The controller that the attribute ehci_power switches (EhciPower) and   *)
(* an endpoint of the IPC driver on its bus (SipcHsic).  usbcore is in     *)
(* between: it probes what a running controller enumerates, and            *)
(* usb_remove_hcd returns when the drivers on the bus are disconnected.    *)
(***************************************************************************)
EXTENDS EhciPower

CONSTANTS Format, Skbs  \* as in SipcHsic
ASSUME FormatKnown == Format \in {"fmt", "raw", "rfs", "cmd", "other"}

VARIABLES st, links, urb, skb, sipcHist         \* SipcHsic

Sipc == INSTANCE SipcHsic WITH hist <- sipcHist

sipcVars == <<st, links, urb, skb, sipcHist>>

BusInit == Init /\ Sipc!Init

\* The controller runs and the device answers.
BusUp == added /\ phy.live

\* The endpoint has no driver that a removal would wait for.
Released == st \notin {"bound", "clear", "release"}

\* The steps of EhciPower that remove the controller, if it is there.
Removal ==
  \/ Unbound
  \/ \E u \in Users : powerOn /\ (StoreOn(u) \/ StoreOff(u))

Controller ==
  /\ \/ Bind \/ Unbind
     \/ \E u \in Users : Write(u, "on") \/ Write(u, "off")
     \/ \E u \in Users : ~powerOn /\ (StoreOn(u) \/ StoreOff(u))
     \/ Released /\ Removal
  /\ UNCHANGED sipcVars

Endpoint ==
  /\ \/ BusUp /\ (Sipc!Probe \/ Sipc!ProbeRefused \/ Sipc!Arrive)
     \/ Sipc!RxComplete
     \/ Sipc!Disconnect \/ Sipc!ClearLinks \/ Sipc!ReleaseData
     \/ \E s \in Skbs : Sipc!Transmit(s) \/ Sipc!OpenFails(s) \/ Sipc!TxComplete(s)
  /\ UNCHANGED vars

BusSpec == BusInit /\ [][Controller \/ Endpoint]_<<vars, sipcVars>>

-----------------------------------------------------------------------------
\* The promises of the endpoint, on a bus that stores of the attribute take away
\* under it.
FreedOnce == Sipc!FreedOnce
NoStrayReceive == Sipc!NoStrayReceive
LinkHasEndpoint == Sipc!LinkHasEndpoint
=============================================================================
