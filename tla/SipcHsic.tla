------------------------------ MODULE SipcHsic ------------------------------
(***************************************************************************)
(* One endpoint of sipc_hsic.c, the IPC-over-HSIC driver: probe and its    *)
(* error paths, the receive URB that resubmits itself, transmission from   *)
(* the SIPC core, and disconnect.  The core (sipc_set_link and             *)
(* sipc_clear_link) and usbcore are modelled from how they are used:       *)
(* releasing the data interface, which is bound to this driver too, calls  *)
(* the disconnect of the driver again from within.                         *)
(***************************************************************************)
EXTENDS Naturals

CONSTANTS Format,       \* "fmt", "raw", "rfs", "cmd" or "other", from the endpoint
          Skbs          \* buffers the core transmits

VARIABLES
  st,           \* "unbound", "failed", "bound", then the steps of disconnect
  links,        \* the formats for which the core holds this link
  urb,          \* in_urb: "none", "idle", "flying", "done" (its completion runs)
  skb,          \* skb[s]: "none", "sent", "back" (refused), "freed"
  hist          \* frees[s] of skb s; the second link was refused; receive was called
                \* when nothing is bound

vars == <<st, links, urb, skb, hist>>

Init ==
  /\ st = "unbound" /\ links = {} /\ urb = "none"
  /\ skb = [s \in Skbs |-> "none"]
  /\ hist = [frees |-> [s \in Skbs |-> 0], half |-> FALSE, stray |-> FALSE]

\* usb_to_sipc_format, and RAW serves MULTI_RAW too.
Formats ==
  CASE Format = "other" -> {}
    [] Format = "raw" -> {"raw", "multi_raw"}
    [] OTHER -> {Format}

\* sipc_start_rx: a URB that is refused is not tried again.
StartRx == urb' \in {"flying", "idle"}

\* sipc_probe.  The test for an unknown format never holds, and the core refuses
\* the link; what is registered when a later step fails stays registered.
ProbeRefused ==
  /\ st = "unbound" /\ st' = "failed" /\ urb' = "idle"
  /\ links' \in {{}} \cup (IF Format = "raw" THEN {{"raw"}} ELSE {})
  /\ hist' = [hist EXCEPT !.half = links' # {}]
  /\ UNCHANGED skb

Probe ==
  /\ st = "unbound" /\ Formats # {}
  /\ st' = "bound" /\ links' = Formats /\ StartRx
  /\ UNCHANGED <<skb, hist>>

\* The device answers, or the URB fails.
Arrive == urb = "flying" /\ urb' = "done" /\ UNCHANGED <<st, links, skb, hist>>

\* sipc_rx_complete; a URB being killed cannot be submitted again, one that
\* failed is not.
RxComplete ==
  /\ urb = "done"
  /\ \/ /\ IF st = "release" THEN urb' = "idle" ELSE StartRx
        /\ hist' = [hist EXCEPT !.stray = @ \/ st \notin {"bound", "clear", "release"}]
     \/ urb' = "idle" /\ UNCHANGED hist
  /\ UNCHANGED <<st, links, skb>>

Free(s) == hist' = [hist EXCEPT !.frees[s] = @ + 1]

\* sipc_link_transmit, from sipc_link_open or the core: the caller keeps what is
\* refused.
\* Mutant: a URB that cannot be submitted takes its buffer along.
RefusedFrees(s) == Free(s)

Refused(s) == UNCHANGED hist

Transmit(s) ==
  /\ links # {} /\ skb[s] = "none"
  /\ \/ skb' = [skb EXCEPT ![s] = "sent"] /\ UNCHANGED hist
     \/ skb' = [skb EXCEPT ![s] = "back"] /\ Refused(s)
  /\ UNCHANGED <<st, links, urb>>

OpenFails(s) ==
  /\ skb[s] = "back" /\ skb' = [skb EXCEPT ![s] = "freed"] /\ Free(s)
  /\ UNCHANGED <<st, links, urb>>

TxComplete(s) ==
  /\ skb[s] = "sent" /\ skb' = [skb EXCEPT ![s] = "freed"] /\ Free(s)
  /\ UNCHANGED <<st, links, urb>>

\* sipc_disconnect: the links are cleared and the data interface is released,
\* whose disconnect kills the URB and frees it.  Then this one kills and frees it
\* too: the kernel is in no defined state, and the endpoint does nothing more.
Leave(from, to) == st = from /\ st' = to /\ UNCHANGED <<skb, hist>>

\* Mutant: the second link of RAW is forgotten.
FirstCleared == links \ {Format}

Cleared == links \ Formats

\* Mutant: the URB is freed while it may still be in flight.
NotKilled == urb' = urb

\* usb_kill_urb takes a flying URB back and waits for a running completion.
Killed == urb # "done" /\ urb' = "none"

Disconnect == Leave("bound", "clear") /\ UNCHANGED <<links, urb>>
ClearLinks == Leave("clear", "release") /\ links' = Cleared /\ UNCHANGED urb
ReleaseData == Leave("release", "gone") /\ Killed /\ UNCHANGED links

Next ==
  \/ ProbeRefused \/ Probe \/ Arrive \/ RxComplete
  \/ Disconnect \/ ClearLinks \/ ReleaseData
  \/ \E s \in Skbs : Transmit(s) \/ OpenFails(s) \/ TxComplete(s)

Spec == Init /\ [][Next]_vars

\* Every buffer handed to the driver is freed once: by the completion, or by the
\* caller whose transmission was refused.
FreedOnce == \A s \in Skbs : hist.frees[s] = IF skb[s] = "freed" THEN 1 ELSE 0

\* Nothing is received for an endpoint that is not bound, though the links go
\* before the URB: a completion in between still finds the endpoint.
NoStrayReceive == ~hist.stray

\* The core holds a link only to an endpoint that exists, but for a RAW endpoint
\* whose second link was refused.
LinkHasEndpoint == links # {} /\ ~hist.half => st \in {"bound", "clear"}
=============================================================================
