--------------------------- MODULE DiagSdioProofs ---------------------------
(***************************************************************************)
(* Theorems about DiagSdio, for every set of logging modes: what the input *)
(* buffer and the channel may suffer from steps that no lock orders, and   *)
(* that data of the modem always has somebody to read it.                  *)
(***************************************************************************)
EXTENDS DiagSdio, Integers, TLAPS

\* A reader of memory mode that USB connects under.
Preempted == reset /\ mode # "usb"

\* Data that is out keeps in_busy_sdio set, and a work that has seen it clear
\* finds no data out.
BusyCovers ==
  /\ out => busy \/ Preempted
  /\ pc \in {"read", "send"} /\ out => Preempted

\* A work that is to use the channel has it, or the channel was removed under it.
ChannelHeld == pc \in {"read", "write"} => ch \/ caught

Inv == BusyCovers /\ ChannelHeld /\ InBufferIntact /\ RemoveStopsIo

LEMMA CallbackStep ==
  ASSUME Inv, Probe \/ Remove \/ Connect \/ Disconnect \/ WriteComplete \/ ReadComplete
                \/ DataAvail \/ RoomAvail
  PROVE  Inv'
<1> USE DEF Inv, BusyCovers, ChannelHeld, Preempted, InBufferIntact, RemoveStopsIo
<1>1. CASE Probe
  BY <1>1 DEF Probe
<1>2. CASE Remove
  <2>1. UNCHANGED <<mode, busy, out, reset, pc, clobbered, stray>>
    BY <1>2 DEF Remove, wq
  <2>2. caught' = (caught \/ pc \in {"read", "write"})
    BY <1>2 DEF Remove
  <2> QED BY <2>1, <2>2
<1>3. CASE Connect
  <2>1. UNCHANGED <<mode, out, pc, clobbered, stray, caught>>
    BY <1>3 DEF Connect
  <2>2. ch => ch'
    BY <1>3 DEF Connect
  <2>3. (mode = "usb" => ~out) /\ reset' = (reset \/ out)
    BY <1>3 DEF Connect
  <2>4. BusyCovers' /\ InBufferIntact'
    BY <2>1, <2>3
  <2> QED BY <2>1, <2>2, <2>4
<1>4. CASE Disconnect
  BY <1>4 DEF Disconnect
<1>5. CASE WriteComplete
  BY <1>5 DEF WriteComplete
<1>6. CASE ReadComplete
  BY <1>6 DEF ReadComplete
<1>7. CASE DataAvail
  BY <1>7 DEF DataAvail
<1>8. CASE RoomAvail
  BY <1>8 DEF RoomAvail
<1> QED BY <1>1, <1>2, <1>3, <1>4, <1>5, <1>6, <1>7, <1>8

LEMMA WorkStep == ASSUME Inv, Worker PROVE Inv'
<1> USE DEF Inv, BusyCovers, ChannelHeld, Preempted, InBufferIntact, RemoveStopsIo
<1>1. CASE ReadWork
  BY <1>1 DEF ReadWork, Starts, MayRead
<1>2. CASE ReadNothing
  BY <1>2 DEF ReadNothing
<1>3. CASE ReadData
  BY <1>3 DEF ReadData
<1>4. CASE Send
  BY <1>4 DEF Send
<1>5. CASE WriteWork
  BY <1>5 DEF WriteWork, Starts
<1>6. CASE Sleep
  BY <1>6 DEF Sleep
<1>7. CASE Awake
  BY <1>7 DEF Awake
<1>8. CASE Write
  BY <1>8 DEF Write
<1>9. CASE CloseWork
  BY <1>9 DEF CloseWork, Starts
<1> QED BY <1>1, <1>2, <1>3, <1>4, <1>5, <1>6, <1>7, <1>8, <1>9 DEF Worker

LEMMA InvHolds == Spec => []Inv
<1>1. Init => Inv
  BY DEF Init, Inv, BusyCovers, ChannelHeld, InBufferIntact, RemoveStopsIo
<1>2. Inv /\ [Next]_vars => Inv'
  <2>1. CASE UNCHANGED vars
    BY <2>1 DEF vars, wq, Inv, BusyCovers, ChannelHeld, Preempted, InBufferIntact, RemoveStopsIo
  <2> QED BY <2>1, CallbackStep, WorkStep DEF Next
<1> QED BY <1>1, <1>2, PTL DEF Spec

\* Data on its way to USB is not read over (__diag_sdio_send_req), although
\* in_busy_sdio is tested and set apart and three callbacks write it.
THEOREM BufferIntact == Spec => []InBufferIntact
<1>1. Inv => InBufferIntact
  BY DEF Inv
<1> QED BY <1>1, InvHolds, PTL

\* Only a work that had just tested the channel uses it after diag_sdio_remove.
THEOREM RemoveStops == Spec => []RemoveStopsIo
<1>1. Inv => RemoveStopsIo
  BY DEF Inv
<1> QED BY <1>1, InvHolds, PTL

-----------------------------------------------------------------------------
\* What DataServed leaves to be done has been ordered.

WorkQueued(w) == \E i \in DOMAIN queue : queue[i] = w

\* Data to read is that of an open channel.
AnnouncedOpen == avail => ch

\* in_busy_sdio is set only for data that USB, or the reader, is to give back.
BusyHasOwner == busy /\ usb /\ ~fault => out

\* Data to read has somebody to read it: a queued work, the work that is about to
\* read, or the packet that is out, whose completion looks again.
DataHasReader == avail /\ ch /\ usb /\ ~fault => WorkQueued("sdio") \/ pc = "read" \/ out

Owed == AnnouncedOpen /\ BusyHasOwner /\ DataHasReader

QueueTyped == queue \in Seq(Works)

\* queue_work leaves a work queued, and what was queued before.
LEMMA QueuedKeeps ==
  ASSUME NEW q \in Seq(Works), NEW w \in Works
  PROVE  /\ Queued(q, w) \in Seq(Works)
         /\ \E i \in DOMAIN Queued(q, w) : Queued(q, w)[i] = w
         /\ \A v : (\E i \in DOMAIN q : q[i] = v)
                   => \E i \in DOMAIN Queued(q, w) : Queued(q, w)[i] = v
<1>1. CASE \E i \in DOMAIN q : q[i] = w
  BY <1>1 DEF Queued
<1>2. CASE ~ \E i \in DOMAIN q : q[i] = w
  <2>1. Queued(q, w) = Append(q, w)
    BY <1>2 DEF Queued
  <2>2. /\ Append(q, w) \in Seq(Works)
        /\ Len(q) + 1 \in DOMAIN Append(q, w)
        /\ Append(q, w)[Len(q) + 1] = w
    OBVIOUS
  <2>3. \A i \in DOMAIN q : i \in DOMAIN Append(q, w) /\ Append(q, w)[i] = q[i]
    OBVIOUS
  <2> QED BY <2>1, <2>2, <2>3
<1> QED BY <1>1, <1>2

\* A work that starts leaves the others queued.
LEMMA StartsKeeps ==
  ASSUME QueueTyped, NEW w \in Works, Starts(w)
  PROVE  /\ QueueTyped' /\ pc = "idle"
         /\ \A v : v # w /\ WorkQueued(v) => WorkQueued(v)'
<1>1. queue # <<>> /\ queue' = Tail(queue) /\ Head(queue) = w /\ queue \in Seq(Works)
  BY DEF Starts, QueueTyped
<1>2. ASSUME NEW v, NEW i \in DOMAIN queue, queue[i] = v, v # w
      PROVE  i - 1 \in DOMAIN Tail(queue) /\ Tail(queue)[i - 1] = v
  <2>1. i # 1 /\ i \in 1..Len(queue)
    BY <1>1, <1>2
  <2> QED BY <1>1, <1>2, <2>1
<1>3. Tail(queue) \in Seq(Works)
  BY <1>1
<1> QED BY <1>1, <1>2, <1>3 DEF Starts, QueueTyped, WorkQueued

\* What a callback does to the queue: it only adds works.
LEMMA QueueGrows ==
  ASSUME QueueTyped, Probe \/ Remove \/ Connect \/ Disconnect \/ WriteComplete \/ ReadComplete
                       \/ DataAvail \/ RoomAvail
  PROVE  /\ QueueTyped'
         /\ WorkQueued("sdio") => WorkQueued("sdio")'
         /\ Connect \/ WriteComplete \/ DataAvail => WorkQueued("sdio")'
<1> USE DEF QueueTyped, WorkQueued
<1>1. "mdm" \in Works /\ "sdio" \in Works /\ "close" \in Works
  BY DEF Works
<1>2. CASE UNCHANGED queue /\ ~(Connect \/ WriteComplete \/ DataAvail)
  BY <1>2
<1>3. ASSUME NEW w \in Works, queue' = Queued(queue, w),
             Connect \/ WriteComplete \/ DataAvail => w = "sdio"
      PROVE  /\ QueueTyped'
             /\ WorkQueued("sdio") => WorkQueued("sdio")'
             /\ Connect \/ WriteComplete \/ DataAvail => WorkQueued("sdio")'
  <2>1. /\ queue' \in Seq(Works)
        /\ \E i \in DOMAIN queue' : queue'[i] = w
        /\ \A v : (\E i \in DOMAIN queue : queue[i] = v) => \E i \in DOMAIN queue' : queue'[i] = v
    <3>1. /\ Queued(queue, w) \in Seq(Works)
          /\ \E i \in DOMAIN Queued(queue, w) : Queued(queue, w)[i] = w
          /\ \A v : (\E i \in DOMAIN queue : queue[i] = v)
                    => \E i \in DOMAIN Queued(queue, w) : Queued(queue, w)[i] = v
      BY QueuedKeeps
    <3> QED BY <1>3, <3>1, Zenon
  <2> QED BY <1>3, <2>1, Zenon
<1>4. CASE Connect
  <2>1. queue' = Queued(Queued(queue, "mdm"), "sdio")
    BY <1>4 DEF Connect
  <2> DEFINE q == Queued(queue, "mdm")
  <2>2. q \in Seq(Works)
    BY <1>1, QueuedKeeps
  <2> HIDE DEF q
  <2>3. Queued(q, "sdio") \in Seq(Works)
    BY <1>1, <2>2, QueuedKeeps
  <2>4. \E i \in DOMAIN Queued(q, "sdio") : Queued(q, "sdio")[i] = "sdio"
    BY <1>1, <2>2, QueuedKeeps
  <2>5. queue' = Queued(q, "sdio")
    BY <2>1 DEF q
  <2> QED BY <2>3, <2>4, <2>5, Zenon
<1>5. CASE ~Connect /\ (WriteComplete \/ DataAvail)
  <2>1. queue' = Queued(queue, "sdio")
    BY <1>5 DEF WriteComplete, DataAvail
  <2> QED BY <1>1, <1>3, <2>1
<1>6. CASE ~(Connect \/ WriteComplete \/ DataAvail)
  <2>1. UNCHANGED queue \/ queue' = Queued(queue, "mdm") \/ queue' = Queued(queue, "close")
    BY <1>6 DEF Probe, Remove, Disconnect, ReadComplete, RoomAvail, wq
  <2> QED BY <1>1, <1>2, <1>3, <1>6, <2>1
<1> QED BY <1>4, <1>5, <1>6

LEMMA OwedCallback ==
  ASSUME QueueTyped, Owed, Probe \/ Remove \/ Connect \/ Disconnect \/ WriteComplete
                             \/ ReadComplete \/ DataAvail \/ RoomAvail
  PROVE  Owed'
<1> USE DEF Owed, AnnouncedOpen, BusyHasOwner, DataHasReader
<1>1. WorkQueued("sdio") => WorkQueued("sdio")'
  BY QueueGrows
<1>2. CASE Probe
  BY <1>1, <1>2 DEF Probe
<1>3. CASE Remove
  BY <1>1, <1>3 DEF Remove, wq
<1>4. CASE Connect
  <2>1. WorkQueued("sdio")'
    BY <1>4, QueueGrows
  <2>2. ch => ch'
    BY <1>4 DEF Connect
  <2>3. busy' = FALSE /\ UNCHANGED <<avail, pc>>
    BY <1>4 DEF Connect
  <2> QED BY <2>1, <2>2, <2>3
<1>5. CASE Disconnect
  BY <1>1, <1>5 DEF Disconnect
<1>6. CASE WriteComplete
  <2>1. WorkQueued("sdio")'
    BY <1>6, QueueGrows
  <2> QED BY <1>6, <2>1 DEF WriteComplete
<1>7. CASE ReadComplete
  BY <1>1, <1>7 DEF ReadComplete
<1>8. CASE DataAvail
  <2>1. WorkQueued("sdio")'
    BY <1>8, QueueGrows
  <2> QED BY <1>8, <2>1 DEF DataAvail
<1>9. CASE RoomAvail
  BY <1>1, <1>9 DEF RoomAvail
<1> QED BY <1>2, <1>3, <1>4, <1>5, <1>6, <1>7, <1>8, <1>9

\* A work that begins takes only itself off the queue, and sdio is dropped only when
\* nobody may read, or for the reading.
LEMMA OwedWork == ASSUME QueueTyped, Owed, Worker PROVE QueueTyped' /\ Owed'
<1> USE DEF Owed, AnnouncedOpen, BusyHasOwner, DataHasReader
<1>1. CASE ReadWork
  <2>1. QueueTyped' /\ pc = "idle"
    BY <1>1, StartsKeeps DEF ReadWork, Works
  <2>2. UNCHANGED <<ch, usb, busy, out, avail, fault>>
    BY <1>1 DEF ReadWork
  <2>3. (ch /\ ~busy) => pc' = "read"
    BY <1>1 DEF ReadWork, MayRead
  <2> QED BY <2>1, <2>2, <2>3
<1>2. CASE ReadNothing
  <2>1. UNCHANGED queue /\ pc = "read" /\ fault' = (fault \/ avail)
    BY <1>2 DEF ReadNothing
  <2>2. UNCHANGED <<ch, usb, busy, out, avail>>
    BY <1>2 DEF ReadNothing
  <2> QED BY <2>1, <2>2 DEF QueueTyped
<1>3. CASE ReadData
  <2>1. UNCHANGED <<queue, ch, usb, out, fault>> /\ avail' = FALSE
    BY <1>3 DEF ReadData
  <2>2. busy' = FALSE \/ UNCHANGED busy
    BY <1>3 DEF ReadData
  <2> QED BY <2>1, <2>2 DEF QueueTyped
<1>4. CASE Send
  <2>1. UNCHANGED <<queue, ch, usb, avail>> /\ pc = "send"
    BY <1>4 DEF Send
  <2>2. out' = TRUE \/ fault' = TRUE
    BY <1>4 DEF Send
  <2> QED BY <2>1, <2>2 DEF QueueTyped, WorkQueued
<1>5. CASE WriteWork
  <2>1. /\ QueueTyped' /\ pc = "idle"
        /\ WorkQueued("sdio") => WorkQueued("sdio")'
    BY <1>5, StartsKeeps DEF WriteWork, Works
  <2>2. UNCHANGED <<ch, usb, busy, out, avail, fault>>
    BY <1>5 DEF WriteWork
  <2> QED BY <2>1, <2>2
<1>6. CASE Sleep
  BY <1>6 DEF Sleep, QueueTyped, WorkQueued
<1>7. CASE Awake
  BY <1>7 DEF Awake, QueueTyped, WorkQueued
<1>8. CASE Write
  BY <1>8 DEF Write, QueueTyped, WorkQueued
<1>9. CASE CloseWork
  <2>1. /\ QueueTyped' /\ pc = "idle"
        /\ WorkQueued("sdio") => WorkQueued("sdio")'
    BY <1>9, StartsKeeps DEF CloseWork, Works
  <2>2. UNCHANGED <<usb, busy, out, pc>>
    BY <1>9 DEF CloseWork
  <2>3. \/ ch' = FALSE /\ avail' = FALSE /\ UNCHANGED fault
        \/ fault' = TRUE /\ UNCHANGED <<ch, avail>>
        \/ UNCHANGED <<ch, avail, fault>>
    BY <1>9 DEF CloseWork
  <2> QED BY <2>1, <2>2, <2>3
<1> QED BY <1>1, <1>2, <1>3, <1>4, <1>5, <1>6, <1>7, <1>8, <1>9 DEF Worker

LEMMA OwedHolds == Spec => [](QueueTyped /\ Owed)
<1>1. Init => QueueTyped /\ Owed
  BY DEF Init, QueueTyped, Owed, AnnouncedOpen, BusyHasOwner, DataHasReader
<1>2. QueueTyped /\ Owed /\ [Next]_vars => (QueueTyped /\ Owed)'
  <2>1. CASE UNCHANGED vars
    BY <2>1 DEF vars, wq, QueueTyped, WorkQueued, Owed, AnnouncedOpen,
                BusyHasOwner, DataHasReader
  <2> QED BY <2>1, QueueGrows, OwedCallback, OwedWork DEF Next
<1> QED BY <1>1, <1>2, PTL DEF Spec

\* No data of the modem is forgotten: while USB is connected, and nothing failed
\* since it connected, data to read has a queued work, a work about to read or a
\* packet out whose completion queues one (diag_sdio_notify,
\* diagfwd_write_complete_sdio), although a work that finds in_busy_sdio set goes
\* away without reading.
THEOREM DataIsOwned == Spec => []DataHasReader
<1>1. Owed => DataHasReader
  BY DEF Owed
<1> QED BY <1>1, OwedHolds, PTL
=============================================================================
