------------------------------ MODULE DiagSdio ------------------------------
(***************************************************************************)
(* diagfwd_sdio.c: diag packets between the modem's SDIO channel and USB.  *)
(* Three works share a single-threaded queue; the callbacks of USB and     *)
(* SDIO run beside it.  A callback is one step, a work is cut where it     *)
(* looks at shared state or sleeps.                                        *)
(***************************************************************************)
EXTENDS Sequences

CONSTANTS Modes         \* values of logging_mode: "usb", "memory", "none"

VARIABLES
  mode,         \* logging_mode
  ch,           \* sdio_ch is not NULL
  usb,          \* usb_connected
  busy,         \* in_busy_sdio
  out,          \* buf_in_sdio is with USB, or with the reader in memory mode
  reading,      \* a read of USB is posted: usb_read_mdm_ptr
  avail, room,  \* SDIO has data to read, has room for what USB brought
  queue, pc,    \* diag_sdio_wq: works pending, and where the running one is
  asleep,       \* the running work sleeps on wait_q
  clobbered, stray, caught, reset, fault
                \* history: out data overwritten; the channel used when NULL; it
                \* was removed under a work about to use it; busy cleared under
                \* the data; a write, a close or a packet that failed

wq == <<queue, pc, asleep>>
vars == <<mode, ch, usb, busy, out, reading, avail, room, wq, clobbered, stray, caught, reset, fault>>

Works == {"mdm", "sdio", "close"}

Init ==
  /\ mode \in Modes
  /\ ch = FALSE /\ usb = FALSE /\ busy = FALSE /\ out = FALSE /\ reading = FALSE
  /\ avail = FALSE /\ room = FALSE
  /\ queue = <<>> /\ pc = "idle" /\ asleep = FALSE
  /\ clobbered = FALSE /\ stray = FALSE /\ caught = FALSE /\ reset = FALSE /\ fault = FALSE

\* queue_work: a work that is pending is not queued again.
Queued(q, w) == IF \E i \in DOMAIN q : q[i] = w THEN q ELSE Append(q, w)

-----------------------------------------------------------------------------
\* diag_sdio_probe: sdio_open may fail.
Probe ==
  /\ ~ch
  /\ ch' = TRUE /\ queue' = Queued(queue, "mdm")
  /\ UNCHANGED <<mode, usb, busy, out, reading, avail, room, pc, asleep, clobbered, stray, caught,
                 reset, fault>>

\* diag_sdio_remove: "Disable SDIO channel to prevent further read/write".
Remove ==
  /\ ch /\ ch' = FALSE /\ avail' = FALSE /\ room' = FALSE
  /\ caught' = (caught \/ pc \in {"read", "write"})
  /\ UNCHANGED <<mode, usb, busy, out, reading, wq, clobbered, stray, reset, fault>>

\* diagfwd_connect_sdio.  USB has completed what it had before it connects again;
\* the reader of memory mode has not.
Connect ==
  /\ ~usb /\ (mode = "usb" => ~out)
  /\ usb' = TRUE /\ busy' = FALSE
  /\ reset' = (reset \/ out)
  /\ ch' \in {ch, TRUE}
  /\ queue' = Queued(Queued(queue, "mdm"), "sdio")
  /\ fault' = FALSE
  /\ UNCHANGED <<mode, out, reading, avail, room, pc, asleep, clobbered, stray, caught>>

\* diagfwd_disconnect_sdio.
Disconnect ==
  /\ usb /\ usb' = FALSE /\ reading' = FALSE
  /\ IF ch /\ mode = "usb"
     THEN busy' = TRUE /\ queue' = Queued(queue, "close")
     ELSE UNCHANGED <<busy, queue>>
  /\ UNCHANGED <<mode, ch, out, avail, room, pc, asleep, clobbered, stray, caught, reset, fault>>

\* Mutant: the completion does not look for more.
CompleteAndRest ==
  /\ out /\ out' = FALSE /\ busy' = FALSE
  /\ UNCHANGED <<mode, ch, usb, reading, avail, room, wq, clobbered, stray, caught, reset, fault>>

\* diagfwd_write_complete_sdio.
WriteComplete ==
  /\ out /\ out' = FALSE /\ busy' = FALSE
  /\ queue' = Queued(queue, "sdio")
  /\ UNCHANGED <<mode, ch, usb, reading, avail, room, pc, asleep, clobbered, stray, caught, reset,
                 fault>>

\* diagfwd_read_complete_sdio.
ReadComplete ==
  /\ reading /\ reading' = FALSE
  /\ queue' = Queued(queue, "mdm")
  /\ UNCHANGED <<mode, ch, usb, busy, out, avail, room, pc, asleep, clobbered, stray, caught, reset,
                 fault>>

-----------------------------------------------------------------------------
\* diag_sdio_notify: data to read.
DataAvail ==
  /\ ch /\ ~avail /\ avail' = TRUE
  /\ queue' = Queued(queue, "sdio")
  /\ UNCHANGED <<mode, ch, usb, busy, out, reading, room, pc, asleep, clobbered, stray, caught,
                 reset, fault>>

\* Mutant: only data to read is announced.
RoomUnannounced ==
  /\ ch /\ ~room /\ room' = TRUE
  /\ UNCHANGED <<mode, ch, usb, busy, out, reading, avail, wq, clobbered, stray, caught, reset, fault>>

\* diag_sdio_notify: room to write wakes the work that waits for it.
RoomAvail ==
  /\ ch /\ ~room /\ room' = TRUE /\ asleep' = FALSE
  /\ UNCHANGED <<mode, ch, usb, busy, out, reading, avail, queue, pc, clobbered, stray, caught,
                 reset, fault>>

-----------------------------------------------------------------------------
Starts(w) == pc = "idle" /\ queue # <<>> /\ Head(queue) = w /\ queue' = Tail(queue)

\* Mutant: the test of in_busy_sdio is dropped.
MayReadAlways == ch

\* __diag_sdio_send_req: the test, the read, and what is done with the data.
MayRead == ch /\ ~busy

ReadWork ==
  /\ Starts("sdio")
  /\ pc' = IF MayRead THEN "read" ELSE "idle"
  /\ UNCHANGED <<mode, ch, usb, busy, out, reading, avail, room, asleep, clobbered, stray, caught,
                 reset, fault>>

Dropped == (~usb /\ mode = "usb") \/ mode = "none"

\* MAX_IN_BUF_SIZE bytes or more are left where they are.
ReadNothing ==
  /\ pc = "read" /\ pc' = "idle"
  /\ fault' = (fault \/ avail)
  /\ stray' = (stray \/ ~ch)
  /\ UNCHANGED <<mode, ch, usb, busy, out, reading, avail, room, queue, asleep, clobbered,
                 caught, reset>>

ReadData ==
  /\ pc = "read" /\ avail /\ avail' = FALSE
  /\ clobbered' = (clobbered \/ out)
  /\ IF Dropped THEN busy' = FALSE /\ pc' = "idle" ELSE pc' = "send" /\ UNCHANGED busy
  /\ UNCHANGED <<mode, ch, usb, out, reading, room, queue, asleep, stray, caught, reset, fault>>

\* diag_device_write, whose failure nobody looks at.
Send ==
  /\ pc = "send" /\ pc' = "idle" /\ busy' = TRUE
  /\ \/ out' = TRUE /\ UNCHANGED fault
     \/ fault' = TRUE /\ UNCHANGED out
  /\ UNCHANGED <<mode, ch, usb, reading, avail, room, queue, asleep, clobbered, stray, caught, reset>>

\* diag_read_mdm_work_fn: sleeps until there is room or no channel.
WriteWork ==
  /\ Starts("mdm")
  /\ pc' = IF ch THEN "wait" ELSE "idle"
  /\ UNCHANGED <<mode, ch, usb, busy, out, reading, avail, room, asleep, clobbered, stray, caught,
                 reset, fault>>

Sleep ==
  /\ pc = "wait" /\ ~asleep /\ ch /\ ~room
  /\ asleep' = TRUE
  /\ UNCHANGED <<mode, ch, usb, busy, out, reading, avail, room, queue, pc, clobbered, stray, caught,
                 reset, fault>>

\* Mutant: after the wait the channel is not looked at again.
AwakeBlind ==
  /\ pc = "wait" /\ ~asleep /\ (room \/ ~ch)
  /\ pc' = "write"
  /\ UNCHANGED <<mode, ch, usb, busy, out, reading, avail, room, queue, asleep, clobbered,
                 stray, caught, reset, fault>>

Awake ==
  /\ pc = "wait" /\ ~asleep /\ (room \/ ~ch)
  /\ pc' = IF ch THEN "write" ELSE "idle"
  /\ UNCHANGED <<mode, ch, usb, busy, out, reading, avail, room, queue, asleep, clobbered,
                 stray, caught, reset, fault>>

\* sdio_write, then the next read of USB is posted; there may be room left.
Write ==
  /\ pc = "write" /\ pc' = "idle"
  /\ stray' \in {stray, stray \/ ~ch}
  /\ room' \in {room, FALSE}
  /\ reading' = usb
  /\ UNCHANGED <<mode, ch, usb, busy, out, avail, queue, asleep, clobbered, caught,
                 reset, fault>>

\* diag_close_sdio_work_fn.
CloseWork ==
  /\ Starts("close")
  /\ IF ch THEN \/ ch' = FALSE /\ avail' = FALSE /\ room' = FALSE /\ UNCHANGED fault
                \/ fault' = TRUE /\ UNCHANGED <<ch, avail, room>>
           ELSE UNCHANGED <<ch, avail, room, fault>>
  /\ UNCHANGED <<mode, usb, busy, out, reading, pc, asleep, clobbered, stray, caught, reset>>

Worker == ReadWork \/ ReadNothing \/ ReadData \/ Send \/ WriteWork \/ Sleep \/ Awake \/ Write
            \/ CloseWork

Next == \/ Probe \/ Remove \/ Connect \/ Disconnect \/ WriteComplete \/ ReadComplete
        \/ DataAvail \/ RoomAvail \/ Worker

\* The queue's thread runs, USB completes what it was given, and the modem drains
\* its channel.
Spec == Init /\ [][Next]_vars /\ WF_vars(Worker) /\ WF_vars(WriteComplete) /\ WF_vars(RoomAvail)

-----------------------------------------------------------------------------
\* Data on its way to USB is not read over, though in_busy_sdio is tested and set
\* apart and connecting, disconnecting and completing all write it; only a reader
\* in memory mode that USB connects under loses its buffer.
InBufferIntact == clobbered => reset /\ mode # "usb"

\* Data is read, however the notification, the completion and the test of
\* in_busy_sdio fall, unless USB disconnects, the channel closes or something
\* failed since the last connection.
DataServed == avail /\ ch /\ usb ~> ~avail \/ ~ch \/ ~usb \/ fault

\* The close is served though it is queued behind a work that waits for room.
CloseServed == (\E i \in DOMAIN queue : queue[i] = "close") ~> ~ch \/ fault

\* "Disable SDIO channel to prevent further read/write": a channel that is gone is
\* used by no work but one that had tested it just before, however long a work
\* slept in between.
RemoveStopsIo == stray => caught
=============================================================================
