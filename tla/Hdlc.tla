-------------------------------- MODULE Hdlc --------------------------------
(***************************************************************************)
(* diagchar_hdlc.c: a packet, sent in fragments, is encoded into buffers   *)
(* that may be too small for it, and decoded from pieces that were cut     *)
(* anywhere into buffers that may be too small as well.  A byte is one of  *)
(* those the code tells apart: ESC_CHAR, CONTROL_CHAR, these two masked,   *)
(* and any other.                                                          *)
(***************************************************************************)
EXTENDS Naturals, SequencesExt

CONSTANTS MaxLen,       \* bound: bytes in the packet
          MaxRoom       \* bound: bytes in a buffer, or in a piece
ASSUME BoundsPositive == {MaxLen, MaxRoom} \subseteq Nat \ {0}

Bytes == {"plain", "esc", "ctl", "xesc", "xctl"}
Sizes == 1..MaxRoom
Packets == UNION {[1..n -> Bytes] : n \in 0..MaxLen}

VARIABLES
  src, rest,    \* what is left of this fragment; the fragment after it
  state,        \* diag_send_state_enum_type
  summed, crc,  \* bytes the CRC has stepped over; its bytes left to send
  room, wire,   \* what is left of the destination; what was encoded
  rd, piece,    \* what of it the decoder took; what is left of src_size
  dest, escaping, out,  \* what is left of dest_size; the flag; what was decoded
  packet        \* history: the packet, and its CRC once it is known

enc == <<src, rest, state, summed, crc, room, wire, packet>>
dec == <<rd, piece, dest, escaping, out>>
vars == <<enc, dec>>

Init ==
  /\ packet \in Packets
  /\ \E n \in 0..Len(packet) : src = SubSeq(packet, 1, n) /\ rest = SubSeq(packet, n + 1, Len(packet))
  /\ state = "start" /\ summed = <<>> /\ crc = <<>> /\ room \in Sizes /\ wire = <<>>
  /\ rd = 0 /\ piece = 0 /\ dest \in Sizes /\ escaping = FALSE /\ out = <<>>

\* src_byte ^ ESC_MASK.
Mask(b) == CASE b = "esc" -> "xesc" [] b = "xesc" -> "esc"
             [] b = "ctl" -> "xctl" [] b = "xctl" -> "ctl"
             [] b = "plain" -> "plain"

\* Mutant: only ESC_CHAR is escaped.
SpecialEsc(b) == b = "esc"

Special(b) == b \in {"ctl", "esc"}

-----------------------------------------------------------------------------
(***************************************************************************)
(* diag_hdlc_encode.  A call ends where nothing fits, and the caller comes *)
(* back with a new destination.                                            *)
(***************************************************************************)
Needs(b) == IF Special(b) THEN 2 ELSE 1

Put(b) ==
  /\ Needs(b) <= room /\ room' = room - Needs(b)
  /\ wire' = wire \o (IF Special(b) THEN <<"esc", Mask(b)>> ELSE <<b>>)

Start ==
  /\ state = "start" /\ state' = "busy" /\ summed' = <<>>
  /\ UNCHANGED <<src, rest, crc, room, wire, packet, dec>>

\* Mutant: the CRC steps over an escape that does not fit.
SumsEarly ==
  /\ state = "busy" /\ src # <<>>
  /\ summed' = Append(summed, Head(src))
  /\ \/ Put(Head(src)) /\ src' = Tail(src)
     \/ Needs(Head(src)) > room /\ room' = 0 /\ UNCHANGED <<src, wire>>
  /\ UNCHANGED <<rest, state, crc, packet, dec>>

EncodeByte ==
  /\ state = "busy" /\ src # <<>>
  /\ Put(Head(src)) /\ src' = Tail(src) /\ summed' = Append(summed, Head(src))
  /\ UNCHANGED <<rest, state, crc, packet, dec>>

\* The fragment is done; the CRC of the last one may be any two bytes.
FragmentDone ==
  /\ state = "busy" /\ src = <<>>
  /\ IF rest = <<>>
     THEN /\ state' = "crc1" /\ crc' \in [1..2 -> Bytes] /\ packet' = packet \o crc'
     ELSE state' = "complete" /\ UNCHANGED <<crc, packet>>
  /\ UNCHANGED <<src, rest, summed, room, wire, dec>>

EncodeCrc ==
  /\ state \in {"crc1", "crc2"}
  /\ Put(Head(crc)) /\ crc' = Tail(crc)
  /\ state' = IF state = "crc1" THEN "crc2" ELSE "term"
  /\ UNCHANGED <<src, rest, summed, packet, dec>>

EncodeTerm ==
  /\ state = "term" /\ room >= 1
  /\ wire' = Append(wire, "ctl") /\ room' = room - 1 /\ state' = "complete"
  /\ UNCHANGED <<src, rest, summed, crc, packet, dec>>

\* The caller: the next fragment goes on where the last one ended.
NextFragment ==
  /\ state = "complete" /\ rest # <<>>
  /\ src' = rest /\ rest' = <<>> /\ state' = "busy"
  /\ UNCHANGED <<summed, crc, room, wire, packet, dec>>

NewBuffer ==
  /\ \/ room = 0 /\ state # "complete"
     \/ state = "busy" /\ src # <<>> /\ Needs(Head(src)) > room
     \/ state \in {"crc1", "crc2"} /\ Needs(Head(crc)) > room
  /\ room' \in Sizes
  /\ UNCHANGED <<src, rest, state, summed, crc, wire, packet, dec>>

-----------------------------------------------------------------------------
(***************************************************************************)
(* diag_hdlc_decode.  A call ends where the piece or the destination does, *)
(* and the caller comes back with another.                                 *)
(***************************************************************************)
Encoded == state = "complete" /\ rest = <<>>

Next1 == wire[rd + 1]

Take(n, b) ==
  /\ rd' = rd + n /\ piece' = piece - n /\ dest' = dest - 1 /\ out' = Append(out, b)

\* Mutant: an escape at the end of a piece is forgotten.
ForgetsEscape ==
  /\ piece = 1 /\ dest > 0 /\ ~escaping /\ Next1 = "esc"
  /\ rd' = rd + 1 /\ piece' = 0
  /\ UNCHANGED <<escaping, dest, out, enc>>

\* An escape that ends a piece is carried to the next.
CarryEscape ==
  /\ piece = 1 /\ dest > 0 /\ ~escaping /\ Next1 = "esc"
  /\ rd' = rd + 1 /\ piece' = 0 /\ escaping' = TRUE
  /\ UNCHANGED <<dest, out, enc>>

DecodeByte ==
  /\ piece > 0 /\ dest > 0
  /\ \/ escaping /\ Take(1, Mask(Next1))
     \/ ~escaping /\ Next1 # "esc" /\ Take(1, Next1)
     \/ ~escaping /\ Next1 = "esc" /\ piece > 1 /\ Take(2, Mask(wire[rd + 2]))
  /\ escaping' = FALSE
  /\ UNCHANGED enc

NewPiece ==
  /\ Encoded /\ piece = 0 /\ rd < Len(wire)
  /\ piece' \in {n \in Sizes : rd + n <= Len(wire)}
  /\ UNCHANGED <<rd, dest, escaping, out, enc>>

NewDest ==
  /\ dest = 0 /\ dest' \in Sizes
  /\ UNCHANGED <<rd, piece, escaping, out, enc>>

Next ==
  \/ Start \/ EncodeByte \/ FragmentDone \/ EncodeCrc \/ EncodeTerm \/ NextFragment \/ NewBuffer
  \/ CarryEscape \/ DecodeByte \/ NewPiece \/ NewDest

Spec == Init /\ [][Next]_vars

-----------------------------------------------------------------------------
\* The CRC steps over each byte of the packet once, although an escape that does
\* not fit is taken back and tried again, and fragments come one by one.
SummedOnce == state \in {"busy", "crc1"} => summed \o src \o rest \o crc = packet

\* CONTROL_CHAR ends the encoded packet and is nowhere else, not in its CRC.
ControlEnds ==
  \A i \in DOMAIN wire : wire[i] = "ctl" => i = Len(wire) /\ Encoded

\* What is decoded is the packet, its CRC and the end, wherever the buffers and
\* pieces were cut.
RoundTrip ==
  Encoded => /\ IsPrefix(out, Append(packet, "ctl"))
             /\ rd = Len(wire) => out = Append(packet, "ctl")
=============================================================================
