----------------------------- MODULE HdlcProofs -----------------------------
(***************************************************************************)
(* Theorems about Hdlc, for packets and buffers of any size: the encoder,  *)
(* and the decoder that undoes it.                                         *)
(***************************************************************************)
EXTENDS Hdlc, SequenceTheorems, TLAPS

EncTyped ==
  /\ src \in Seq(Bytes) /\ rest \in Seq(Bytes) /\ summed \in Seq(Bytes)
  /\ crc \in Seq(Bytes) /\ wire \in Seq(Bytes) /\ packet \in Seq(Bytes)
  /\ room \in Nat
  /\ state \in {"start", "busy", "crc1", "crc2", "term", "complete"}

\* What was summed, then what is left, is the packet; its CRC comes last.
Summed ==
  /\ state = "start" => src \o rest = packet /\ crc = <<>>
  /\ state = "busy" => (summed \o src) \o rest = packet /\ crc = <<>>
  /\ state = "complete" /\ rest # <<>> => src = <<>> /\ summed \o rest = packet /\ crc = <<>>
  /\ state = "crc1" => summed \o crc = packet /\ Len(crc) = 2
  /\ state = "crc2" => Len(crc) = 1
  /\ state \in {"crc1", "crc2", "term"} => src = <<>> /\ rest = <<>>

\* No byte sent so far ends the packet, but the last of an encoded one.
Ended == \A i \in 1..Len(wire) : wire[i] = "ctl" => i = Len(wire) /\ Encoded

Inv == EncTyped /\ Summed /\ Ended

\* n bytes are a sequence.
LEMMA Counted ==
  ASSUME NEW n \in Nat, NEW c \in [1..n -> Bytes]
  PROVE  c \in Seq(Bytes) /\ Len(c) = n
<1>1. c \in Seq(Bytes)
  OBVIOUS
<1>2. DOMAIN c = 1..n /\ DOMAIN c = 1..Len(c) /\ Len(c) \in Nat
  BY <1>1, LenProperties
<1> QED BY <1>1, <1>2

\* A byte moved from the head of what is left to the end of what was summed.
LEMMA Moved ==
  ASSUME NEW s \in Seq(Bytes), NEW t \in Seq(Bytes), t # <<>>
  PROVE  /\ Head(t) \in Bytes /\ Tail(t) \in Seq(Bytes)
         /\ Append(s, Head(t)) \in Seq(Bytes)
         /\ Append(s, Head(t)) \o Tail(t) = s \o t
<1>1. Head(t) \in Bytes /\ Tail(t) \in Seq(Bytes) /\ Len(Tail(t)) = Len(t) - 1
      /\ \A i \in 1..Len(Tail(t)) : Tail(t)[i] = t[i + 1]
  BY HeadTailProperties
<1>2. /\ Append(s, Head(t)) \in Seq(Bytes) /\ Len(Append(s, Head(t))) = Len(s) + 1
      /\ \A i \in 1..Len(s) : Append(s, Head(t))[i] = s[i]
      /\ Append(s, Head(t))[Len(s) + 1] = t[1]
  BY <1>1, AppendProperties
<1>3. /\ Append(s, Head(t)) \o Tail(t) \in Seq(Bytes) /\ s \o t \in Seq(Bytes)
      /\ Len(Append(s, Head(t)) \o Tail(t)) = Len(s) + Len(t) /\ Len(s \o t) = Len(s) + Len(t)
  BY <1>1, <1>2, ConcatProperties
<1>4. ASSUME NEW i \in 1..Len(s) + Len(t)
      PROVE  (Append(s, Head(t)) \o Tail(t))[i] = (s \o t)[i]
  <2>1. (Append(s, Head(t)) \o Tail(t))[i]
          = IF i <= Len(s) + 1 THEN Append(s, Head(t))[i] ELSE Tail(t)[i - (Len(s) + 1)]
    BY <1>1, <1>2, ConcatProperties
  <2>2. (s \o t)[i] = IF i <= Len(s) THEN s[i] ELSE t[i - Len(s)]
    BY ConcatProperties
  <2> QED BY <1>1, <1>2, <2>1, <2>2
<1> QED BY <1>1, <1>2, <1>3, <1>4, SeqEqual

\* Two runs of bytes that do not end the packet make one that does not.
LEMMA NoEnd ==
  ASSUME NEW s \in Seq(Bytes), NEW t \in Seq(Bytes),
         \A i \in 1..Len(s) : s[i] # "ctl", \A i \in 1..Len(t) : t[i] # "ctl"
  PROVE  /\ s \o t \in Seq(Bytes)
         /\ \A i \in 1..Len(s \o t) : (s \o t)[i] # "ctl"
<1>1. /\ s \o t \in Seq(Bytes) /\ Len(s \o t) = Len(s) + Len(t)
      /\ \A i \in 1..Len(s) + Len(t) :
            (s \o t)[i] = IF i <= Len(s) THEN s[i] ELSE t[i - Len(s)]
  BY ConcatProperties
<1>2. Len(s) \in Nat /\ Len(t) \in Nat
  BY LenProperties
<1>3. ASSUME NEW i \in 1..Len(s) + Len(t)
      PROVE  (s \o t)[i] # "ctl"
  <2>1. CASE i <= Len(s)
    <3>1. (s \o t)[i] = s[i] /\ i \in 1..Len(s)
      BY <1>1, <1>2, <2>1
    <3> QED BY <3>1
  <2>2. CASE ~(i <= Len(s))
    <3>1. (s \o t)[i] = t[i - Len(s)] /\ i - Len(s) \in 1..Len(t)
      BY <1>1, <1>2, <2>2
    <3> QED BY <3>1
  <2> QED BY <2>1, <2>2
<1> QED BY <1>1, <1>3

\* What Put sends of a byte never ends the packet.
LEMMA PutSends ==
  ASSUME EncTyped, NEW b \in Bytes, Put(b),
         \A i \in 1..Len(wire) : wire[i] # "ctl"
  PROVE  /\ room' \in Nat /\ wire' \in Seq(Bytes)
         /\ \A i \in 1..Len(wire') : wire'[i] # "ctl"
<1>1. PICK w \in Seq(Bytes \ {"ctl"}) : wire' = wire \o w
  <2>1. <<"esc", Mask(b)>> \in Seq(Bytes \ {"ctl"}) \/ ~Special(b)
    BY DEF Special, Mask, Bytes
  <2>2. <<b>> \in Seq(Bytes \ {"ctl"}) \/ Special(b)
    BY DEF Special, Bytes
  <2> QED BY <2>1, <2>2 DEF Put
<1>2. w \in Seq(Bytes) /\ \A i \in 1..Len(w) : w[i] # "ctl"
  BY <1>1, ElementOfSeq, SeqMonotonic
<1>3. room' \in Nat
  BY DEF EncTyped, Put, Needs
<1> QED BY <1>1, <1>2, <1>3, NoEnd DEF EncTyped

-----------------------------------------------------------------------------
LEMMA InitInv == Init => Inv
<1> SUFFICES ASSUME Init PROVE Inv
  OBVIOUS
<1>1. PICK m \in 0..MaxLen : packet \in [1..m -> Bytes]
  BY DEF Init, Packets
<1>2. packet \in Seq(Bytes) /\ Len(packet) \in Nat
  BY <1>1, BoundsPositive, LenProperties
<1>3. PICK n \in 0..Len(packet) : /\ src = SubSeq(packet, 1, n)
                                  /\ rest = SubSeq(packet, n + 1, Len(packet))
  BY DEF Init
<1>4. src \o rest = SubSeq(packet, 1, Len(packet))
  <2>1. 1 \in 1..Len(packet) + 1 /\ n \in 1 - 1..Len(packet) /\ Len(packet) \in n..Len(packet)
    BY <1>2
  <2> QED BY <1>2, <1>3, <2>1, ConcatAdjacentSubSeq
<1>5. src \o rest = packet
  BY <1>2, <1>4, SubSeqFull
<1>6. src \in Seq(Bytes)
  <2>1. \A i \in 1..n : packet[i] \in Bytes
    BY <1>2, ElementOfSeq
  <2> QED BY <1>2, <1>3, <2>1, SubSeqProperties
<1>7. rest \in Seq(Bytes)
  <2>1. \A i \in n + 1..Len(packet) : packet[i] \in Bytes
    BY <1>2, ElementOfSeq
  <2> QED BY <1>2, <1>3, <2>1, SubSeqProperties
<1>8. wire = <<>> /\ Len(wire) = 0 /\ <<>> \in Seq(Bytes)
  BY EmptySeq DEF Init
<1>9. EncTyped
  BY <1>2, <1>6, <1>7, <1>8, BoundsPositive DEF Init, EncTyped, Sizes
<1>10. Summed
  BY <1>5 DEF Init, Summed
<1>11. Ended
  BY <1>8 DEF Ended
<1> QED BY <1>9, <1>10, <1>11 DEF Inv

\* What a step that sends nothing leaves of the wire.
LEMMA WireKept ==
  ASSUME Inv, UNCHANGED wire, Encoded => Encoded'
  PROVE  Ended'
BY DEF Inv, Ended

\* While the packet is not encoded, nothing sent ends it.
LEMMA WireOpen ==
  ASSUME Inv, ~Encoded
  PROVE  \A i \in 1..Len(wire) : wire[i] # "ctl"
BY DEF Inv, Ended

LEMMA StepInv == Inv /\ [Next]_vars => Inv'
<1> SUFFICES ASSUME Inv, [Next]_vars PROVE Inv'
  OBVIOUS
<1>1. CASE Start
  <2>1. <<>> \in Seq(Bytes) /\ <<>> \o src = src
    BY EmptySeq, ConcatEmptySeq DEF Inv, EncTyped
  <2>2. EncTyped'
    BY <1>1, <2>1 DEF Start, Inv, EncTyped
  <2>3. Summed'
    BY <1>1, <2>1 DEF Start, Inv, Summed
  <2>4. Ended'
    BY <1>1, WireKept DEF Start, Encoded
  <2> QED BY <2>2, <2>3, <2>4 DEF Inv
<1>2. CASE EncodeByte
  <2>1. /\ Head(src) \in Bytes /\ src' \in Seq(Bytes)
        /\ summed' \in Seq(Bytes) /\ summed' \o src' = summed \o src
    BY <1>2, Moved DEF EncodeByte, Inv, EncTyped
  <2>2. /\ room' \in Nat /\ wire' \in Seq(Bytes)
        /\ \A i \in 1..Len(wire') : wire'[i] # "ctl"
    BY <1>2, <2>1, WireOpen, PutSends DEF EncodeByte, Encoded, Inv
  <2>3. EncTyped'
    BY <1>2, <2>1, <2>2 DEF EncodeByte, Inv, EncTyped
  <2>4. Summed'
    BY <1>2, <2>1 DEF EncodeByte, Inv, Summed
  <2>5. Ended'
    BY <2>2 DEF Ended
  <2> QED BY <2>3, <2>4, <2>5 DEF Inv
<1>3. CASE FragmentDone
  <2>1. Ended'
    <3>1. UNCHANGED wire /\ ~Encoded
      BY <1>3 DEF FragmentDone, Encoded
    <3> QED BY <3>1, WireKept
  <2>2. CASE rest = <<>>
    <3>1. crc' \in Seq(Bytes) /\ Len(crc') = 2 /\ packet' = packet \o crc'
      <4>1. crc' \in [1..2 -> Bytes] /\ packet' = packet \o crc'
        BY <1>3, <2>2 DEF FragmentDone
      <4>2. 2 \in Nat
        OBVIOUS
      <4> QED BY <4>1, <4>2, Counted
    <3>2. packet' \in Seq(Bytes)
      BY <3>1, ConcatProperties DEF Inv, EncTyped
    <3>3. summed = packet
      <4>1. (summed \o <<>>) \o <<>> = packet
        BY <1>3, <2>2 DEF FragmentDone, Inv, Summed
      <4> QED BY <4>1, ConcatEmptySeq DEF Inv, EncTyped
    <3>4. EncTyped'
      BY <1>3, <2>2, <3>1, <3>2 DEF FragmentDone, Inv, EncTyped
    <3>5. Summed'
      BY <1>3, <2>2, <3>1, <3>3 DEF FragmentDone, Inv, Summed
    <3> QED BY <2>1, <3>4, <3>5 DEF Inv
  <2>3. CASE rest # <<>>
    <3>1. EncTyped'
      BY <1>3, <2>3 DEF FragmentDone, Inv, EncTyped
    <3>2. summed \o src = summed
      BY <1>3, ConcatEmptySeq DEF FragmentDone, Inv, EncTyped
    <3>3. Summed'
      BY <1>3, <2>3, <3>2 DEF FragmentDone, Inv, Summed
    <3> QED BY <2>1, <3>1, <3>3 DEF Inv
  <2> QED BY <2>2, <2>3
<1>4. CASE EncodeCrc
  <2>1. crc # <<>> /\ (state = "crc1" => Len(crc) = 2) /\ (state = "crc2" => Len(crc) = 1)
    BY <1>4, EmptySeq DEF EncodeCrc, Inv, Summed
  <2>2. Head(crc) \in Bytes /\ crc' \in Seq(Bytes) /\ Len(crc') = Len(crc) - 1
    BY <1>4, <2>1, HeadTailProperties DEF EncodeCrc, Inv, EncTyped
  <2>3. /\ room' \in Nat /\ wire' \in Seq(Bytes)
        /\ \A i \in 1..Len(wire') : wire'[i] # "ctl"
    BY <1>4, <2>2, WireOpen, PutSends DEF EncodeCrc, Encoded, Inv
  <2>4. EncTyped'
    BY <1>4, <2>2, <2>3 DEF EncodeCrc, Inv, EncTyped
  <2>5. Summed'
    BY <1>4, <2>1, <2>2 DEF EncodeCrc, Inv, Summed
  <2>6. Ended'
    BY <2>3 DEF Ended
  <2> QED BY <2>4, <2>5, <2>6 DEF Inv
<1>5. CASE EncodeTerm
  <2>1. /\ wire' \in Seq(Bytes) /\ Len(wire') = Len(wire) + 1 /\ Len(wire) \in Nat
        /\ \A i \in 1..Len(wire) : wire'[i] = wire[i]
    <3>1. "ctl" \in Bytes
      BY DEF Bytes
    <3> QED BY <1>5, <3>1, AppendProperties, LenProperties DEF EncodeTerm, Inv, EncTyped
  <2>2. EncTyped'
    BY <1>5, <2>1 DEF EncodeTerm, Inv, EncTyped
  <2>3. rest = <<>> /\ Encoded'
    BY <1>5 DEF EncodeTerm, Inv, Summed, Encoded
  <2>4. Summed'
    BY <1>5, <2>3 DEF EncodeTerm, Inv, Summed
  <2>5. \A i \in 1..Len(wire) : wire[i] # "ctl"
    BY <1>5, WireOpen DEF EncodeTerm, Encoded
  <2>6. Ended'
    <3> SUFFICES ASSUME NEW i \in 1..Len(wire'), wire'[i] = "ctl"
                 PROVE  i = Len(wire')
      BY <2>3 DEF Ended
    <3>1. i \notin 1..Len(wire)
      BY <2>1, <2>5
    <3> QED BY <2>1, <3>1
  <2> QED BY <2>2, <2>4, <2>6 DEF Inv
<1>6. CASE NextFragment
  <2>1. EncTyped' /\ ~Encoded
    BY <1>6, EmptySeq DEF NextFragment, Inv, EncTyped, Encoded
  <2>2. summed \o rest \in Seq(Bytes) /\ (summed \o rest) \o <<>> = summed \o rest
    BY ConcatProperties, ConcatEmptySeq DEF Inv, EncTyped
  <2>3. Summed'
    BY <1>6, <2>2 DEF NextFragment, Inv, Summed
  <2>4. Ended'
    BY <1>6, <2>1, WireKept DEF NextFragment
  <2> QED BY <2>1, <2>3, <2>4 DEF Inv
<1>7. CASE NewBuffer
  <2>1. EncTyped'
    BY <1>7, BoundsPositive DEF NewBuffer, Sizes, Inv, EncTyped
  <2>2. Summed'
    BY <1>7 DEF NewBuffer, Inv, Summed
  <2>3. Ended'
    BY <1>7, WireKept DEF NewBuffer, Encoded
  <2> QED BY <2>1, <2>2, <2>3 DEF Inv
<1>8. CASE UNCHANGED enc
  BY <1>8 DEF enc, Inv, EncTyped, Summed, Ended, Encoded
<1>9. CarryEscape \/ DecodeByte \/ NewPiece \/ NewDest \/ UNCHANGED vars => UNCHANGED enc
  BY DEF CarryEscape, DecodeByte, NewPiece, NewDest, vars
<1> QED
  BY <1>1, <1>2, <1>3, <1>4, <1>5, <1>6, <1>7, <1>8, <1>9 DEF Next

LEMMA AlwaysInv == Spec => []Inv
BY InitInv, StepInv, PTL DEF Spec

-----------------------------------------------------------------------------
\* diag_hdlc_encode: whatever does not fit and is tried again in the next buffer,
\* and however the packet is cut into fragments, its CRC covers each byte once.
THEOREM Once == Spec => []SummedOnce
<1>1. Inv => SummedOnce
  <2> SUFFICES ASSUME Inv PROVE SummedOnce
    OBVIOUS
  <2>1. CASE state = "busy"
    <3>1. (summed \o src) \o rest = packet /\ crc = <<>>
      BY <2>1 DEF Inv, Summed
    <3>2. packet \o <<>> = packet
      BY ConcatEmptySeq DEF Inv, EncTyped
    <3> QED BY <2>1, <3>1, <3>2 DEF SummedOnce
  <2>2. CASE state = "crc1"
    <3>1. src = <<>> /\ rest = <<>> /\ summed \o crc = packet
      BY <2>2 DEF Inv, Summed
    <3>2. (summed \o <<>>) \o <<>> = summed
      BY ConcatEmptySeq DEF Inv, EncTyped
    <3> QED BY <2>2, <3>1, <3>2 DEF SummedOnce
  <2> QED BY <2>1, <2>2 DEF SummedOnce
<1> QED BY <1>1, AlwaysInv, PTL

\* diag_hdlc_encode: CONTROL_CHAR is sent last and nowhere else, be it in the
\* packet, in an escape that was taken back, or in the CRC.
THEOREM EndsOnce == Spec => []ControlEnds
<1>1. Inv => ControlEnds
  <2> SUFFICES ASSUME Inv PROVE ControlEnds
    OBVIOUS
  <2>1. DOMAIN wire = 1..Len(wire)
    BY LenProperties DEF Inv, EncTyped
  <2> QED BY <2>1 DEF Inv, Ended, ControlEnds
<1> QED BY <1>1, AlwaysInv, PTL

-----------------------------------------------------------------------------
(***************************************************************************)
(* The wire as the decoder reads it.  A byte lies in one place of it, or   *)
(* masked in two behind an escape; the wire carries a sequence when it can *)
(* be cut, at e[0], e[1], ..., into what lies there of each of its bytes.  *)
(***************************************************************************)
Chunk(w, a, z, b) ==
  \/ b # "esc" /\ z = a + 1 /\ w[z] = b
  \/ z = a + 2 /\ w[a + 1] = "esc" /\ w[z] = Mask(b)

CutAt(w, s, e) ==
  /\ e \in [0..Len(s) -> Nat]
  /\ e[0] = 0 /\ e[Len(s)] = Len(w)
  /\ \A k \in 1..Len(s) : /\ e[k - 1] < Len(w) /\ e[k] <= Len(w)
                          /\ Chunk(w, e[k - 1], e[k], s[k])

Carries(w, s) == \E e : CutAt(w, s, e)

\* Masked twice, a byte is itself.
LEMMA MaskTwice == \A b \in Bytes : Mask(b) \in Bytes /\ Mask(Mask(b)) = b
BY DEF Mask, Bytes

\* The empty wire carries nothing.
LEMMA CarriesNone == Carries(<<>>, <<>>)
<1> DEFINE e == [k \in 0..0 |-> 0]
<1>1. Len(<<>>) = 0
  OBVIOUS
<1>2. e \in [0..0 -> Nat] /\ e[0] = 0
  OBVIOUS
<1> HIDE DEF e
<1>3. CutAt(<<>>, <<>>, e)
  BY <1>1, <1>2 DEF CutAt
<1> QED BY <1>3 DEF Carries

\* u is the byte b as it is, or behind an escape.
Sends(u, b) ==
  \/ Len(u) = 1 /\ b # "esc" /\ u[1] = b
  \/ Len(u) = 2 /\ u[1] = "esc" /\ u[2] = Mask(b)

\* A byte so sent is carried after the others.
LEMMA CarriesMore ==
  ASSUME NEW w \in Seq(Bytes), NEW s \in Seq(Bytes), NEW b \in Bytes, NEW u \in Seq(Bytes),
         Carries(w, s), Sends(u, b)
  PROVE  Carries(w \o u, Append(s, b))
<1>1. PICK e : CutAt(w, s, e)
  BY DEF Carries
<1>2. Len(w) \in Nat /\ Len(s) \in Nat /\ Len(u) \in Nat \ {0}
  <2>1. Len(w) \in Nat
    BY LenProperties
  <2>2. Len(s) \in Nat
    BY LenProperties
  <2>3. Len(u) \in Nat
    BY LenProperties
  <2>4. Len(u) # 0
    BY DEF Sends
  <2> QED BY <2>1, <2>2, <2>3, <2>4
<1> DEFINE n == Len(s)
           d == [k \in 0..n + 1 |-> IF k <= n THEN e[k] ELSE Len(w) + Len(u)]
           t == Append(s, b)
           v == w \o u
<1>3. /\ Len(t) = n + 1 /\ t[n + 1] = b
      /\ \A k \in 1..n : t[k] = s[k]
  BY AppendProperties
<1>4. /\ Len(v) = Len(w) + Len(u)
      /\ \A i \in 1..Len(w) : v[i] = w[i]
      /\ \A i \in 1..Len(u) : v[Len(w) + i] = u[i]
  <2>1. /\ Len(v) = Len(w) + Len(u)
        /\ \A i \in 1..Len(w) + Len(u) : v[i] = IF i <= Len(w) THEN w[i] ELSE u[i - Len(w)]
    BY ConcatProperties
  <2> HIDE DEF v
  <2>2. ASSUME NEW i \in 1..Len(w) PROVE v[i] = w[i]
    BY <1>2, <2>1
  <2>3. ASSUME NEW i \in 1..Len(u) PROVE v[Len(w) + i] = u[i]
    <3>1. /\ Len(w) + i \in 1..Len(w) + Len(u) /\ ~(Len(w) + i <= Len(w))
          /\ Len(w) + i - Len(w) = i
      BY <1>2
    <3> QED BY <2>1, <3>1
  <2> QED BY <2>1, <2>2, <2>3
<1>5. /\ e \in [0..n -> Nat] /\ e[0] = 0 /\ e[n] = Len(w)
      /\ \A k \in 1..n : /\ e[k - 1] < Len(w) /\ e[k] <= Len(w)
                         /\ Chunk(w, e[k - 1], e[k], s[k])
  BY <1>1 DEF CutAt
<1>6. /\ d \in [0..n + 1 -> Nat] /\ d[n + 1] = Len(v)
      /\ \A k \in 0..n : d[k] = e[k]
  BY <1>2, <1>4, <1>5
<1> HIDE DEF d, t, v, n
<1>7. ASSUME NEW k \in 1..n + 1
      PROVE  /\ d[k - 1] < Len(v) /\ d[k] <= Len(v)
             /\ Chunk(v, d[k - 1], d[k], t[k])
  <2>1. CASE k \in 1..n
    <3>0. n \in Nat /\ k \in 0..n /\ k - 1 \in 0..n
      BY <1>2, <2>1 DEF n
    <3>1. /\ d[k - 1] = e[k - 1] /\ d[k] = e[k] /\ t[k] = s[k]
          /\ e[k - 1] \in Nat /\ e[k] \in Nat
      BY <1>3, <1>5, <1>6, <2>1, <3>0
    <3>2. e[k - 1] < Len(w) /\ e[k] <= Len(w) /\ Chunk(w, e[k - 1], e[k], s[k])
      BY <1>5, <2>1
    <3>3. Chunk(v, e[k - 1], e[k], s[k])
      <4> DEFINE a == e[k - 1]
                 z == e[k]
      <4>1. a \in Nat /\ z \in Nat /\ z <= Len(w) /\ Chunk(w, a, z, s[k])
        BY <3>1, <3>2
      <4> HIDE DEF a, z
      <4>2. a + 1 \in 1..Len(w) /\ z \in 1..Len(w)
        BY <1>2, <4>1 DEF Chunk
      <4>3. v[a + 1] = w[a + 1] /\ v[z] = w[z]
        BY <1>4, <4>2
      <4>4. Chunk(v, a, z, s[k])
        BY <4>1, <4>3 DEF Chunk
      <4> QED BY <4>4 DEF a, z
    <3> QED BY <1>2, <1>4, <3>1, <3>2, <3>3
  <2>2. CASE k = n + 1
    <3>1. d[k - 1] = Len(w) /\ d[k] = Len(w) + Len(u) /\ t[k] = b
      <4>1. n \in Nat /\ n \in 0..n /\ k - 1 = n
        BY <1>2, <2>2 DEF n
      <4> QED BY <1>3, <1>4, <1>5, <1>6, <2>2, <4>1
    <3>2. Chunk(v, Len(w), Len(w) + Len(u), b)
      <4>1. CASE Len(u) = 1 /\ b # "esc" /\ u[1] = b
        <5>1. v[Len(w) + 1] = b
          BY <1>4, <4>1
        <5> QED BY <4>1, <5>1 DEF Chunk
      <4>2. CASE Len(u) = 2 /\ u[1] = "esc" /\ u[2] = Mask(b)
        <5>1. 1 \in 1..Len(u) /\ 2 \in 1..Len(u)
          BY <4>2
        <5>2. v[Len(w) + 1] = "esc" /\ v[Len(w) + 2] = Mask(b)
          BY <1>4, <4>2, <5>1
        <5> QED BY <4>2, <5>2 DEF Chunk
      <4> QED BY <4>1, <4>2 DEF Sends
    <3> QED BY <1>2, <1>4, <3>1, <3>2
  <2> QED BY <1>2, <2>1, <2>2 DEF n
<1>8. d[0] = 0
  BY <1>2, <1>5, <1>6 DEF n
<1>9. CutAt(v, t, d)
  BY <1>3, <1>6, <1>7, <1>8 DEF CutAt
<1> QED BY <1>9 DEF Carries, v, t

(***************************************************************************)
(* What the encoder sent so far is carried; once it is done the decoder    *)
(* is at one of the cuts, or behind the escape that follows one, and has   *)
(* written what lies before it.                                            *)
(***************************************************************************)
Target == Append(packet, "ctl")

SentSoFar ==
  /\ state = "start" => wire = <<>>
  /\ state \in {"busy", "crc1"} => Carries(wire, summed)
  /\ state = "complete" /\ rest # <<>> => Carries(wire, summed)
  /\ state = "crc2" => \E s \in Seq(Bytes) : Carries(wire, s) /\ s \o crc = packet
  /\ state = "term" => Carries(wire, packet)

NotBegun == rd = 0 /\ piece = 0 /\ escaping = FALSE /\ out = <<>>

Decoded(e) ==
  /\ out \in Seq(Bytes) /\ Len(out) <= Len(Target)
  /\ \A k \in 1..Len(out) : out[k] = Target[k]
  /\ rd \in Nat /\ piece \in Nat /\ rd + piece <= Len(wire)
  /\ ~escaping => rd = e[Len(out)]
  /\ escaping => /\ Len(out) < Len(Target)
                 /\ rd = e[Len(out)] + 1 /\ wire[rd] = "esc"

TripInv ==
  /\ SentSoFar
  /\ ~Encoded => NotBegun
  /\ Encoded => \E e : CutAt(wire, Target, e) /\ Decoded(e)

LEMMA PutCarries ==
  ASSUME EncTyped, NEW b \in Bytes, Put(b), NEW s \in Seq(Bytes), Carries(wire, s)
  PROVE  Carries(wire', Append(s, b))
<1>1. PICK u \in Seq(Bytes) : wire' = wire \o u /\ Sends(u, b)
  <2>1. CASE Special(b)
    <3>1. <<"esc", Mask(b)>> \in Seq(Bytes)
      BY MaskTwice DEF Bytes
    <3>2. Sends(<<"esc", Mask(b)>>, b)
      BY DEF Sends
    <3> QED BY <2>1, <3>1, <3>2 DEF Put
  <2>2. CASE ~Special(b)
    <3>1. <<b>> \in Seq(Bytes)
      OBVIOUS
    <3>2. Sends(<<b>>, b)
      BY <2>2 DEF Sends, Special
    <3> QED BY <2>2, <3>1, <3>2 DEF Put
  <2> QED BY <2>1, <2>2
<1> QED BY <1>1, CarriesMore DEF EncTyped

\* The encoder's steps.
EncodeStep == Start \/ EncodeByte \/ FragmentDone \/ EncodeCrc \/ EncodeTerm \/ NextFragment \/ NewBuffer

LEMMA EncodeSends ==
  ASSUME Inv, Inv', TripInv, EncodeStep
  PROVE  TripInv'
<1>1. ~Encoded /\ NotBegun
  BY DEF EncodeStep, Start, EncodeByte, FragmentDone, EncodeCrc, EncodeTerm, NextFragment,
     NewBuffer, Encoded, TripInv
<1>2. NotBegun'
  BY <1>1 DEF EncodeStep, Start, EncodeByte, FragmentDone, EncodeCrc, EncodeTerm, NextFragment,
     NewBuffer, NotBegun, dec
<1> USE DEF SentSoFar
<1>3. CASE Start
  <2>1. SentSoFar'
    BY <1>3, CarriesNone DEF Start, TripInv
  <2> QED BY <1>2, <1>3, <2>1 DEF Start, Encoded, TripInv
<1>4. CASE EncodeByte
  <2>1. Carries(wire', summed')
    BY <1>4, PutCarries, Moved DEF EncodeByte, Inv, EncTyped, TripInv
  <2> QED BY <1>2, <1>4, <2>1 DEF EncodeByte, Encoded, TripInv
<1>5. CASE FragmentDone
  <2>1. /\ Carries(wire', summed') /\ ~Encoded'
        /\ state' = "crc1" \/ (state' = "complete" /\ rest' # <<>>)
    BY <1>5 DEF FragmentDone, Encoded, TripInv
  <2> QED BY <1>2, <2>1 DEF TripInv
<1>6. CASE EncodeCrc
  <2>1. crc # <<>> /\ (state = "crc1" => Len(crc) = 2) /\ (state = "crc2" => Len(crc) = 1)
    BY <1>6, EmptySeq DEF EncodeCrc, Inv, Summed
  <2>2. PICK s \in Seq(Bytes) : Carries(wire, s) /\ s \o crc = packet
    BY <1>6 DEF EncodeCrc, Inv, EncTyped, Summed, TripInv
  <2>3. /\ Head(crc) \in Bytes /\ crc' = Tail(crc) /\ crc' \in Seq(Bytes)
        /\ Append(s, Head(crc)) \in Seq(Bytes)
        /\ Append(s, Head(crc)) \o crc' = packet
    BY <1>6, <2>1, <2>2, Moved DEF EncodeCrc, Inv, EncTyped
  <2>4. Carries(wire', Append(s, Head(crc))) /\ packet' = packet
    BY <1>6, <2>2, <2>3, PutCarries DEF EncodeCrc, Inv
  <2>5. CASE state = "crc1"
    <3>1. state' = "crc2"
      BY <1>6, <2>5 DEF EncodeCrc
    <3>2. SentSoFar'
      BY <2>3, <2>4, <3>1
    <3> QED BY <1>2, <3>1, <3>2 DEF Encoded, TripInv
  <2>6. CASE state = "crc2"
    <3>1. state' = "term"
      BY <1>6, <2>6 DEF EncodeCrc
    <3>2. crc' = <<>>
      <4>1. Len(crc') = 0
        BY <2>1, <2>3, <2>6, HeadTailProperties DEF Inv, EncTyped
      <4> QED BY <2>3, <4>1, EmptySeq
    <3>3. Append(s, Head(crc)) = packet
      BY <2>3, <3>2, ConcatEmptySeq
    <3>4. SentSoFar'
      BY <2>4, <3>1, <3>3
    <3> QED BY <1>2, <3>1, <3>4 DEF Encoded, TripInv
  <2> QED BY <1>6, <2>5, <2>6 DEF EncodeCrc
<1>7. CASE EncodeTerm
  <2>1. "ctl" \in Bytes /\ <<"ctl">> \in Seq(Bytes) /\ Sends(<<"ctl">>, "ctl")
    BY DEF Bytes, Sends
  <2>2. wire' = wire \o <<"ctl">> /\ packet' = packet /\ state' = "complete"
    BY <1>7, <2>1, AppendIsConcat DEF EncodeTerm, Inv, EncTyped
  <2>3. Carries(wire', Target')
    BY <1>7, <2>1, <2>2, CarriesMore DEF EncodeTerm, Inv, EncTyped, TripInv, Target
  <2>4. PICK e : CutAt(wire', Target', e)
    BY <2>3 DEF Carries
  <2>5. rest' = <<>>
    BY <1>7, <2>2 DEF EncodeTerm, Inv, Summed
  <2>6. Decoded(e)'
    <3>1. Len(Target') \in Nat /\ Len(wire') \in Nat
      <4>1. Target' \in Seq(Bytes) /\ wire' \in Seq(Bytes)
        BY <2>1, AppendProperties DEF Inv, EncTyped, Target
      <4> QED BY <4>1, LenProperties
    <3>2. out' = <<>> /\ Len(out') = 0 /\ out' \in Seq(Bytes)
      BY <1>2, EmptySeq DEF NotBegun
    <3>3. e[0] = 0
      BY <2>4 DEF CutAt
    <3> QED BY <1>2, <3>1, <3>2, <3>3 DEF NotBegun, Decoded
  <2> QED BY <1>2, <2>2, <2>4, <2>5, <2>6 DEF TripInv, Encoded
<1>8. CASE NextFragment \/ NewBuffer
  <2>1. SentSoFar' /\ ~Encoded'
    BY <1>1, <1>8 DEF NextFragment, NewBuffer, TripInv, Encoded
  <2> QED BY <1>2, <2>1 DEF TripInv
<1> QED BY <1>3, <1>4, <1>5, <1>6, <1>7, <1>8 DEF EncodeStep

\* The decoder's steps, from a cut or the escape behind it to the next.
DecodeStep == CarryEscape \/ DecodeByte \/ NewPiece \/ NewDest

LEMMA DecodeReads ==
  ASSUME Inv, TripInv, DecodeStep
  PROVE  TripInv'
<1>1. UNCHANGED enc
  BY DEF DecodeStep, CarryEscape, DecodeByte, NewPiece, NewDest
<1>2. SentSoFar' /\ Encoded' = Encoded /\ wire' = wire /\ Target' = Target
  BY <1>1 DEF enc, TripInv, SentSoFar, Encoded, Target
<1>3. CASE ~Encoded
  <2>1. NotBegun'
    BY <1>3 DEF DecodeStep, CarryEscape, DecodeByte, NewPiece, NewDest, TripInv, NotBegun
  <2> QED BY <1>2, <1>3, <2>1 DEF TripInv
<1>4. CASE Encoded
  <2>1. PICK e : CutAt(wire, Target, e) /\ Decoded(e)
    BY <1>4 DEF TripInv
  <2>0. ASSUME Decoded(e)' PROVE TripInv'
    <3>1. CutAt(wire', Target', e)
      BY <1>2, <2>1
    <3>2. \E f : CutAt(wire', Target', f) /\ Decoded(f)'
      BY <2>0, <3>1
    <3> QED BY <1>2, <1>4, <3>2 DEF TripInv
  <2> DEFINE n == Len(out)
             m == Len(Target)
  <2>2. "ctl" \in Bytes /\ Target \in Seq(Bytes)
    <3>1. "ctl" \in Bytes
      BY DEF Bytes
    <3> QED BY <3>1, AppendProperties DEF Target, Inv, EncTyped
  <2>3. m \in Nat /\ Len(wire) \in Nat
    BY <2>2, LenProperties DEF Inv, EncTyped
  <2>4. /\ out \in Seq(Bytes) /\ n \in Nat /\ n <= m
        /\ \A k \in 1..n : out[k] = Target[k]
        /\ rd \in Nat /\ piece \in Nat /\ rd + piece <= Len(wire)
        /\ ~escaping => rd = e[n]
        /\ escaping => n < m /\ rd = e[n] + 1 /\ wire[rd] = "esc"
    BY <2>1, LenProperties DEF Decoded
  <2>5. /\ e \in [0..m -> Nat] /\ e[m] = Len(wire)
        /\ \A k \in 1..m : /\ e[k - 1] < Len(wire) /\ e[k] <= Len(wire)
                           /\ Chunk(wire, e[k - 1], e[k], Target[k])
    BY <2>1 DEF CutAt
  <2> HIDE DEF n, m
  \* Before the end of the wire there is a next cut.
  <2>6. ASSUME piece > 0
        PROVE  /\ n < m /\ n + 1 \in 1..m /\ e[n] \in Nat /\ e[n + 1] \in Nat
               /\ e[n + 1] <= Len(wire)
               /\ Target[n + 1] \in Bytes
               /\ Chunk(wire, e[n], e[n + 1], Target[n + 1])
    <3>1. n < m
      <4>1. CASE escaping
        BY <2>4, <4>1
      <4>2. CASE ~escaping
        <5>1. e[n] < Len(wire)
          BY <2>3, <2>4, <2>6, <4>2
        <5> QED BY <2>3, <2>4, <2>5, <5>1
      <4> QED BY <4>1, <4>2
    <3>2. n + 1 \in 1..m /\ n \in 0..m /\ n + 1 \in 0..m /\ (n + 1) - 1 = n
      BY <2>3, <2>4, <3>1
    <3>3. Target[n + 1] \in Bytes
      BY <2>2, <3>2, ElementOfSeq DEF m
    <3> QED BY <2>5, <3>1, <3>2, <3>3
  \* The byte behind the cut is written, and the next cut reached.
  <2>7. ASSUME piece > 0, rd' = e[n + 1], piece' \in Nat, rd' + piece' <= Len(wire),
               out' = Append(out, Target[n + 1]), ~escaping'
        PROVE  Decoded(e)'
    <3>1. /\ out' \in Seq(Bytes) /\ Len(out') = n + 1
          /\ \A k \in 1..n : out'[k] = out[k]
          /\ out'[n + 1] = Target[n + 1]
      BY <2>4, <2>6, <2>7, AppendProperties DEF n
    <3>2. \A k \in 1..n + 1 : out'[k] = Target[k]
      BY <2>4, <3>1
    <3>3. n + 1 <= m /\ rd' \in Nat
      BY <2>3, <2>4, <2>6, <2>7
    <3> QED BY <1>2, <2>7, <3>1, <3>2, <3>3 DEF Decoded, m
  <2>8. CASE DecodeByte
    <3>1. piece > 0 /\ escaping' = FALSE
      BY <2>8 DEF DecodeByte
    <3>2. Mask(Mask(Target[n + 1])) = Target[n + 1]
      BY <2>6, <3>1, MaskTwice
    <3>3. CASE escaping /\ Take(1, Mask(Next1))
      <4>1. /\ rd' = rd + 1 /\ piece' = piece - 1 /\ out' = Append(out, Mask(wire[rd + 1]))
        BY <3>3 DEF Take, Next1
      <4>2. rd = e[n] + 1 /\ wire[e[n] + 1] = "esc"
        BY <2>4, <3>3
      <4>3. e[n + 1] = e[n] + 2 /\ wire[e[n] + 2] = Mask(Target[n + 1])
        BY <2>6, <3>1, <4>2 DEF Chunk
      <4>4. rd + 1 = e[n] + 2
        BY <2>6, <3>1, <4>2
      <4>5. rd' = e[n + 1] /\ out' = Append(out, Target[n + 1])
        BY <3>2, <4>1, <4>3, <4>4
      <4>6. piece' \in Nat /\ rd' + piece' <= Len(wire)
        BY <2>3, <2>4, <3>1, <4>1
      <4> QED BY <2>0, <2>7, <3>1, <4>5, <4>6
    <3>4. CASE ~escaping /\ Next1 # "esc" /\ Take(1, Next1)
      <4>1. /\ rd' = rd + 1 /\ piece' = piece - 1 /\ out' = Append(out, wire[rd + 1])
            /\ wire[rd + 1] # "esc" /\ rd = e[n]
        BY <2>4, <3>4 DEF Take, Next1
      <4>2. e[n + 1] = e[n] + 1 /\ wire[e[n] + 1] = Target[n + 1]
        BY <2>6, <3>1, <4>1 DEF Chunk
      <4>3. rd' = e[n + 1] /\ out' = Append(out, Target[n + 1])
        BY <4>1, <4>2
      <4>4. piece' \in Nat /\ rd' + piece' <= Len(wire)
        BY <2>3, <2>4, <3>1, <4>1
      <4> QED BY <2>0, <2>7, <3>1, <4>3, <4>4
    <3>5. CASE ~escaping /\ Next1 = "esc" /\ piece > 1 /\ Take(2, Mask(wire[rd + 2]))
      <4>1. /\ rd' = rd + 2 /\ piece' = piece - 2 /\ out' = Append(out, Mask(wire[rd + 2]))
            /\ wire[rd + 1] = "esc" /\ rd = e[n] /\ piece > 1
        BY <2>4, <3>5 DEF Take, Next1
      <4>2. e[n + 1] = e[n] + 2 /\ wire[e[n] + 2] = Mask(Target[n + 1])
        BY <2>6, <3>1, <4>1 DEF Chunk
      <4>3. rd' = e[n + 1] /\ out' = Append(out, Target[n + 1])
        BY <3>2, <4>1, <4>2
      <4>4. piece' \in Nat /\ rd' + piece' <= Len(wire)
        BY <2>3, <2>4, <4>1
      <4> QED BY <2>0, <2>7, <3>1, <4>3, <4>4
    <3> QED BY <2>8, <3>3, <3>4, <3>5 DEF DecodeByte
  <2>9. CASE CarryEscape
    <3>1. /\ piece = 1 /\ ~escaping /\ rd' = rd + 1 /\ piece' = 0 /\ escaping' = TRUE
          /\ wire[rd + 1] = "esc" /\ out' = out
      BY <2>9 DEF CarryEscape, Next1
    <3>2. n < m /\ e[n] \in Nat
      BY <2>6, <3>1
    <3>3. rd' \in Nat /\ piece' \in Nat /\ rd' + piece' <= Len(wire)
      BY <2>3, <2>4, <3>1
    <3>4. rd' = e[n] + 1 /\ wire[rd'] = "esc"
      BY <2>4, <3>1
    <3>5. Decoded(e)'
      BY <1>2, <2>4, <3>1, <3>2, <3>3, <3>4 DEF Decoded, n, m
    <3> QED BY <2>0, <3>5
  <2>10. CASE NewPiece
    <3>1. piece' \in Nat /\ rd' = rd /\ rd + piece' <= Len(wire) /\ escaping' = escaping /\ out' = out
      BY <2>10, BoundsPositive DEF NewPiece, Sizes
    <3>2. Decoded(e)'
      BY <1>2, <2>1, <3>1 DEF Decoded
    <3> QED BY <2>0, <3>2
  <2>11. CASE NewDest
    <3>1. rd' = rd /\ piece' = piece /\ escaping' = escaping /\ out' = out
      BY <2>11 DEF NewDest
    <3>2. Decoded(e)'
      BY <1>2, <2>1, <3>1 DEF Decoded
    <3> QED BY <2>0, <3>2
  <2> QED BY <2>8, <2>9, <2>10, <2>11 DEF DecodeStep
<1> QED BY <1>3, <1>4

LEMMA AlwaysTrip == Spec => [](Inv /\ TripInv)
<1>1. Init => TripInv
  BY DEF Init, TripInv, SentSoFar, Encoded, NotBegun
<1>2. Inv /\ TripInv /\ [Next]_vars => Inv' /\ TripInv'
  <2> SUFFICES ASSUME Inv, TripInv, [Next]_vars PROVE Inv' /\ TripInv'
    OBVIOUS
  <2>1. Inv'
    BY StepInv
  <2>2. CASE UNCHANGED vars
    <3>1. UNCHANGED <<state, rest, wire, summed, crc, packet, rd, piece, escaping, out>>
      BY <2>2 DEF vars, enc, dec
    <3>2. SentSoFar' /\ Encoded' = Encoded /\ NotBegun' = NotBegun /\ Target' = Target
      BY <3>1 DEF TripInv, SentSoFar, Encoded, NotBegun, Target
    <3>3. \A e : Decoded(e) => Decoded(e)'
      BY <3>1, <3>2 DEF Decoded
    <3>4. Encoded => \E e : CutAt(wire', Target', e) /\ Decoded(e)'
      BY <3>1, <3>2, <3>3 DEF TripInv
    <3> QED BY <2>1, <3>2, <3>4 DEF TripInv
  <2>3. CASE EncodeStep
    BY <2>1, <2>3, EncodeSends
  <2>4. CASE DecodeStep
    BY <2>1, <2>4, DecodeReads
  <2> QED
    BY <2>1, <2>2, <2>3, <2>4 DEF Next, EncodeStep, DecodeStep
<1> QED BY <1>1, <1>2, InitInv, PTL DEF Spec

\* diag_hdlc_decode undoes diag_hdlc_encode: however the packet was cut into
\* fragments and the wire into buffers and pieces, in an escape or elsewhere, what
\* is decoded so far begins the packet with its CRC and CONTROL_CHAR, and all that
\* was sent decodes to all of it.
THEOREM Decodes == Spec => []RoundTrip
<1>1. Inv /\ TripInv => RoundTrip
  <2> SUFFICES ASSUME Inv, TripInv, Encoded
               PROVE  /\ IsPrefix(out, Target)
                      /\ rd = Len(wire) => out = Target
    BY DEF RoundTrip, Target
  <2>1. PICK e : CutAt(wire, Target, e) /\ Decoded(e)
    BY DEF TripInv
  <2> DEFINE n == Len(out)
             m == Len(Target)
  <2>2. Target \in Seq(Bytes)
    <3>1. "ctl" \in Bytes
      BY DEF Bytes
    <3> QED BY <3>1, AppendProperties DEF Target, Inv, EncTyped
  <2>3. out \in Seq(Bytes) /\ n <= m /\ \A k \in 1..n : out[k] = Target[k]
    BY <2>1 DEF Decoded
  <2>4. n \in Nat
    BY <2>3, LenProperties
  <2>5. m \in Nat
    BY <2>2, LenProperties
  <2>6. IsPrefix(out, Target)
    <3>1. SubSeq(out, 1, n) = out
      BY <2>3, SubSeqFull
    <3>2. /\ SubSeq(Target, 1, n) \in Seq(Bytes) /\ Len(SubSeq(Target, 1, n)) = n
          /\ \A i \in 1..n : SubSeq(Target, 1, n)[i] = Target[i]
      <4>1. \A i \in 1..n : Target[i] \in Bytes
        BY <2>2, <2>3, <2>4, <2>5, ElementOfSeq
      <4> HIDE DEF n, m
      <4>2. 1 \in Int /\ n \in Int /\ n - 1 + 1 = n
        BY <2>4
      <4>3. /\ SubSeq(Target, 1, n) \in Seq(Bytes)
            /\ Len(SubSeq(Target, 1, n)) = IF 1 <= n THEN n - 1 + 1 ELSE 0
            /\ \A i \in 1..n - 1 + 1 : SubSeq(Target, 1, n)[i] = Target[1 + i - 1]
        BY <4>1, <4>2, SubSeqProperties
      <4>4. \A i \in 1..n : 1 + i - 1 = i
        BY <2>4
      <4> QED BY <2>4, <4>2, <4>3, <4>4
    <3>3. out = SubSeq(Target, 1, n)
      BY <2>3, <3>2, SeqEqual
    <3> QED BY <2>3, <3>1, <3>3 DEF IsPrefix
  <2>7. ASSUME rd = Len(wire) PROVE out = Target
    <3>0. Len(wire) \in Nat
      BY LenProperties DEF Inv, EncTyped
    <3>1. /\ e \in [0..m -> Nat] /\ e[m] = Len(wire)
          /\ \A k \in 1..m : /\ e[k - 1] < Len(wire) /\ e[k] <= Len(wire)
                             /\ Chunk(wire, e[k - 1], e[k], Target[k])
      BY <2>1 DEF CutAt
    <3>2. /\ ~escaping => Len(wire) = e[n]
          /\ escaping => n < m /\ Len(wire) = e[n] + 1 /\ wire[e[n] + 1] = "esc"
      BY <2>1, <2>7 DEF Decoded
    <3> HIDE DEF n, m
    <3>3. ASSUME n < m PROVE FALSE
      <4>1. n + 1 \in 1..m /\ (n + 1) - 1 = n /\ n \in 0..m /\ n + 1 \in 0..m
        BY <2>4, <2>5, <3>3
      <4>2. /\ e[n] < Len(wire) /\ e[n + 1] <= Len(wire) /\ e[n] \in Nat /\ e[n + 1] \in Nat
            /\ Chunk(wire, e[n], e[n + 1], Target[n + 1])
        BY <3>1, <4>1
      <4>3. CASE ~escaping
        BY <3>0, <3>2, <4>2, <4>3
      <4>4. CASE escaping
        <5>1. e[n + 1] = e[n] + 1 /\ wire[e[n] + 1] = Target[n + 1] /\ Target[n + 1] # "esc"
          BY <3>0, <3>2, <4>2, <4>4 DEF Chunk
        <5> QED BY <3>2, <4>4, <5>1
      <4> QED BY <4>3, <4>4
    <3>4. n = m
      BY <2>3, <2>4, <2>5, <3>3 DEF n, m
    <3> QED BY <2>2, <2>3, <3>4, SeqEqual DEF n, m
  <2> QED BY <2>6, <2>7
<1> QED BY <1>1, AlwaysTrip, PTL
=============================================================================
