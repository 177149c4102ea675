--------------------------- MODULE VescFramingProofs ---------------------------
(***************************************************************************)
(* Proofs about VescFraming: for every byte size, payload limit, checksum, *)
(* set of known packets and line, and however the line is cut into reads.  *)
(***************************************************************************)
EXTENDS VescFraming, SequenceTheorems, TLAPS

(***************************************************************************)
(* createPacket judges a frame by its own bytes.  The bytes of s behind i  *)
(* are found in t behind j.                                                *)
(***************************************************************************)
Agree(s, i, t, j) ==
  /\ s \in Seq(Bytes) /\ t \in Seq(Bytes)
  /\ i \in 0 .. Len(s) - 1 /\ j \in Nat
  /\ Len(s) - i <= Len(t) - j
  /\ \A k \in 1 .. Len(s) - i : s[i + k] = t[j + k]

LEMMA StartsSame ==
  ASSUME NEW s, NEW i, NEW t, NEW j, Agree(s, i, t, j)
  PROVE  StartsFrame(s, i) <=> StartsFrame(t, j)
BY DEF Agree, StartsFrame

LEMMA HeaderSame ==
  ASSUME NEW s, NEW i, NEW t, NEW j, Agree(s, i, t, j), Len(s) - i >= MinFrame
  PROVE  /\ Header(s, i) = Header(t, j)
         /\ PayloadSize(s, i) = PayloadSize(t, j)
         /\ FrameSize(s, i) = FrameSize(t, j)
         /\ Header(s, i) \in 2 .. 3
         /\ PayloadSize(s, i) \in Nat
         /\ FrameSize(s, i) = Header(s, i) + PayloadSize(s, i) + 3
<1>1. /\ Len(s) \in Nat /\ i \in Nat /\ j \in Nat
      /\ 1 \in 1 .. Len(s) - i /\ 2 \in 1 .. Len(s) - i /\ 3 \in 1 .. Len(s) - i
  <2>1. Len(s) \in Nat /\ i \in 0 .. Len(s) - 1 /\ j \in Nat
    BY LenProperties DEF Agree
  <2>2. Len(s) - i >= 3
    BY <2>1 DEF MinFrame
  <2> QED
    BY <2>1, <2>2
<1>2. s[i + 1] = t[j + 1] /\ s[i + 2] = t[j + 2] /\ s[i + 3] = t[j + 3]
  BY <1>1 DEF Agree
<1>3. s[i + 2] \in Nat /\ s[i + 3] \in Nat
  <2>1. i + 2 \in 1 .. Len(s) /\ i + 3 \in 1 .. Len(s)
    BY <1>1
  <2>2. s[i + 2] \in Bytes /\ s[i + 3] \in Bytes
    BY <2>1 DEF Agree
  <2> QED
    BY <2>2, PacketAssumption DEF Bytes
<1>4. s[i + 2] * Base \in Nat
  BY <1>3, PacketAssumption
<1>5. Header(s, i) = Header(t, j) /\ Header(s, i) \in 2 .. 3
  BY <1>2 DEF Header
<1>6. PayloadSize(s, i) = PayloadSize(t, j)
  BY <1>2 DEF PayloadSize
<1>7. PayloadSize(s, i) \in Nat
  BY <1>3, <1>4 DEF PayloadSize
<1> QED
  BY <1>5, <1>6, <1>7 DEF FrameSize

\* Bytes that come later do not change the judgement.
LEMMA CompleteSame ==
  ASSUME NEW s, NEW i, NEW t, NEW j, Agree(s, i, t, j), ~Incomplete(s, i)
  PROVE  ~Incomplete(t, j)
<1>1. Len(s) \in Nat /\ Len(t) \in Nat /\ i \in Nat /\ j \in Nat
      /\ Len(s) - i <= Len(t) - j
  BY DEF Agree
<1>2. Len(s) - i >= MinFrame
  BY <1>1 DEF Incomplete, MinFrame
<1>3. PayloadSize(s, i) = PayloadSize(t, j) /\ FrameSize(s, i) = FrameSize(t, j)
      /\ FrameSize(s, i) = Header(s, i) + PayloadSize(s, i) + 3
      /\ Header(s, i) \in 2 .. 3 /\ PayloadSize(s, i) \in Nat
  BY <1>2, HeaderSame
<1>4. FrameSize(s, i) \in Nat
  BY <1>3
<1>5. ~(PayloadSize(s, i) <= MaxPayload /\ Len(s) - i < FrameSize(s, i))
  BY <1>1, <1>2 DEF Incomplete, MinFrame
<1>6. ~(PayloadSize(t, j) <= MaxPayload /\ Len(t) - j < FrameSize(t, j))
  BY <1>1, <1>3, <1>4, <1>5
<1>7. ~(Len(t) - j < MinFrame)
  BY <1>1, <1>2 DEF MinFrame
<1> QED
  BY <1>6, <1>7 DEF Incomplete

\* Where nothing comes later, not even that more is needed changes.
LEMMA IncompleteSame ==
  ASSUME NEW s, NEW i, NEW t, NEW j, Agree(s, i, t, j), Len(s) - i = Len(t) - j
  PROVE  Incomplete(s, i) <=> Incomplete(t, j)
<1>1. Len(s) \in Nat /\ Len(t) \in Nat /\ i \in Nat /\ j \in Nat
  BY DEF Agree
<1>2. CASE Len(s) - i < MinFrame
  BY <1>1, <1>2 DEF Incomplete
<1>3. CASE ~(Len(s) - i < MinFrame)
  <2>1. PayloadSize(s, i) = PayloadSize(t, j) /\ FrameSize(s, i) = FrameSize(t, j)
    BY <1>1, <1>3, HeaderSame DEF MinFrame
  <2> QED
    BY <1>1, <1>3, <2>1 DEF Incomplete
<1> QED
  BY <1>2, <1>3

\* The shift of a position in the buffer to the record.
LEMMA PlusAssociates ==
  ASSUME NEW x \in Int, NEW y \in Int, NEW z \in Int
  PROVE  (x + y) + z = x + (y + z)
  OBVIOUS

LEMMA GoodSame ==
  ASSUME NEW s, NEW i, NEW t, NEW j, Agree(s, i, t, j), ~Incomplete(s, i)
  PROVE  /\ GoodFrame(s, i) <=> GoodFrame(t, j)
         /\ FrameSize(s, i) = FrameSize(t, j)
         /\ GoodFrame(s, i) => /\ FrameSize(s, i) \in 6 .. MaxFrame
                               /\ i + FrameSize(s, i) <= Len(s)
<1>1. Len(s) \in Nat /\ Len(t) \in Nat /\ i \in Nat /\ j \in Nat
  BY DEF Agree
<1>2. Len(s) - i >= MinFrame
  BY <1>1 DEF Incomplete, MinFrame
<1>3. /\ Header(s, i) = Header(t, j)
      /\ PayloadSize(s, i) = PayloadSize(t, j)
      /\ FrameSize(s, i) = FrameSize(t, j)
      /\ Header(s, i) \in 2 .. 3
      /\ PayloadSize(s, i) \in Nat
      /\ FrameSize(s, i) = Header(s, i) + PayloadSize(s, i) + 3
  BY <1>2, HeaderSame
<1>4. CASE PayloadSize(s, i) \in 1 .. MaxPayload
  <2>1. FrameSize(s, i) <= Len(s) - i
    <3>1. ~(PayloadSize(s, i) <= MaxPayload /\ Len(s) - i < FrameSize(s, i))
      BY <1>1, <1>2 DEF Incomplete, MinFrame
    <3>2. FrameSize(s, i) \in Nat /\ Len(s) - i \in Int
      BY <1>1, <1>3
    <3>3. PayloadSize(s, i) <= MaxPayload
      BY <1>4, PacketAssumption
    <3> QED
      BY <3>1, <3>2, <3>3
  <2>2. FrameSize(s, i) \in 6 .. MaxFrame
    BY <1>3, <1>4, PacketAssumption DEF MaxFrame
  <2> DEFINE n == FrameSize(s, i)
  <2>3. n \in 1 .. Len(s) - i /\ n - 1 \in 1 .. Len(s) - i /\ n - 2 \in 1 .. Len(s) - i
        /\ n \in Nat
    BY <1>1, <2>1, <2>2
  <2>4. s[i + n] = t[j + n] /\ s[(i + n) - 1] = t[(j + n) - 1]
        /\ s[(i + n) - 2] = t[(j + n) - 2]
    <3> HIDE DEF n
    <3>1. s[i + n] = t[j + n] /\ s[i + (n - 1)] = t[j + (n - 1)]
          /\ s[i + (n - 2)] = t[j + (n - 2)]
      BY <2>3 DEF Agree
    <3>2. /\ i + (n - 1) = (i + n) - 1 /\ i + (n - 2) = (i + n) - 2
          /\ j + (n - 1) = (j + n) - 1 /\ j + (n - 2) = (j + n) - 2
      BY <1>1, <2>3
    <3> QED
      BY <3>1, <3>2, Zenon
  <2>5. Payload(s, i) = Payload(t, j)
    <3> DEFINE a == Header(s, i) + 1
               b == Header(s, i) + PayloadSize(s, i)
    <3>1. a \in 1 .. Len(s) - i /\ b \in 1 .. Len(s) - i
      <4>1. /\ Header(s, i) \in 2 .. 3 /\ PayloadSize(s, i) \in Nat
            /\ PayloadSize(s, i) >= 1 /\ Len(s) - i \in Int
            /\ Header(s, i) + PayloadSize(s, i) + 3 <= Len(s) - i
        BY <1>1, <1>3, <1>4, <2>1, PacketAssumption
      <4> QED
        BY <4>1
    <3>2. /\ (i + Header(s, i)) + 1 = i + a
          /\ (i + Header(s, i)) + PayloadSize(s, i) = i + b
          /\ (j + Header(s, i)) + 1 = j + a
          /\ (j + Header(s, i)) + PayloadSize(s, i) = j + b
      <4>1. Header(s, i) \in Int /\ PayloadSize(s, i) \in Int /\ 1 \in Int
        BY <1>3
      <4>2. i \in Int /\ j \in Int
        BY <1>1
      <4> QED
        BY <4>1, <4>2, PlusAssociates
    <3>3. Payload(s, i) = SubSeq(s, i + a, i + b) /\ Payload(t, j) = SubSeq(t, j + a, j + b)
      BY <1>3, <3>2 DEF Payload
    <3> HIDE DEF a, b
    <3>4. ASSUME NEW k \in 1 .. b - a + 1
          PROVE  s[k + (i + a) - 1] = t[k + (j + a) - 1]
      <4>1. k + a - 1 \in 1 .. Len(s) - i
        BY <1>1, <3>1
      <4>2. i + (k + a - 1) = k + (i + a) - 1 /\ j + (k + a - 1) = k + (j + a) - 1
        BY <1>1, <3>1
      <4> QED
        BY <4>1, <4>2 DEF Agree
    <3>5. SubSeq(s, i + a, i + b) = [k \in 1 .. b - a + 1 |-> s[k + (i + a) - 1]]
      BY <1>1, <3>1
    <3>6. SubSeq(t, j + a, j + b) = [k \in 1 .. b - a + 1 |-> t[k + (j + a) - 1]]
      BY <1>1, <3>1
    <3> QED
      BY <3>3, <3>4, <3>5, <3>6
  <2>6. GoodFrame(s, i) <=> GoodFrame(t, j)
    <3>1. /\ FrameSize(t, j) = FrameSize(s, i) /\ PayloadSize(t, j) = PayloadSize(s, i)
          /\ Payload(t, j) = Payload(s, i)
          /\ t[j + FrameSize(s, i)] = s[i + FrameSize(s, i)]
          /\ t[(j + FrameSize(s, i)) - 1] = s[(i + FrameSize(s, i)) - 1]
          /\ t[(j + FrameSize(s, i)) - 2] = s[(i + FrameSize(s, i)) - 2]
      BY <1>3, <2>4, <2>5
    <3> QED
      BY <3>1, Zenon DEF GoodFrame
  <2>7. i + FrameSize(s, i) <= Len(s)
    BY <1>1, <2>1, <2>2, PacketAssumption DEF MaxFrame
  <2> QED
    BY <1>3, <2>2, <2>6, <2>7
<1>5. CASE PayloadSize(s, i) \notin 1 .. MaxPayload
  BY <1>3, <1>5 DEF GoodFrame
<1> QED
  BY <1>4, <1>5

-----------------------------------------------------------------------------
(***************************************************************************)
(* The inductive invariant.  The buffer is the end of what has been        *)
(* received, and a reader that waits starts its next search at the front.  *)
(***************************************************************************)
BufferIsTail == \A k \in 1 .. Len(buffer) : buffer[k] = received[Erased + k]

WaitsAtFront == ~searching => iter = 0

Inv == TypeOK /\ BufferIsTail /\ WaitsAtFront

\* What the search judges in the buffer is what the line holds there.
LEMMA BufferAgrees ==
  ASSUME Inv, iter < Len(buffer)
  PROVE  /\ Agree(buffer, iter, received, Erased + iter)
         /\ Len(buffer) - iter = Len(received) - (Erased + iter)
<1>1. /\ buffer \in Seq(Bytes) /\ received \in Seq(Bytes)
      /\ iter \in 0 .. Len(buffer) - 1 /\ Len(buffer) \in Nat /\ Len(received) \in Nat
      /\ Len(buffer) <= Len(received)
  BY DEF Inv, TypeOK
<1>2. Erased \in Nat /\ Erased = Len(received) - Len(buffer)
  BY <1>1 DEF Erased
<1>3. ASSUME NEW k \in 1 .. Len(buffer) - iter
      PROVE  buffer[iter + k] = received[(Erased + iter) + k]
  <2>1. iter + k \in 1 .. Len(buffer) /\ Erased + (iter + k) = (Erased + iter) + k
    BY <1>1, <1>2
  <2> QED
    BY <2>1 DEF Inv, BufferIsTail
<1> QED
  BY <1>1, <1>2, <1>3 DEF Agree

\* A packet that is handed on lies in the buffer.
LEMMA DeliveredFits ==
  ASSUME Inv, DeliverPacket
  PROVE  /\ FrameSize(buffer, iter) \in 6 .. MaxFrame
         /\ iter + FrameSize(buffer, iter) \in 0 .. Len(buffer)
<1>1. iter < Len(buffer) /\ iter \in Nat /\ Len(buffer) \in Nat
  BY DEF DeliverPacket, AtFrame, Inv, TypeOK
<1>2. Agree(buffer, iter, received, Erased + iter)
  BY <1>1, BufferAgrees
<1>3. ~Incomplete(buffer, iter) /\ GoodFrame(buffer, iter)
  BY DEF DeliverPacket
<1>4. FrameSize(buffer, iter) \in 6 .. MaxFrame /\ iter + FrameSize(buffer, iter) <= Len(buffer)
  BY <1>2, <1>3, GoodSame
<1> QED
  BY <1>1, <1>4, PacketAssumption DEF MaxFrame

LEMMA InvInit == Init => Inv
<1> SUFFICES ASSUME Init PROVE Inv
  OBVIOUS
<1>1. line \in Seq(Bytes)
  BY FramingAssumption DEF Init
<1>2. buffer = <<>> /\ received = <<>> /\ packets = <<>> /\ iter = 0 /\ searching = FALSE
  BY DEF Init
<1>3. TypeOK
  <2>1. buffer \in Seq(Bytes) /\ received \in Seq(Bytes) /\ packets \in Seq(Span)
    BY <1>2
  <2>2. iter \in 0 .. Len(buffer) /\ Len(buffer) <= Len(received)
    BY <1>2
  <2> QED
    BY <1>1, <1>2, <2>1, <2>2 DEF TypeOK
<1>4. BufferIsTail
  BY <1>2 DEF BufferIsTail
<1> QED
  BY <1>2, <1>3, <1>4 DEF Inv, WaitsAtFront

\* The bytes of a read are appended to the buffer and, in the record, to the line.
LEMMA InvReceive ==
  ASSUME Inv, NEW n \in 1 .. MaxRead, Receive(n)
  PROVE  Inv'
<1> DEFINE x == SubSeq(line, 1, n)
<1>1. /\ line \in Seq(Bytes) /\ buffer \in Seq(Bytes) /\ received \in Seq(Bytes)
      /\ Len(buffer) \in Nat /\ Len(received) \in Nat /\ Len(buffer) <= Len(received)
      /\ n \in 1 .. Len(line) /\ Len(line) \in Nat
  BY FramingAssumption DEF Inv, TypeOK, Receive
<1>2. x \in Seq(Bytes) /\ Len(x) = n
  BY <1>1
<1>3. line' \in Seq(Bytes)
  BY <1>1 DEF Receive
<1>4. /\ buffer' = buffer \o x /\ received' = received \o x
      /\ iter' = 0 /\ searching' = TRUE /\ packets' = packets
  BY DEF Receive
<1> HIDE DEF x
<1>5. /\ buffer' \in Seq(Bytes) /\ Len(buffer') = Len(buffer) + n
      /\ received' \in Seq(Bytes) /\ Len(received') = Len(received) + n
  <2>1. buffer \o x \in Seq(Bytes) /\ Len(buffer \o x) = Len(buffer) + Len(x)
    BY <1>1, <1>2, ConcatProperties
  <2>2. received \o x \in Seq(Bytes) /\ Len(received \o x) = Len(received) + Len(x)
    BY <1>1, <1>2, ConcatProperties
  <2> QED
    BY <1>2, <1>4, <2>1, <2>2
<1>6. TypeOK'
  BY <1>1, <1>3, <1>4, <1>5 DEF Inv, TypeOK
<1>7. BufferIsTail'
  <2>1. Erased' = Erased /\ Erased \in Nat /\ Erased = Len(received) - Len(buffer)
    BY <1>1, <1>5 DEF Erased
  <2>2. ASSUME NEW k \in 1 .. Len(buffer')
        PROVE  buffer'[k] = received'[Erased + k]
    <3>1. CASE k <= Len(buffer)
      <4>1. buffer'[k] = buffer[k] /\ received'[Erased + k] = received[Erased + k]
        <5>1. k \in 1 .. Len(buffer) /\ Erased + k \in 1 .. Len(received)
          BY <1>1, <1>5, <2>1, <3>1
        <5>2. (buffer \o x)[k] = buffer[k]
          BY <1>1, <1>2, <5>1, ConcatProperties
        <5>3. (received \o x)[Erased + k] = received[Erased + k]
          BY <1>1, <1>2, <5>1, ConcatProperties
        <5> QED
          BY <1>4, <5>2, <5>3
      <4> QED
        BY <4>1, <3>1, <1>1 DEF Inv, BufferIsTail
    <3>2. CASE ~(k <= Len(buffer))
      <4>1. k - Len(buffer) \in 1 .. n /\ Erased + k - Len(received) = k - Len(buffer)
            /\ Erased + k \in 1 .. Len(received')
            /\ Erased + k > Len(received)
        BY <1>1, <1>5, <2>1, <3>2
      <4>2. buffer'[k] = x[k - Len(buffer)]
        <5>1. k \in Len(buffer) + 1 .. Len(buffer) + Len(x)
          BY <1>1, <1>2, <1>5, <3>2
        <5>2. (buffer \o x)[k] = x[k - Len(buffer)]
          BY <1>1, <1>2, <5>1
        <5> QED
          BY <1>4, <5>2
      <4>3. received'[Erased + k] = x[(Erased + k) - Len(received)]
        <5>1. Erased + k \in Len(received) + 1 .. Len(received) + Len(x)
          <6>1. Erased + k \in 1 .. Len(received) + Len(x)
            BY <1>2, <1>5, <4>1
          <6>2. Erased + k \in Int /\ Len(received) \in Int
            BY <1>1, <6>1
          <6> QED
            BY <4>1, <6>1, <6>2
        <5> DEFINE m == Erased + k
        <5>2. (received \o x)[m] = x[m - Len(received)]
          <6> HIDE DEF m
          <6> QED
            BY <1>1, <1>2, <5>1 DEF m
        <5> QED
          BY <1>4, <5>2
      <4>4. (Erased + k) - Len(received) = k - Len(buffer)
        BY <1>1, <2>1
      <4> QED
        BY <4>2, <4>3, <4>4, Zenon
    <3> QED
      BY <3>1, <3>2
  <2> QED
    BY <2>1, <2>2 DEF BufferIsTail
<1> QED
  BY <1>4, <1>6, <1>7 DEF Inv, WaitsAtFront

LEMMA InvDeliver ==
  ASSUME Inv, DeliverPacket
  PROVE  Inv'
<1>1. /\ UNCHANGED <<line, buffer, searching, received>> /\ searching = TRUE
      /\ iter' = iter + FrameSize(buffer, iter)
      /\ packets' = Append(packets, [first |-> Erased + iter + 1,
                                     last  |-> Erased + iter + FrameSize(buffer, iter)])
  BY DEF DeliverPacket, AtFrame, Inv, TypeOK
<1>2. FrameSize(buffer, iter) \in Nat /\ iter' \in 0 .. Len(buffer)
  BY <1>1, DeliveredFits, PacketAssumption DEF MaxFrame
<1>3. packets' \in Seq(Span)
  <2>1. Erased \in Nat /\ iter \in Nat
    BY DEF Inv, TypeOK, Erased
  <2>2. [first |-> Erased + iter + 1, last |-> Erased + iter + FrameSize(buffer, iter)] \in Span
    BY <1>2, <2>1 DEF Span
  <2>3. packets \in Seq(Span)
    BY DEF Inv, TypeOK
  <2> QED
    BY <1>1, <2>2, <2>3
<1>4. TypeOK'
  BY <1>1, <1>2, <1>3 DEF Inv, TypeOK
<1>5. BufferIsTail'
  BY <1>1 DEF Inv, BufferIsTail, Erased
<1> QED
  BY <1>1, <1>4, <1>5 DEF Inv, WaitsAtFront

LEMMA InvSkip ==
  ASSUME Inv, SkipByte
  PROVE  Inv'
<1>1. /\ UNCHANGED <<line, buffer, searching, received, packets>> /\ searching
      /\ iter' = iter + 1 /\ iter < Len(buffer)
  BY DEF SkipByte
<1>2. iter' \in 0 .. Len(buffer)
  BY <1>1 DEF Inv, TypeOK
<1>3. TypeOK'
  BY <1>1, <1>2 DEF Inv, TypeOK
<1>4. BufferIsTail'
  BY <1>1 DEF Inv, BufferIsTail, Erased
<1> QED
  BY <1>1, <1>3, <1>4 DEF Inv, WaitsAtFront

\* What the search has gone past is cut off; the rest is still the end.
LEMMA InvEndSearch ==
  ASSUME Inv, EndSearch
  PROVE  Inv'
<1>1. /\ UNCHANGED <<line, received, packets>> /\ iter' = 0 /\ searching' = FALSE
      /\ buffer' = SubSeq(buffer, iter + 1, Len(buffer))
  BY DEF EndSearch
<1>2. /\ buffer \in Seq(Bytes) /\ received \in Seq(Bytes)
      /\ Len(buffer) \in Nat /\ Len(received) \in Nat /\ Len(buffer) <= Len(received)
      /\ iter \in 0 .. Len(buffer)
  BY DEF Inv, TypeOK
<1>3. buffer' \in Seq(Bytes) /\ Len(buffer') = Len(buffer) - iter
  BY <1>1, <1>2
<1>4. TypeOK'
  <2>1. iter' \in 0 .. Len(buffer') /\ Len(buffer') <= Len(received')
    BY <1>1, <1>2, <1>3
  <2>2. line' \in Seq(Bytes) /\ received' \in Seq(Bytes) /\ packets' \in Seq(Span)
    BY <1>1 DEF Inv, TypeOK
  <2> QED
    BY <1>1, <1>3, <2>1, <2>2 DEF TypeOK
<1>5. BufferIsTail'
  <2>1. Erased' = Erased + iter /\ Erased \in Nat
    <3>1. Len(received') = Len(received)
      BY <1>1
    <3> QED
      BY <1>2, <1>3, <3>1 DEF Erased
  <2>2. ASSUME NEW k \in 1 .. Len(buffer')
        PROVE  buffer'[k] = received[(Erased + iter) + k]
    <3>1. iter + k \in 1 .. Len(buffer) /\ Erased + (iter + k) = (Erased + iter) + k
      BY <1>2, <1>3, <2>1
    <3>2. buffer'[k] = buffer[iter + k]
      BY <1>1, <1>2, <1>3
    <3> QED
      BY <3>1, <3>2 DEF Inv, BufferIsTail
  <2> QED
    BY <1>1, <2>1, <2>2 DEF BufferIsTail
<1> QED
  BY <1>1, <1>4, <1>5 DEF Inv, WaitsAtFront

LEMMA InvStep == Inv /\ [Next]_vars => Inv'
<1> SUFFICES ASSUME Inv, [Next]_vars PROVE Inv'
  OBVIOUS
<1>1. CASE \E n \in 1 .. MaxRead : Receive(n)
  BY <1>1, InvReceive
<1>2. CASE DeliverPacket
  BY <1>2, InvDeliver
<1>3. CASE SkipByte
  BY <1>3, InvSkip
<1>4. CASE EndSearch
  BY <1>4, InvEndSearch
<1>5. CASE UNCHANGED vars
  BY <1>5 DEF vars, Inv, TypeOK, BufferIsTail, WaitsAtFront, Erased
<1> QED
  BY <1>1, <1>2, <1>3, <1>4, <1>5 DEF Next

THEOREM InvAlways == Spec => []Inv
BY InvInit, InvStep, PTL DEF Spec

\* Type correctness: no index leaves the buffer and nothing but bytes enters
\* it, whatever the line holds (the reader thread's iterators).
THEOREM TypeCorrect == Spec => []TypeOK
BY InvAlways, PTL DEF Inv

-----------------------------------------------------------------------------
(***************************************************************************)
(* Refinement.                                                             *)
(***************************************************************************)
LEMMA StreamInit == Init => Stream!Init
BY DEF Init, Stream!Init, Erased

\* The instance's createPacket is createPacket.
LEMMA SameFactory ==
  ASSUME NEW s, NEW i
  PROVE  /\ Stream!StartsFrame(s, i) <=> StartsFrame(s, i)
         /\ Stream!Incomplete(s, i) <=> Incomplete(s, i)
         /\ Stream!GoodFrame(s, i) <=> GoodFrame(s, i)
         /\ Stream!FrameSize(s, i) = FrameSize(s, i)
<1>1. Stream!StartsFrame(s, i) <=> StartsFrame(s, i)
  BY DEF Stream!StartsFrame, StartsFrame, Stream!SmallFrame, Stream!LargeFrame,
         SmallFrame, LargeFrame
<1>2. Stream!Header(s, i) = Header(s, i) /\ Stream!PayloadSize(s, i) = PayloadSize(s, i)
  BY DEF Stream!Header, Header, Stream!PayloadSize, PayloadSize, Stream!SmallFrame, SmallFrame
<1>3. Stream!FrameSize(s, i) = FrameSize(s, i) /\ Stream!Payload(s, i) = Payload(s, i)
  BY <1>2, Zenon DEF Stream!FrameSize, FrameSize, Stream!Payload, Payload
<1>4. Stream!Incomplete(s, i) <=> Incomplete(s, i)
  BY <1>2, <1>3 DEF Stream!Incomplete, Incomplete, Stream!MinFrame, MinFrame
<1>5. Stream!GoodFrame(s, i) <=> GoodFrame(s, i)
  BY <1>2, <1>3, Zenon DEF Stream!GoodFrame, GoodFrame, Stream!EndOfFrame, EndOfFrame
<1> QED
  BY <1>1, <1>3, <1>4, <1>5

\* A read is an arrival, an erasure is a stutter, and every judgement about the
\* buffer is the judgement about the line.
LEMMA StreamStep == Inv /\ [Next]_vars => [Stream!Next]_<<received, Erased + iter, packets>>
<1> SUFFICES ASSUME Inv, [Next]_vars
             PROVE  [Stream!Next]_<<received, Erased + iter, packets>>
  OBVIOUS
<1> DEFINE pos == Erased + iter
<1>0. /\ Len(buffer) \in Nat /\ Len(received) \in Nat /\ iter \in 0 .. Len(buffer)
      /\ Erased = Len(received) - Len(buffer) /\ Len(buffer) <= Len(received)
      /\ buffer \in Seq(Bytes) /\ received \in Seq(Bytes)
  BY DEF Inv, TypeOK, Erased
<1>a. ASSUME iter < Len(buffer)
      PROVE  /\ pos < Len(received)
             /\ StartsFrame(buffer, iter) <=> StartsFrame(received, pos)
             /\ Incomplete(buffer, iter) <=> Incomplete(received, pos)
             /\ ~Incomplete(buffer, iter) =>
                  /\ GoodFrame(buffer, iter) <=> GoodFrame(received, pos)
                  /\ FrameSize(buffer, iter) = FrameSize(received, pos)
  <2>1. Agree(buffer, iter, received, pos) /\ Len(buffer) - iter = Len(received) - pos
    BY <1>a, BufferAgrees
  <2>2. pos < Len(received)
    BY <1>0, <1>a
  <2> QED
    BY <2>1, <2>2, StartsSame, IncompleteSame, GoodSame
<1>1. CASE \E n \in 1 .. MaxRead : Receive(n)
  <2>1. PICK n \in 1 .. MaxRead : Receive(n)
    BY <1>1
  <2> DEFINE x == SubSeq(line, 1, n)
  <2>2. x \in Seq(Bytes) /\ Len(x) = n
    <3>1. line \in Seq(Bytes) /\ n \in 1 .. Len(line)
      BY <2>1, FramingAssumption DEF Receive, Inv, TypeOK
    <3> QED
      BY <3>1
  <2>3. /\ received' = received \o x /\ buffer' = buffer \o x
        /\ iter' = 0 /\ packets' = packets /\ iter = 0
    BY <2>1 DEF Receive, Inv, WaitsAtFront
  <2> HIDE DEF x
  <2>4. Len(received') = Len(received) + n /\ Len(buffer') = Len(buffer) + n
    <3>1. Len(received \o x) = Len(received) + Len(x)
      BY <1>0, <2>2, ConcatProperties
    <3>2. Len(buffer \o x) = Len(buffer) + Len(x)
      BY <1>0, <2>2, ConcatProperties
    <3> QED
      BY <2>2, <2>3, <3>1, <3>2
  <2>5. Erased' = Erased
    BY <1>0, <2>4 DEF Erased
  <2>6. SubSeq(received', 1, Len(received)) = received
    BY <1>0, <2>2, <2>3
  <2>7. Stream!Arrive
    BY <1>0, <2>3, <2>4, <2>5, <2>6 DEF Stream!Arrive
  <2> QED
    BY <2>7 DEF Stream!Next
<1>2. CASE DeliverPacket
  <2>1. /\ iter < Len(buffer) /\ StartsFrame(buffer, iter)
        /\ ~Incomplete(buffer, iter) /\ GoodFrame(buffer, iter)
        /\ received' = received /\ buffer' = buffer
        /\ iter' = iter + FrameSize(buffer, iter)
        /\ packets' = Append(packets, [first |-> Erased + iter + 1,
                                       last  |-> Erased + iter + FrameSize(buffer, iter)])
    BY <1>2 DEF DeliverPacket, AtFrame
  <2>2. FrameSize(buffer, iter) \in Nat /\ FrameSize(buffer, iter) = FrameSize(received, pos)
    BY <1>2, <1>a, <2>1, DeliveredFits, PacketAssumption DEF MaxFrame
  <2>3. Erased' = Erased /\ Erased \in Nat
    BY <1>0, <2>1 DEF Erased
  <2>4. Erased' + iter' = pos + FrameSize(received, pos)
    <3>1. iter \in Nat
      BY <1>0
    <3>2. iter' = iter + FrameSize(received, pos)
      BY <2>1, <2>2
    <3>3. FrameSize(received, pos) \in Nat
      BY <2>2
    <3>4. \A size \in Nat : Erased + (iter + size) = (Erased + iter) + size
      BY <2>3, <3>1
    <3> QED
      BY <2>3, <3>2, <3>3, <3>4
  <2>5. Stream!AtPacket
    BY <1>a, <2>1, SameFactory DEF Stream!AtPacket
  <2>6. packets' = Append(packets, [first |-> pos + 1, last |-> Erased' + iter'])
    BY <2>1, <2>2, <2>4
  <2>7. Stream!Deliver
    BY <2>1, <2>4, <2>5, <2>6, SameFactory DEF Stream!Deliver
  <2> QED
    BY <2>7 DEF Stream!Next
<1>3. CASE SkipByte
  <2>1. /\ iter < Len(buffer)
        /\ StartsFrame(buffer, iter) => ~Incomplete(buffer, iter) /\ ~GoodFrame(buffer, iter)
        /\ received' = received /\ buffer' = buffer /\ packets' = packets
        /\ iter' = iter + 1
    BY <1>3 DEF SkipByte
  <2>2. Erased' + iter' = pos + 1
    BY <1>0, <2>1 DEF Erased
  <2>3. Stream!AtNoise
    BY <1>a, <2>1, SameFactory DEF Stream!AtNoise
  <2>4. Stream!Skip
    BY <2>1, <2>2, <2>3 DEF Stream!Skip
  <2> QED
    BY <2>4 DEF Stream!Next
<1>4. CASE EndSearch
  <2>1. /\ received' = received /\ packets' = packets /\ iter' = 0
        /\ buffer' = SubSeq(buffer, iter + 1, Len(buffer))
    BY <1>4 DEF EndSearch
  <2>2. Len(buffer') = Len(buffer) - iter /\ Len(received') = Len(received)
    BY <1>0, <2>1
  <2>3. Erased' + iter' = pos
    <3>1. Erased' = Len(received') - Len(buffer')
      BY DEF Erased
    <3>2. Len(received) - (Len(buffer) - iter) + 0 = (Len(received) - Len(buffer)) + iter
      BY <1>0
    <3> QED
      BY <1>0, <2>1, <2>2, <3>1, <3>2
  <2> QED
    BY <2>1, <2>3
<1>5. CASE UNCHANGED vars
  BY <1>5 DEF vars, Erased
<1> QED
  BY <1>1, <1>2, <1>3, <1>4, <1>5 DEF Next

\* However the line is cut into reads, and although what the search has gone
\* past is erased, the reader does what one pass over the whole line does
\* (packet_creation_thread implements PacketStream).
THEOREM Refinement == Spec => ReadsTheStream
<1>1. Init => Stream!Init
  BY StreamInit
<1>2. Inv /\ [Next]_vars => [Stream!Next]_<<received, Erased + iter, packets>>
  BY StreamStep
<1> QED
  BY <1>1, <1>2, InvAlways, PTL DEF Spec, ReadsTheStream, Stream!Spec

-----------------------------------------------------------------------------
(***************************************************************************)
(* What is handed on.  Every byte the search has gone past belongs to a    *)
(* packet, or cannot begin a frame whatever follows it: this is what makes *)
(* NothingMissed inductive while the line grows.                           *)
(***************************************************************************)
FrameHere(x) ==
  StartsFrame(received, x - 1) /\ ~Incomplete(received, x - 1) /\ GoodFrame(received, x - 1)

NoFrameHere(x) ==
  StartsFrame(received, x - 1) =>
    ~Incomplete(received, x - 1) /\ ~GoodFrame(received, x - 1)

Covered(x) == \E k \in 1 .. Len(packets) : Covers(packets[k], x)

FramesSoFar ==
  \A k \in 1 .. Len(packets) : FrameAt(packets[k]) /\ packets[k].last <= Erased + iter

InOrder == \A k \in 1 .. Len(packets) - 1 : packets[k].last < packets[k + 1].first

AllJudged == \A x \in 1 .. Erased + iter : Covered(x) \/ NoFrameHere(x)

PacketInv == FramesSoFar /\ InOrder /\ AllJudged

\* A longer line is judged alike where it has been judged.
LEMMA GrownAgrees ==
  ASSUME Inv, NEW n \in 1 .. MaxRead, Receive(n), NEW i \in 0 .. Len(received) - 1
  PROVE  Agree(received, i, received', i)
<1> DEFINE x == SubSeq(line, 1, n)
<1>1. received \in Seq(Bytes) /\ Len(received) \in Nat
  BY DEF Inv, TypeOK
<1>2. x \in Seq(Bytes) /\ received' = received \o x
  <2>1. line \in Seq(Bytes) /\ n \in 1 .. Len(line)
    BY FramingAssumption DEF Receive, Inv, TypeOK
  <2>2. x \in Seq(Bytes)
    BY <2>1
  <2>3. received' = received \o x
    BY DEF Receive
  <2> QED
    BY <2>2, <2>3
<1> HIDE DEF x
<1>3. received' \in Seq(Bytes) /\ Len(received') >= Len(received)
  <2>1. received \o x \in Seq(Bytes) /\ Len(received \o x) = Len(received) + Len(x)
    BY <1>1, <1>2
  <2>2. Len(x) \in Nat
    BY <1>2
  <2> QED
    BY <1>1, <1>2, <2>1, <2>2
<1>4. \A k \in 1 .. Len(received) : received'[k] = received[k]
  BY <1>1, <1>2
<1>5. ASSUME NEW k \in 1 .. Len(received) - i
      PROVE  received[i + k] = received'[i + k]
  BY <1>1, <1>4
<1> QED
  BY <1>1, <1>3, <1>5 DEF Agree

LEMMA PacketInit == Init => PacketInv
BY DEF Init, PacketInv, FramesSoFar, InOrder, AllJudged, Erased

LEMMA PacketReceive ==
  ASSUME Inv, PacketInv, NEW n \in 1 .. MaxRead, Receive(n)
  PROVE  PacketInv'
<1>0. /\ Len(received) \in Nat /\ Len(buffer) \in Nat /\ iter \in 0 .. Len(buffer)
      /\ Len(buffer) <= Len(received) /\ packets \in Seq(Span)
      /\ Erased = Len(received) - Len(buffer)
  BY DEF Inv, TypeOK, Erased
<1>1. packets' = packets /\ iter = 0 /\ iter' = 0
  BY DEF Receive, Inv, WaitsAtFront
<1>2. Erased' = Erased
  BY InvReceive, <1>0 DEF Receive, Erased, Inv, TypeOK
<1>3. ASSUME NEW p \in Span, FrameAt(p)
      PROVE  FrameAt(p)'
  <2>1. p.first - 1 \in 0 .. Len(received) - 1 /\ p.first \in 1 .. Len(received)
    BY <1>0, <1>3 DEF FrameAt
  <2>2. Agree(received, p.first - 1, received', p.first - 1)
    BY <2>1, GrownAgrees
  <2>3. p.first \in 1 .. Len(received')
    <3> DEFINE f == p.first
    <3>1. Len(received) - (f - 1) <= Len(received') - (f - 1) /\ Len(received') \in Nat
      BY <2>2 DEF Agree
    <3>2. f \in 1 .. Len(received)
      BY <2>1
    <3> HIDE DEF f
    <3>3. f \in 1 .. Len(received')
      BY <1>0, <3>1, <3>2
    <3> QED
      BY <3>3 DEF f
  <2>4. /\ StartsFrame(received', p.first - 1)
        /\ ~Incomplete(received', p.first - 1)
        /\ GoodFrame(received', p.first - 1)
        /\ FrameSize(received', p.first - 1) = FrameSize(received, p.first - 1)
    BY <1>3, <2>2, StartsSame, CompleteSame, GoodSame DEF FrameAt
  <2> QED
    BY <1>3, <2>3, <2>4 DEF FrameAt
<1>4. FramesSoFar'
  BY <1>0, <1>1, <1>2, <1>3 DEF PacketInv, FramesSoFar
<1>5. InOrder'
  BY <1>1 DEF PacketInv, InOrder
<1>6. AllJudged'
  <2>1. SUFFICES ASSUME NEW x \in 1 .. Erased + iter PROVE Covered(x)' \/ NoFrameHere(x)'
    BY <1>1, <1>2 DEF AllJudged
  <2>2. CASE Covered(x)
    BY <1>1, <2>2 DEF Covered, Covers
  <2>3. CASE NoFrameHere(x)
    <3>1. x - 1 \in 0 .. Len(received) - 1
      BY <1>0, <1>1
    <3>2. Agree(received, x - 1, received', x - 1)
      BY <3>1, GrownAgrees
    <3> QED
      BY <2>3, <3>2, StartsSame, CompleteSame, GoodSame DEF NoFrameHere
  <2> QED
    BY <2>2, <2>3 DEF PacketInv, AllJudged
<1> QED
  BY <1>4, <1>5, <1>6 DEF PacketInv

LEMMA PacketDeliver ==
  ASSUME Inv, PacketInv, DeliverPacket
  PROVE  PacketInv'
<1> DEFINE pos == Erased + iter
           size == FrameSize(buffer, iter)
           p == [first |-> pos + 1, last |-> pos + size]
<1>0. /\ Len(received) \in Nat /\ Len(buffer) \in Nat /\ iter \in 0 .. Len(buffer) - 1
      /\ Len(buffer) <= Len(received) /\ packets \in Seq(Span)
      /\ Erased = Len(received) - Len(buffer)
  BY DEF Inv, TypeOK, Erased, DeliverPacket, AtFrame
<1>1. /\ received' = received /\ buffer' = buffer /\ iter' = iter + size
      /\ packets' = Append(packets, p)
      /\ StartsFrame(buffer, iter) /\ ~Incomplete(buffer, iter) /\ GoodFrame(buffer, iter)
  BY DEF DeliverPacket, AtFrame
<1>2. size \in Nat \ {0} /\ pos \in Nat /\ pos < Len(received)
  BY <1>0, DeliveredFits, PacketAssumption DEF MaxFrame
<1>3. Agree(buffer, iter, received, pos) /\ Len(buffer) - iter = Len(received) - pos
  BY <1>0, BufferAgrees
<1>4. /\ StartsFrame(received, pos) /\ ~Incomplete(received, pos) /\ GoodFrame(received, pos)
      /\ size = FrameSize(received, pos)
  BY <1>1, <1>3, StartsSame, CompleteSame, GoodSame
<1> HIDE DEF size, pos
<1>5. p \in Span /\ p.first = pos + 1 /\ p.last = pos + size
  BY <1>2 DEF Span
<1> HIDE DEF p
<1>6. Erased' + iter' = pos + size /\ pos = Erased + iter
  BY <1>0, <1>1, <1>2 DEF Erased, pos
<1>7. /\ Len(packets) \in Nat /\ Len(packets') = Len(packets) + 1
      /\ packets'[Len(packets) + 1] = p
      /\ \A k \in 1 .. Len(packets) : packets'[k] = packets[k] /\ packets[k] \in Span
  BY <1>0, <1>1, <1>5
<1>8. FrameAt(p)
  <2>1. p.first - 1 = pos /\ p.first \in 1 .. Len(received)
    BY <1>0, <1>2, <1>5
  <2> QED
    BY <1>4, <1>5, <2>1 DEF FrameAt
<1>9. FramesSoFar'
  <2>1. SUFFICES ASSUME NEW k \in 1 .. Len(packets')
                 PROVE  FrameAt(packets[k])' /\ packets'[k].last <= pos + size
    BY <1>6 DEF FramesSoFar
  <2>2. CASE k = Len(packets) + 1
    BY <1>1, <1>2, <1>5, <1>7, <1>8, <2>2 DEF FrameAt
  <2>3. CASE k \in 1 .. Len(packets)
    <3>1. FrameAt(packets[k]) /\ packets[k].last <= pos /\ packets[k].last \in Nat
      BY <1>6, <1>7, <2>3 DEF PacketInv, FramesSoFar, Span
    <3> QED
      BY <1>1, <1>2, <1>7, <2>3, <3>1 DEF FrameAt
  <2> QED
    BY <1>7, <2>2, <2>3
<1>10. InOrder'
  <2>1. SUFFICES ASSUME NEW k \in 1 .. Len(packets)
                 PROVE  packets'[k].last < packets'[k + 1].first
    BY <1>7 DEF InOrder
  <2>2. packets[k].last <= pos /\ packets[k].last \in Nat
    BY <1>6, <1>7 DEF PacketInv, FramesSoFar, Span
  <2>3. CASE k = Len(packets)
    BY <1>2, <1>5, <1>7, <2>2, <2>3
  <2>4. CASE k # Len(packets)
    <3>1. k \in 1 .. Len(packets) - 1 /\ k + 1 \in 1 .. Len(packets)
      BY <1>7, <2>4
    <3> QED
      BY <1>7, <3>1 DEF PacketInv, InOrder
  <2> QED
    BY <2>3, <2>4
<1>11. AllJudged'
  <2>1. SUFFICES ASSUME NEW x \in 1 .. pos + size PROVE Covered(x)' \/ NoFrameHere(x)'
    BY <1>6 DEF AllJudged
  <2>2. CASE x <= pos
    <3>1. Covered(x) \/ NoFrameHere(x)
      BY <1>2, <1>6, <2>2 DEF PacketInv, AllJudged
    <3>2. Covered(x) => Covered(x)'
      BY <1>7 DEF Covered, Covers
    <3>3. NoFrameHere(x) => NoFrameHere(x)'
      BY <1>1 DEF NoFrameHere
    <3> QED
      BY <3>1, <3>2, <3>3
  <2>3. CASE ~(x <= pos)
    <3>1. Covers(p, x)
      BY <1>2, <1>5, <2>3 DEF Covers
    <3> QED
      BY <1>7, <3>1 DEF Covered, Covers
  <2> QED
    BY <2>2, <2>3
<1> QED
  BY <1>9, <1>10, <1>11 DEF PacketInv

LEMMA PacketSkip ==
  ASSUME Inv, PacketInv, SkipByte
  PROVE  PacketInv'
<1> DEFINE pos == Erased + iter
<1>0. /\ Len(received) \in Nat /\ Len(buffer) \in Nat /\ iter \in 0 .. Len(buffer) - 1
      /\ Len(buffer) <= Len(received) /\ packets \in Seq(Span)
      /\ Erased = Len(received) - Len(buffer)
  BY DEF Inv, TypeOK, Erased, SkipByte
<1>1. /\ received' = received /\ buffer' = buffer /\ packets' = packets /\ iter' = iter + 1
      /\ StartsFrame(buffer, iter) => ~Incomplete(buffer, iter) /\ ~GoodFrame(buffer, iter)
  BY DEF SkipByte
<1>2. Agree(buffer, iter, received, pos)
  BY <1>0, BufferAgrees
<1>3. StartsFrame(received, pos) => ~Incomplete(received, pos) /\ ~GoodFrame(received, pos)
  BY <1>1, <1>2, StartsSame, CompleteSame, GoodSame
<1>4. Erased' + iter' = pos + 1 /\ pos \in Nat
  BY <1>0, <1>1 DEF Erased
<1>5. FramesSoFar'
  <2>1. \A k \in 1 .. Len(packets) : packets[k].last \in Nat
    <3>1. \A k \in 1 .. Len(packets) : packets[k] \in Span
      BY <1>0
    <3> QED
      BY <3>1 DEF Span
  <2> QED
    BY <1>1, <1>4, <2>1 DEF PacketInv, FramesSoFar, FrameAt
<1>6. InOrder'
  BY <1>1 DEF PacketInv, InOrder
<1>7. AllJudged'
  <2>1. SUFFICES ASSUME NEW x \in 1 .. pos + 1 PROVE Covered(x) \/ NoFrameHere(x)
    BY <1>1, <1>4 DEF AllJudged, Covered, Covers, NoFrameHere
  <2>2. CASE x <= pos
    BY <1>4, <2>2 DEF PacketInv, AllJudged
  <2>3. CASE ~(x <= pos)
    <3>1. x - 1 = pos
      BY <1>4, <2>3
    <3> QED
      BY <1>3, <3>1 DEF NoFrameHere
  <2> QED
    BY <2>2, <2>3
<1> QED
  BY <1>5, <1>6, <1>7 DEF PacketInv

LEMMA PacketEndSearch ==
  ASSUME Inv, PacketInv, EndSearch
  PROVE  PacketInv'
<1>0. /\ Len(received) \in Nat /\ Len(buffer) \in Nat /\ iter \in 0 .. Len(buffer)
      /\ buffer \in Seq(Bytes) /\ Erased = Len(received) - Len(buffer)
  BY DEF Inv, TypeOK, Erased
<1>1. /\ received' = received /\ packets' = packets /\ iter' = 0
      /\ buffer' = SubSeq(buffer, iter + 1, Len(buffer))
  BY DEF EndSearch
<1>2. Len(buffer') = Len(buffer) - iter /\ Len(received') = Len(received)
  BY <1>0, <1>1
<1>3. Erased' + iter' = Erased + iter
  <2>1. Erased' = Len(received') - Len(buffer')
    BY DEF Erased
  <2>2. (Len(received) - (Len(buffer) - iter)) + 0 = (Len(received) - Len(buffer)) + iter
    BY <1>0
  <2> QED
    BY <1>0, <1>1, <1>2, <2>1, <2>2
<1> QED
  BY <1>1, <1>3 DEF PacketInv, FramesSoFar, InOrder, AllJudged, FrameAt, Covered, Covers,
                    NoFrameHere

LEMMA PacketStep == Inv /\ PacketInv /\ [Next]_vars => PacketInv'
<1> SUFFICES ASSUME Inv, PacketInv, [Next]_vars PROVE PacketInv'
  OBVIOUS
<1>1. CASE \E n \in 1 .. MaxRead : Receive(n)
  BY <1>1, PacketReceive
<1>2. CASE DeliverPacket
  BY <1>2, PacketDeliver
<1>3. CASE SkipByte
  BY <1>3, PacketSkip
<1>4. CASE EndSearch
  BY <1>4, PacketEndSearch
<1>5. CASE UNCHANGED vars
  BY <1>5 DEF vars, PacketInv, FramesSoFar, InOrder, AllJudged, FrameAt, Covered, Covers,
              NoFrameHere, Erased
<1> QED
  BY <1>1, <1>2, <1>3, <1>4, <1>5 DEF Next

THEOREM PacketInvAlways == Spec => []PacketInv
<1>1. Inv /\ PacketInv /\ [Next]_vars => PacketInv'
  BY PacketStep
<1> QED
  BY <1>1, PacketInit, InvAlways, PTL DEF Spec

\* What the reader hands on are good frames of the line, in order, apart and
\* once, for every checksum and however the line is cut.
THEOREM PacketsAreFramesAlways == Spec => []PacketsAreFrames
<1>1. PacketInv => PacketsAreFrames
  BY DEF PacketInv, FramesSoFar, InOrder, PacketsAreFrames
<1> QED
  BY <1>1, PacketInvAlways, PTL

\* No good frame the search has gone past was missed, unless it begins inside
\* a packet that was handed on.
THEOREM NothingMissedAlways == Spec => []NothingMissed
<1>1. PacketInv => NothingMissed
  BY DEF PacketInv, AllJudged, NothingMissed, Covered, NoFrameHere
<1> QED
  BY <1>1, PacketInvAlways, PTL

-----------------------------------------------------------------------------
(***************************************************************************)
(* What is held back.                                                      *)
(***************************************************************************)
LEMMA WaitStep == Inv /\ WaitsForFrame /\ [Next]_vars => WaitsForFrame'
<1> SUFFICES ASSUME Inv, WaitsForFrame, [Next]_vars PROVE WaitsForFrame'
  OBVIOUS
<1>1. CASE \E n \in 1 .. MaxRead : Receive(n)
  BY <1>1 DEF Receive, WaitsForFrame
<1>2. CASE DeliverPacket
  BY <1>2 DEF DeliverPacket, AtFrame, WaitsForFrame
<1>3. CASE SkipByte
  BY <1>3 DEF SkipByte, WaitsForFrame
<1>4. CASE EndSearch
  <2>1. SUFFICES ASSUME buffer' # <<>> PROVE StartsFrame(buffer', 0) /\ Incomplete(buffer', 0)
    BY DEF WaitsForFrame
  <2>2. /\ buffer \in Seq(Bytes) /\ Len(buffer) \in Nat /\ iter \in 0 .. Len(buffer)
        /\ buffer' = SubSeq(buffer, iter + 1, Len(buffer))
    BY <1>4 DEF Inv, TypeOK, EndSearch
  <2>3. buffer' \in Seq(Bytes) /\ Len(buffer') = Len(buffer) - iter
    BY <2>2
  <2>4. Len(buffer') # 0
    BY <2>1, <2>3
  <2>5. iter < Len(buffer)
    BY <2>2, <2>3, <2>4
  <2>6. Agree(buffer, iter, buffer', 0) /\ Len(buffer) - iter = Len(buffer') - 0
    <3>1. \A k \in 1 .. Len(buffer) - iter : buffer[iter + k] = buffer'[0 + k]
      BY <2>2, <2>3
    <3> QED
      BY <2>2, <2>3, <2>5, <3>1 DEF Agree
  <2>7. StartsFrame(buffer, iter) /\ Incomplete(buffer, iter)
    BY <1>4, <2>5 DEF EndSearch
  <2> QED
    BY <2>6, <2>7, StartsSame, IncompleteSame
<1>5. CASE UNCHANGED vars
  BY <1>5 DEF vars, WaitsForFrame
<1> QED
  BY <1>1, <1>2, <1>3, <1>4, <1>5 DEF Next

\* A reader that waits holds back nothing but the beginning of one frame.
THEOREM WaitsForFrameAlways == Spec => []WaitsForFrame
<1>1. Init => WaitsForFrame
  BY DEF Init, WaitsForFrame
<1> QED
  BY <1>1, WaitStep, InvAlways, PTL DEF Spec

\* No noise makes the reader hold back a frame's length of telemetry or more.
THEOREM BufferBoundedAlways == Spec => []BufferBounded
<1>1. Inv /\ WaitsForFrame => BufferBounded
  <2> SUFFICES ASSUME Inv, WaitsForFrame, ~searching PROVE Len(buffer) < MaxFrame
    BY DEF BufferBounded
  <2>1. buffer \in Seq(Bytes) /\ Len(buffer) \in Nat
    BY DEF Inv, TypeOK
  <2>2. CASE Len(buffer) < MinFrame
    BY <2>1, <2>2, PacketAssumption DEF MinFrame, MaxFrame
  <2>3. CASE ~(Len(buffer) < MinFrame)
    <3>1. StartsFrame(buffer, 0) /\ Incomplete(buffer, 0)
      BY <2>1, <2>3 DEF WaitsForFrame, MinFrame
    <3>2. Agree(buffer, 0, buffer, 0) /\ Len(buffer) - 0 >= MinFrame
      BY <2>1, <2>3 DEF Agree, MinFrame
    <3>3. /\ Header(buffer, 0) \in 2 .. 3 /\ PayloadSize(buffer, 0) \in Nat
          /\ FrameSize(buffer, 0) = Header(buffer, 0) + PayloadSize(buffer, 0) + 3
      BY <3>2, HeaderSame
    <3>4. PayloadSize(buffer, 0) <= MaxPayload /\ Len(buffer) < FrameSize(buffer, 0)
      BY <2>3, <3>1, <3>2 DEF Incomplete
    <3> QED
      BY <2>1, <3>3, <3>4, PacketAssumption DEF MaxFrame
  <2> QED
    BY <2>2, <2>3
<1> QED
  BY <1>1, WaitsForFrameAlways, InvAlways, PTL
=============================================================================
