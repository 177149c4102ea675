------------------------------ MODULE VescFraming ------------------------------
(***************************************************************************)
(* How bytes become packets: the search of the VESC interface's reader     *)
(* thread (packet_creation_thread) and the packet factory (createPacket).  *)
(*                                                                         *)
(* The serial port hands over the line in pieces of any length.  The bytes *)
(* are appended to a buffer, which is searched from its beginning: a good  *)
(* frame is handed on as a packet, the search stops at a frame that is not *)
(* complete yet, and any other byte is skipped.  What the search has gone  *)
(* past is erased.                                                         *)
(***************************************************************************)
EXTENDS VescPacket

CONSTANTS
  MaxRead,      \* the length of the buffer receive fills
  Lines         \* what may come in on the line

ASSUME FramingAssumption ==
  /\ MaxRead \in Nat \ {0}
  /\ Lines \subseteq Seq(Bytes)

VARIABLES
  line,       \* the bytes that have not been received
  buffer,     \* buffer_
  iter,       \* the length of the buffer the search has gone past
  searching,  \* is the thread in the search, or waiting in receive?
  received,   \* history: all bytes received
  packets     \* history: where in received the packets handed on lie

vars == <<line, buffer, iter, searching, received, packets>>

\* The number of bytes erased from the front of the buffer so far.
Erased == Len(received) - Len(buffer)

Span == [first : Nat, last : Nat]

TypeOK ==
  /\ line \in Seq(Bytes)
  /\ buffer \in Seq(Bytes)
  /\ iter \in 0 .. Len(buffer)
  /\ searching \in BOOLEAN
  /\ received \in Seq(Bytes)
  /\ packets \in Seq(Span)
  /\ Len(buffer) <= Len(received)

Init ==
  /\ line \in Lines
  /\ buffer = <<>>
  /\ iter = 0
  /\ searching = FALSE
  /\ received = <<>>
  /\ packets = <<>>

-----------------------------------------------------------------------------
\* packet_creation_thread.

Receive(n) ==
  /\ ~searching
  /\ n <= Len(line)
  /\ line' = SubSeq(line, n + 1, Len(line))
  /\ buffer' = buffer \o SubSeq(line, 1, n)
  /\ received' = received \o SubSeq(line, 1, n)
  /\ iter' = 0
  /\ searching' = TRUE
  /\ UNCHANGED packets

AtFrame == searching /\ iter < Len(buffer) /\ StartsFrame(buffer, iter)

\* Mutant: the search goes on inside the packet.
DeliverPacketInside ==
  /\ AtFrame
  /\ ~Incomplete(buffer, iter)
  /\ GoodFrame(buffer, iter)
  /\ packets' = Append(packets, [first |-> Erased + iter + 1,
                                 last  |-> Erased + iter + FrameSize(buffer, iter)])
  /\ iter' = iter + 1
  /\ UNCHANGED <<line, buffer, searching, received>>

DeliverPacket ==
  /\ AtFrame
  /\ ~Incomplete(buffer, iter)
  /\ GoodFrame(buffer, iter)
  /\ packets' = Append(packets, [first |-> Erased + iter + 1,
                                 last  |-> Erased + iter + FrameSize(buffer, iter)])
  /\ iter' = iter + FrameSize(buffer, iter)
  /\ UNCHANGED <<line, buffer, searching, received>>

\* Mutant: a bad frame is skipped with all its claimed length.
SkipByteFrame ==
  /\ searching /\ iter < Len(buffer)
  /\ StartsFrame(buffer, iter) => ~Incomplete(buffer, iter) /\ ~GoodFrame(buffer, iter)
  /\ iter' = IF StartsFrame(buffer, iter) /\ PayloadSize(buffer, iter) <= MaxPayload
             THEN iter + FrameSize(buffer, iter) ELSE iter + 1
  /\ UNCHANGED <<line, buffer, searching, received, packets>>

\* Not a start of frame, or not a packet: on to the next byte.
SkipByte ==
  /\ searching /\ iter < Len(buffer)
  /\ StartsFrame(buffer, iter) => ~Incomplete(buffer, iter) /\ ~GoodFrame(buffer, iter)
  /\ iter' = iter + 1
  /\ UNCHANGED <<line, buffer, searching, received, packets>>

\* Mutants: nothing is erased; the search position survives the erasure.
EndSearchKeepsNoise ==
  /\ searching
  /\ iter < Len(buffer) => StartsFrame(buffer, iter) /\ Incomplete(buffer, iter)
  /\ iter' = 0
  /\ searching' = FALSE
  /\ UNCHANGED <<line, buffer, received, packets>>
EndSearchKeepsPosition ==
  /\ searching
  /\ iter < Len(buffer) => StartsFrame(buffer, iter) /\ Incomplete(buffer, iter)
  /\ buffer' = SubSeq(buffer, iter + 1, Len(buffer))
  /\ searching' = FALSE
  /\ UNCHANGED <<line, iter, received, packets>>

\* The search has come to the end or to an incomplete frame; what it has gone
\* past is erased, and the thread sleeps before it reads again.
EndSearch ==
  /\ searching
  /\ iter < Len(buffer) => StartsFrame(buffer, iter) /\ Incomplete(buffer, iter)
  /\ buffer' = SubSeq(buffer, iter + 1, Len(buffer))
  /\ iter' = 0
  /\ searching' = FALSE
  /\ UNCHANGED <<line, received, packets>>

Next ==
  \/ \E n \in 1 .. MaxRead : Receive(n)
  \/ DeliverPacket
  \/ SkipByte
  \/ EndSearch

Spec == Init /\ [][Next]_vars

-----------------------------------------------------------------------------
\* Properties.

\* Where in received a good frame lies, and a frame of which not enough has
\* been received to tell.
FrameAt(p) ==
  /\ p.first \in 1 .. Len(received)
  /\ StartsFrame(received, p.first - 1)
  /\ ~Incomplete(received, p.first - 1)
  /\ GoodFrame(received, p.first - 1)
  /\ p.last = p.first - 1 + FrameSize(received, p.first - 1)

\* What is handed on are good frames of the line, in the order in which they
\* came, no two of them overlapping and none of them twice, in whatever pieces
\* the line is received (DeliverPacket, erase).
PacketsAreFrames ==
  /\ \A k \in 1 .. Len(packets) : FrameAt(packets[k])
  /\ \A k \in 1 .. Len(packets) - 1 : packets[k].last < packets[k + 1].first

Covers(p, x) == p.first <= x /\ x <= p.last

\* No frame is lost: every good frame that has come in completely and that the
\* search has gone past was handed on, unless its first byte belongs to a
\* packet that was handed on before (the search of packet_creation_thread).
NothingMissed ==
  \A x \in 1 .. Erased + iter :
    (StartsFrame(received, x - 1) /\ ~Incomplete(received, x - 1) /\ GoodFrame(received, x - 1))
      => \E k \in 1 .. Len(packets) : Covers(packets[k], x)

\* No noise, a stray start of frame with a large length included, makes the
\* reader hold back more than one frame's bytes while it waits for more
\* (createPacket's length check, erase).
BufferBounded == ~searching => Len(buffer) < MaxFrame

\* The reader waits only for a frame that is not complete.
WaitsForFrame ==
  ~searching /\ buffer # <<>> => StartsFrame(buffer, 0) /\ Incomplete(buffer, 0)

\* Buffer, reads and erasures make no difference: what the reader does is a
\* single pass over the whole line, although a frame may be cut in any place
\* and its beginning is looked at again with every read.
Stream == INSTANCE PacketStream WITH pos <- Erased + iter
ReadsTheStream == Stream!Spec
=============================================================================
