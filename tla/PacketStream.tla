----------------------------- MODULE PacketStream -----------------------------
(***************************************************************************)
(* What the reader of the VESC interface promises: it finds the packets a  *)
(* reader would find that had the whole line before it, had no buffer and  *)
(* knew nothing of reads, and it finds them in one pass.                   *)
(***************************************************************************)
EXTENDS VescPacket

VARIABLES
  received,   \* the bytes that have come in
  pos,        \* the reader has gone past the first pos of them
  packets     \* where in received the packets handed on lie

\* Enough has come in to say that a frame begins behind pos, or that none does.
AtPacket ==
  /\ pos < Len(received) /\ StartsFrame(received, pos)
  /\ ~Incomplete(received, pos) /\ GoodFrame(received, pos)

AtNoise ==
  /\ pos < Len(received)
  /\ StartsFrame(received, pos) =>
       ~Incomplete(received, pos) /\ ~GoodFrame(received, pos)

Init == received = <<>> /\ pos = 0 /\ packets = <<>>

\* More bytes come in; those that are there stay.
Arrive ==
  /\ Len(received) < Len(received')
  /\ SubSeq(received', 1, Len(received)) = received
  /\ UNCHANGED <<pos, packets>>

Skip ==
  /\ AtNoise
  /\ pos' = pos + 1
  /\ UNCHANGED <<received, packets>>

Deliver ==
  /\ AtPacket
  /\ pos' = pos + FrameSize(received, pos)
  /\ packets' = Append(packets, [first |-> pos + 1, last |-> pos'])
  /\ UNCHANGED received

Next == Arrive \/ Skip \/ Deliver

Spec == Init /\ [][Next]_<<received, pos, packets>>
=============================================================================
