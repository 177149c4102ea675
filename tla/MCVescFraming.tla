---------------------------- MODULE MCVescFraming ----------------------------
(***************************************************************************)
(* Values for VescFraming: four byte values, and lines made of three of    *)
(* the pieces a noisy line consists of: frames, one of which contains      *)
(* another, frames with a wrong checksum or an unknown payload, the        *)
(* beginning of a frame whose end is missing, and stray bytes.             *)
(***************************************************************************)
EXTENDS VescFraming, SequencesExt

MCCrc(payload) == (1 + FoldSeq(+, 0, payload)) % 16

CrcBytes(c) == <<c \div 4, c % 4>>
Small(payload) ==
  <<SmallFrame, Len(payload)>> \o payload \o CrcBytes(MCCrc(payload)) \o <<EndOfFrame>>
Large(payload) ==
  <<LargeFrame, Len(payload) \div 4, Len(payload) % 4>> \o payload
    \o CrcBytes(MCCrc(payload)) \o <<EndOfFrame>>

Pieces == {
  Small(<<1>>),
  Large(<<1>> \o Small(<<1>>)),
  Small(<<0, 2>>),
  <<SmallFrame, 1, 1, 0, 0, EndOfFrame>>,
  <<LargeFrame, 1, 2, 1>>,
  <<LargeFrame, 3>>,
  <<0>> }

MCLines == { a \o b \o c : a, b, c \in Pieces }
=============================================================================
