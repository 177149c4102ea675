------------------------ MODULE MCStateMachineHistory ------------------------
(***************************************************************************)
(* The values of MCStateMachine for StateMachineHistory.  The time to live *)
(* is two or three ticks, the threshold two or three detections; where the *)
(* rate may rise a period is halved, where it may drop it is four times as *)
(* long (40 Hz to 10 Hz).                                                  *)
(***************************************************************************)
EXTENDS MCStateMachine, StateMachineHistory
=============================================================================
