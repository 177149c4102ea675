------------------------------ MODULE MCTracking ------------------------------
(***************************************************************************)
(* A ring of seven cells; a match is closer than two cells, closer than    *)
(* four to the opponent's prediction.  The detections are a free track, an *)
(* obstacle that stands or creeps on by a cell, and two side by side; the  *)
(* prediction, two cells a tick, runs away from them and over the finish   *)
(* line.                                                                   *)
(***************************************************************************)
EXTENDS Tracking

MCPlausibleVs == 0..2
MCDrift == {0, 2}
MCDetections == {<<>>, <<2>>, <<3>>, <<2, 3>>}
MCPoses == {0}
=============================================================================
