---------------------------- MODULE MCStateMachine ----------------------------
(***************************************************************************)
(* Values for the constants of StateMachine: a raceline of 8 waypoints,    *)
(* about three of which lie within each horizon, three lateral offsets, an *)
(* overtaking sector up to the finish line, two overtaking lines, one of   *)
(* which crosses it, and the empty line the planner sends when it has      *)
(* none.                                                                   *)
(*                                                                         *)
(* Lines are sampled and labelled as graph_planner.cpp does: four points   *)
(* on about 0.4 m are 133 mm apart, and behind the finish line a station   *)
(* counts from the last sampled layer, here at 600 mm.                     *)
(***************************************************************************)
EXTENDS StateMachine

At(s, d) == [s |-> s, d |-> d]

\* Waypoints at equal distances, their number that of the started cells.
MCRaceline == [c \in 0 .. NumGlbWpnts - 1 |-> (c * TrackLength) \div NumGlbWpnts]

MCSectors == <<[start |-> 0, end |-> 6]>>

MCPoses == {At(100, 0), At(690, 0), At(480, 2)}

\* A line beside cells 1 .. 4 and one that leads over the finish line.
MCLine == <<At(100, 0), At(233, 2), At(366, 2), At(499, 0)>>
MCWrapLine == <<At(500, 0), At(33, 2), At(166, 2), At(299, 0)>>
MCPaths == {MCLine, MCWrapLine, <<>>}

\* Nothing, an obstacle on the raceline, one on the overtaking line, one of
\* each, and one on the raceline behind the finish line.
MCObstacleArrays ==
  {{}, {At(220, 0)}, {At(240, 2)}, {At(220, 0), At(360, 2)}, {At(20, 0)}}

MCSwitchAges == {0, 1}

\* A smaller world for the runs with an operator and for liveness.
SmallPoses == {At(100, 0), At(130, 2)}
SmallObstacleArrays == {{}, {At(220, 0)}}
SmallPaths == {MCLine, <<>>}
=============================================================================
