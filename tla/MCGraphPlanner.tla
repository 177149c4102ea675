--------------------------- MODULE MCGraphPlanner ---------------------------
(***************************************************************************)
(* GraphPlanner for TLC: five layers of two or three nodes.  Node <<2, 2>> *)
(* has no parents from the start, the costs make later finds cheaper than  *)
(* earlier ones, and the obstacles overlap, lie askew, and end the lap.    *)
(***************************************************************************)
EXTENDS GraphPlanner

MCWidth == [l \in 0..4 |-> IF l \in {2, 3} THEN 3 ELSE 2]
MCRaceline == [l \in 0..4 |-> IF l = 2 THEN 1 ELSE 0]
MCLatSteps == [u \in Nodes |-> IF u[1] = 1 THEN 0 ELSE 1]
MCCost == [e \in Edges |-> IF e \in RacelineEdges THEN 1
                           ELSE 2 + 3 * ((e[1][2] + 2 * e[2][2]) % 3)]
MCSharp == {{},
            {e \in Edges \ RacelineEdges : e[1] = <<4, 1>>},
            {e \in Edges \ RacelineEdges : e[2] = <<0, 1>>}}

Obstacle(fl, fr, bl, br) ==
  [frontLeft |-> fl, frontRight |-> fr, backLeft |-> bl, backRight |-> br]
OnLine == Obstacle(<<1, 0>>, <<1, 0>>, <<2, 1>>, <<2, 1>>)
Askew == Obstacle(<<1, 1>>, <<2, 1>>, <<2, 0>>, <<3, 1>>)
LapEnd == Obstacle(<<4, 0>>, <<4, 1>>, <<4, 0>>, <<4, 1>>)
OverLap == Obstacle(<<4, 0>>, <<4, 0>>, <<0, 0>>, <<0, 0>>)
MCMessages == {<<>>, <<OnLine>>, <<OnLine, Askew>>, <<LapEnd, OverLap>>}
=============================================================================
