------------------------- MODULE GraphPlannerProofs -------------------------
(***************************************************************************)
(* What holds of the graph planner for every lattice, every outcome of the *)
(* splines, and every sequence of messages: pruning leaves no dead end     *)
(* and the raceline whole, a tick leaves the costs as it found them, and   *)
(* the line it publishes is a cheapest one.                                *)
(***************************************************************************)
EXTENDS GraphPlanner, Induction, FiniteSetTheorems

\* The raceline is closed: each of its edges follows one and is followed.
LEMMA RacelineCloses ==
  \A f \in RacelineEdges :
    /\ \E g \in RacelineEdges : g[1] = f[2]
    /\ \E g \in RacelineEdges : g[2] = f[1]
<1> SUFFICES ASSUME NEW l \in Layers
             PROVE  LET f == <<OnRaceline(l), OnRaceline(Following(l))>>
                    IN  /\ \E g \in RacelineEdges : g[1] = f[2]
                        /\ \E g \in RacelineEdges : g[2] = f[1]
  BY DEF RacelineEdges
<1> DEFINE m == IF l = 0 THEN NLayers - 1 ELSE l - 1
<1>1. Following(l) \in Layers /\ m \in Layers /\ Following(m) = l
  BY LatticeAssumption DEF Following, Layers
<1> HIDE DEF m
<1>2. <<OnRaceline(Following(l)), OnRaceline(Following(Following(l)))>> \in RacelineEdges
  BY <1>1 DEF RacelineEdges
<1>3. <<OnRaceline(m), OnRaceline(l)>> \in RacelineEdges
  BY <1>1 DEF RacelineEdges
<1> QED
  BY <1>2, <1>3

\* genEdges gives every node a child.
LEMMA EveryNodeLeadsOn == \A u \in Nodes : \E g \in Edges : g[1] = u
<1> SUFFICES ASSUME NEW l \in Layers, NEW i \in 0..Width[l] - 1
             PROVE  \E g \in Edges : g[1] = <<l, i>>
  BY DEF Nodes
<1> DEFINE u == <<l, i>>
           dst == Following(l)
           v == <<dst, Ahead(u)>>
<1>1. dst \in Layers
  BY LatticeAssumption DEF Following, Layers
<1>2. u \in Nodes
  BY DEF Nodes
<1>3. LatSteps[u] \in Nat /\ Width[dst] \in Nat \ {0}
  BY LatticeAssumption, <1>1, <1>2
<1>4. Raceline[l] \in Int /\ Raceline[dst] \in Int /\ i \in Int
  <2>1. \A k \in Layers : Raceline[k] \in Int
    <3> SUFFICES ASSUME NEW k \in Layers PROVE Raceline[k] \in Int
      OBVIOUS
    <3>1. <<k, Raceline[k]>> \in Nodes
      BY LatticeAssumption DEF OnRaceline
    <3>2. PICK j \in Layers : <<k, Raceline[k]>> \in {j} \X (0..Width[j] - 1)
      BY <3>1 DEF Nodes
    <3> QED
      BY <3>2
  <2> QED
    BY <2>1, <1>1
<1>5. Ahead(u) \in 0..Width[dst] - 1
  BY <1>3, <1>4 DEF Ahead
<1>6. v \in Nodes
  BY <1>1, <1>5 DEF Nodes
<1>7. Ahead(u) \in (Ahead(u) - LatSteps[u])..(Ahead(u) + LatSteps[u])
  BY <1>3, <1>5
<1> HIDE DEF v
<1>8. v[1] = dst /\ v[2] = Ahead(u)
  BY DEF v
<1>9. <<u, v>> \in Edges
  BY <1>2, <1>6, <1>7, <1>8 DEF Edges
<1> QED
  BY <1>9

LEMMA EdgeEnds == \A e \in Edges : e[1] \in Nodes /\ e[2] \in Nodes
<1>1. \A l \in Layers : Following(l) \in Layers
  BY LatticeAssumption DEF Following, Layers
<1>2. \A e \in RacelineEdges : e[1] \in Nodes /\ e[2] \in Nodes
  BY LatticeAssumption, <1>1 DEF RacelineEdges
<1> QED
  BY <1>2 DEF Edges

-----------------------------------------------------------------------------

\* While edges are still to be removed, only those may lead to a dead end.
PruneInv ==
  /\ graph \subseteq Edges /\ doomed \subseteq graph
  /\ RacelineEdges \subseteq graph \ doomed
  /\ \A e \in graph \ doomed : \E g \in graph : g[1] = e[2]
  /\ phase # "prune" => \A e \in graph \ doomed : \E g \in graph : g[2] = e[1]
  /\ phase \notin {"prune", "isolate"} => doomed = {}

LEMMA PruneInit == Init => PruneInv
<1> SUFFICES ASSUME Init PROVE PruneInv
  OBVIOUS
<1>1. doomed \subseteq Edges \ RacelineEdges
  BY EdgesAssumption DEF Init
<1>2. \A e \in Edges : \E g \in Edges : g[1] = e[2]
  BY EdgeEnds, EveryNodeLeadsOn
<1>3. RacelineEdges \subseteq Edges
  BY DEF Edges
<1> QED
  BY <1>1, <1>2, <1>3 DEF Init, PruneInv

LEMMA PruneStep == PruneInv /\ [Next]_vars => PruneInv'
<1> SUFFICES ASSUME PruneInv, [Next]_vars PROVE PruneInv'
  OBVIOUS
<1>1. ASSUME NEW e \in doomed, RemoveEdge(e) PROVE PruneInv'
  <2> DEFINE rest == graph \ {e}
  <2>1. graph' = rest /\ phase' = phase
    BY <1>1 DEF RemoveEdge
  <2>2. doomed' = (doomed \ {e})
                  \union (IF Out(e[1], rest) = {} THEN In(e[1], rest) ELSE {})
                  \union (IF In(e[2], rest) = {} THEN Out(e[2], rest) ELSE {})
    BY <1>1 DEF RemoveEdge
  <2>3. graph' \subseteq Edges /\ doomed' \subseteq graph'
    BY <2>1, <2>2 DEF PruneInv, In, Out
  <2>4. RacelineEdges \subseteq graph' \ doomed'
    <3>1. RacelineEdges \subseteq rest
      BY DEF PruneInv
    <3> SUFFICES ASSUME NEW f \in RacelineEdges, f \in doomed' PROVE FALSE
      BY <2>1, <3>1
    <3>2. f \notin doomed
      BY DEF PruneInv
    <3>3. CASE f \in In(e[1], rest) /\ Out(e[1], rest) = {}
      <4>1. PICK g \in RacelineEdges : g[1] = f[2]
        BY RacelineCloses
      <4> QED
        BY <4>1, <3>1, <3>3 DEF In, Out
    <3>4. CASE f \in Out(e[2], rest) /\ In(e[2], rest) = {}
      <4>1. PICK g \in RacelineEdges : g[2] = f[1]
        BY RacelineCloses
      <4> QED
        BY <4>1, <3>1, <3>4 DEF In, Out
    <3> QED
      BY <2>2, <3>2, <3>3, <3>4
  <2>5. \A f \in graph' \ doomed' : \E g \in graph' : g[1] = f[2]
    <3> SUFFICES ASSUME NEW f \in rest, f \notin doomed'
                 PROVE  \E g \in rest : g[1] = f[2]
      BY <2>1
    <3>1. f \notin doomed
      BY <2>2
    <3>2. PICK g \in graph : g[1] = f[2]
      BY <3>1 DEF PruneInv
    <3>3. CASE g = e
      <4>1. f \in In(e[1], rest)
        BY <3>2, <3>3 DEF In
      <4>2. Out(e[1], rest) # {}
        BY <4>1, <2>2
      <4> QED
        BY <4>2, <3>2, <3>3 DEF Out
    <3> QED
      BY <3>2, <3>3
  <2>6. ASSUME phase' # "prune"
        PROVE  \A f \in graph' \ doomed' : \E g \in graph' : g[2] = f[1]
    <3> SUFFICES ASSUME NEW f \in rest, f \notin doomed'
                 PROVE  \E g \in rest : g[2] = f[1]
      BY <2>1
    <3>1. f \notin doomed
      BY <2>2
    <3>2. PICK g \in graph : g[2] = f[1]
      BY <3>1, <2>1, <2>6 DEF PruneInv
    <3>3. CASE g = e
      <4>1. f \in Out(e[2], rest)
        BY <3>2, <3>3 DEF Out
      <4>2. In(e[2], rest) # {}
        BY <4>1, <2>2
      <4> QED
        BY <4>2, <3>2, <3>3 DEF In
    <3> QED
      BY <3>2, <3>3
  <2>7. phase' \in {"prune", "isolate"}
    BY <2>1 DEF PruneInv
  <2> QED
    BY <2>3, <2>4, <2>5, <2>6, <2>7 DEF PruneInv
<1>2. CASE RemoveIsolated
  <2>1. graph' = graph /\ phase' = "isolate" /\ doomed = {}
    BY <1>2 DEF RemoveIsolated
  <2>2. doomed' = {e \in graph : In(e[1], graph) = {}}
    BY <1>2 DEF RemoveIsolated
  <2>3. RacelineEdges \subseteq graph' \ doomed'
    BY RacelineCloses, <2>1, <2>2 DEF PruneInv, In
  <2>4. \A e \in graph' \ doomed' : \E g \in graph' : g[2] = e[1]
    BY <2>1, <2>2 DEF In
  <2> QED
    BY <2>1, <2>2, <2>3, <2>4 DEF PruneInv
<1>3. CASE GoOnline
  BY <1>3 DEF GoOnline, offlineVars, PruneInv
<1>4. CASE StateCb \/ ObsCb \/ ParamCb
  BY <1>4 DEF StateCb, ObsCb, ParamCb, Input, offlineVars, PruneInv
<1>5. CASE OnlineLoopFree \/ OnlineLoop
  BY <1>5 DEF OnlineLoopFree, OnlineLoop, offlineVars, PruneInv
<1>6. CASE ApplyNodeFilter \/ StartSearch
  BY <1>6 DEF ApplyNodeFilter, StartSearch, offlineVars, PruneInv
<1>7. CASE Expand \/ Publish
  BY <1>7 DEF Expand, Publish, offlineVars, PruneInv
<1>8. CASE UNCHANGED vars
  BY <1>8 DEF vars, offlineVars, PruneInv
<1> QED
  BY <1>1, <1>2, <1>3, <1>4, <1>5, <1>6, <1>7, <1>8 DEF Next

\* Whatever turns out to be curved too sharply, pruning leaves the raceline
\* whole and no node that is entered and not left, or left and not entered.
THEOREM NoDeadEndsAlways == Spec => []NoDeadEnds
<1>1. PruneInv => NoDeadEnds
  BY DEF PruneInv, NoDeadEnds, Out, In
<1> QED
  BY PruneInit, PruneStep, <1>1, PTL DEF Spec

-----------------------------------------------------------------------------

\* What is recorded is the offline cost, and only what is recorded differs.
RecordInv ==
  /\ cost = [e \in Edges |-> cost[e]]
  /\ orig_edges = [e \in DOMAIN orig_edges |-> Cost[e]]
  /\ DOMAIN orig_edges \subseteq Edges
  /\ \A e \in Edges \ DOMAIN orig_edges : cost[e] = Cost[e]
  /\ phase \notin {"filter", "search"} => DOMAIN orig_edges = {}

LEMMA RecordInit == Init => RecordInv
<1> SUFFICES ASSUME Init PROVE RecordInv
  OBVIOUS
<1>1. cost = Cost /\ Cost = [e \in Edges |-> Cost[e]]
  BY EdgesAssumption DEF Init
<1>2. orig_edges = NoFunction /\ DOMAIN orig_edges = {}
  BY DEF Init, NoFunction
<1>3. orig_edges = [e \in DOMAIN orig_edges |-> Cost[e]]
  BY <1>2 DEF NoFunction
<1> QED
  BY <1>1, <1>2, <1>3 DEF RecordInv

LEMMA RecordStep == PruneInv /\ RecordInv /\ [Next]_vars => RecordInv'
<1> SUFFICES ASSUME PruneInv, RecordInv, [Next]_vars PROVE RecordInv'
  OBVIOUS
<1>1. CASE (\E e \in doomed : RemoveEdge(e)) \/ RemoveIsolated \/ GoOnline
  <2>1. cost' = cost /\ orig_edges' = orig_edges
    BY <1>1 DEF RemoveEdge, RemoveIsolated, GoOnline
  <2>2. phase \notin {"filter", "search"}
    BY <1>1 DEF RemoveEdge, RemoveIsolated, GoOnline, PruneInv
  <2> QED
    BY <2>1, <2>2 DEF RecordInv
<1>2. CASE StateCb \/ ObsCb \/ ParamCb
  BY <1>2 DEF StateCb, ObsCb, ParamCb, Input, RecordInv
<1>3. CASE OnlineLoopFree \/ OnlineLoop
  BY <1>3 DEF OnlineLoopFree, OnlineLoop, RecordInv
<1>4. CASE ApplyNodeFilter
  <2>1. PICK hit : /\ hit \subseteq graph
                   /\ orig_edges' = [e \in DOMAIN orig_edges \union hit |->
                                       IF e \in DOMAIN orig_edges THEN orig_edges[e]
                                                                  ELSE cost[e]]
                   /\ cost' = [e \in Edges |-> IF e \in hit THEN cost[e] + Penalty
                                                            ELSE cost[e]]
    <3> DEFINE hit == {e \in graph : Covers(Head(pending), e[1])}
    <3> WITNESS hit
    <3> QED
      BY <1>4 DEF ApplyNodeFilter
  <2>2. hit \subseteq Edges /\ phase' = "filter"
    BY <2>1, <1>4 DEF PruneInv, ApplyNodeFilter
  <2>3. DOMAIN orig_edges' = DOMAIN orig_edges \union hit
    BY <2>1
  <2>4. \A e \in DOMAIN orig_edges' : orig_edges'[e] = Cost[e]
    BY <2>1, <2>2, <2>3 DEF RecordInv
  <2>5. orig_edges' = [e \in DOMAIN orig_edges' |-> Cost[e]]
    BY <2>1, <2>3, <2>4
  <2>6. cost' = [e \in Edges |-> cost'[e]]
    BY <2>1
  <2>7. \A e \in Edges \ DOMAIN orig_edges' : cost'[e] = Cost[e]
    BY <2>1, <2>3 DEF RecordInv
  <2> QED
    BY <2>2, <2>3, <2>5, <2>6, <2>7 DEF RecordInv
<1>5. CASE StartSearch \/ Expand
  BY <1>5 DEF StartSearch, Expand, RecordInv
<1>6. CASE Publish
  <2>1. cost' = [e \in Edges |-> IF e \in DOMAIN orig_edges THEN orig_edges[e]
                                                            ELSE cost[e]]
    BY <1>6 DEF Publish
  <2>2. \A e \in Edges : cost'[e] = Cost[e]
    BY <2>1 DEF RecordInv
  <2>3. cost' = [e \in Edges |-> cost'[e]]
    BY <2>1
  <2>4. orig_edges' = NoFunction /\ DOMAIN orig_edges' = {}
    BY <1>6 DEF Publish, NoFunction
  <2>5. orig_edges' = [e \in DOMAIN orig_edges' |-> Cost[e]]
    BY <2>4 DEF NoFunction
  <2> QED
    BY <2>2, <2>3, <2>4, <2>5 DEF RecordInv
<1>7. CASE UNCHANGED vars
  BY <1>7 DEF vars, RecordInv
<1> QED
  BY <1>1, <1>2, <1>3, <1>4, <1>5, <1>6, <1>7 DEF Next

\* However often zones overlap and whether or not a path is found, a tick ends
\* with every edge at its offline cost and nothing recorded.
THEOREM CostsRestoredAlways == Spec => []CostsRestored
<1>1. RecordInv => CostsRestored
  <2> SUFFICES ASSUME RecordInv, phase = "idle"
               PROVE  cost = Cost /\ orig_edges = NoFunction
    BY DEF CostsRestored
  <2>1. DOMAIN orig_edges = {}
    BY DEF RecordInv
  <2>2. \A e \in Edges : cost[e] = Cost[e]
    BY <2>1 DEF RecordInv
  <2>3. cost = Cost
    BY <2>2, EdgesAssumption DEF RecordInv
  <2>4. orig_edges = NoFunction
    BY <2>1 DEF RecordInv, NoFunction
  <2> QED
    BY <2>3, <2>4
<1> QED
  BY PruneInit, PruneStep, RecordInit, RecordStep, <1>1, PTL DEF Spec

-----------------------------------------------------------------------------
(* The search.                                                             *)

\* How many layers a layer lies ahead of the start.
Away(l) == IF l >= start[1] THEN l - start[1] ELSE l - start[1] + NLayers

Zones == [layer : Int, min : Int, max : Int]

\* A plan has a start, a goal and zones; without one nothing has been reached.
PlanInv ==
  /\ phase \in {"prune", "isolate", "idle", "filter", "search"}
  /\ cur \in Nodes /\ obs_msg \in Seq(Obstacles) /\ horizon \in Nat
  /\ phase \in {"prune", "isolate"} => start = None
  /\ phase \in {"filter", "search"} =>
       start \in Nodes /\ goal \in Layers /\ zones \in Seq(Zones)
  /\ phase # "search" => best = None

\* The zones that have been applied, counted from the first one, are exactly
\* what the costs contain; those still to be applied are the others.
FilterInv ==
  /\ phase = "filter" =>
       /\ pending \in Seq(Zones) /\ Len(pending) <= Len(zones)
       /\ \A k \in 1..Len(pending) : pending[k] = zones[Len(zones) - Len(pending) + k]
       /\ \A e \in graph : cost[e] = Cost[e] + Penalty *
            Cardinality({k \in 1..Len(zones) - Len(pending) : Covers(zones[k], e[1])})
  /\ phase = "search" => \A e \in graph : cost[e] = EdgeCost(e, zones)

LEMMA NodeIs ==
  ASSUME NEW u \in Nodes
  PROVE  u = <<u[1], u[2]>> /\ u[1] \in Layers /\ u[1] \in Nat /\ u[2] \in Nat
<1>1. PICK l \in Layers : u \in {l} \X (0..Width[l] - 1)
  BY DEF Nodes
<1>2. Width[l] \in Nat
  BY LatticeAssumption
<1>3. l \in Nat
  BY LatticeAssumption DEF Layers
<1> QED
  BY <1>1, <1>2, <1>3

\* The zones of an obstacle are a sequence, whatever its shape.
LEMMA BlockedZonesType == ASSUME NEW o \in Obstacles PROVE BlockedZones(o) \in Seq(Zones)
<1> DEFINE last == NLayers - 1
           same == o.frontLeft = o.frontRight
           first == Greater(o.frontLeft[1], o.frontRight[1])
           back == Lesser(o.backLeft[1], o.backRight[1])
           from == IF first = back /\ first = last THEN first - 1 ELSE first
           to == IF first = back /\ first < last THEN first + 1 ELSE back
           left == IF same THEN Greater(0, o.frontLeft[2] - 1) ELSE o.frontLeft[2]
           right == IF same
                      THEN Lesser(Width[o.frontRight[1]] - 1, o.frontRight[2] + 1)
                      ELSE o.frontRight[2]
           min == Greater(0, Lesser(left, right) - Inflate)
           max == Lesser(Width[from] - 1, Greater(left, right) + Inflate)
<1>1. /\ o.frontLeft \in Nodes /\ o.frontRight \in Nodes
      /\ o.backLeft \in Nodes /\ o.backRight \in Nodes
  BY DEF Obstacles
<1>2. \A u \in Nodes : u[1] \in Layers /\ u[2] \in Nat
  BY NodeIs
<1>3. \A a, b \in Int : Lesser(a, b) \in {a, b} /\ Greater(a, b) \in {a, b}
  BY DEF Lesser, Greater
<1>4. NLayers \in Nat /\ NLayers >= 2 /\ \A l \in Layers : l \in Int /\ Width[l] \in Int
  BY LatticeAssumption DEF Layers
<1>5. first \in Layers /\ back \in Layers /\ first \in Int /\ back \in Int
  BY <1>1, <1>2, <1>3, <1>4
<1> HIDE DEF first, back
<1>6. from \in Layers /\ from \in Int /\ to \in Int
  BY <1>4, <1>5 DEF Layers
<1>7. left \in Int /\ right \in Int
  <2>1. o.frontLeft[2] - 1 \in Int /\ o.frontRight[2] + 1 \in Int
        /\ Width[o.frontRight[1]] - 1 \in Int
    BY <1>1, <1>2, <1>4
  <2> QED
    BY <1>1, <1>2, <1>3, <2>1
<1> HIDE DEF from, to, left, right
<1>8. min \in Int /\ max \in Int
  <2>1. Lesser(left, right) - Inflate \in Int /\ Greater(left, right) + Inflate \in Int
        /\ Width[from] - 1 \in Int
    BY <1>3, <1>4, <1>6, <1>7, EdgesAssumption
  <2> QED
    BY <1>3, <2>1
<1> HIDE DEF min, max
<1>9. BlockedZones(o) = [k \in 1..to - from + 1 |-> [layer |-> from + k - 1, min |-> min, max |-> max]]
  BY DEF BlockedZones, first, back, from, to, left, right, min, max
<1> DEFINE m == IF to - from + 1 < 0 THEN 0 ELSE to - from + 1
<1>10. m \in Nat /\ 1..to - from + 1 = 1..m
  BY <1>6
<1>11. \A k \in 1..m : [layer |-> from + k - 1, min |-> min, max |-> max] \in Zones
  BY <1>6, <1>8, <1>10 DEF Zones
<1> HIDE DEF m
<1>12. [k \in 1..m |-> [layer |-> from + k - 1, min |-> min, max |-> max]] \in [1..m -> Zones]
  BY <1>11
<1>13. BlockedZones(o) = [k \in 1..m |-> [layer |-> from + k - 1, min |-> min, max |-> max]]
  BY <1>9, <1>10, Zenon
<1> HIDE DEF Zones
<1> QED
  BY <1>10, <1>12, <1>13

LEMMA AllBlockedZonesType ==
  ASSUME NEW msg \in Seq(Obstacles)
  PROVE  AllBlockedZones(msg) \in Seq(Zones)
<1> DEFINE n == Len(msg)
           S == Seq(Zones)
           step == [p \in Nat \X S |->
                      IF p[1] \in 1..n THEN p[2] \o BlockedZones(msg[p[1]]) ELSE p[2]]
           Eq(f) == f = [k \in 0..n |-> IF k = 0 THEN <<>> ELSE f[k - 1] \o BlockedZones(msg[k])]
           upto == CHOOSE f : Eq(f)
<1>1. n \in Nat /\ \A k \in 1..n : BlockedZones(msg[k]) \in S
  BY BlockedZonesType
<1>2. step \in [Nat \X S -> S]
  BY <1>1
<1>3. PICK f : Iterates(f, n, S, <<>>, step)
  <2>1. <<>> \in S
    OBVIOUS
  <2> HIDE DEF step, S, n
  <2> QED
    BY <1>1, <1>2, <2>1, Recursion
<1>4. f \in [0..n -> S] /\ f[0] = <<>> /\ \A k \in 1..n : f[k] = step[<<k, f[k - 1]>>]
  BY <1>3 DEF Iterates
<1>5. \A k \in 1..n : step[<<k, f[k - 1]>>] = f[k - 1] \o BlockedZones(msg[k])
  <2> HIDE DEF S, n
  <2>1. \A k \in 1..n : <<k, f[k - 1]>> \in Nat \X S
    BY <1>1, <1>4
  <2> QED
    BY <2>1
<1>6. Eq(f)
  <2>1. \A k \in 0..n : k = 0 \/ k \in 1..n
    BY <1>1
  <2> HIDE DEF S, step, n
  <2> QED
    BY <1>4, <1>5, <2>1
<1>7. Eq(upto)
  <2> HIDE DEF Eq
  <2> QED
    BY <1>6
<1>8. AllBlockedZones(msg) = upto[n]
  BY DEF AllBlockedZones
<1> DEFINE T == {k \in Nat : k <= n => upto[k] \in S}
<1> HIDE DEF upto
<1>9. 0 \in T
  BY <1>1, <1>7
<1>10. ASSUME NEW k \in Nat, k \in T PROVE k + 1 \in T
  <2> SUFFICES ASSUME k + 1 <= n PROVE upto[k + 1] \in S
    OBVIOUS
  <2>1. upto[k] \in S /\ k + 1 \in 0..n /\ k + 1 # 0 /\ (k + 1) - 1 = k /\ k + 1 \in 1..n
    BY <1>1, <1>10
  <2>2. upto[k + 1] = upto[k] \o BlockedZones(msg[k + 1])
    <3> HIDE DEF S, n
    <3> QED
      BY <1>7, <2>1
  <2> QED
    BY <1>1, <2>1, <2>2
<1>11. n \in T
  <2> HIDE DEF T
  <2> QED
    BY <1>1, <1>9, <1>10, Induct
<1> QED
  BY <1>8, <1>11, <1>1

LEMMA PlanInit == Init => PlanInv
<1> SUFFICES ASSUME Init PROVE PlanInv
  OBVIOUS
<1>1. OnRaceline(0) \in Nodes
  BY LatticeAssumption DEF Layers
<1>2. horizon \in Nat /\ obs_msg \in Seq(Obstacles)
  BY EdgesAssumption DEF Init
<1> QED
  BY <1>1, <1>2 DEF Init, PlanInv

LEMMA PlanStep == PlanInv /\ PruneInv /\ [Next]_vars => PlanInv'
<1> SUFFICES ASSUME PlanInv, PruneInv, [Next]_vars PROVE PlanInv'
  OBVIOUS
<1>1. CASE (\E e \in doomed : RemoveEdge(e)) \/ RemoveIsolated \/ GoOnline
  BY <1>1 DEF RemoveEdge, RemoveIsolated, GoOnline, PlanInv, PruneInv, inputs, plan, searchVars
<1>2. CASE StateCb \/ ObsCb \/ ParamCb
  <2>1. cur' \in Nodes /\ obs_msg' \in Seq(Obstacles) /\ horizon' \in Nat
    BY <1>2, MessageAssumption, EdgesAssumption DEF StateCb, ObsCb, ParamCb, PlanInv
  <2>2. UNCHANGED <<phase, start, goal, zones, best>> /\ phase = "idle"
    BY <1>2 DEF StateCb, ObsCb, ParamCb, Input, plan, searchVars
  <2> QED
    BY <2>1, <2>2 DEF PlanInv
<1>3. CASE OnlineLoopFree
  BY <1>3 DEF OnlineLoopFree, PlanInv, inputs, searchVars
<1>4. CASE OnlineLoop
  <2>1. zones' \in Seq(Zones)
    BY <1>4, AllBlockedZonesType DEF OnlineLoop, PlanInv
  <2>2. start' \in Nodes /\ cur[1] \in Nat /\ horizon \in Nat
    BY <1>4, NodeIs DEF OnlineLoop, PlanInv
  <2>3. goal' \in Layers
    <3>1. goal' = (cur[1] + horizon) % NLayers
      BY <1>4 DEF OnlineLoop
    <3>2. cur[1] + horizon \in Nat /\ NLayers \in Nat \ {0}
      BY <2>2, LatticeAssumption
    <3> QED
      BY <3>1, <3>2 DEF Layers
  <2>4. phase' = "filter" /\ phase = "idle" /\ UNCHANGED <<cur, obs_msg, horizon, best>>
    BY <1>4 DEF OnlineLoop, inputs, searchVars
  <2> QED
    BY <2>1, <2>2, <2>3, <2>4 DEF PlanInv
<1>5. CASE ApplyNodeFilter \/ StartSearch
  BY <1>5 DEF ApplyNodeFilter, StartSearch, PlanInv, inputs, plan, searchVars
<1>6. CASE Expand
  BY <1>6 DEF Expand, PlanInv, inputs, plan
<1>7. CASE Publish
  BY <1>7 DEF Publish, PlanInv, inputs, plan
<1>8. CASE UNCHANGED vars
  BY <1>8 DEF vars, PlanInv, inputs, plan, searchVars
<1> QED
  BY <1>1, <1>2, <1>3, <1>4, <1>5, <1>6, <1>7, <1>8 DEF Next

-----------------------------------------------------------------------------

\* One more zone counts for the edges it covers, and only for them.
LEMMA OneMoreZone ==
  ASSUME NEW zs, NEW u, NEW m \in Nat
  PROVE  /\ Cardinality({k \in 1..m : Covers(zs[k], u)}) \in Nat
         /\ Cardinality({k \in 1..m + 1 : Covers(zs[k], u)}) =
              Cardinality({k \in 1..m : Covers(zs[k], u)})
              + (IF Covers(zs[m + 1], u) THEN 1 ELSE 0)
<1> DEFINE P(k) == Covers(zs[k], u)
           S == {k \in 1..m : P(k)}
<1>1. IsFiniteSet(S)
  <2>1. IsFiniteSet(1..m)
    BY FS_Interval
  <2> QED
    BY <2>1, FS_Subset
<1> HIDE DEF P
<1>2. {k \in 1..m + 1 : P(k)} = IF P(m + 1) THEN S \union {m + 1} ELSE S
  OBVIOUS
<1>3. m + 1 \notin S
  OBVIOUS
<1> HIDE DEF S
<1>4. Cardinality(S) \in Nat /\ Cardinality(S \union {m + 1}) = Cardinality(S) + 1
  BY <1>1, <1>3, FS_AddElement, FS_CardinalityType
<1> QED
  BY <1>2, <1>4 DEF S, P

LEMMA FilterStep == PlanInv /\ PruneInv /\ RecordInv /\ FilterInv /\ [Next]_vars => FilterInv'
<1> SUFFICES ASSUME PlanInv, PruneInv, RecordInv, FilterInv, [Next]_vars PROVE FilterInv'
  OBVIOUS
<1>0. \A e \in graph : e \in Edges /\ Cost[e] \in Nat
  BY EdgesAssumption DEF PruneInv
<1>1. CASE phase' \notin {"filter", "search"}
  BY <1>1 DEF FilterInv
<1>2. CASE OnlineLoop
  <2>1. zones' \in Seq(Zones) /\ pending' = zones' /\ phase' = "filter"
        /\ graph' = graph /\ cost' = cost
    BY <1>2, AllBlockedZonesType DEF OnlineLoop, PlanInv, offlineVars
  <2>2. \A e \in graph : cost[e] = Cost[e]
    BY <1>0, <1>2 DEF RecordInv, OnlineLoop
  <2>3. Len(zones') - Len(pending') = 0
    BY <2>1
  <2>4. \A e \in graph : {k \in 1..0 : Covers(zones'[k], e[1])} = {}
    OBVIOUS
  <2>5. \A e \in graph : Cost[e] = Cost[e] + Penalty * Cardinality({})
    BY <1>0, FS_EmptySet, EdgesAssumption
  <2>6. \A e \in graph : cost'[e] = Cost[e] + Penalty * Cardinality({k \in 1..0 : Covers(zones'[k], e[1])})
    BY <2>1, <2>2, <2>4, <2>5
  <2>7. \A k \in 1..Len(pending') : pending'[k] = zones'[0 + k]
    BY <2>1
  <2> QED
    BY <2>1, <2>3, <2>6, <2>7 DEF FilterInv
<1>3. CASE ApplyNodeFilter
  <2> DEFINE m == Len(zones) - Len(pending)
             z == Head(pending)
             Below(e, j) == {k \in 1..j : Covers(zones[k], e[1])}
  <2>1. /\ phase = "filter" /\ pending # <<>> /\ pending' = Tail(pending) /\ phase' = "filter"
        /\ zones' = zones /\ graph' = graph
        /\ pending \in Seq(Zones) /\ zones \in Seq(Zones) /\ Len(pending) <= Len(zones)
    BY <1>3 DEF ApplyNodeFilter, FilterInv, PlanInv, offlineVars, plan
  <2>2. /\ Len(pending') = Len(pending) - 1 /\ Len(pending) >= 1 /\ pending' \in Seq(Zones)
        /\ \A k \in 1..Len(pending') : pending'[k] = pending[k + 1]
    BY <2>1
  <2>3. m \in Nat /\ Len(zones') - Len(pending') = m + 1
    BY <2>1, <2>2
  <2>4. z = zones[m + 1]
    BY <2>1, <2>2 DEF FilterInv
  <2>5. \A e \in graph : cost'[e] = IF Covers(z, e[1]) THEN cost[e] + Penalty ELSE cost[e]
    BY <1>0, <1>3 DEF ApplyNodeFilter
  <2>6. \A e \in graph : /\ Cardinality(Below(e, m)) \in Nat
                         /\ Cardinality(Below(e, m + 1)) =
                              Cardinality(Below(e, m)) + (IF Covers(z, e[1]) THEN 1 ELSE 0)
    <3> TAKE e \in graph
    <3>1. /\ Cardinality(Below(e, m)) \in Nat
          /\ Cardinality(Below(e, m + 1)) =
               Cardinality(Below(e, m)) + (IF Covers(zones[m + 1], e[1]) THEN 1 ELSE 0)
      <4> HIDE DEF m
      <4> QED
        BY <2>3, OneMoreZone
    <3> QED
      BY <2>4, <3>1
  <2>7. \A e \in graph : cost[e] = Cost[e] + Penalty * Cardinality(Below(e, m))
    BY <2>1 DEF FilterInv
  <2>8. \A e \in graph : cost'[e] = Cost[e] + Penalty * Cardinality(Below(e, m + 1))
    <3> TAKE e \in graph
    <3> DEFINE c == Cardinality(Below(e, m))
    <3>1. c \in Nat /\ Cost[e] \in Nat /\ Penalty \in Nat
      BY <1>0, <2>6, EdgesAssumption
    <3>2. Penalty * (c + 1) = Penalty * c + Penalty
      <4> HIDE DEF c
      <4> QED
        BY <3>1
    <3>3. cost[e] = Cost[e] + Penalty * c
      BY <2>7
    <3> HIDE DEF c, Below, m, z
    <3> QED
      BY <2>5, <2>6, <3>1, <3>2, <3>3 DEF c
  <2>9. \A k \in 1..Len(pending') : pending'[k] = zones'[m + 1 + k]
    <3> TAKE k \in 1..Len(pending')
    <3>1. k + 1 \in 1..Len(pending)
      BY <2>1, <2>2
    <3>2. pending[k + 1] = zones[m + (k + 1)]
      BY <2>1, <3>1 DEF FilterInv
    <3> QED
      BY <2>1, <2>2, <2>3, <3>1, <3>2
  <2> HIDE DEF m
  <2>10. \A e \in graph' : cost'[e] = Cost[e] + Penalty *
           Cardinality({k \in 1..Len(zones') - Len(pending') : Covers(zones'[k], e[1])})
    BY <2>1, <2>3, <2>8
  <2>11. \A k \in 1..Len(pending') :
            pending'[k] = zones'[Len(zones') - Len(pending') + k]
    BY <2>3, <2>9
  <2>12. Len(pending') <= Len(zones')
    BY <2>1, <2>2
  <2> QED
    BY <2>1, <2>2, <2>10, <2>11, <2>12 DEF FilterInv
<1>4. CASE StartSearch
  <2>1. /\ phase = "filter" /\ pending = <<>> /\ zones \in Seq(Zones) /\ phase' = "search"
        /\ UNCHANGED <<zones, graph, cost>>
    BY <1>4 DEF StartSearch, PlanInv, offlineVars, plan
  <2>2. Len(zones) - Len(pending) = Len(zones) /\ DOMAIN zones = 1..Len(zones)
    BY <2>1
  <2>3. \A e \in graph : cost[e] = Cost[e] + Penalty *
          Cardinality({k \in 1..Len(zones) - Len(pending) : Covers(zones[k], e[1])})
    BY <2>1 DEF FilterInv
  <2>4. \A e \in graph : cost[e] = EdgeCost(e, zones)
    BY <2>2, <2>3 DEF EdgeCost
  <2> QED
    BY <2>1, <2>4 DEF FilterInv
<1>5. CASE Expand
  <2>1. phase = "search" /\ phase' = "search" /\ UNCHANGED <<zones, graph, cost>>
    BY <1>5 DEF Expand, offlineVars, plan
  <2> QED
    BY <2>1 DEF FilterInv
<1>6. CASE UNCHANGED vars
  <2>1. UNCHANGED <<phase, zones, pending, graph, cost>>
    BY <1>6 DEF vars, offlineVars, plan
  <2> QED
    BY <2>1 DEF FilterInv
<1>7. CASE \/ (\E e \in doomed : RemoveEdge(e)) \/ RemoveIsolated \/ GoOnline
           \/ StateCb \/ ObsCb \/ ParamCb \/ OnlineLoopFree \/ Publish
  <2>1. phase' \notin {"filter", "search"}
    BY <1>7 DEF RemoveEdge, RemoveIsolated, GoOnline, StateCb, ObsCb, ParamCb, Input,
        OnlineLoopFree, Publish, PruneInv, PlanInv
  <2> QED
    BY <2>1, <1>1
<1> QED
  BY <1>2, <1>3, <1>4, <1>5, <1>6, <1>7 DEF Next

-----------------------------------------------------------------------------

\* What has been reached lies between start and goal and was reached over an
\* edge of the graph from a node before the goal, at no less than it costs.
ReachedInv ==
  /\ DOMAIN dist \subseteq Nodes /\ dist \in [DOMAIN dist -> Nat]
  /\ start \in DOMAIN dist /\ dist[start] = 0
  /\ \A v \in DOMAIN dist : Away(v[1]) <= Away(goal)
  /\ \A v \in DOMAIN dist \ {start} :
       /\ v \in DOMAIN parent /\ parent[v] \in DOMAIN dist
       /\ parent[v][1] # goal /\ <<parent[v], v>> \in graph
       /\ dist[v] >= dist[parent[v]] + cost[<<parent[v], v>>]
  /\ DOMAIN dist # {start} => Out(start, graph) # {}

\* The queue and the best goal may hold outdated costs, which are higher.
QueueInv ==
  /\ pq \subseteq Nat \X Nodes
  /\ \A p \in pq : p[2] \in DOMAIN dist /\ p[1] >= dist[p[2]]
  /\ best # None =>
       /\ best \in Nat \X Nodes /\ best[2][1] = goal
       /\ best[2] \in DOMAIN dist /\ best[1] >= dist[best[2]]

\* A node that is done with has been weighed as a goal or led on from.
Done(v) ==
  IF v[1] = goal
  THEN best # None /\ best[1] <= dist[v]
  ELSE \A e \in Out(v, graph) : e[2] \in DOMAIN dist /\ dist[e[2]] <= dist[v] + cost[e]

\* Every node reached is done with or queued at its present cost.
DoneInv == \A v \in DOMAIN dist : <<dist[v], v>> \in pq \/ Done(v)

SearchInv == phase = "search" => ReachedInv /\ QueueInv /\ DoneInv

\* The difference of two layers wraps at most once.
LEMMA WrapBack ==
  ASSUME NEW N \in Nat \ {0}, NEW a \in 0..N - 1, NEW b \in 0..N - 1
  PROVE  (a - b) % N = IF a - b >= 0 THEN a - b ELSE a - b + N
  OBVIOUS

\* How far the goal is ahead of the start.
LEMMA AwayGoal ==
  ASSUME start \in Nodes, goal \in Layers
  PROVE  /\ (goal - start[1]) % NLayers = Away(goal)
         /\ Away(goal) \in Nat /\ Away(goal) < NLayers
<1>1. NLayers \in Nat \ {0} /\ goal \in 0..NLayers - 1 /\ start[1] \in 0..NLayers - 1
  BY NodeIs, LatticeAssumption DEF Layers
<1>2. (goal - start[1]) % NLayers =
        IF goal - start[1] >= 0 THEN goal - start[1] ELSE goal - start[1] + NLayers
  BY <1>1, WrapBack
<1>3. Away(goal) = IF goal - start[1] >= 0
                   THEN goal - start[1] ELSE goal - start[1] + NLayers
  BY <1>1 DEF Away
<1>4. Away(goal) \in Nat /\ Away(goal) < NLayers
  BY <1>1, <1>3
<1> QED
  BY <1>2, <1>3, <1>4

LEMMA EdgeIs ==
  ASSUME NEW e \in Edges
  PROVE  e = <<e[1], e[2]>> /\ e[2][1] = Following(e[1][1])
<1>1. CASE e \in RacelineEdges
  BY <1>1 DEF RacelineEdges, OnRaceline
<1>2. CASE e \in Nodes \X Nodes /\ e[2][1] = Following(e[1][1])
  BY <1>2
<1> QED
  BY <1>1, <1>2 DEF Edges

\* Before the goal an edge leads one layer on, and not beyond the goal.
LEMMA ChildIs ==
  ASSUME start \in Nodes, goal \in Layers, graph \subseteq Edges,
         NEW u \in Nodes, u[1] # goal, Away(u[1]) <= Away(goal), NEW e \in Out(u, graph)
  PROVE  /\ e \in Edges /\ e = <<u, e[2]>> /\ e[2] \in Nodes /\ e[2] # u
         /\ Away(e[2][1]) = Away(u[1]) + 1 /\ Away(e[2][1]) <= Away(goal)
         /\ WithinRange(e[2][1])
<1>1. e \in Edges /\ e[1] = u /\ e \in graph
  BY DEF Out
<1>2. e = <<u, e[2]>> /\ e[2][1] = Following(u[1]) /\ e[2] \in Nodes
  BY <1>1, EdgeIs, EdgeEnds
<1>3. /\ NLayers \in Nat /\ NLayers >= 2 /\ goal \in 0..NLayers - 1
      /\ start[1] \in 0..NLayers - 1 /\ u[1] \in 0..NLayers - 1
  BY LatticeAssumption, NodeIs DEF Layers
<1>4. Following(u[1]) \in 0..NLayers - 1 /\ Following(u[1]) # u[1]
  BY <1>3 DEF Following
<1>5. Away(Following(u[1])) = Away(u[1]) + 1 /\ Away(u[1]) < Away(goal)
      /\ Away(u[1]) \in Nat /\ Away(goal) \in Nat
  BY <1>3 DEF Away, Following
<1>6. WithinRange(Following(u[1]))
  BY <1>3, <1>5 DEF WithinRange, Away, Following
<1> QED
  BY <1>1, <1>2, <1>4, <1>5, <1>6

\* The queue, when it is not empty, has a top.
LEMMA QueueHasTop ==
  ASSUME NEW Q \in SUBSET (Nat \X Nodes), Q # {}
  PROVE  \E p \in Q : \A q \in Q : Before(p, q)
<1>0. \A p \in Q : p[1] \in Nat /\ p[2][1] \in Nat /\ p[2][2] \in Nat
  BY NodeIs
<1> DEFINE A == {p[1] : p \in Q}
<1>1. A \subseteq Nat /\ A # {}
  BY <1>0
<1>2. PICK a \in A : \A x \in A : a <= x
  <2> HIDE DEF A
  <2> QED
    BY <1>1, Least
<1> DEFINE B == {p[2][1] : p \in {p \in Q : p[1] = a}}
<1>3. B \subseteq Nat /\ B # {}
  BY <1>0, <1>2
<1>4. PICK b \in B : \A x \in B : b <= x
  <2> HIDE DEF B
  <2> QED
    BY <1>3, Least
<1> DEFINE C == {p[2][2] : p \in {p \in Q : p[1] = a /\ p[2][1] = b}}
<1>5. C \subseteq Nat /\ C # {}
  BY <1>0, <1>4
<1>6. PICK c \in C : \A x \in C : c <= x
  <2> HIDE DEF C
  <2> QED
    BY <1>5, Least
<1>7. PICK p \in Q : p[1] = a /\ p[2][1] = b /\ p[2][2] = c
  BY <1>6
<1>8. \A q \in Q : Before(p, q)
  <2> TAKE q \in Q
  <2>1. a <= q[1]
    BY <1>2
  <2>2. q[1] = a => b <= q[2][1]
    BY <1>4
  <2>3. q[1] = a /\ q[2][1] = b => c <= q[2][2]
    BY <1>6
  <2>4. /\ a \in Nat /\ b \in Nat /\ c \in Nat
        /\ q[1] \in Nat /\ q[2][1] \in Nat /\ q[2][2] \in Nat
    BY <1>0, <1>7
  <2> HIDE DEF A, B, C
  <2> QED
    BY <1>7, <2>1, <2>2, <2>3, <2>4 DEF Before
<1> QED
  BY <1>8

LEMMA EdgeCostType ==
  ASSUME NEW e \in Edges, NEW zs \in Seq(Zones)
  PROVE  EdgeCost(e, zs) \in Nat
<1> DEFINE n == Len(zs)
           c == Cardinality({k \in 1..n : Covers(zs[k], e[1])})
<1>1. n \in Nat /\ DOMAIN zs = 1..n
  OBVIOUS
<1>2. c \in Nat
  <2> HIDE DEF n
  <2> QED
    BY <1>1, OneMoreZone
<1>3. Cost[e] \in Nat /\ Penalty \in Nat
  BY EdgesAssumption
<1>4. EdgeCost(e, zs) = Cost[e] + Penalty * c
  BY <1>1 DEF EdgeCost
<1> HIDE DEF c
<1> QED
  BY <1>2, <1>3, <1>4

\* The steps of the search keep what it has established.
LEMMA ExpandSearch ==
  ASSUME PlanInv, PruneInv, FilterInv, SearchInv, Expand
  PROVE  SearchInv'
<1> DEFINE top == CHOOSE p \in pq : \A q \in pq : Before(p, q)
           c == top[1]
           u == top[2]
           better == IF u[1] = goal THEN {} ELSE Cheaper(u, c)
           D == DOMAIN dist
<1>1. /\ phase = "search" /\ phase' = "search" /\ pq # {}
      /\ best' = IF u[1] = goal /\ (best = None \/ c < best[1]) THEN top ELSE best
      /\ dist' = [v \in D \union better |-> IF v \in better THEN c + cost[<<u, v>>] ELSE dist[v]]
      /\ parent' = [v \in DOMAIN parent \union better |-> IF v \in better THEN u ELSE parent[v]]
      /\ pq' = (pq \ {top}) \union {<<c + cost[<<u, v>>], v>> : v \in better}
      /\ UNCHANGED <<graph, cost, start, goal>>
  BY DEF Expand, offlineVars, plan
<1>2. ReachedInv /\ QueueInv /\ DoneInv
  BY <1>1 DEF SearchInv
<1>3. start \in Nodes /\ goal \in Layers /\ zones \in Seq(Zones) /\ graph \subseteq Edges
  BY <1>1 DEF PlanInv, PruneInv
<1>4. top \in pq
  BY <1>1, <1>2, QueueHasTop DEF QueueInv
<1>5. /\ c \in Nat /\ u \in Nodes /\ u \in D /\ c >= dist[u] /\ top = <<c, u>>
      /\ Away(u[1]) <= Away(goal)
  BY <1>2, <1>4 DEF QueueInv, ReachedInv
<1>6. \A e \in graph : cost[e] \in Nat
  BY <1>1, <1>3, EdgeCostType DEF FilterInv
<1> HIDE DEF top
<1>7. /\ D \subseteq Nodes /\ \A v \in D : dist[v] \in Nat
      /\ start \in D /\ dist[start] = 0
  BY <1>2 DEF ReachedInv
<1>8. ASSUME u[1] # goal, NEW e \in Out(u, graph)
      PROVE  /\ e = <<u, e[2]>> /\ e \in graph /\ e[2] \in Nodes /\ e[2] # u
             /\ Away(e[2][1]) <= Away(goal) /\ WithinRange(e[2][1])
  <2>1. e \in graph
    BY DEF Out
  <2> QED
    BY <1>3, <1>5, <1>8, <2>1, ChildIs
<1>9. ASSUME NEW v \in better
      PROVE  /\ u[1] # goal /\ v \in Nodes /\ v # u /\ v # start /\ <<u, v>> \in graph
             /\ Away(v[1]) <= Away(goal)
             /\ c + cost[<<u, v>>] \in Nat
             /\ v \in D => dist[v] > c + cost[<<u, v>>]
             /\ Out(u, graph) # {}
  <2>1. u[1] # goal
    BY <1>9
  <2>2. PICK e \in Out(u, graph) : v = e[2] /\ (e[2] \in D => dist[e[2]] > c + cost[e])
    BY <1>9, <2>1 DEF Cheaper
  <2>3. /\ e = <<u, v>> /\ e \in graph /\ v \in Nodes /\ v # u /\ Away(v[1]) <= Away(goal)
    BY <1>8, <2>1, <2>2
  <2>4. cost[<<u, v>>] \in Nat /\ (v \in D => dist[v] > c + cost[<<u, v>>])
    BY <1>6, <2>2, <2>3
  <2>5. v # start
    BY <1>5, <1>7, <2>4
  <2> QED
    BY <1>5, <2>1, <2>2, <2>3, <2>4, <2>5
<1>10. ASSUME u[1] # goal, NEW e \in Out(u, graph), e[2] \notin better
       PROVE  e[2] \in D /\ dist[e[2]] <= c + cost[e]
  <2>1. WithinRange(e[2][1]) /\ cost[e] \in Nat
    BY <1>6, <1>8, <1>10
  <2>2. ~ (e[2] \in D => dist[e[2]] > c + cost[e])
    BY <1>10, <2>1 DEF Cheaper
  <2> QED
    BY <1>5, <1>7, <2>1, <2>2
<1> HIDE DEF better, c, u
<1>11. /\ DOMAIN dist' = D \union better
       /\ \A v \in better : dist'[v] = c + cost[<<u, v>>]
       /\ \A v \in D \ better : dist'[v] = dist[v]
       /\ \A v \in D \union better : dist'[v] \in Nat
       /\ \A v \in D : dist'[v] <= dist[v]
  <2>1. DOMAIN dist' = D \union better
    BY <1>1
  <2>2. \A v \in better : dist'[v] = c + cost[<<u, v>>]
    BY <1>1
  <2>3. \A v \in D \ better : dist'[v] = dist[v]
    BY <1>1
  <2>4. ASSUME NEW v \in D PROVE dist'[v] <= dist[v]
    <3>1. CASE v \in better
      <4> DEFINE k == c + cost[<<u, v>>]
      <4>1. k \in Nat /\ dist[v] > k /\ dist[v] \in Nat /\ dist'[v] = k
        BY <1>7, <1>9, <2>2, <3>1
      <4> HIDE DEF k
      <4> QED
        BY <4>1
    <3>2. CASE v \notin better
      BY <1>7, <2>3, <3>2
    <3> QED
      BY <3>1, <3>2
  <2>5. \A v \in D \union better : dist'[v] \in Nat
    BY <1>7, <1>9, <2>2, <2>3
  <2> QED
    BY <2>1, <2>2, <2>3, <2>4, <2>5
<1>12. ReachedInv'
  <2>1. DOMAIN dist' \subseteq Nodes /\ dist' \in [DOMAIN dist' -> Nat]
    <3>1. DOMAIN dist' \subseteq Nodes
      BY <1>7, <1>9, <1>11
    <3>2. dist' = [v \in DOMAIN dist' |-> dist'[v]]
      BY <1>1
    <3> QED
      BY <1>11, <3>1, <3>2
  <2>2. start' \in DOMAIN dist' /\ dist'[start'] = 0
    BY <1>1, <1>7, <1>9, <1>11
  <2>3. \A v \in DOMAIN dist' : (Away(v[1]) <= Away(goal))'
    BY <1>1, <1>2, <1>9, <1>11 DEF ReachedInv, Away
  <2>4. ASSUME NEW v \in DOMAIN dist' \ {start'}
        PROVE  /\ v \in DOMAIN parent' /\ parent'[v] \in DOMAIN dist'
               /\ parent'[v][1] # goal' /\ <<parent'[v], v>> \in graph'
               /\ dist'[v] >= dist'[parent'[v]] + cost'[<<parent'[v], v>>]
    <3>1. CASE v \in better
      <4>1. v \in DOMAIN parent' /\ parent'[v] = u
        BY <1>1, <3>1
      <4>2. u \in DOMAIN dist' /\ dist'[u] = dist[u]
        BY <1>5, <1>9, <1>11
      <4>3. dist'[v] >= dist[u] + cost[<<u, v>>]
        BY <1>5, <1>6, <1>7, <1>9, <1>11, <3>1
      <4> QED
        BY <1>1, <1>9, <3>1, <4>1, <4>2, <4>3
    <3>2. CASE v \notin better
      <4>1. v \in D \ {start}
        BY <1>1, <1>11, <2>4, <3>2
      <4>2. /\ v \in DOMAIN parent /\ parent[v] \in D
            /\ parent[v][1] # goal /\ <<parent[v], v>> \in graph
            /\ dist[v] >= dist[parent[v]] + cost[<<parent[v], v>>]
        BY <1>2, <4>1 DEF ReachedInv
      <4>3. v \in DOMAIN parent' /\ parent'[v] = parent[v]
        BY <1>1, <3>2, <4>2
      <4>4. dist'[parent[v]] <= dist[parent[v]] /\ parent[v] \in DOMAIN dist'
            /\ dist'[parent[v]] \in Nat
        BY <1>11, <4>2
      <4>5. dist'[v] = dist[v]
        BY <1>11, <3>2, <4>1
      <4>6. cost[<<parent[v], v>>] \in Nat /\ dist[v] \in Nat /\ dist[parent[v]] \in Nat
        BY <1>6, <1>7, <4>1, <4>2
      <4>7. dist'[v] >= dist'[parent[v]] + cost[<<parent[v], v>>]
        <5> DEFINE w == cost[<<parent[v], v>>]
        <5>1. w \in Nat /\ dist[v] >= dist[parent[v]] + w
          BY <4>2, <4>6
        <5> HIDE DEF w
        <5> QED
          BY <4>4, <4>5, <4>6, <5>1 DEF w
      <4> QED
        BY <1>1, <4>2, <4>3, <4>4, <4>7
    <3> QED
      BY <3>1, <3>2
  <2>5. DOMAIN dist' # {start'} => Out(start, graph)' # {}
    <3>1. Out(start, graph)' = Out(start, graph)
      BY <1>1 DEF Out
    <3>2. CASE D # {start}
      BY <1>2, <3>1, <3>2 DEF ReachedInv
    <3>3. CASE D = {start} /\ better # {}
      BY <1>5, <1>9, <3>1, <3>3
    <3>4. CASE D = {start} /\ better = {}
      BY <1>1, <1>11, <3>4
    <3> QED
      BY <3>2, <3>3, <3>4
  <2> QED
    BY <2>1, <2>2, <2>3, <2>4, <2>5 DEF ReachedInv
<1>13. QueueInv'
  <2>1. ASSUME NEW p \in pq'
        PROVE  p \in Nat \X Nodes /\ p[2] \in DOMAIN dist' /\ p[1] >= dist'[p[2]]
    <3>1. CASE p \in pq
      <4>1. p \in Nat \X Nodes /\ p[2] \in D /\ p[1] >= dist[p[2]]
        BY <1>2, <3>1 DEF QueueInv
      <4>2. dist'[p[2]] \in Nat /\ dist'[p[2]] <= dist[p[2]] /\ dist[p[2]] \in Nat
        BY <1>7, <1>11, <4>1
      <4> QED
        BY <1>11, <4>1, <4>2
    <3>2. CASE p \notin pq
      <4>1. PICK v \in better : p = <<c + cost[<<u, v>>], v>>
        BY <1>1, <3>2
      <4> QED
        BY <1>9, <1>11, <4>1
    <3> QED
      BY <3>1, <3>2
  <2>2. best' # None =>
          /\ best' \in Nat \X Nodes /\ best'[2][1] = goal'
          /\ best'[2] \in DOMAIN dist' /\ best'[1] >= dist'[best'[2]]
    <3>1. CASE best' = top /\ u[1] = goal
      <4>1. best'[1] = c /\ best'[2] = u /\ best' \in Nat \X Nodes
        BY <1>5, <3>1
      <4>2. u \in DOMAIN dist' /\ dist'[u] <= dist[u] /\ dist'[u] \in Nat /\ dist[u] \in Nat
        BY <1>5, <1>7, <1>11
      <4> QED
        BY <1>1, <1>5, <3>1, <4>1, <4>2
    <3>2. CASE best' = best /\ best # None
      <4>1. /\ best \in Nat \X Nodes /\ best[2][1] = goal
            /\ best[2] \in D /\ best[1] >= dist[best[2]]
        BY <1>2, <3>2 DEF QueueInv
      <4>2. /\ best[2] \in DOMAIN dist' /\ dist'[best[2]] <= dist[best[2]]
            /\ dist'[best[2]] \in Nat /\ dist[best[2]] \in Nat
        BY <1>7, <1>11, <4>1
      <4> QED
        BY <1>1, <3>2, <4>1, <4>2
    <3> QED
      BY <1>1, <3>1, <3>2
  <2> QED
    BY <2>1, <2>2 DEF QueueInv
<1>14. DoneInv'
  <2> SUFFICES ASSUME NEW v \in DOMAIN dist', <<dist'[v], v>> \notin pq' PROVE Done(v)'
    BY DEF DoneInv
  <2>1. v \notin better
    BY <1>1, <1>11
  <2>2. v \in D /\ dist'[v] = dist[v]
    BY <1>11, <2>1
  <2>3. CASE v[1] = goal
    <3> SUFFICES best' # None /\ best'[1] <= dist[v]
      BY <1>1, <2>2, <2>3 DEF Done
    <3>1. CASE <<dist[v], v>> = top
      <4>1. u = v /\ c = dist[v]
        BY <1>5, <3>1
      <4>2. top # None
        BY <1>5, MessageAssumption
      <4>3. best # None => best[1] \in Nat
        BY <1>2 DEF QueueInv
      <4> QED
        BY <1>1, <1>5, <2>3, <4>1, <4>2, <4>3
    <3>2. CASE <<dist[v], v>> # top
      <4>1. Done(v)
        BY <1>1, <1>2, <2>2, <3>2 DEF DoneInv
      <4>2. best # None /\ best[1] <= dist[v] /\ best[1] \in Nat
        BY <1>2, <2>3, <4>1 DEF Done, QueueInv
      <4>3. top # None /\ dist[v] \in Nat
        BY <1>5, <1>7, <2>2, MessageAssumption
      <4>4. CASE best' = best
        BY <4>2, <4>4
      <4>5. CASE best' = top /\ c < best[1]
        BY <1>5, <4>2, <4>3, <4>5
      <4> QED
        BY <1>1, <4>2, <4>4, <4>5
    <3> QED
      BY <3>1, <3>2
  <2>4. CASE v[1] # goal
    <3> SUFFICES ASSUME NEW e \in Out(v, graph)
                 PROVE  e[2] \in DOMAIN dist' /\ dist'[e[2]] <= dist[v] + cost[e]
      <4>1. Out(v, graph)' = Out(v, graph)
        BY <1>1 DEF Out
      <4> QED
        BY <1>1, <2>2, <2>4, <4>1 DEF Done
    <3>1. e \in graph /\ cost[e] \in Nat /\ dist[v] \in Nat
      BY <1>6, <1>7, <2>2 DEF Out
    <3>2. CASE <<dist[v], v>> = top
      <4>1. u = v /\ c = dist[v]
        BY <1>5, <3>2
      <4>2. CASE e[2] \in better
        <5>1. e = <<u, e[2]>>
          BY <1>8, <2>4, <4>1
        <5> QED
          BY <1>9, <1>11, <3>1, <4>1, <4>2, <5>1
      <4>3. CASE e[2] \notin better
        <5>1. e[2] \in D /\ dist[e[2]] <= c + cost[e]
          BY <1>10, <2>4, <4>1, <4>3
        <5> QED
          BY <1>11, <4>1, <4>3, <5>1
      <4> QED
        BY <4>2, <4>3
    <3>3. CASE <<dist[v], v>> # top
      <4>1. Done(v)
        BY <1>1, <1>2, <2>2, <3>3 DEF DoneInv
      <4>2. e[2] \in D /\ dist[e[2]] <= dist[v] + cost[e]
        BY <2>4, <4>1 DEF Done
      <4>3. dist'[e[2]] <= dist[e[2]] /\ dist'[e[2]] \in Nat /\ dist[e[2]] \in Nat
        BY <1>7, <1>11, <4>2
      <4> QED
        BY <1>11, <3>1, <4>2, <4>3
    <3> QED
      BY <3>2, <3>3
  <2> QED
    BY <2>3, <2>4
<1> QED
  BY <1>12, <1>13, <1>14 DEF SearchInv

LEMMA SearchStep ==
  PlanInv /\ PruneInv /\ FilterInv /\ SearchInv /\ [Next]_vars => SearchInv'
<1> SUFFICES ASSUME PlanInv, PruneInv, FilterInv, SearchInv, [Next]_vars, phase' = "search"
             PROVE  SearchInv'
  BY DEF SearchInv
<1>1. CASE StartSearch
  <2>1. /\ dist' = [u \in {start} |-> 0] /\ pq' = {<<0, start>>} /\ best' = None
        /\ UNCHANGED <<graph, start, goal>> /\ start \in Nodes /\ goal \in Layers
    BY <1>1 DEF StartSearch, PlanInv, offlineVars, plan
  <2>2. DOMAIN dist' = {start} /\ dist'[start] = 0
    BY <2>1
  <2>3. ReachedInv'
    <3>1. Away(start[1]) <= Away(goal)
      <4>1. start[1] \in Nat
        BY <2>1, NodeIs
      <4>2. Away(start[1]) = 0
        BY <4>1 DEF Away
      <4> QED
        BY <2>1, <4>2, AwayGoal
    <3> QED
      BY <2>1, <2>2, <3>1 DEF ReachedInv, Away
  <2>4. QueueInv'
    BY <2>1, <2>2 DEF QueueInv
  <2>5. DoneInv'
    BY <2>1, <2>2 DEF DoneInv
  <2> QED
    BY <2>3, <2>4, <2>5 DEF SearchInv
<1>2. CASE Expand
  BY <1>2, ExpandSearch
<1>3. CASE UNCHANGED vars
  <2>1. UNCHANGED <<phase, graph, cost, start, goal, dist, parent, pq, best>>
    BY <1>3 DEF vars, offlineVars, plan, searchVars
  <2>2. ReachedInv /\ QueueInv /\ DoneInv
    BY <2>1 DEF SearchInv
  <2>3. ReachedInv'
    BY <2>1, <2>2 DEF ReachedInv, Away, Out
  <2>4. QueueInv'
    BY <2>1, <2>2 DEF QueueInv
  <2>5. DoneInv'
    BY <2>1, <2>2 DEF DoneInv, Done, Out
  <2> QED
    BY <2>3, <2>4, <2>5 DEF SearchInv
<1>4. CASE \/ (\E e \in doomed : RemoveEdge(e)) \/ RemoveIsolated \/ GoOnline
           \/ StateCb \/ ObsCb \/ ParamCb \/ OnlineLoopFree \/ OnlineLoop
           \/ ApplyNodeFilter \/ Publish
  BY <1>4 DEF RemoveEdge, RemoveIsolated, GoOnline, StateCb, ObsCb, ParamCb, Input,
      OnlineLoopFree, OnlineLoop, ApplyNodeFilter, Publish, PruneInv
<1> QED
  BY <1>1, <1>2, <1>3, <1>4 DEF Next

-----------------------------------------------------------------------------
(* The end of the search.                                                  *)

IsRoute(way, from, g, n) ==
  /\ way \in Seq(Nodes) /\ Len(way) = n + 1 /\ way[1] = from
  /\ \A i \in 1..n : <<way[i], way[i + 1]>> \in g

\* The recursion over the layers finds the ways, and only the ways.
LEMMA RoutesAre ==
  ASSUME NEW from \in Nodes, NEW g \in SUBSET Edges, NEW n \in Nat
  PROVE  \A way : way \in Routes(from, g, n) <=> IsRoute(way, from, g, n)
<1> DEFINE S == SUBSET Seq(Nodes)
           Longer(k, R) == UNION {{Append(r, e[2]) : e \in Out(r[k], g)} : r \in R}
           step == [p \in Nat \X S |-> Longer(p[1], p[2])]
           Eq(f) == f = [k \in 0..n |-> IF k = 0 THEN {<<from>>} ELSE Longer(k, f[k - 1])]
           routes == CHOOSE f : Eq(f)
<1>1. \A e \in g : e = <<e[1], e[2]>> /\ e[1] \in Nodes /\ e[2] \in Nodes
  BY EdgeIs, EdgeEnds
<1>2. step \in [Nat \X S -> S]
  <2> SUFFICES ASSUME NEW k \in Nat, NEW R \in S PROVE Longer(k, R) \in S
    OBVIOUS
  <2>1. \A r \in R : \A e \in Out(r[k], g) : Append(r, e[2]) \in Seq(Nodes)
    BY <1>1 DEF Out
  <2> QED
    BY <2>1
<1>3. {<<from>>} \in S
  OBVIOUS
<1>4. PICK f : Iterates(f, n, S, {<<from>>}, step)
  <2> HIDE DEF step, S
  <2> QED
    BY <1>2, <1>3, Recursion
<1>5. f \in [0..n -> S] /\ f[0] = {<<from>>} /\ \A k \in 1..n : f[k] = step[<<k, f[k - 1]>>]
  BY <1>4 DEF Iterates
<1> HIDE DEF Longer
<1>6. \A k \in 1..n : step[<<k, f[k - 1]>>] = Longer(k, f[k - 1])
  <2> HIDE DEF S
  <2>1. \A k \in 1..n : <<k, f[k - 1]>> \in Nat \X S
    BY <1>5
  <2> QED
    BY <2>1
<1>7. Eq(f)
  <2>1. \A k \in 0..n : k = 0 \/ k \in 1..n
    OBVIOUS
  <2> HIDE DEF S, step
  <2> QED
    BY <1>5, <1>6, <2>1
<1>8. Eq(routes)
  <2> HIDE DEF Eq
  <2> QED
    BY <1>7
<1>9. Routes(from, g, n) = routes[n]
  BY DEF Routes, Longer
<1> DEFINE T == {k \in Nat : k <= n => \A way : way \in routes[k] <=> IsRoute(way, from, g, k)}
<1> HIDE DEF routes
<1>10. 0 \in T
  <2>1. routes[0] = {<<from>>}
    BY <1>8
  <2>2. ASSUME NEW way, IsRoute(way, from, g, 0) PROVE way = <<from>>
    BY <2>2 DEF IsRoute
  <2>3. IsRoute(<<from>>, from, g, 0)
    BY DEF IsRoute
  <2> QED
    BY <2>1, <2>2, <2>3
<1>11. ASSUME NEW k \in Nat, k \in T PROVE k + 1 \in T
  <2> SUFFICES ASSUME k + 1 <= n, NEW way
               PROVE  way \in routes[k + 1] <=> IsRoute(way, from, g, k + 1)
    OBVIOUS
  <2>1. \A r : r \in routes[k] <=> IsRoute(r, from, g, k)
    BY <1>11
  <2>2. routes[k + 1] = Longer(k + 1, routes[k])
    <3>1. k + 1 \in 0..n /\ k + 1 # 0 /\ (k + 1) - 1 = k
      OBVIOUS
    <3> QED
      BY <1>8, <3>1
  <2>3. ASSUME way \in routes[k + 1] PROVE IsRoute(way, from, g, k + 1)
    <3>1. PICK r \in routes[k] : \E e \in Out(r[k + 1], g) : way = Append(r, e[2])
      BY <2>2, <2>3 DEF Longer
    <3>2. PICK e \in Out(r[k + 1], g) : way = Append(r, e[2])
      BY <3>1
    <3>3. /\ r \in Seq(Nodes) /\ Len(r) = k + 1 /\ r[1] = from
          /\ \A i \in 1..k : <<r[i], r[i + 1]>> \in g
      BY <2>1, <3>1 DEF IsRoute
    <3>4. e \in g /\ e = <<r[k + 1], e[2]>> /\ e[2] \in Nodes
      BY <1>1, <3>2 DEF Out
    <3>5. /\ way \in Seq(Nodes) /\ Len(way) = k + 2 /\ way[k + 2] = e[2]
          /\ \A i \in 1..k + 1 : way[i] = r[i]
      BY <3>2, <3>3, <3>4
    <3>6. ASSUME NEW i \in 1..k + 1 PROVE <<way[i], way[i + 1]>> \in g
      <4>1. CASE i = k + 1
        BY <3>4, <3>5, <4>1
      <4>2. CASE i # k + 1
        <5>1. i \in 1..k /\ i + 1 \in 1..k + 1
          BY <4>2
        <5> QED
          BY <3>3, <3>5, <5>1
      <4> QED
        BY <4>1, <4>2
    <3> QED
      BY <3>3, <3>5, <3>6 DEF IsRoute
  <2>4. ASSUME IsRoute(way, from, g, k + 1) PROVE way \in routes[k + 1]
    <3> DEFINE r == SubSeq(way, 1, k + 1)
               e == <<way[k + 1], way[k + 2]>>
    <3>1. /\ way \in Seq(Nodes) /\ Len(way) = k + 2 /\ way[1] = from
          /\ \A i \in 1..k + 1 : <<way[i], way[i + 1]>> \in g
      BY <2>4 DEF IsRoute
    <3>2. /\ r \in Seq(Nodes) /\ Len(r) = k + 1 /\ \A i \in 1..k + 1 : r[i] = way[i]
      BY <3>1
    <3>3. IsRoute(r, from, g, k)
      <4> HIDE DEF r
      <4> QED
        BY <3>1, <3>2 DEF IsRoute
    <3>4. e \in Out(r[k + 1], g)
      <4> HIDE DEF r
      <4> QED
        BY <3>1, <3>2 DEF Out
    <3>5. way = Append(r, e[2])
      <4> HIDE DEF r
      <4> QED
        BY <3>1, <3>2
    <3> HIDE DEF r, e
    <3> QED
      BY <2>1, <2>2, <3>3, <3>4, <3>5 DEF Longer
  <2> QED
    BY <2>3, <2>4
<1>12. n \in T
  <2> HIDE DEF T
  <2> QED
    BY <1>10, <1>11, Induct
<1> QED
  BY <1>9, <1>12

\* The cost of a way is the sum over its edges, edge by edge.
LEMMA WayCostIs ==
  ASSUME NEW n \in Nat, NEW way \in Seq(Nodes), Len(way) = n + 1, NEW zs \in Seq(Zones),
         \A i \in 1..n : <<way[i], way[i + 1]>> \in Edges
  PROVE  \E sum \in [0..n -> Nat] :
           /\ sum[0] = 0
           /\ \A k \in 1..n : sum[k] = sum[k - 1] + EdgeCost(<<way[k], way[k + 1]>>, zs)
           /\ WayCost(way, zs) = sum[n]
<1> DEFINE W(k) == EdgeCost(<<way[k], way[k + 1]>>, zs)
           step == [p \in Nat \X Nat |-> IF p[1] \in 1..n THEN p[2] + W(p[1]) ELSE 0]
           Eq(f) == f = [k \in 0..Len(way) - 1 |-> IF k = 0 THEN 0 ELSE f[k - 1] + W(k)]
           sum == CHOOSE f : Eq(f)
<1>1. \A k \in 1..n : W(k) \in Nat
  BY EdgeCostType
<1>2. Len(way) - 1 = n
  OBVIOUS
<1>3. WayCost(way, zs) = sum[n]
  BY <1>2 DEF WayCost
<1> HIDE DEF W
<1>4. step \in [Nat \X Nat -> Nat]
  BY <1>1
<1>5. PICK f : Iterates(f, n, Nat, 0, step)
  <2> HIDE DEF step
  <2> QED
    BY <1>4, Recursion
<1>6. f \in [0..n -> Nat] /\ f[0] = 0 /\ \A k \in 1..n : f[k] = step[<<k, f[k - 1]>>]
  BY <1>5 DEF Iterates
<1>7. \A k \in 1..n : step[<<k, f[k - 1]>>] = f[k - 1] + W(k)
  BY <1>6
<1>8. Eq(f)
  <2>1. \A k \in 0..n : k = 0 \/ k \in 1..n
    OBVIOUS
  <2> HIDE DEF step
  <2> QED
    BY <1>2, <1>6, <1>7, <2>1
<1>9. Eq(sum)
  <2> HIDE DEF Eq
  <2> QED
    BY <1>8
<1> HIDE DEF sum
<1>10. /\ sum[0] = 0 /\ sum = [k \in 0..n |-> sum[k]]
       /\ \A k \in 1..n : sum[k] = sum[k - 1] + W(k)
  <2>1. sum = [k \in 0..n |-> IF k = 0 THEN 0 ELSE sum[k - 1] + W(k)]
    BY <1>2, <1>9
  <2>2. sum[0] = 0 /\ \A k \in 1..n : sum[k] = sum[k - 1] + W(k)
    BY <2>1
  <2>3. sum = [k \in 0..n |-> sum[k]]
    BY <2>1
  <2> QED
    BY <2>2, <2>3
<1> DEFINE T == {k \in Nat : k <= n => sum[k] \in Nat}
<1>11. 0 \in T
  BY <1>10
<1>12. ASSUME NEW k \in Nat, k \in T PROVE k + 1 \in T
  <2> SUFFICES ASSUME k + 1 <= n PROVE sum[k + 1] \in Nat
    OBVIOUS
  <2>1. sum[k] \in Nat /\ k + 1 \in 1..n /\ (k + 1) - 1 = k
    BY <1>12
  <2>2. sum[k + 1] = sum[k] + W(k + 1)
    BY <1>10, <2>1
  <2> QED
    BY <1>1, <2>1, <2>2
<1>13. Nat \subseteq T
  <2> HIDE DEF T
  <2> QED
    BY <1>11, <1>12, Induct
<1>14. sum \in [0..n -> Nat]
  <2>1. \A k \in 0..n : sum[k] \in Nat
    BY <1>13
  <2> QED
    BY <1>10, <2>1
<1> QED
  BY <1>3, <1>10, <1>14 DEF W

\* When the queue is empty every node reached costs exactly what its parent
\* costs and the edge from it, and no edge before the goal leads to a cheaper
\* one.
Settled ==
  /\ start \in Nodes /\ goal \in Layers /\ zones \in Seq(Zones) /\ graph \subseteq Edges
  /\ DOMAIN dist \subseteq Nodes /\ start \in DOMAIN dist /\ dist[start] = 0
  /\ \A v \in DOMAIN dist : dist[v] \in Nat /\ Away(v[1]) \in Nat /\ Away(v[1]) <= Away(goal)
  /\ \A v \in DOMAIN dist \ {start} :
       /\ parent[v] \in DOMAIN dist /\ <<parent[v], v>> \in graph /\ parent[v][1] # goal
       /\ dist[v] = dist[parent[v]] + EdgeCost(<<parent[v], v>>, zones)
       /\ Away(v[1]) = Away(parent[v][1]) + 1
  /\ \A v \in DOMAIN dist : v[1] # goal => \A e \in Out(v, graph) :
       /\ e[2] \in DOMAIN dist /\ Away(e[2][1]) = Away(v[1]) + 1
       /\ dist[e[2]] <= dist[v] + EdgeCost(e, zones)
  /\ \A v \in DOMAIN dist : v[1] = goal => best # None /\ best[1] <= dist[v]
  /\ best # None => /\ best[2] \in DOMAIN dist /\ best[2][1] = goal
                    /\ best[1] \in Nat /\ best[1] >= dist[best[2]] /\ best[2] # None
  /\ DOMAIN dist # {start} => Out(start, graph) # {}
  /\ \A e \in graph : Out(e[2], graph) # {}

LEMMA SearchOver ==
  ASSUME PlanInv, PruneInv, FilterInv, SearchInv, phase = "search", pq = {}
  PROVE  Settled
<1> DEFINE D == DOMAIN dist
<1>1. ReachedInv /\ QueueInv /\ DoneInv
  BY DEF SearchInv
<1>2. start \in Nodes /\ goal \in Layers /\ zones \in Seq(Zones) /\ graph \subseteq Edges
  BY DEF PlanInv, PruneInv
<1>3. \A e \in graph : cost[e] = EdgeCost(e, zones) /\ cost[e] \in Nat
  BY <1>2, EdgeCostType DEF FilterInv
<1>4. D \subseteq Nodes /\ start \in D /\ dist[start] = 0
  BY <1>1 DEF ReachedInv
<1>5. \A v \in D : dist[v] \in Nat /\ Away(v[1]) \in Nat /\ Away(v[1]) <= Away(goal)
  <2> TAKE v \in D
  <2>1. v \in Nodes /\ dist[v] \in Nat /\ Away(v[1]) <= Away(goal)
    BY <1>1 DEF ReachedInv
  <2>2. /\ NLayers \in Nat /\ v[1] \in 0..NLayers - 1 /\ start[1] \in 0..NLayers - 1
    BY <1>2, <2>1, NodeIs, LatticeAssumption DEF Layers
  <2>3. Away(v[1]) \in Nat
    BY <2>2 DEF Away
  <2> QED
    BY <2>1, <2>3
<1>6. \A v \in D : Done(v)
  BY <1>1 DEF DoneInv
<1>7. ASSUME NEW v \in D, v[1] # goal, NEW e \in Out(v, graph)
      PROVE  /\ e[2] \in D /\ Away(e[2][1]) = Away(v[1]) + 1
             /\ dist[e[2]] <= dist[v] + EdgeCost(e, zones)
  <2>1. e \in graph
    BY DEF Out
  <2>2. e[2] \in D /\ dist[e[2]] <= dist[v] + cost[e]
    BY <1>6, <1>7 DEF Done
  <2>3. Away(e[2][1]) = Away(v[1]) + 1
    BY <1>2, <1>4, <1>5, <1>7, ChildIs
  <2> QED
    BY <1>3, <2>1, <2>2, <2>3
<1>8. ASSUME NEW v \in D \ {start}
      PROVE  /\ parent[v] \in D /\ <<parent[v], v>> \in graph /\ parent[v][1] # goal
             /\ dist[v] = dist[parent[v]] + EdgeCost(<<parent[v], v>>, zones)
             /\ Away(v[1]) = Away(parent[v][1]) + 1
  <2> DEFINE u == parent[v]
             e == <<u, v>>
  <2>1. u \in D /\ e \in graph /\ u[1] # goal /\ dist[v] >= dist[u] + cost[e]
    BY <1>1 DEF ReachedInv
  <2>2. e \in Out(u, graph) /\ e[2] = v
    BY <2>1 DEF Out
  <2>3. Away(v[1]) = Away(u[1]) + 1 /\ dist[v] <= dist[u] + EdgeCost(e, zones)
    <3> HIDE DEF u, e
    <3> QED
      BY <1>7, <2>1, <2>2
  <2>4. dist[v] \in Nat /\ dist[u] \in Nat /\ cost[e] = EdgeCost(e, zones) /\ cost[e] \in Nat
    <3> HIDE DEF u, e
    <3> QED
      BY <1>3, <1>5, <2>1
  <2> HIDE DEF e, u
  <2>5. dist[v] = dist[u] + EdgeCost(e, zones)
    BY <2>1, <2>3, <2>4
  <2> QED
    BY <2>1, <2>3, <2>5 DEF e, u
<1>9. \A v \in D : v[1] = goal => best # None /\ best[1] <= dist[v]
  BY <1>6 DEF Done
<1>10. best # None => /\ best[2] \in D /\ best[2][1] = goal
                      /\ best[1] \in Nat /\ best[1] >= dist[best[2]] /\ best[2] # None
  BY <1>1, <1>4, MessageAssumption DEF QueueInv
<1>11. D # {start} => Out(start, graph) # {}
  BY <1>1 DEF ReachedInv
<1>12. \A e \in graph : Out(e[2], graph) # {}
  BY DEF PruneInv, Out
<1> QED
  BY <1>2, <1>4, <1>5, <1>7, <1>8, <1>9, <1>10, <1>11, <1>12 DEF Settled

\* Two layers equally far ahead are the same.
LEMMA AwayInjective ==
  ASSUME start \in Nodes, NEW k \in Layers, NEW l \in Layers, Away(k) = Away(l)
  PROVE  k = l
<1>1. NLayers \in Nat /\ k \in 0..NLayers - 1 /\ l \in 0..NLayers - 1
      /\ start[1] \in 0..NLayers - 1
  BY NodeIs, LatticeAssumption DEF Layers
<1> QED
  BY <1>1 DEF Away

\* A way to the horizon leads through nodes that were reached at no more than
\* it costs so far: it costs no less than the best goal.
LEMMA NoWayIsCheaper ==
  ASSUME Settled, NEW way, IsRoute(way, start, graph, Away(goal))
  PROVE  best # None /\ dist[best[2]] <= WayCost(way, zones)
<1> DEFINE n == Away(goal)
           D == DOMAIN dist
<1>1. /\ way \in Seq(Nodes) /\ Len(way) = n + 1 /\ way[1] = start
      /\ \A i \in 1..n : <<way[i], way[i + 1]>> \in graph
  BY DEF IsRoute
<1>2. start \in Nodes /\ goal \in Layers /\ zones \in Seq(Zones) /\ graph \subseteq Edges
  BY DEF Settled
<1>3. n \in Nat
  BY <1>2, AwayGoal
<1> HIDE DEF n
<1>4. PICK sum \in [0..n -> Nat] :
        /\ sum[0] = 0
        /\ \A k \in 1..n : sum[k] = sum[k - 1] + EdgeCost(<<way[k], way[k + 1]>>, zones)
        /\ WayCost(way, zones) = sum[n]
  BY <1>1, <1>2, <1>3, WayCostIs
<1> DEFINE T == {k \in Nat : k <= n => /\ way[k + 1] \in D /\ Away(way[k + 1][1]) = k
                                       /\ dist[way[k + 1]] <= sum[k]}
<1>5. 0 \in T
  <2>1. Away(start[1]) = 0
    <3>1. start[1] \in Nat
      BY <1>2, NodeIs
    <3> QED
      BY <3>1 DEF Away
  <2> QED
    BY <1>1, <1>4, <2>1 DEF Settled
<1>6. ASSUME NEW k \in Nat, k \in T PROVE k + 1 \in T
  <2> SUFFICES ASSUME k + 1 <= n
               PROVE  /\ way[k + 2] \in D /\ Away(way[k + 2][1]) = k + 1
                      /\ dist[way[k + 2]] <= sum[k + 1]
    OBVIOUS
  <2> DEFINE u == way[k + 1]
             v == way[k + 2]
             e == <<u, v>>
  <2>1. u \in D /\ Away(u[1]) = k /\ dist[u] <= sum[k] /\ k + 1 \in 1..n /\ k \in 0..n
    BY <1>3, <1>6
  <2>2. e \in Out(u, graph) /\ e[2] = v
    BY <1>1, <2>1 DEF Out
  <2>3. u[1] # goal
    BY <2>1 DEF n
  <2>4. /\ v \in D /\ Away(v[1]) = Away(u[1]) + 1 /\ dist[v] <= dist[u] + EdgeCost(e, zones)
    <3> HIDE DEF u, v, e
    <3> QED
      BY <2>1, <2>2, <2>3 DEF Settled
  <2>5. sum[k + 1] = sum[k] + EdgeCost(e, zones)
    <3>1. (k + 1) - 1 = k /\ (k + 1) + 1 = k + 2
      OBVIOUS
    <3> QED
      BY <1>4, <2>1, <3>1
  <2>6. e \in Edges
    BY <1>2, <2>2 DEF Out
  <2>7. EdgeCost(e, zones) \in Nat
    <3> HIDE DEF e
    <3> QED
      BY <1>2, <2>6, EdgeCostType
  <2>8. dist[u] \in Nat /\ dist[v] \in Nat /\ sum[k] \in Nat
    BY <1>4, <2>1, <2>4 DEF Settled
  <2> HIDE DEF u, v, e
  <2>9. dist[v] <= sum[k + 1]
    BY <2>1, <2>4, <2>5, <2>7, <2>8
  <2>10. v \in D /\ Away(v[1]) = k + 1
    BY <2>1, <2>4
  <2> QED
    BY <2>9, <2>10 DEF v
<1>7. n \in T
  <2> HIDE DEF T
  <2> QED
    BY <1>3, <1>5, <1>6, Induct
<1> DEFINE v == way[n + 1]
<1>8. v \in D /\ Away(v[1]) = Away(goal) /\ dist[v] <= WayCost(way, zones)
  BY <1>3, <1>4, <1>7 DEF n
<1>9. v[1] \in Layers
  <2>1. v \in Nodes
    BY <1>8 DEF Settled
  <2> HIDE DEF v
  <2> QED
    BY <2>1, NodeIs
<1>10. v[1] = goal
  BY <1>2, <1>8, <1>9, AwayInjective
<1>11. best # None /\ best[1] <= dist[v] /\ best[1] \in Nat /\ best[1] >= dist[best[2]]
  BY <1>8, <1>10 DEF Settled
<1>12. dist[best[2]] \in Nat /\ dist[v] \in Nat /\ WayCost(way, zones) \in Nat
  BY <1>3, <1>4, <1>8, <1>11 DEF Settled
<1> HIDE DEF v
<1> QED
  BY <1>8, <1>11, <1>12

\* Following the parents back from a node that was reached takes one step per
\* layer; the recursion of the backtracking is well defined.
LEMMA PathExists ==
  ASSUME Settled
  PROVE  \E path : path = [u \in DOMAIN dist |-> IF u = start THEN <<u>>
                                                 ELSE Append(path[parent[u]], u)]
<1> DEFINE D == DOMAIN dist
           Within(k) == {u \in D : Away(u[1]) <= k}
           Eq(p, S) == p = [u \in S |-> IF u = start THEN <<u>> ELSE Append(p[parent[u]], u)]
           T == {k \in Nat : \E p : Eq(p, Within(k))}
<1>0. \A u \in D \ {start} : parent[u] \in D /\ Away(u[1]) = Away(parent[u][1]) + 1
  BY DEF Settled
<1>1. \A u \in D : Away(u[1]) \in Nat /\ Away(u[1]) <= Away(goal)
  BY DEF Settled
<1>2. 0 \in T
  <2> DEFINE p == [u \in Within(0) |-> <<u>>]
  <2>1. \A u \in Within(0) : u = start
    BY <1>0, <1>1
  <2>2. Eq(p, Within(0))
    BY <2>1
  <2> HIDE DEF Eq, p
  <2> QED
    BY <2>2
<1>3. ASSUME NEW k \in Nat, k \in T PROVE k + 1 \in T
  <2>1. PICK p : Eq(p, Within(k))
    BY <1>3
  <2> DEFINE q == [u \in Within(k + 1) |->
                     IF u \in Within(k) THEN p[u] ELSE Append(p[parent[u]], u)]
  <2>2. \A u \in Within(k) : u \in Within(k + 1)
    BY <1>1
  <2>3. \A u \in Within(k + 1) : u # start => parent[u] \in Within(k)
    BY <1>0, <1>1
  <2>4. \A u \in Within(k + 1) : u \notin Within(k) => u # start
    <3>1. Away(start[1]) = 0
      <4>1. start[1] \in Nat
        BY NodeIs DEF Settled
      <4> QED
        BY <4>1 DEF Away
    <3> QED
      BY <3>1
  <2>5. \A u \in Within(k) : q[u] = p[u]
    BY <2>2
  <2>6. \A u \in Within(k + 1) : q[u] = IF u = start THEN <<u>> ELSE Append(q[parent[u]], u)
    <3> TAKE u \in Within(k + 1)
    <3> HIDE DEF Within
    <3>1. CASE u \in Within(k)
      <4>1. p[u] = IF u = start THEN <<u>> ELSE Append(p[parent[u]], u)
        BY <2>1, <3>1
      <4> HIDE DEF q
      <4> QED
        BY <2>3, <2>5, <3>1, <4>1
    <3>2. CASE u \notin Within(k)
      <4>1. q[u] = Append(p[parent[u]], u)
        BY <3>2
      <4> HIDE DEF q
      <4> QED
        BY <2>3, <2>4, <2>5, <3>2, <4>1
    <3> QED
      BY <3>1, <3>2
  <2>7. q = [u \in Within(k + 1) |-> q[u]]
    OBVIOUS
  <2>8. Eq(q, Within(k + 1))
    <3> HIDE DEF q, Within
    <3> QED
      BY <2>6, <2>7
  <2> HIDE DEF Eq, q
  <2> QED
    BY <2>8
<1>4. Nat \subseteq T
  <2> HIDE DEF T
  <2> QED
    BY <1>2, <1>3, Induct
<1>5. Away(goal) \in Nat
  BY AwayGoal DEF Settled
<1>6. Within(Away(goal)) = D
  BY <1>1
<1>7. PICK p : Eq(p, Within(Away(goal)))
  <2> HIDE DEF Eq, Within
  <2> QED
    BY <1>4, <1>5
<1>8. Eq(p, D)
  <2> HIDE DEF Within
  <2> QED
    BY <1>6, <1>7
<1> QED
  BY <1>8

\* What is published is a way of the graph to the goal and costs exactly what
\* the search says the goal costs.
LEMMA BacktrackIs ==
  ASSUME Settled, GoalNode \in DOMAIN dist
  PROVE  /\ IsRoute(Backtrack, start, graph, Away(GoalNode[1]))
         /\ WayCost(Backtrack, zones) = dist[GoalNode]
<1> DEFINE D == DOMAIN dist
           Eq(p) == p = [u \in D |-> IF u = start THEN <<u>> ELSE Append(p[parent[u]], u)]
           path == CHOOSE p : Eq(p)
<1>1. Eq(path)
  <2>1. \E p : Eq(p)
    BY PathExists
  <2> HIDE DEF Eq
  <2> QED
    BY <2>1
<1>2. Backtrack = path[GoalNode]
  BY DEF Backtrack
<1> HIDE DEF path
<1>3. path[start] = <<start>> /\ \A u \in D \ {start} : path[u] = Append(path[parent[u]], u)
  BY <1>1 DEF Settled
<1>4. \A u \in D \ {start} : parent[u] \in D /\ Away(u[1]) = Away(parent[u][1]) + 1
  BY DEF Settled
<1>5. /\ \A u \in D : Away(u[1]) \in Nat /\ u \in Nodes
      /\ start \in Nodes /\ start \in D
  BY DEF Settled
<1>6. Away(start[1]) = 0
  <2>1. start[1] \in Nat
    BY <1>5, NodeIs
  <2> QED
    BY <2>1 DEF Away
<1> DEFINE Leads(q, u, k) ==
             /\ q \in Seq(Nodes) /\ Len(q) = k + 1 /\ q[1] = start /\ q[k + 1] = u
             /\ \A i \in 1..k : q[i + 1] \in D \ {start} /\ q[i] = parent[q[i + 1]]
           T == {k \in Nat : \A u \in D : Away(u[1]) = k => Leads(path[u], u, k)}
<1>7. 0 \in T
  <2> SUFFICES ASSUME NEW u \in D, Away(u[1]) = 0 PROVE Leads(path[u], u, 0)
    OBVIOUS
  <2>1. u = start
    BY <1>4, <1>5
  <2>2. path[u] = <<start>> /\ start \in Nodes
    BY <1>3, <1>5, <2>1
  <2>3. <<start>> \in Seq(Nodes) /\ Len(<<start>>) = 0 + 1 /\ <<start>>[1] = start
        /\ <<start>>[0 + 1] = start
    BY <2>2
  <2>4. Leads(<<start>>, start, 0)
    BY <2>3
  <2> HIDE DEF Leads
  <2> QED
    BY <2>1, <2>2, <2>4
<1>8. ASSUME NEW k \in Nat, k \in T PROVE k + 1 \in T
  <2> SUFFICES ASSUME NEW u \in D, Away(u[1]) = k + 1 PROVE Leads(path[u], u, k + 1)
    OBVIOUS
  <2> DEFINE r == path[parent[u]]
             q == path[u]
  <2>1. u # start
    BY <1>6
  <2>2. parent[u] \in D /\ Away(parent[u][1]) = k
    BY <1>4, <1>5, <2>1
  <2>3. Leads(r, parent[u], k)
    BY <1>8, <2>2
  <2>4. q = Append(r, u) /\ u \in Nodes
    BY <1>3, <1>5, <2>1
  <2> HIDE DEF r, q
  <2>5. /\ q \in Seq(Nodes) /\ Len(q) = k + 2 /\ q[k + 2] = u
        /\ \A i \in 1..k + 1 : q[i] = r[i]
    BY <2>3, <2>4
  <2>6. ASSUME NEW i \in 1..k + 1
        PROVE  q[i + 1] \in D \ {start} /\ q[i] = parent[q[i + 1]]
    <3>1. CASE i = k + 1
      BY <2>1, <2>3, <2>5, <3>1
    <3>2. CASE i # k + 1
      <4>1. i \in 1..k /\ i + 1 \in 1..k + 1
        BY <3>2
      <4> QED
        BY <2>3, <2>5, <4>1
    <3> QED
      BY <3>1, <3>2
  <2>7. q[1] = start
    BY <2>3, <2>5
  <2>8. (k + 1) + 1 = k + 2
    OBVIOUS
  <2>9. Leads(q, u, k + 1)
    BY <2>5, <2>6, <2>7, <2>8
  <2> QED
    BY <2>9 DEF q
<1>9. Nat \subseteq T
  <2> HIDE DEF T
  <2> QED
    BY <1>7, <1>8, Induct
<1> DEFINE n == Away(GoalNode[1])
           way == Backtrack
<1>10. n \in Nat /\ Leads(way, GoalNode, n)
  BY <1>2, <1>5, <1>9
<1> HIDE DEF n, way
<1>11. \A i \in 1..n : <<way[i], way[i + 1]>> \in graph /\ <<way[i], way[i + 1]>> \in Edges
  BY <1>10 DEF Settled
<1>12. IsRoute(way, start, graph, n)
  BY <1>10, <1>11 DEF IsRoute
<1>13. PICK sum \in [0..n -> Nat] :
         /\ sum[0] = 0
         /\ \A k \in 1..n : sum[k] = sum[k - 1] + EdgeCost(<<way[k], way[k + 1]>>, zones)
         /\ WayCost(way, zones) = sum[n]
  <2>1. zones \in Seq(Zones)
    BY DEF Settled
  <2> QED
    <3>1. way \in Seq(Nodes) /\ Len(way) = n + 1 /\ n \in Nat
      BY <1>10
    <3>2. \A k \in 1..n : <<way[k], way[k + 1]>> \in Edges
      BY <1>11
    <3> QED
      BY <2>1, <3>1, <3>2, WayCostIs
<1> DEFINE U == {k \in Nat : k <= n => sum[k] = dist[way[k + 1]]}
<1>14. 0 \in U
  BY <1>10, <1>13 DEF Settled
<1>15. ASSUME NEW k \in Nat, k \in U PROVE k + 1 \in U
  <2> SUFFICES ASSUME k + 1 <= n PROVE sum[k + 1] = dist[way[k + 2]]
    OBVIOUS
  <2>1. k + 1 \in 1..n /\ (k + 1) - 1 = k /\ (k + 1) + 1 = k + 2 /\ sum[k] = dist[way[k + 1]]
    BY <1>10, <1>15
  <2>2. way[k + 2] \in D \ {start} /\ way[k + 1] = parent[way[k + 2]]
    BY <1>10, <2>1
  <2>3. dist[way[k + 2]] = dist[way[k + 1]] + EdgeCost(<<way[k + 1], way[k + 2]>>, zones)
    BY <2>2 DEF Settled
  <2>4. sum[k + 1] = sum[k] + EdgeCost(<<way[k + 1], way[k + 2]>>, zones)
    BY <1>13, <2>1
  <2> QED
    BY <2>1, <2>3, <2>4
<1>16. n \in U
  <2> HIDE DEF U
  <2> QED
    BY <1>10, <1>14, <1>15, Induct
<1>17. WayCost(way, zones) = dist[GoalNode]
  BY <1>10, <1>13, <1>16
<1> QED
  BY <1>12, <1>17 DEF n, way

\* Only a start without children leaves the goal out of reach, and then
\* nothing but the start has been reached.
LEMMA NothingReached ==
  ASSUME Settled, best = None, start[1] # goal
  PROVE  DOMAIN dist = {start} /\ Out(start, graph) = {}
<1> DEFINE D == DOMAIN dist
           n == Away(goal)
           T == {k \in Nat : k < n => \E v \in D : Away(v[1]) = k + 1}
<1>1. /\ start \in Nodes /\ goal \in Layers /\ n \in Nat /\ start \in D
      /\ start[1] \in Layers /\ Away(start[1]) = 0
  <2>1. start \in Nodes /\ goal \in Layers /\ start \in D
    BY DEF Settled
  <2>2. n \in Nat /\ start[1] \in Nat /\ start[1] \in Layers
    BY <2>1, AwayGoal, NodeIs
  <2>3. Away(start[1]) = 0
    BY <2>2 DEF Away
  <2> QED
    BY <2>1, <2>2, <2>3
<1>2. n # 0
  BY <1>1, AwayInjective
<1>3. Out(start, graph) = {}
  <2> SUFFICES ASSUME Out(start, graph) # {} PROVE FALSE
    OBVIOUS
  <2>1. 0 \in T
    <3>1. PICK e \in Out(start, graph) : TRUE
      OBVIOUS
    <3>2. e[2] \in D /\ Away(e[2][1]) = Away(start[1]) + 1
      BY <1>1 DEF Settled
    <3> QED
      BY <1>1, <3>2
  <2>2. ASSUME NEW k \in Nat, k \in T PROVE k + 1 \in T
    <3> SUFFICES ASSUME k + 1 < n PROVE \E v \in D : Away(v[1]) = (k + 1) + 1
      OBVIOUS
    <3>1. PICK v \in D : Away(v[1]) = k + 1
      BY <1>1, <2>2
    <3>2. v # start
      BY <1>1, <3>1
    <3>3. v[1] # goal
      BY <3>1
    <3>4. PICK u : <<u, v>> \in graph
      BY <3>2 DEF Settled
    <3>5. Out(v, graph) # {}
      <4>1. \A e \in graph : Out(e[2], graph) # {}
        BY DEF Settled
      <4> QED
        BY <3>4, <4>1
    <3>6. PICK e \in Out(v, graph) : TRUE
      BY <3>5
    <3>7. e[2] \in D /\ Away(e[2][1]) = Away(v[1]) + 1
      BY <3>3 DEF Settled
    <3> QED
      BY <3>1, <3>7
  <2>3. n - 1 \in T
    <3>1. n - 1 \in Nat
      BY <1>1, <1>2
    <3> HIDE DEF T
    <3> QED
      BY <2>1, <2>2, <3>1, Induct
  <2>4. PICK v \in D : Away(v[1]) = n
    BY <1>1, <1>2, <2>3
  <2>5. v[1] \in Layers
    <3>1. v \in Nodes
      BY DEF Settled
    <3> QED
      BY <3>1, NodeIs
  <2>6. v[1] = goal
    BY <1>1, <2>4, <2>5, AwayInjective
  <2> QED
    BY <2>6 DEF Settled
<1> QED
  BY <1>3 DEF Settled

\* What a plan publishes, as a property of the plan.
Chosen(from, g, zs, to, l) ==
  LET n == (to - from[1]) % NLayers
      routes == Routes(from, g, n)
  IN  IF n = 0 \/ routes = {}
        THEN l = <<>>
        ELSE l \in routes /\ \A way \in routes : WayCost(l, zs) <= WayCost(way, zs)

LEMMA PublishChooses ==
  ASSUME PlanInv, PruneInv, FilterInv, SearchInv, phase = "search", pq = {}
  PROVE  Chosen(start, graph, zones, goal,
                IF GoalNode = None \/ GoalNode = start THEN <<>> ELSE Backtrack)
<1> DEFINE n == Away(goal)
           D == DOMAIN dist
           l == IF GoalNode = None \/ GoalNode = start THEN <<>> ELSE Backtrack
<1>1. Settled
  BY SearchOver
<1>2. start \in Nodes /\ goal \in Layers /\ graph \in SUBSET Edges /\ start \in D
  BY <1>1 DEF Settled
<1>3. n \in Nat /\ (goal - start[1]) % NLayers = n
  BY <1>2, AwayGoal
<1>4. Away(start[1]) = 0 /\ start[1] \in Layers
  <2>1. start[1] \in Nat /\ start[1] \in Layers
    BY <1>2, NodeIs
  <2> QED
    BY <2>1 DEF Away
<1>5. \A way : way \in Routes(start, graph, n) <=> IsRoute(way, start, graph, n)
  BY <1>2, <1>3, RoutesAre
<1>6. ASSUME D = {start} PROVE l = <<>>
  <2>1. GoalNode \in D \cup {None}
    BY <1>1 DEF GoalNode, Settled
  <2> QED
    BY <1>6, <2>1
<1>7. CASE n = 0
  <2>1. start[1] = goal
    BY <1>2, <1>4, <1>7, AwayInjective
  <2>2. ASSUME NEW v \in D \ {start} PROVE FALSE
    <3>1. parent[v] \in D /\ Away(v[1]) = Away(parent[v][1]) + 1
      BY <1>1 DEF Settled
    <3>2. Away(v[1]) <= 0 /\ Away(v[1]) \in Nat /\ Away(parent[v][1]) \in Nat
      BY <1>1, <1>7, <3>1 DEF Settled
    <3> QED
      BY <3>1, <3>2
  <2>3. l = <<>>
    BY <1>2, <1>6, <2>2
  <2> HIDE DEF n, l
  <2> QED
    BY <1>3, <1>7, <2>3 DEF Chosen, l
<1>8. CASE n # 0 /\ best = None
  <2>1. start[1] # goal
    BY <1>4, <1>8
  <2>2. D = {start} /\ Out(start, graph) = {}
    BY <1>1, <1>8, <2>1, NothingReached
  <2>3. ASSUME NEW way, IsRoute(way, start, graph, n) PROVE FALSE
    <3>1. 1 \in 1..n
      BY <1>3, <1>8
    <3>2. way[1] = start /\ <<way[1], way[1 + 1]>> \in graph
      BY <2>3, <3>1 DEF IsRoute
    <3> QED
      BY <2>2, <3>2 DEF Out
  <2>4. Routes(start, graph, n) = {}
    BY <1>5, <2>3
  <2>5. l = <<>>
    BY <1>6, <2>2
  <2> HIDE DEF n, l
  <2> QED
    BY <1>3, <2>4, <2>5 DEF Chosen, l
<1>9. CASE n # 0 /\ best # None
  <2>1. GoalNode = best[2] /\ best[2] \in D /\ best[2][1] = goal /\ best[2] # None
    BY <1>1, <1>9 DEF GoalNode, Settled
  <2>2. GoalNode # start
    BY <1>4, <1>9, <2>1
  <2>3. l = Backtrack
    BY <2>1, <2>2
  <2>4. IsRoute(l, start, graph, n) /\ WayCost(l, zones) = dist[best[2]]
    <3> HIDE DEF l
    <3> QED
      BY <1>1, <2>1, <2>3, BacktrackIs
  <2>5. \A way : IsRoute(way, start, graph, n) => WayCost(l, zones) <= WayCost(way, zones)
    BY <1>1, <2>4, NoWayIsCheaper
  <2> HIDE DEF n, l
  <2> QED
    BY <1>3, <1>5, <1>9, <2>4, <2>5 DEF Chosen, l
<1> QED
  BY <1>7, <1>8, <1>9

-----------------------------------------------------------------------------

LEMMA CheapestStep ==
  PlanInv /\ PruneInv /\ FilterInv /\ SearchInv /\ CheapestLine /\ [Next]_vars => CheapestLine'
<1> SUFFICES ASSUME PlanInv, PruneInv, FilterInv, SearchInv, CheapestLine, [Next]_vars,
                    phase' = "idle", start' # None
             PROVE  Chosen(start', graph', zones', goal', line')
  BY DEF CheapestLine, Chosen
<1>1. phase = "idle" /\ start # None => Chosen(start, graph, zones, goal, line)
  BY DEF CheapestLine, Chosen
<1>2. CASE Publish
  <2>1. UNCHANGED <<start, graph, zones, goal>> /\ phase = "search" /\ pq = {}
        /\ line' = IF GoalNode = None \/ GoalNode = start THEN <<>> ELSE Backtrack
    BY <1>2 DEF Publish, plan, offlineVars
  <2> QED
    BY <2>1, PublishChooses
<1>3. CASE StateCb \/ ObsCb \/ ParamCb
  <2>1. phase = "idle" /\ UNCHANGED <<start, graph, zones, goal, line>>
    BY <1>3 DEF StateCb, ObsCb, ParamCb, Input, plan, offlineVars
  <2> QED
    BY <1>1, <2>1
<1>4. CASE UNCHANGED vars
  <2>1. UNCHANGED <<phase, start, graph, zones, goal, line>>
    BY <1>4 DEF vars, plan, offlineVars
  <2> QED
    BY <1>1, <2>1
<1>5. CASE \/ (\E e \in doomed : RemoveEdge(e)) \/ RemoveIsolated \/ GoOnline
           \/ OnlineLoopFree \/ OnlineLoop \/ ApplyNodeFilter \/ StartSearch \/ Expand
  BY <1>5 DEF RemoveEdge, RemoveIsolated, GoOnline, OnlineLoopFree, OnlineLoop,
      ApplyNodeFilter, StartSearch, Expand, PruneInv, PlanInv, plan
<1> QED
  BY <1>2, <1>3, <1>4, <1>5 DEF Next

\* The search publishes a cheapest way to the horizon whenever there is a way,
\* on every lattice, for all costs, and under whatever zones.
THEOREM CheapestLineAlways == Spec => []CheapestLine
<1>1. Init => FilterInv /\ SearchInv /\ CheapestLine
  BY DEF Init, FilterInv, SearchInv, CheapestLine
<1> QED
  BY PruneInit, PruneStep, RecordInit, RecordStep, PlanInit, PlanStep, FilterStep,
     SearchStep, CheapestStep, <1>1, PTL DEF Spec

-----------------------------------------------------------------------------

\* What is no longer queued at its cost costs no more than all that is queued.
OrderInv ==
  phase = "search" =>
    \A v \in DOMAIN dist : <<dist[v], v>> \in pq \/ \A p \in pq : dist[v] <= p[1]

\* A round takes a least entry and queues only what is no cheaper.
LEMMA ExpandTakesLeast ==
  ASSUME PlanInv, PruneInv, FilterInv, SearchInv, Expand
  PROVE  \E top, better :
           /\ top \in pq /\ top[1] \in Nat
           /\ \A q \in pq : q[1] \in Nat /\ top[1] <= q[1]
           /\ \A v \in better : v \in DOMAIN dist => dist[v] > top[1]
           /\ \A v \in better : <<dist'[v], v>> \in pq'
           /\ \A v \in DOMAIN dist \ better : dist'[v] = dist[v]
           /\ DOMAIN dist' = DOMAIN dist \union better
           /\ pq \ {top} \subseteq pq'
           /\ \A q \in pq' : \/ q \in pq \ {top}
                             \/ q[1] \in Nat /\ top[1] <= q[1] /\ q[2] \in better
<1> DEFINE top == CHOOSE p \in pq : \A q \in pq : Before(p, q)
           c == top[1]
           u == top[2]
           better == IF u[1] = goal THEN {} ELSE Cheaper(u, c)
           W(v) == c + cost[<<u, v>>]
<1>1. /\ phase = "search" /\ pq # {}
      /\ dist' = [v \in DOMAIN dist \union better |->
                    IF v \in better THEN W(v) ELSE dist[v]]
      /\ pq' = (pq \ {top}) \union {<<W(v), v>> : v \in better}
  BY DEF Expand
<1>2. ReachedInv /\ QueueInv
  BY <1>1 DEF SearchInv
<1>3. top \in pq /\ \A q \in pq : Before(top, q)
  BY <1>1, <1>2, QueueHasTop DEF QueueInv
<1> HIDE DEF top
<1>4. \A q \in pq : q[1] \in Nat /\ q[2] \in Nodes
  BY <1>2 DEF QueueInv
<1>5. c \in Nat /\ \A q \in pq : c <= q[1]
  <2> SUFFICES ASSUME NEW q \in pq PROVE c \in Nat /\ c <= q[1]
    BY <1>3
  <2>1. c \in Nat /\ q[1] \in Nat /\ (c < q[1] \/ c = q[1])
    BY <1>3, <1>4 DEF Before
  <2> HIDE DEF c
  <2> QED
    BY <2>1
<1>6. \A e \in graph : cost[e] \in Nat /\ e = <<e[1], e[2]>>
  <2>1. zones \in Seq(Zones) /\ graph \subseteq Edges
    BY <1>1 DEF PlanInv, PruneInv
  <2> QED
    BY <1>1, <2>1, EdgeCostType, EdgeIs DEF FilterInv
<1>7. \A v \in DOMAIN dist : dist[v] \in Nat
  BY <1>2 DEF ReachedInv
<1>8. ASSUME NEW v \in better
      PROVE  /\ W(v) \in Nat /\ c <= W(v)
             /\ v \in DOMAIN dist => dist[v] > c
  <2>1. PICK e \in Out(u, graph) :
          v = e[2] /\ (e[2] \in DOMAIN dist => dist[e[2]] > c + cost[e])
    BY <1>8 DEF Cheaper
  <2>2. e \in graph /\ e[1] = u
    BY <2>1 DEF Out
  <2>3. e = <<u, v>> /\ cost[e] \in Nat
    BY <1>6, <2>1, <2>2
  <2>4. v \in DOMAIN dist => dist[v] > W(v)
    BY <2>1, <2>3
  <2> DEFINE k == cost[<<u, v>>]
  <2>5. k \in Nat /\ W(v) = c + k
    BY <2>3
  <2> HIDE DEF k, c, W
  <2>6. W(v) \in Nat /\ c <= W(v)
    BY <1>5, <2>5
  <2> QED
    BY <1>5, <1>7, <2>4, <2>6
<1> HIDE DEF better, W
<1>9. /\ DOMAIN dist' = DOMAIN dist \union better
      /\ \A v \in better : dist'[v] = W(v)
      /\ \A v \in DOMAIN dist \ better : dist'[v] = dist[v]
  BY <1>1
<1>10. \A v \in better : <<dist'[v], v>> \in pq'
  BY <1>1, <1>9
<1>11. \A q \in pq' : \/ q \in pq \ {top}
                      \/ q[1] \in Nat /\ c <= q[1] /\ q[2] \in better
  BY <1>1, <1>8
<1>12. pq \ {top} \subseteq pq'
  BY <1>1
<1> QED
  BY <1>3, <1>4, <1>5, <1>8, <1>9, <1>10, <1>11, <1>12

\* What a round does to a node that is settled, and to the order of the queue.
LEMMA RoundKeepsOrder ==
  ASSUME PlanInv, PruneInv, FilterInv, SearchInv, OrderInv, Expand
  PROVE  /\ OrderInv'
         /\ \A v \in DOMAIN dist : <<dist[v], v>> \notin pq =>
              dist'[v] = dist[v] /\ <<dist[v], v>> \notin pq'
<1>1. phase = "search"
  BY DEF Expand
<1>2. PICK top, better :
        /\ top \in pq /\ top[1] \in Nat
        /\ \A q \in pq : q[1] \in Nat /\ top[1] <= q[1]
        /\ \A v \in better : v \in DOMAIN dist => dist[v] > top[1]
        /\ \A v \in better : <<dist'[v], v>> \in pq'
        /\ \A v \in DOMAIN dist \ better : dist'[v] = dist[v]
        /\ DOMAIN dist' = DOMAIN dist \union better
        /\ pq \ {top} \subseteq pq'
        /\ \A q \in pq' : \/ q \in pq \ {top}
                          \/ q[1] \in Nat /\ top[1] <= q[1] /\ q[2] \in better
  BY ExpandTakesLeast
<1>3. \A v \in DOMAIN dist : dist[v] \in Nat
  BY <1>1 DEF SearchInv, ReachedInv
<1>4. ASSUME NEW v \in DOMAIN dist, <<dist[v], v>> \notin pq
      PROVE  v \notin better /\ dist[v] <= top[1]
  <2>1. \A p \in pq : dist[v] <= p[1]
    BY <1>1, <1>4 DEF OrderInv
  <2>2. dist[v] <= top[1] /\ dist[v] \in Nat /\ top[1] \in Nat
    BY <1>2, <1>3, <2>1
  <2>3. ~ (dist[v] > top[1])
    BY <2>2
  <2> QED
    BY <1>2, <2>2, <2>3
<1>5. ASSUME NEW v \in DOMAIN dist, <<dist[v], v>> \notin pq
      PROVE  dist'[v] = dist[v] /\ <<dist[v], v>> \notin pq'
  <2>1. v \notin better
    BY <1>4, <1>5
  <2> QED
    BY <1>2, <1>5, <2>1
<1>6. ASSUME NEW v \in DOMAIN dist', <<dist'[v], v>> \notin pq', NEW q \in pq'
      PROVE  dist'[v] <= q[1]
  <2>1. v \in DOMAIN dist /\ v \notin better /\ dist'[v] = dist[v]
    BY <1>2, <1>6
  <2>2. q[1] \in Nat /\ top[1] <= q[1]
    BY <1>2
  <2>3. dist[v] <= top[1]
    <3>1. CASE <<dist[v], v>> \in pq
      <4>1. <<dist[v], v>> = top
        BY <1>2, <1>6, <2>1, <3>1
      <4> QED
        BY <1>2, <4>1
    <3>2. CASE <<dist[v], v>> \notin pq
      BY <1>4, <2>1, <3>2
    <3> QED
      BY <3>1, <3>2
  <2>4. dist[v] \in Nat /\ top[1] \in Nat
    BY <1>2, <1>3, <2>1
  <2> QED
    BY <2>1, <2>2, <2>3, <2>4
<1> QED
  BY <1>5, <1>6 DEF OrderInv

LEMMA OrderStep ==
  PlanInv /\ PruneInv /\ FilterInv /\ SearchInv /\ OrderInv /\ [Next]_vars => OrderInv'
<1> SUFFICES ASSUME PlanInv, PruneInv, FilterInv, SearchInv, OrderInv, [Next]_vars,
                    phase' = "search"
             PROVE  OrderInv'
  BY DEF OrderInv
<1>1. CASE StartSearch
  <2>1. DOMAIN dist' = {start} /\ dist'[start] = 0 /\ pq' = {<<0, start>>}
    BY <1>1 DEF StartSearch
  <2> QED
    BY <2>1 DEF OrderInv
<1>2. CASE Expand
  BY <1>2, RoundKeepsOrder
<1>3. CASE UNCHANGED vars
  BY <1>3 DEF vars, searchVars, OrderInv
<1>4. CASE \/ (\E e \in doomed : RemoveEdge(e)) \/ RemoveIsolated \/ GoOnline
           \/ StateCb \/ ObsCb \/ ParamCb \/ OnlineLoopFree \/ OnlineLoop
           \/ ApplyNodeFilter \/ Publish
  BY <1>4 DEF RemoveEdge, RemoveIsolated, GoOnline, StateCb, ObsCb, ParamCb, Input,
      OnlineLoopFree, OnlineLoop, ApplyNodeFilter, Publish, PruneInv
<1> QED
  BY <1>1, <1>2, <1>3, <1>4 DEF Next

\* A node taken from the queue at its present cost is settled, on every lattice
\* and for all costs: that the code neither marks what it has visited nor
\* drops outdated entries costs it rounds, but never a second improvement.
THEOREM NodesSettleAlways == Spec => NodesSettle
<1> DEFINE Settling ==
      phase = "search" /\ phase' = "search" =>
        \A v \in DOMAIN dist : <<dist[v], v>> \notin pq =>
          dist'[v] = dist[v] /\ <<dist[v], v>> \notin pq'
<1>1. Init => FilterInv /\ SearchInv /\ OrderInv
  BY DEF Init, FilterInv, SearchInv, OrderInv
<1>2. PlanInv /\ PruneInv /\ FilterInv /\ SearchInv /\ OrderInv /\ [Next]_vars
        => [Settling]_vars
  <2> SUFFICES ASSUME PlanInv, PruneInv, FilterInv, SearchInv, OrderInv, Next,
                      phase = "search", phase' = "search"
               PROVE  Settling
    BY DEF vars
  <2>1. CASE Expand
    BY <2>1, RoundKeepsOrder
  <2>2. CASE \/ (\E e \in doomed : RemoveEdge(e)) \/ RemoveIsolated \/ GoOnline
             \/ StateCb \/ ObsCb \/ ParamCb \/ OnlineLoopFree \/ OnlineLoop
             \/ ApplyNodeFilter \/ StartSearch \/ Publish
    BY <2>2 DEF RemoveEdge, RemoveIsolated, GoOnline, StateCb, ObsCb, ParamCb, Input,
        OnlineLoopFree, OnlineLoop, ApplyNodeFilter, StartSearch, Publish, PruneInv
  <2> QED
    BY <2>1, <2>2 DEF Next
<1> HIDE DEF Settling
<1>3. Spec => [][Settling]_vars
  BY PruneInit, PruneStep, RecordInit, RecordStep, PlanInit, PlanStep, FilterStep,
     SearchStep, OrderStep, <1>1, <1>2, PTL DEF Spec
<1> QED
  BY <1>3 DEF NodesSettle, Settling
=============================================================================
