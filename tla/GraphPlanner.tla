---------------------------- MODULE GraphPlanner ----------------------------
(***************************************************************************)
(* The graph planner: it finds the overtaking lines that the state machine *)
(* caches.  Offline it spans a lattice of nodes over the track, layer by   *)
(* layer around the lap, connects neighbouring layers, and prunes what is  *)
(* curved too sharply.  Online, 20 times a second, it makes the edges at   *)
(* the obstacles expensive, searches the cheapest way from the car to the  *)
(* layer at the horizon, gives the edges their costs back, and publishes.  *)
(*                                                                         *)
(* One executor runs everything: no callback comes between the steps of a  *)
(* tick.  Splines, poses and the predicted motion of the obstacles are     *)
(* arithmetic in front of the graph: the model takes the cost of an edge,  *)
(* whether it is too sharp, and the node nearest to a point as given.      *)
(***************************************************************************)
EXTENDS Integers, Sequences, FiniteSets

CONSTANTS
  NLayers,   \* number of layers of the lattice
  Width,     \* number of nodes of a layer
  Raceline,  \* nodeIndicesOnRaceline: the node of a layer on the raceline
  LatSteps,  \* how many nodes to either side a node is connected with
  Cost,      \* the offline cost of an edge
  Sharp,     \* the sets of edges that may turn out to be curved too sharply
  Penalty,   \* what a blocked zone adds to the cost of an edge: 1e6
  Inflate,   \* inflate_idx
  Horizons,  \* the values min_plan_horizon is set to
  Messages,  \* the obstacles of a message, by the nodes nearest their corners
  None

Layers == 0..NLayers - 1
Following(l) == IF l = NLayers - 1 THEN 0 ELSE l + 1
Nodes == UNION {{l} \X (0..Width[l] - 1) : l \in Layers}
OnRaceline(l) == <<l, Raceline[l]>>

ASSUME LatticeAssumption ==
  /\ NLayers \in Nat \ {0, 1}
  /\ Width \in [Layers -> Nat \ {0}]
  /\ \A l \in Layers : OnRaceline(l) \in Nodes
  /\ LatSteps \in [Nodes -> Nat]

RacelineEdges == {<<OnRaceline(l), OnRaceline(Following(l))>> : l \in Layers}

\* The node of the next layer as far from the raceline as u, on the track.
Ahead(u) == LET dst == Following(u[1])
                i == Raceline[dst] - (Raceline[u[1]] - u[2])
            IN  IF i < 0 THEN 0 ELSE IF i < Width[dst] THEN i ELSE Width[dst] - 1

\* genEdges: the raceline, and from each node those around the one ahead.
Edges == RacelineEdges \union
  {e \in Nodes \X Nodes :
     /\ e[2][1] = Following(e[1][1])
     /\ e[2][2] \in (Ahead(e[1]) - LatSteps[e[1]])..(Ahead(e[1]) + LatSteps[e[1]])}

ASSUME EdgesAssumption ==
  /\ Cost \in [Edges -> Nat]
  /\ \A sharp \in Sharp : sharp \subseteq Edges \ RacelineEdges
  /\ Penalty \in Nat /\ Inflate \in Nat
  /\ Horizons \subseteq Nat

Obstacles == [frontLeft : Nodes, frontRight : Nodes, backLeft : Nodes, backRight : Nodes]

ASSUME MessageAssumption ==
  /\ Messages \subseteq Seq(Obstacles)
  /\ None \notin Nodes /\ None \notin Nat \X Nodes

VARIABLES
  phase,         \* "prune", "isolate", then "idle", "filter" and "search"
  graph,         \* nodeGraph: the edges that are left
  doomed,        \* the calls of removeEdge that are still to be made
  cost,          \* the cost of each edge in splineMap
  orig_edges,    \* what apply_node_filter has recorded
  cur,           \* the node nearest to the car
  obs_msg,       \* the last message about obstacles
  horizon,       \* min_plan_horizon
  zones,         \* blocked_zones of the last plan
  pending,       \* those not yet applied
  start, goal,   \* startIdx and goalLayer of the last plan; None without one
  dist, parent, pq, best,  \* locals of graph_search
  line           \* the line last published, or None while one is planned

offlineVars == <<graph, doomed>>
inputs == <<cur, obs_msg, horizon>>
plan == <<zones, start, goal>>
searchVars == <<dist, parent, pq, best>>
vars == <<phase, offlineVars, cost, orig_edges, inputs, plan, pending,
          searchVars, line>>

Out(u, g) == {e \in g : e[1] = u}
In(v, g) == {e \in g : e[2] = v}
NoFunction == [x \in {} |-> x]

Init ==
  /\ phase = "prune"
  /\ graph = Edges
  /\ doomed \in Sharp
  /\ cost = Cost /\ orig_edges = NoFunction
  /\ cur = OnRaceline(0) /\ obs_msg = <<>> /\ horizon \in Horizons
  /\ zones = <<>> /\ pending = <<>> /\ start = None /\ goal = None
  /\ dist = NoFunction /\ parent = NoFunction /\ pq = {} /\ best = None
  /\ line = <<>>

-----------------------------------------------------------------------------
(* Offline: pruneEdges.  The calls of removeEdge are made in any order.    *)

\* Mutant: what leads to a node without children is kept.
RemoveEdgeForwardOnly(e) ==
  LET rest == graph \ {e}
      orphaned == IF In(e[2], rest) = {} THEN Out(e[2], rest) ELSE {}
  IN  /\ e \in doomed
      /\ graph' = rest
      /\ doomed' = (doomed \ {e}) \union orphaned
      /\ UNCHANGED <<phase, cost, orig_edges, inputs, plan, pending,
                     searchVars, line>>

\* A node left without children loses its parents, one left without parents
\* its children.
RemoveEdge(e) ==
  LET rest == graph \ {e}
      childless == IF Out(e[1], rest) = {} THEN In(e[1], rest) ELSE {}
      orphaned == IF In(e[2], rest) = {} THEN Out(e[2], rest) ELSE {}
  IN  /\ e \in doomed
      /\ graph' = rest
      /\ doomed' = (doomed \ {e}) \union childless \union orphaned
      /\ UNCHANGED <<phase, cost, orig_edges, inputs, plan, pending,
                     searchVars, line>>

\* The second loop: the nodes that nothing leads to.
RemoveIsolated ==
  /\ phase = "prune" /\ doomed = {}
  /\ phase' = "isolate"
  /\ doomed' = {e \in graph : In(e[1], graph) = {}}
  /\ UNCHANGED <<graph, cost, orig_edges, inputs, plan, pending, searchVars,
                 line>>

GoOnline ==
  /\ phase = "isolate" /\ doomed = {}
  /\ phase' = "idle"
  /\ UNCHANGED <<offlineVars, cost, orig_edges, inputs, plan, pending,
                 searchVars, line>>

-----------------------------------------------------------------------------
(* Messages and parameters.                                                *)

Input ==
  /\ phase = "idle"
  /\ UNCHANGED <<phase, offlineVars, cost, orig_edges, plan, pending,
                 searchVars, line>>

StateCb == Input /\ cur' \in Nodes /\ UNCHANGED <<obs_msg, horizon>>
ObsCb == Input /\ obs_msg' \in Messages /\ UNCHANGED <<cur, horizon>>
ParamCb == Input /\ horizon' \in Horizons /\ UNCHANGED <<cur, obs_msg>>

-----------------------------------------------------------------------------
(* A tick: online_loop and runOnline.                                      *)

Lesser(a, b) == IF a < b THEN a ELSE b
Greater(a, b) == IF a < b THEN b ELSE a

\* find_obs_jone: the layers from the front to the back of an obstacle, each
\* with the range of nodes that its front covers.
BlockedZones(o) ==
  LET last == NLayers - 1
      same == o.frontLeft = o.frontRight
      first == Greater(o.frontLeft[1], o.frontRight[1])
      back == Lesser(o.backLeft[1], o.backRight[1])
      from == IF first = back /\ first = last THEN first - 1 ELSE first
      to == IF first = back /\ first < last THEN first + 1 ELSE back
      left == IF same THEN Greater(0, o.frontLeft[2] - 1) ELSE o.frontLeft[2]
      right == IF same
                 THEN Lesser(Width[o.frontRight[1]] - 1, o.frontRight[2] + 1)
                 ELSE o.frontRight[2]
      min == Greater(0, Lesser(left, right) - Inflate)
      max == Lesser(Width[from] - 1, Greater(left, right) + Inflate)
  IN  [k \in 1..to - from + 1 |-> [layer |-> from + k - 1, min |-> min, max |-> max]]

\* Those of all obstacles, one obstacle after the other.
AllBlockedZones(msg) ==
  LET upto[k \in 0..Len(msg)] ==
        IF k = 0 THEN <<>> ELSE upto[k - 1] \o BlockedZones(msg[k])
  IN  upto[Len(msg)]

Covers(zone, u) == u[1] = zone.layer /\ u[2] \in zone.min..zone.max

\* Without obstacles an empty line is published.
OnlineLoopFree ==
  /\ phase = "idle" /\ obs_msg = <<>>
  /\ line' = <<>>
  /\ start' = None /\ goal' = None /\ zones' = <<>>
  /\ UNCHANGED <<phase, offlineVars, cost, orig_edges, inputs, pending,
                 searchVars>>

\* The zones of all obstacles, and findDestination.
OnlineLoop ==
  /\ phase = "idle" /\ obs_msg # <<>>
  /\ phase' = "filter"
  /\ zones' = AllBlockedZones(obs_msg)
  /\ pending' = zones'
  /\ start' = cur
  /\ goal' = (cur[1] + horizon) % NLayers
  /\ line' = None
  /\ UNCHANGED <<offlineVars, cost, orig_edges, inputs, searchVars>>

\* Mutant: the cost is recorded again for every zone.
ApplyNodeFilterRecordsAgain ==
  /\ phase = "filter" /\ pending # <<>>
  /\ LET hit == {e \in graph : Covers(Head(pending), e[1])}
     IN  /\ orig_edges' = [e \in DOMAIN orig_edges \union hit |->
                             IF e \in hit THEN cost[e] ELSE orig_edges[e]]
         /\ cost' = [e \in Edges |-> IF e \in hit THEN cost[e] + Penalty
                                                  ELSE cost[e]]
  /\ pending' = Tail(pending)
  /\ UNCHANGED <<phase, offlineVars, inputs, plan, searchVars, line>>

\* The loop of apply_node_filter: one zone.
ApplyNodeFilter ==
  /\ phase = "filter" /\ pending # <<>>
  /\ LET hit == {e \in graph : Covers(Head(pending), e[1])}
     IN  /\ orig_edges' = [e \in DOMAIN orig_edges \union hit |->
                             IF e \in DOMAIN orig_edges THEN orig_edges[e]
                                                        ELSE cost[e]]
         /\ cost' = [e \in Edges |-> IF e \in hit THEN cost[e] + Penalty
                                                  ELSE cost[e]]
  /\ pending' = Tail(pending)
  /\ UNCHANGED <<phase, offlineVars, inputs, plan, searchVars, line>>

StartSearch ==
  /\ phase = "filter" /\ pending = <<>>
  /\ phase' = "search"
  /\ dist' = [u \in {start} |-> 0]
  /\ pq' = {<<0, start>>}
  /\ UNCHANGED <<offlineVars, cost, orig_edges, inputs, plan, pending, parent,
                 best, line>>

\* Mutant: the order of std::priority_queue without std::greater.
BeforeLess(p, q) == \/ p[1] > q[1]
                    \/ p[1] = q[1] /\ p[2][1] > q[2][1]
                    \/ p[1] = q[1] /\ p[2][1] = q[2][1] /\ p[2][2] >= q[2][2]

\* std::greater on <<cost, <<layer, node>>>>.
Before(p, q) == \/ p[1] < q[1]
                \/ p[1] = q[1] /\ p[2][1] < q[2][1]
                \/ p[1] = q[1] /\ p[2][1] = q[2][1] /\ p[2][2] <= q[2][2]

WithinRange(l) == IF start[1] <= goal THEN l <= goal
                                      ELSE l >= start[1] \/ l <= goal

\* Mutant: the first way found to a node is kept.
CheaperNever(u, c) ==
  {e[2] : e \in {e \in Out(u, graph) :
                   WithinRange(e[2][1]) /\ e[2] \notin DOMAIN dist}}

\* The children of u that are found for the first time, or cheaper.
Cheaper(u, c) ==
  {e[2] : e \in {e \in Out(u, graph) :
                   /\ WithinRange(e[2][1])
                   /\ e[2] \in DOMAIN dist => dist[e[2]] > c + cost[e]}}

\* One round of the loop of graph_search.
Expand ==
  /\ phase = "search" /\ pq # {}
  /\ LET top == CHOOSE p \in pq : \A q \in pq : Before(p, q)
         c == top[1]
         u == top[2]
         better == IF u[1] = goal THEN {} ELSE Cheaper(u, c)
     IN  /\ best' = IF u[1] = goal /\ (best = None \/ c < best[1])
                      THEN top ELSE best
         /\ dist' = [v \in DOMAIN dist \union better |->
                       IF v \in better THEN c + cost[<<u, v>>] ELSE dist[v]]
         /\ parent' = [v \in DOMAIN parent \union better |->
                         IF v \in better THEN u ELSE parent[v]]
         /\ pq' = (pq \ {top}) \union {<<c + cost[<<u, v>>], v>> : v \in better}
  /\ UNCHANGED <<phase, offlineVars, cost, orig_edges, inputs, plan, pending,
                 line>>

\* The goal that was reached, or the raceline one or two layers further on.
GoalNode ==
  LET Further(k) == OnRaceline((goal + k) % NLayers)
  IN  IF best # None THEN best[2]
      ELSE IF Further(1) \in DOMAIN dist THEN Further(1)
      ELSE IF Further(2) \in DOMAIN dist THEN Further(2)
      ELSE None

\* Backwards from the goal to the start.
Backtrack ==
  LET path[u \in DOMAIN dist] == IF u = start THEN <<u>>
                                 ELSE Append(path[parent[u]], u)
  IN  path[GoalNode]

\* The end of runOnline: the costs are restored, and a path of two nodes or
\* more is published.
Publish ==
  /\ phase = "search" /\ pq = {}
  /\ phase' = "idle"
  /\ line' = IF GoalNode = None \/ GoalNode = start THEN <<>> ELSE Backtrack
  /\ cost' = [e \in Edges |-> IF e \in DOMAIN orig_edges THEN orig_edges[e]
                                                         ELSE cost[e]]
  /\ orig_edges' = NoFunction
  /\ dist' = NoFunction /\ parent' = NoFunction /\ best' = None
  /\ UNCHANGED <<offlineVars, inputs, plan, pending, pq>>

-----------------------------------------------------------------------------

Next ==
  \/ (\E e \in doomed : RemoveEdge(e)) \/ RemoveIsolated \/ GoOnline
  \/ StateCb \/ ObsCb \/ ParamCb
  \/ OnlineLoopFree \/ OnlineLoop \/ ApplyNodeFilter
  \/ StartSearch \/ Expand \/ Publish

Spec == Init /\ [][Next]_vars

-----------------------------------------------------------------------------
(* Properties.                                                             *)

\* Between two ticks every edge has its offline cost again, however the zones
\* of the last tick overlapped and whether or not a path was found.
CostsRestored ==
  phase = "idle" => cost = Cost /\ orig_edges = NoFunction

\* Pruning leaves no dead end: the raceline is whole, and what leads to a node
\* leads on from it and is led to itself, so the search cannot get stuck.
NoDeadEnds ==
  phase \notin {"prune", "isolate"} =>
    /\ RacelineEdges \subseteq graph
    /\ \A e \in graph : Out(e[2], graph) # {} /\ In(e[1], graph) # {}

\* The ways from a node through n layers of a graph.
Routes(from, g, n) ==
  LET routes[k \in 0..n] ==
        IF k = 0 THEN {<<from>>}
        ELSE UNION {{Append(r, e[2]) : e \in Out(r[k], g)} : r \in routes[k - 1]}
  IN  routes[n]

\* What an edge costs: each zone that covers the node it leaves counts.
EdgeCost(e, zs) == Cost[e] + Penalty * Cardinality({k \in DOMAIN zs : Covers(zs[k], e[1])})

WayCost(way, zs) ==
  LET sum[k \in 0..Len(way) - 1] ==
        IF k = 0 THEN 0 ELSE sum[k - 1] + EdgeCost(<<way[k], way[k + 1]>>, zs)
  IN  sum[Len(way) - 1]

\* A plan publishes a cheapest way to the layer at the horizon under the zones
\* of that plan alone, and an empty line only if there is no way, or the
\* horizon is a whole lap.
CheapestLine ==
  phase = "idle" /\ start # None =>
    LET n == (goal - start[1]) % NLayers
        routes == Routes(start, graph, n)
    IN  IF n = 0 \/ routes = {}
          THEN line = <<>>
          ELSE /\ line \in routes
               /\ \A way \in routes : WayCost(line, zones) <= WayCost(way, zones)

\* The search settles nodes: one that has been taken from the queue at its
\* present cost is never found cheaper and never queued at it again, although
\* outdated entries stay in the queue and are led on from (graph_search).
NodesSettle ==
  [][phase = "search" /\ phase' = "search" =>
       \A v \in DOMAIN dist : <<dist[v], v>> \notin pq =>
         dist'[v] = dist[v] /\ <<dist[v], v>> \notin pq']_vars
=============================================================================
