-------------------------- MODULE StateMachineProofs --------------------------
(***************************************************************************)
(* Theorems about StateMachine and StateMachineHistory, for every track,   *)
(* threshold, time to live and set of inputs.  Everything rests on one     *)
(* inductive invariant: types, SplineLive, and that localisation has been  *)
(* heard of once the timer runs.  Three parts: the node itself, what it    *)
(* publishes of an overtaking line, and what its counters stand for.       *)
(***************************************************************************)
EXTENDS StateMachineHistory, Induction, TLAPS

CarKnown == phase \in LoopPhases \cup {"pose"} => car # None

IInv == TypeOK /\ SplineLive /\ CarKnown

-----------------------------------------------------------------------------
\* Lemmas about the operators.

\* A cell ahead of the car is a cell.
LEMMA WrapIsCell ==
  ASSUME NEW x \in Int
  PROVE  x % NumGlbWpnts \in Cells
  BY RacelineAssumption DEF Cells

\* A station is at most half a cell away from its cell.
LEMMA CellIs ==
  ASSUME NEW x \in Nat
  PROVE  /\ Cell(x) \in Nat
         /\ 200 * Cell(x) <= 2 * x + 100
         /\ 2 * x + 100 < 200 * Cell(x) + 200
  BY DEF Cell, waypoints_dist

\* The bare raceline is a line of waypoints.
LEMMA GlbLineType == GlbLine \in [Cells -> Waypoint]
  BY RacelineAssumption DEF GlbLine, Waypoint

\* Up to a lap more than a lap is one lap more.
LEMMA OneLap ==
  ASSUME NEW lap \in Nat, NEW x \in Nat, x < 2 * lap
  PROVE  x % lap = IF x < lap THEN x ELSE x - lap
<1>1. CASE x < lap
  BY <1>1
<1>2. CASE ~(x < lap)
  <2>1. x - lap \in 0 .. lap - 1 /\ lap > 0
    BY <1>2
  <2>2. (x - lap) % lap = x - lap
    BY <2>1
  <2>3. x = (x - lap) + lap
    OBVIOUS
  <2>4. ((x - lap) + lap) % lap = (x - lap) % lap
    BY <2>1
  <2> QED
    BY <1>2, <2>2, <2>3, <2>4
<1> QED
  BY <1>1, <1>2

\* The ends of the range of cells a line overwrites, and how many cells of the
\* raceline the rounding leaves out at the finish line: none or one.
From(line) == Cell(line[1].s)
To(line) == IF line[Len(line)].s > line[1].s THEN Cell(line[Len(line)].s)
            ELSE Cell(TrackLength + line[Len(line)].s)
Skipped == Cell(NumGlbWpnts * waypoints_dist - TrackLength)

\* The finish line is crossed once: the i-th cell is the i-th from the line's
\* first one on, or that less the lap and plus the cell left out.
LEMMA IdxsAre ==
  ASSUME NEW line \in Seq(Waypoint), line # <<>>
  PROVE  /\ From(line) \in 0 .. NumGlbWpnts /\ Skipped \in {0, 1}
         /\ From(line) = NumGlbWpnts => Skipped = 0
         /\ To(line) \in Nat /\ From(line) <= To(line)
         /\ Len(splini_idxs(line)) = To(line) - From(line)
         /\ DOMAIN splini_idxs(line) = 1 .. To(line) - From(line)
         /\ \A i \in 1 .. To(line) - From(line) :
              /\ splini_idxs(line)[i] =
                   IF From(line) + i - 1 < NumGlbWpnts THEN From(line) + i - 1
                   ELSE From(line) + i - 1 - NumGlbWpnts + Skipped
              /\ splini_idxs(line)[i] \in Cells
<1> DEFINE N     == NumGlbWpnts
           T     == TrackLength
           first == line[1].s
           last  == line[Len(line)].s
           from  == Cell(first)
           to    == IF last > first THEN Cell(last) ELSE Cell(T + last)
           idx(k) == IF last > first THEN k ELSE Cell((k * waypoints_dist) % T)
           e     == Cell(N * 100 - T)
<1>1. /\ T \in Nat /\ N \in Nat \ {0} /\ 100 * N - 100 < T /\ T <= 100 * N
  BY RacelineAssumption DEF waypoints_dist
<1>2. first \in Nat /\ first < T /\ last \in Nat /\ last < T
  <2>1. line[1] \in Waypoint /\ line[Len(line)] \in Waypoint
    OBVIOUS
  <2> QED
    BY <2>1, <1>1 DEF Waypoint, Stations
<1>3. splini_idxs(line) = [i \in 1 .. to - from |-> idx(from + i - 1)]
  BY DEF splini_idxs
<1>4. From(line) = from /\ To(line) = to /\ Skipped = e
  BY DEF From, To, Skipped, waypoints_dist
<1> HIDE DEF first, last
<1>5. /\ Cell(first) \in Nat /\ 200 * Cell(first) <= 2 * first + 100
      /\ 2 * first + 100 < 200 * Cell(first) + 200
  BY <1>2, CellIs
<1>6. /\ Cell(last) \in Nat /\ 200 * Cell(last) <= 2 * last + 100
      /\ 2 * last + 100 < 200 * Cell(last) + 200
  BY <1>2, CellIs
<1>7. /\ Cell(T + last) \in Nat /\ 200 * Cell(T + last) <= 2 * (T + last) + 100
      /\ 2 * (T + last) + 100 < 200 * Cell(T + last) + 200
  <2>1. T + last \in Nat
    BY <1>1, <1>2
  <2> QED
    BY <2>1, CellIs
<1>8. /\ e \in Nat /\ 200 * e <= 2 * (N * 100 - T) + 100
      /\ 2 * (N * 100 - T) + 100 < 200 * e + 200
  <2>1. N * 100 - T \in Nat
    BY <1>1
  <2> QED
    BY <2>1, CellIs
<1>9. e \in {0, 1} /\ from \in 0 .. N /\ (from = N => e = 0)
  BY <1>1, <1>2, <1>5, <1>8
<1>10. to \in Nat /\ from <= to
  BY <1>1, <1>2, <1>5, <1>6, <1>7
<1>11. /\ DOMAIN splini_idxs(line) = 1 .. to - from
       /\ Len(splini_idxs(line)) = to - from
  <2>1. to - from \in Nat
    BY <1>9, <1>10
  <2> HIDE DEF to, from, idx
  <2> QED
    BY <1>3, <2>1
<1>12. ASSUME NEW i \in 1 .. to - from
       PROVE  /\ splini_idxs(line)[i] =
                   IF from + i - 1 < N THEN from + i - 1 ELSE from + i - 1 - N + e
              /\ splini_idxs(line)[i] \in Cells
  <2> DEFINE k == from + i - 1
  <2>1. k \in Nat /\ from <= k /\ k <= to - 1
    BY <1>9, <1>10
  <2>2. splini_idxs(line)[i] = idx(k)
    BY <1>3
  <2>3. ASSUME last > first
        PROVE  idx(k) = k /\ k < N
    <3>1. idx(k) = k /\ to = Cell(last)
      BY <2>3
    <3> HIDE DEF k, idx, from, to
    <3>2. 200 * k + 200 <= 200 * Cell(last)
      BY <2>1, <3>1, <1>6
    <3>3. 200 * k + 200 <= 2 * last + 100
      BY <2>1, <3>2, <1>2, <1>6
    <3> QED
      BY <3>1, <3>3, <2>1, <1>1, <1>2
  <2>4. ASSUME ~(last > first)
        PROVE  /\ k < N => idx(k) = k
               /\ k >= N => idx(k) = k - N + e /\ k - N + e < N
    <3>1. idx(k) = Cell((100 * k) % T) /\ to = Cell(T + last)
      <4>1. k * waypoints_dist = 100 * k
        BY <2>1 DEF waypoints_dist
      <4> QED
        BY <2>4, <4>1
    <3> HIDE DEF k, idx, from, to
    <3>2. 200 * k + 200 <= 2 * (T + last) + 100
      <4>1. 200 * k + 200 <= 200 * Cell(T + last)
        BY <2>1, <3>1, <1>7
      <4> QED
        BY <2>1, <4>1, <1>1, <1>2, <1>7
    <3>3. 100 * k \in Nat /\ 100 * k < 2 * T
      BY <3>2, <2>1, <1>1, <1>2
    <3>4. (100 * k) % T = IF 100 * k < T THEN 100 * k ELSE 100 * k - T
      BY <3>3, <1>1, OneLap
    <3>5. k < N => 100 * k < T
      BY <2>1, <1>1
    <3>6. k >= N => ~(100 * k < T)
      BY <2>1, <1>1
    <3>7. ASSUME k < N PROVE idx(k) = k
      <4>1. idx(k) = Cell(100 * k)
        BY <3>1, <3>4, <3>5, <3>7
      <4>2. /\ Cell(100 * k) \in Nat /\ 200 * Cell(100 * k) <= 2 * (100 * k) + 100
            /\ 2 * (100 * k) + 100 < 200 * Cell(100 * k) + 200
        BY <3>3, CellIs
      <4> QED
        BY <4>1, <4>2, <2>1
    <3>8. ASSUME k >= N PROVE idx(k) = k - N + e /\ k - N + e < N
      <4>1. idx(k) = Cell(100 * k - T)
        BY <3>1, <3>4, <3>6, <3>8
      <4>2. 100 * k - T \in Nat
        BY <3>3, <3>6, <3>8, <1>1
      <4>3. /\ Cell(100 * k - T) \in Nat
            /\ 200 * Cell(100 * k - T) <= 2 * (100 * k - T) + 100
            /\ 2 * (100 * k - T) + 100 < 200 * Cell(100 * k - T) + 200
        BY <4>2, CellIs
      <4> HIDE DEF e
      <4>4. Cell(100 * k - T) = k - N + e
        BY <4>3, <1>8, <1>1, <2>1
      <4>5. k - N + e < N
        BY <4>3, <4>4, <3>2, <1>1, <1>2, <1>8, <2>1
      <4> QED
        BY <4>1, <4>4, <4>5
    <3> QED
      BY <3>7, <3>8
  <2> HIDE DEF idx, to
  <2>5. splini_idxs(line)[i] = IF k < N THEN k ELSE k - N + e
    <3> HIDE DEF k, e
    <3> QED
      BY <2>1, <2>2, <2>3, <2>4, <1>1
  <2>6. splini_idxs(line)[i] \in 0 .. N - 1
    <3> HIDE DEF k, e
    <3> QED
      BY <2>1, <2>2, <2>3, <2>4, <2>5, <1>1, <1>9
  <2>7. splini_idxs(line)[i] \in Cells
    BY <2>6 DEF Cells
  <2>8. splini_idxs(line)[i] =
          IF from + i - 1 < N THEN from + i - 1 ELSE from + i - 1 - N + e
    <3>1. from \in Int /\ i \in Int /\ e \in Int
      BY <1>9
    <3> HIDE DEF e, from
    <3> QED
      BY <2>5, <3>1, <1>1
  <2> QED
    BY <2>7, <2>8
<1> QED
  BY <1>4, <1>9, <1>10, <1>11, <1>12

\* A written cell holds the waypoint of the last of its writes.
LEMMA Written ==
  ASSUME NEW line \in Seq(Waypoint), line # <<>>, line # None, NEW c \in Cells
  PROVE  LET idxs == splini_idxs(line) IN
         IF \A i \in DOMAIN idxs : idxs[i] # c THEN get_splini_wpts(line)[c] = GlbLine[c]
         ELSE \E i \in DOMAIN idxs :
                /\ idxs[i] = c
                /\ get_splini_wpts(line)[c] = line[IF i < Len(line) THEN i ELSE Len(line)]
<1> DEFINE idxs == splini_idxs(line)
           Last(i) == idxs[i] = c /\ \A j \in i + 1 .. Len(idxs) : idxs[j] # c
           latest == CHOOSE i \in DOMAIN idxs : Last(i)
<1>1. get_splini_wpts(line)[c] =
        IF \A i \in DOMAIN idxs : idxs[i] # c THEN GlbLine[c]
        ELSE line[IF latest < Len(line) THEN latest ELSE Len(line)]
  BY DEF get_splini_wpts
<1>2. ASSUME NEW i0 \in DOMAIN idxs, idxs[i0] = c
      PROVE  \E i \in DOMAIN idxs : Last(i)
  <2> DEFINE m == Len(idxs)
             B == {m - i : i \in {j \in DOMAIN idxs : idxs[j] = c}}
  <2>1. m \in Nat /\ DOMAIN idxs = 1 .. m
    BY IdxsAre
  <2> HIDE DEF idxs, m
  <2>2. B \subseteq Nat /\ B # {}
    BY <1>2, <2>1
  <2>3. PICK x \in B : \A y \in B : x <= y
    <3> HIDE DEF B
    <3> QED
      BY <2>2, Least
  <2>4. PICK i \in DOMAIN idxs : idxs[i] = c /\ x = m - i
    BY <2>3
  <2>5. ASSUME NEW j \in i + 1 .. m, idxs[j] = c
        PROVE  FALSE
    <3>1. i \in 1 .. m /\ j \in 1 .. m /\ i < j
      BY <2>1, <2>4, <2>5
    <3>2. m - j \in B
      BY <2>1, <2>5, <3>1
    <3>3. m - i <= m - j
      BY <2>3, <2>4, <3>2
    <3> QED
      BY <3>1, <3>3, <2>1
  <2> QED
    BY <2>4, <2>5 DEF m
<1> HIDE DEF idxs, Last
<1>3. CASE \A i \in DOMAIN idxs : idxs[i] # c
  BY <1>1, <1>3 DEF idxs
<1>4. CASE \E i \in DOMAIN idxs : idxs[i] = c
  <2>1. latest \in DOMAIN idxs /\ Last(latest)
    BY <1>2, <1>4
  <2> HIDE DEF latest
  <2>2. idxs[latest] = c
    BY <2>1 DEF Last
  <2> QED
    BY <1>1, <1>4, <2>1, <2>2 DEF idxs
<1> QED
  BY <1>3, <1>4

\* The spliced raceline holds, in every cell, its own waypoint or one of the
\* line's.
LEMMA SplicedIs ==
  ASSUME NEW line \in Seq(Waypoint), line # <<>>, line # None, NEW c \in Cells
  PROVE  \/ get_splini_wpts(line)[c] = GlbLine[c]
         \/ \E k \in DOMAIN line : get_splini_wpts(line)[c] = line[k]
<1> DEFINE idxs == splini_idxs(line)
<1>1. CASE \A i \in DOMAIN idxs : idxs[i] # c
  BY <1>1, Written
<1>2. CASE ~ \A i \in DOMAIN idxs : idxs[i] # c
  <2>1. PICK i \in DOMAIN idxs :
          get_splini_wpts(line)[c] = line[IF i < Len(line) THEN i ELSE Len(line)]
    BY <1>2, Written
  <2>2. i \in Nat \ {0}
    BY IdxsAre
  <2>3. Len(line) \in Nat \ {0} /\ DOMAIN line = 1 .. Len(line)
    OBVIOUS
  <2>4. (IF i < Len(line) THEN i ELSE Len(line)) \in DOMAIN line
    BY <2>2, <2>3
  <2> QED
    BY <2>1, <2>4
<1> QED
  BY <1>1, <1>2

\* Splicing a non-empty line into the raceline gives a waypoint for every cell.
LEMMA SpliceType ==
  ASSUME NEW line \in Seq(Waypoint) \cup {None}, line # <<>>
  PROVE  get_splini_wpts(line) \in [Cells -> Waypoint]
<1>1. CASE line = None
  BY <1>1, GlbLineType DEF get_splini_wpts
<1>2. CASE line # None
  <2>1. \A c \in Cells : get_splini_wpts(line)[c] \in Waypoint
    <3> SUFFICES ASSUME NEW c \in Cells PROVE get_splini_wpts(line)[c] \in Waypoint
      OBVIOUS
    <3>1. GlbLine[c] \in Waypoint /\ \A k \in DOMAIN line : line[k] \in Waypoint
      BY <1>2, GlbLineType
    <3> QED
      BY <1>2, <3>1, SplicedIs
  <2>2. get_splini_wpts(line) = [c \in Cells |-> get_splini_wpts(line)[c]]
    BY <1>2 DEF get_splini_wpts
  <2> QED
    BY <2>1, <2>2
<1> QED
  BY <1>1, <1>2

\* The car is on the raceline.
LEMMA CarCell ==
  ASSUME car \in Waypoint
  PROVE  Cell(car.s) \in Nat /\ \A i \in Nat \ {0} : CellAhead(i) \in Cells
<1>1. car.s \in Nat
  BY RacelineAssumption DEF Waypoint, Stations
<1>2. Cell(car.s) \in Nat
  BY <1>1, CellIs
<1> HIDE DEF Cell
<1>3. \A i \in Nat \ {0} : Cell(car.s) + i - 1 \in Int
  BY <1>2
<1> QED
  BY <1>2, <1>3, WrapIsCell DEF CellAhead

\* The waypoints ahead of the car form a sequence of length NLoc.
LEMMA FromCarType ==
  ASSUME NEW glb \in [Cells -> Waypoint], car \in Waypoint
  PROVE  FromCar(glb) \in Seq(Waypoint)
<1>1. ASSUME NEW k \in 1 .. NLoc PROVE glb[CellAhead(k)] \in Waypoint
  BY CarCell, GeometryAssumption
<1> QED BY <1>1, GeometryAssumption DEF FromCar

\* The line the planner sends when it has none is a line.
LEMMA EmptyLine == <<>> \in Seq(Waypoint)
  OBVIOUS

\* A message accepted as available is a non-empty line.
LEMMA RefreshedType ==
  ASSUME TypeOK, SplineLive
  PROVE  /\ Refreshed \in Seq(Waypoint) \cup {None}
         /\ Refreshed # <<>>
         /\ Refreshed # None => avoidance # None /\ avoidance.wpnts # <<>>
<1>1. CASE Available
  <2>1. avoidance \in Avoidance /\ avoidance.wpnts # <<>> /\ avoidance # None
    BY <1>1 DEF TypeOK, Available
  <2>2. avoidance.wpnts \in Seq(Waypoint)
    BY <2>1 DEF Avoidance
  <2> QED BY <1>1, <2>1, <2>2 DEF Refreshed
<1>2. CASE ~Available
  <2>1. None # <<>>
    BY EmptyLine, NoneAssumption
  <2> QED BY <1>2, <2>1 DEF Refreshed, TypeOK, SplineLive
<1> QED BY <1>1, <1>2

\* Every decision is a state, a line that may be driven and a count; outside
\* a head-to-head race it leaves the cached line alone.
LEMMA DecisionType ==
  ASSUME TypeOK, SplineLive
  PROVE  /\ Decision.to \in StateType
         /\ Decision.line \in {last_valid, Refreshed}
         /\ Decision.n \in Nat
         /\ ~HeadToHead => Decision.line = last_valid
<1> USE DEF Verdict
<1>1. count \in Nat /\ state \in StateType /\ force_choice \in StateType
  BY DEF TypeOK
<1>2. /\ SpliniGlobalTrackingTransition.to \in StateType
      /\ SpliniGlobalTrackingTransition.line \in {last_valid, Refreshed}
      /\ SpliniGlobalTrackingTransition.n \in Nat
  BY <1>1 DEF SpliniGlobalTrackingTransition, StateType
<1>3. /\ SpliniTrailingTransition.to \in StateType
      /\ SpliniTrailingTransition.line \in {last_valid, Refreshed}
      /\ SpliniTrailingTransition.n \in Nat
  BY <1>1 DEF SpliniTrailingTransition, StateType
<1>4. /\ SpliniTrailingToGbtrackTransition.to \in StateType
      /\ SpliniTrailingToGbtrackTransition.line \in {last_valid, Refreshed}
      /\ SpliniTrailingToGbtrackTransition.n \in Nat
  BY <1>1 DEF SpliniTrailingToGbtrackTransition, StateType
<1>5. /\ SpliniOvertakingTransition.to \in StateType
      /\ SpliniOvertakingTransition.line \in {last_valid, Refreshed}
      /\ SpliniOvertakingTransition.n \in Nat
  BY <1>1 DEF SpliniOvertakingTransition, StateType
<1>6. /\ SpliniFTGOnlyTransition.to \in StateType
      /\ SpliniFTGOnlyTransition.line \in {last_valid, Refreshed}
      /\ SpliniFTGOnlyTransition.n \in Nat
  BY <1>1 DEF SpliniFTGOnlyTransition, StateType
<1>7. /\ head_to_head_transition.to \in StateType
      /\ head_to_head_transition.line \in {last_valid, Refreshed}
      /\ head_to_head_transition.n \in Nat
  BY <1>1, <1>2, <1>3, <1>4, <1>5, <1>6 DEF head_to_head_transition, StateType
<1> QED BY <1>1, <1>7 DEF Decision, StateType

\* What a tick publishes is a sequence of waypoints, unless it raises.
LEMMA StateLogicType ==
  ASSUME TypeOK, car # None,
         NEW st \in StateType,
         NEW line \in Seq(Waypoint) \cup {None},
         ~StateLogicRaises(st, line)
  PROVE  DefaultStateLogic(st, line) \in Seq(Waypoint)
<1>1. car \in Waypoint /\ local_waypoints \in Seq(Waypoint)
  BY DEF TypeOK
<1>2. FromCar(GlbLine) \in Seq(Waypoint)
  BY <1>1, GlbLineType, FromCarType
<1>3. ASSUME st \in {"TRAILING", "OVERTAKE"}
      PROVE  FromCar(get_splini_wpts(line)) \in Seq(Waypoint)
  <2>1. line # <<>>
    BY <1>3 DEF StateLogicRaises
  <2> QED BY <2>1, <1>1, SpliceType, FromCarType
<1> QED BY <1>1, <1>2, <1>3 DEF DefaultStateLogic, StateType

-----------------------------------------------------------------------------
\* The invariant holds initially and every step keeps it.

\* The constructor starts in the invariant.
LEMMA InitInv == Init => IInv
<1> SUFFICES ASSUME Init PROVE IInv
  OBVIOUS
<1>1. TypeOK
  <2>1. /\ ttl \in -1 .. TtlTicks
        /\ count \in Nat
    BY TimingAssumption DEF Init
  <2>2. /\ phase \in WaitPhases
        /\ state \in StateType /\ force_choice \in StateType
        /\ force_state \in BOOLEAN
        /\ battery \in {"unset", "ok", "low"}
    BY ModeAssumption DEF Init, WaitPhases, StateType
  <2>3. ot_flags \in [DOMAIN Sectors -> BOOLEAN]
    BY DEF Init
  <2>4. /\ car = None /\ avoidance = None /\ last_valid = None
        /\ obstacles = {} /\ local_waypoints = <<>>
    BY DEF Init
  <2> QED BY <2>1, <2>2, <2>3, <2>4, EmptyLine DEF TypeOK
<1>2. SplineLive
  BY DEF Init, SplineLive
<1>3. CarKnown
  BY DEF Init, CarKnown, LoopPhases
<1> QED BY <1>1, <1>2, <1>3 DEF IInv

\* A tick of the main loop (main_loop_callback) keeps the invariant.
LEMMA TickInv == IInv /\ MainLoopCallback => IInv'
<1> SUFFICES ASSUME IInv, MainLoopCallback PROVE IInv'
  OBVIOUS
<1> DEFINE d == Decision
<1>1. TypeOK /\ SplineLive /\ car # None
  BY DEF IInv, CarKnown, MainLoopCallback
<1>2. /\ d.to \in StateType
      /\ d.line \in {last_valid, Refreshed}
      /\ d.n \in Nat
      /\ ~HeadToHead => d.line = last_valid
  BY <1>1, DecisionType
<1>3. d.line \in Seq(Waypoint) \cup {None}
  BY <1>1, <1>2, RefreshedType DEF TypeOK
<1>4. d.line # None => d.line # <<>> /\ avoidance # None /\ avoidance.wpnts # <<>>
  BY <1>1, <1>2, RefreshedType DEF SplineLive
<1>5. DefaultStateLogic(d.to, d.line) \in Seq(Waypoint)
  <2>1. ~StateLogicRaises(d.to, d.line)
    BY DEF MainLoopCallback, MainLoopRaises
  <2> QED BY <1>1, <1>2, <1>3, <2>1, StateLogicType
<1>6. /\ state' = d.to /\ count' = d.n
      /\ local_waypoints' = DefaultStateLogic(d.to, d.line)
      /\ ExpireSplini(d.line)
      /\ UNCHANGED <<phase, inputVars, paramVars>>
  BY DEF MainLoopCallback
<1> HIDE DEF d
<1>7. /\ last_valid' \in Seq(Waypoint) \cup {None}
      /\ avoidance' \in Avoidance \cup {None}
      /\ ttl' \in -1 .. TtlTicks
  <2>1. NoWaypoints \in Avoidance
    BY DEF NoWaypoints, Avoidance
  <2> QED BY <1>1, <1>3, <1>6, <2>1, TimingAssumption DEF TypeOK, ExpireSplini
<1>8. TypeOK'
  BY <1>1, <1>2, <1>5, <1>6, <1>7 DEF TypeOK, inputVars, paramVars
<1>9. SplineLive'
  BY <1>1, <1>2, <1>4, <1>6, TimingAssumption
     DEF SplineLive, ExpireSplini, NoWaypoints, TypeOK
<1>10. CarKnown'
  BY <1>6 DEF IInv, CarKnown, inputVars
<1> QED BY <1>8, <1>9, <1>10 DEF IInv

\* A step of the constructor keeps the invariant.
LEMMA StartupInv == IInv /\ Startup => IInv'
<1> SUFFICES ASSUME IInv, Startup PROVE IInv'
  OBVIOUS
<1> USE DEF IInv, TypeOK, SplineLive, CarKnown, WaitPhases, LoopPhases,
            nodeVars, inputVars, paramVars
<1>1. CASE GlbWpntsCb
  BY <1>1 DEF GlbWpntsCb
<1>2. CASE GlbWpntsScaledCb
  BY <1>2 DEF GlbWpntsScaledCb
<1>3. CASE CarStateCb
  BY <1>3 DEF CarStateCb
<1>4. CASE CountReply
  BY <1>4 DEF CountReply
<1>5. ASSUME NEW flags \in [DOMAIN Sectors -> BOOLEAN], SectorsReply(flags)
      PROVE  IInv'
  BY <1>5 DEF SectorsReply
<1> QED BY <1>1, <1>2, <1>3, <1>4, <1>5 DEF Startup

\* A subscription callback keeps the invariant.
LEMMA InputsInv == IInv /\ Inputs => IInv'
<1> SUFFICES ASSUME IInv, Inputs PROVE IInv'
  OBVIOUS
<1> USE DEF IInv, TypeOK, SplineLive, CarKnown, WaitPhases, LoopPhases,
            nodeVars, inputVars, paramVars
<1>1. ASSUME NEW p \in Poses, CarStateFrenetCb(p)
      PROVE  IInv'
  <2>1. p \in Waypoint /\ p # None
    BY GeometryAssumption, NoneAssumption DEF Waypoint
  <2> QED BY <1>1, <2>1 DEF CarStateFrenetCb
<1>2. ASSUME NEW line \in Paths, NEW age \in SwitchAges,
             AvoidanceCb([wpnts |-> line, age |-> age])
      PROVE  IInv'
  <2>1. [wpnts |-> line, age |-> age] \in Avoidance
    BY GeometryAssumption, TimingAssumption DEF Avoidance
  <2> QED BY <1>2, <2>1, TimingAssumption, NoneAssumption DEF AvoidanceCb
<1>3. ASSUME NEW obs \in ObstacleArrays, ObstaclesCb(obs)
      PROVE  IInv'
  BY <1>3, GeometryAssumption DEF ObstaclesCb
<1>4. ASSUME NEW level \in {"ok", "low"}, BatteryCb(level)
      PROVE  IInv'
  BY <1>4 DEF BatteryCb
<1>5. ASSUME NEW i \in DOMAIN Sectors, NEW flag \in BOOLEAN, OtFlagCb(i, flag)
      PROVE  IInv'
  BY <1>5 DEF OtFlagCb
<1> QED BY <1>1, <1>2, <1>3, <1>4, <1>5 DEF Inputs

\* A parameter change (parameters_callback) keeps the invariant.
LEMMA OperatorInv == IInv /\ Operator => IInv'
<1> SUFFICES ASSUME IInv, Operator PROVE IInv'
  OBVIOUS
<1> USE ModeAssumption DEF IInv, TypeOK, SplineLive, CarKnown,
            nodeVars, inputVars, paramVars
<1>1. ASSUME NEW b \in BOOLEAN, SetForceState(b)
      PROVE  IInv'
  BY <1>1 DEF SetForceState
<1>2. ASSUME NEW st \in ForceChoices, SetForceStateChoice(st)
      PROVE  IInv'
  BY <1>2 DEF SetForceStateChoice
<1>3. ASSUME NEW st \in InitialStates, SetInitialState(st)
      PROVE  IInv'
  BY <1>3 DEF SetInitialState
<1>4. ASSUME NEW st \in InitialStates, SetUnknownInitialState(st)
      PROVE  IInv'
  BY <1>4 DEF SetUnknownInitialState, LoopPhases
<1> QED BY <1>1, <1>2, <1>3, <1>4 DEF Operator

\* Every step of the node keeps the invariant.
LEMMA NextInv == IInv /\ [Next]_vars => IInv'
<1> SUFFICES ASSUME IInv, [Next]_vars PROVE IInv'
  OBVIOUS
<1>1. CASE Startup
  BY <1>1, StartupInv
<1>2. CASE Inputs
  BY <1>2, InputsInv
<1>3. CASE Operator
  BY <1>3, OperatorInv
<1>4. CASE MainLoopCallback
  BY <1>4, TickInv
<1>5. CASE MainLoopDies
  BY <1>5 DEF MainLoopDies, IInv, TypeOK, SplineLive, CarKnown, LoopPhases,
              nodeVars, inputVars, paramVars
<1>6. CASE UNCHANGED vars
  BY <1>6 DEF vars, IInv, TypeOK, SplineLive, CarKnown,
              nodeVars, inputVars, paramVars
<1> QED BY <1>1, <1>2, <1>3, <1>4, <1>5, <1>6 DEF Next, MainLoop

\* The invariant always holds.
LEMMA Invariance == Spec => []IInv
  BY InitInv, NextInv, PTL DEF Spec

-----------------------------------------------------------------------------
\* Every variable keeps its type, in every mode.
THEOREM TypeCorrect == Spec => []TypeOK
<1>1. IInv => TypeOK
  BY DEF IInv
<1> QED BY <1>1, Invariance, PTL

\* The cached line, the planner's message and the time to live stay in step
\* (avoidance_cb, _check_availability_splini_wpts, main_loop_callback).
THEOREM SplineLiveAlways == Spec => []SplineLive
<1>1. IInv => SplineLive
  BY DEF IInv
<1> QED BY <1>1, Invariance, PTL

\* A ready head-to-head node has nothing left to raise: its sectors and
\* counter exist, and by SplineLive a line it splices is never empty.
LEMMA ReadyDoesNotRaise ==
  ASSUME HeadToHead, IInv, phase = "ready"
  PROVE  ~MainLoopRaises
<1>1. ~TransitionRaises
  BY DEF TransitionRaises, HeadToHead
<1>2. Decision.line # <<>>
  <2>1. Decision.line \in {last_valid, Refreshed}
    BY DecisionType DEF IInv
  <2>2. Refreshed # <<>>
    BY RefreshedType DEF IInv
  <2>3. last_valid # <<>>
    BY EmptyLine, NoneAssumption DEF IInv, SplineLive
  <2> QED BY <2>1, <2>2, <2>3
<1>3. ~StateLogicRaises(Decision.to, Decision.line)
  <2>1. Decision.line # None => Decision.line \in Seq(Waypoint)
    BY DecisionType, RefreshedType DEF IInv, TypeOK
  <2>2. Decision.line # None =>
          \A i \in DOMAIN splini_idxs(Decision.line) : splini_idxs(Decision.line)[i] \in Cells
    BY <1>2, <2>1, IdxsAre
  <2> QED
    BY <1>2, <2>2 DEF StateLogicRaises
<1> QED BY <1>1, <1>3 DEF MainLoopRaises

\* Once the constructor is through, no order of messages, parameter changes
\* and ticks leads a head-to-head race to a state in which the main loop would
\* raise an exception.
THEOREM ReadySurvives ==
  ASSUME HeadToHead
  PROVE  Spec => []SurvivesOnceReady
<1>1. IInv => SurvivesOnceReady
  BY ReadyDoesNotRaise DEF SurvivesOnceReady
<1> QED BY <1>1, Invariance, PTL

\* From every state, a head-to-head tick that was not forced chooses the bare
\* raceline only when it was free.
LEMMA RacelineDecision ==
  ASSUME HeadToHead, TypeOK, ~force_state,
         Decision.to \in {"GB_TRACK", "TRAILING_TO_GBTRACK"}
  PROVE  GbFree
<1> USE DEF Verdict
<1>1. Decision = head_to_head_transition /\ state \in StateType
  BY DEF Decision, TypeOK
<1>2. CASE state = "GB_TRACK"
  BY <1>1, <1>2 DEF head_to_head_transition, SpliniGlobalTrackingTransition
<1>3. CASE state = "TRAILING"
  BY <1>1, <1>3 DEF head_to_head_transition, SpliniTrailingTransition
<1>4. CASE state = "TRAILING_TO_GBTRACK"
  BY <1>1, <1>4 DEF head_to_head_transition, SpliniTrailingToGbtrackTransition
<1>5. CASE state = "OVERTAKE"
  BY <1>1, <1>5 DEF head_to_head_transition, SpliniOvertakingTransition
<1>6. CASE state = "FTGONLY"
  BY <1>1, <1>6 DEF head_to_head_transition, SpliniFTGOnlyTransition
<1> QED BY <1>1, <1>2, <1>3, <1>4, <1>5, <1>6 DEF StateType

\* Whatever came before, the node sends the car along the bare raceline only
\* when no obstacle was on it within the horizon (transitions.py).
THEOREM RacelineFree ==
  ASSUME HeadToHead
  PROVE  Spec => RacelineOnlyWhenFree
<1>1. IInv /\ [Next]_vars =>
        [FreeTick /\ state' \in {"GB_TRACK", "TRAILING_TO_GBTRACK"} => GbFree]_vars
  BY RacelineDecision DEF IInv, FreeTick, MainLoopCallback
<1> QED BY <1>1, Invariance, PTL DEF Spec, RacelineOnlyWhenFree

\* From every state, a head-to-head tick that was not forced starts an
\* overtake only from a trailing state and behind an obstacle.
LEMMA OvertakeDecision ==
  ASSUME HeadToHead, TypeOK, ~force_state,
         Decision.to = "OVERTAKE", state # "OVERTAKE"
  PROVE  state \in {"TRAILING", "TRAILING_TO_GBTRACK"} /\ ~GbFree
<1> USE DEF Verdict
<1>1. Decision = head_to_head_transition /\ state \in StateType
  BY DEF Decision, TypeOK
<1>2. CASE state = "GB_TRACK"
  BY <1>1, <1>2 DEF head_to_head_transition, SpliniGlobalTrackingTransition
<1>3. CASE state = "TRAILING"
  BY <1>1, <1>3 DEF head_to_head_transition, SpliniTrailingTransition, MayOvertake
<1>4. CASE state = "TRAILING_TO_GBTRACK"
  BY <1>1, <1>4 DEF head_to_head_transition, SpliniTrailingToGbtrackTransition, MayOvertake
<1>5. CASE state = "FTGONLY"
  BY <1>1, <1>5 DEF head_to_head_transition, SpliniFTGOnlyTransition
<1> QED BY <1>1, <1>2, <1>3, <1>4, <1>5 DEF StateType

\* An overtake starts only behind an obstacle that blocks the raceline, by the
\* obstacles of the very tick that decides it (transitions.py).
THEOREM OvertakeBlocked ==
  ASSUME HeadToHead
  PROVE  Spec => OvertakeOnlyWhenBlocked
<1>1. IInv /\ [Next]_vars =>
        [FreeTick /\ state' = "OVERTAKE" /\ state # "OVERTAKE" =>
           /\ state \in {"TRAILING", "TRAILING_TO_GBTRACK"}
           /\ ~GbFree]_vars
  BY OvertakeDecision DEF IInv, FreeTick, MainLoopCallback
<1> QED BY <1>1, Invariance, PTL DEF Spec, OvertakeOnlyWhenBlocked

-----------------------------------------------------------------------------
(***************************************************************************)
(* What the state machine publishes of an overtaking line, for every line  *)
(* of the planner: its waypoints are 50 mm or more of their stations apart *)
(* (graph_planner.cpp samples them at 0.1 m), it leads forwards by 0.1 m   *)
(* or more, across the finish line or not, and it fits on the track        *)
(* together with the horizon of waypoints that are published.  Where the   *)
(* waypoints are and how they are labelled behind the finish line is open. *)
(***************************************************************************)

Ahead(line) ==
  IF line[Len(line)].s > line[1].s THEN line[Len(line)].s - line[1].s
  ELSE TrackLength + line[Len(line)].s - line[1].s

PlannersLine(line) ==
  /\ \A j, k \in DOMAIN line : j # k => Abs(line[j].s - line[k].s) >= 50
  /\ Ahead(line) >= waypoints_dist
  /\ Len(splini_idxs(line)) + NLoc <= NumGlbWpnts

PlannerAssumption == \A line \in Paths : line # <<>> => PlannersLine(line)

\* The planner's message and the cached line are lines of the planner.
LinesInv ==
  /\ avoidance # None => avoidance.wpnts = <<>> \/ avoidance.wpnts \in Paths
  /\ last_valid # None => last_valid \in Paths

-----------------------------------------------------------------------------
\* The lines the node holds.

\* An available message is a line of the planner.
LEMMA RefreshedLine ==
  ASSUME LinesInv
  PROVE  Refreshed # None => Refreshed \in Paths
BY DEF Refreshed, Available, LinesInv

LEMMA NextLines ==
  ASSUME IInv, LinesInv, [Next]_vars
  PROVE  LinesInv'
<1>1. CASE MainLoopCallback
  <2>1. Decision.line # None => Decision.line \in Paths
    <3>1. Decision.line \in {last_valid, Refreshed}
      BY DecisionType DEF IInv
    <3> QED
      BY <3>1, RefreshedLine DEF LinesInv
  <2>2. ExpireSplini(Decision.line)
    BY <1>1 DEF MainLoopCallback
  <2> QED
    BY <2>1, <2>2 DEF ExpireSplini, NoWaypoints, LinesInv
<1>2. ASSUME NEW line \in Paths, NEW age \in SwitchAges,
             AvoidanceCb([wpnts |-> line, age |-> age])
      PROVE  LinesInv'
  BY <1>2 DEF AvoidanceCb, LinesInv
<1>3. CASE UNCHANGED <<avoidance, last_valid>>
  BY <1>3 DEF LinesInv
<1>4. CASE UNCHANGED vars
  BY <1>3, <1>4 DEF vars, nodeVars
<1>5. CASE Startup \/ Operator \/ MainLoopDies
  BY <1>3, <1>5 DEF Startup, GlbWpntsCb, GlbWpntsScaledCb, CarStateCb, CountReply,
     SectorsReply, Operator, SetForceState, SetForceStateChoice, SetInitialState,
     SetUnknownInitialState, MainLoopDies, nodeVars
<1>6. CASE Inputs
  BY <1>2, <1>3, <1>6 DEF Inputs, CarStateFrenetCb, ObstaclesCb, BatteryCb, OtFlagCb, nodeVars
<1> QED
  BY <1>1, <1>4, <1>5, <1>6 DEF Next, MainLoop

LEMMA LinesAlways == Spec => [](IInv /\ LinesInv)
<1>1. Init => IInv /\ LinesInv
  BY InitInv DEF Init, LinesInv
<1>2. IInv /\ LinesInv /\ [Next]_vars => (IInv /\ LinesInv)'
  BY NextInv, NextLines
<1> QED
  BY <1>1, <1>2, PTL DEF Spec

-----------------------------------------------------------------------------
\* What a tick publishes.

\* The line a tick drives along is none, or one of the planner's.
LEMMA DecidedLine ==
  ASSUME PlannerAssumption, IInv, LinesInv, ~MainLoopRaises,
         Decision.to \in {"TRAILING", "OVERTAKE"}, Decision.line # None
  PROVE  /\ Decision.line \in Seq(Waypoint) /\ Decision.line # <<>>
         /\ PlannersLine(Decision.line)
<1>1. Decision.line \in {last_valid, Refreshed}
  BY DecisionType DEF IInv
<1>2. Decision.line \in Paths
  BY <1>1, RefreshedLine DEF LinesInv
<1>3. Decision.line # <<>>
  BY DEF MainLoopRaises, StateLogicRaises
<1> QED
  BY <1>2, <1>3, GeometryAssumption DEF PlannerAssumption

\* The p-th cell a line overwrites, counted on behind the finish line.
Spot(line, p) == From(line) + (p - 1) + (IF From(line) + (p - 1) < NumGlbWpnts THEN 0 ELSE Skipped)

\* A line overwrites cells further and further ahead, less than a lap in all.
LEMMA SpotIs ==
  ASSUME NEW line \in Seq(Waypoint), line # <<>>, PlannersLine(line)
  PROVE  LET m == To(line) - From(line) IN
         /\ m \in Nat /\ DOMAIN splini_idxs(line) = 1 .. m
         /\ m + NLoc <= NumGlbWpnts
         /\ \A p \in 1 .. m :
              /\ Spot(line, p) \in Int
              /\ \/ splini_idxs(line)[p] = Spot(line, p)
                 \/ splini_idxs(line)[p] = Spot(line, p) - NumGlbWpnts
              /\ splini_idxs(line)[p] \in Cells
         /\ \A p, q \in 1 .. m :
              p < q => Spot(line, p) < Spot(line, q) /\ Spot(line, q) - Spot(line, p) <= m
<1> DEFINE m == To(line) - From(line)
<1>1. /\ NumGlbWpnts \in Nat /\ m \in Nat /\ m + NLoc <= NumGlbWpnts
      /\ From(line) \in 0 .. NumGlbWpnts /\ Skipped \in {0, 1}
      /\ DOMAIN splini_idxs(line) = 1 .. m
  BY IdxsAre, RacelineAssumption, GeometryAssumption DEF PlannersLine
<1>2. \A p \in 1 .. m :
        /\ splini_idxs(line)[p] =
             IF From(line) + p - 1 < NumGlbWpnts THEN From(line) + p - 1
             ELSE From(line) + p - 1 - NumGlbWpnts + Skipped
        /\ splini_idxs(line)[p] \in Cells
  BY IdxsAre
<1> HIDE DEF m
<1>3. ASSUME NEW p \in 1 .. m
      PROVE  /\ Spot(line, p) \in Int
             /\ \/ splini_idxs(line)[p] = Spot(line, p)
                \/ splini_idxs(line)[p] = Spot(line, p) - NumGlbWpnts
  BY <1>1, <1>2 DEF Spot
<1>4. ASSUME NEW p \in 1 .. m, NEW q \in 1 .. m, p < q
      PROVE  Spot(line, p) < Spot(line, q) /\ Spot(line, q) - Spot(line, p) <= m
  BY <1>1, <1>4 DEF Spot
<1> QED
  BY <1>1, <1>2, <1>3, <1>4 DEF m

\* A line of the planner overwrites at least one cell, and each of them once.
LEMMA WrittenOnce ==
  ASSUME NEW line \in Seq(Waypoint), line # <<>>, line # None, PlannersLine(line)
  PROVE  /\ To(line) - From(line) >= 1
         /\ \A p \in 1 .. To(line) - From(line) :
              get_splini_wpts(line)[splini_idxs(line)[p]] =
                line[IF p < Len(line) THEN p ELSE Len(line)]
<1> DEFINE N == NumGlbWpnts
           m == To(line) - From(line)
           idxs == splini_idxs(line)
<1>1. /\ N \in Nat /\ NLoc \in Nat \ {0} /\ m \in Nat /\ m + NLoc <= N
      /\ DOMAIN idxs = 1 .. m
      /\ \A p \in 1 .. m :
           /\ Spot(line, p) \in Int
           /\ idxs[p] = Spot(line, p) \/ idxs[p] = Spot(line, p) - N
           /\ idxs[p] \in Cells
      /\ \A p, q \in 1 .. m :
           p < q => Spot(line, p) < Spot(line, q) /\ Spot(line, q) - Spot(line, p) <= m
  BY SpotIs, RacelineAssumption, GeometryAssumption
<1> HIDE DEF m, idxs
<1>2. ASSUME NEW p \in 1 .. m, NEW q \in 1 .. m, idxs[p] = idxs[q]
      PROVE  p = q
  <2>1. ASSUME NEW x \in 1 .. m, NEW y \in 1 .. m, x < y
        PROVE  idxs[x] # idxs[y]
    <3>1. /\ Spot(line, x) \in Int /\ Spot(line, y) \in Int
          /\ Spot(line, x) < Spot(line, y) /\ Spot(line, y) - Spot(line, x) < N
      BY <1>1, <2>1
    <3>2. idxs[x] = Spot(line, x) \/ idxs[x] = Spot(line, x) - N
      BY <1>1
    <3>3. idxs[y] = Spot(line, y) \/ idxs[y] = Spot(line, y) - N
      BY <1>1
    <3> QED
      BY <3>1, <3>2, <3>3, <1>1
  <2> QED
    BY <1>2, <2>1
<1>3. m >= 1
  <2> DEFINE first == line[1].s
             last  == line[Len(line)].s
  <2>1. first \in Nat /\ last \in Nat /\ TrackLength \in Nat
    <3>1. line[1] \in Waypoint /\ line[Len(line)] \in Waypoint
      OBVIOUS
    <3> QED
      BY <3>1, RacelineAssumption DEF Waypoint, Stations
  <2>2. CASE last > first
    <3>1. From(line) = Cell(first) /\ To(line) = Cell(last) /\ last - first >= 100
      BY <2>2 DEF From, To, PlannersLine, Ahead, waypoints_dist
    <3> HIDE DEF first, last
    <3>2. /\ Cell(first) \in Nat /\ 200 * Cell(first) <= 2 * first + 100
          /\ Cell(last) \in Nat /\ 2 * last + 100 < 200 * Cell(last) + 200
      BY <2>1, CellIs
    <3>3. Cell(last) - Cell(first) >= 1
      BY <2>1, <3>1, <3>2
    <3> QED
      BY <3>1, <3>3 DEF m
  <2>3. CASE ~(last > first)
    <3>1. /\ From(line) = Cell(first) /\ To(line) = Cell(TrackLength + last)
          /\ TrackLength + last - first >= 100
      BY <2>3 DEF From, To, PlannersLine, Ahead, waypoints_dist
    <3> HIDE DEF first, last
    <3>2. TrackLength + last \in Nat
      BY <2>1
    <3>3. /\ Cell(first) \in Nat /\ 200 * Cell(first) <= 2 * first + 100
          /\ Cell(TrackLength + last) \in Nat
          /\ 2 * (TrackLength + last) + 100 < 200 * Cell(TrackLength + last) + 200
      BY <2>1, <3>2, CellIs
    <3>4. Cell(TrackLength + last) - Cell(first) >= 1
      BY <2>1, <3>1, <3>3
    <3> QED
      BY <3>1, <3>4 DEF m
  <2> QED
    BY <2>2, <2>3
<1>4. ASSUME NEW p \in 1 .. m
      PROVE  get_splini_wpts(line)[idxs[p]] = line[IF p < Len(line) THEN p ELSE Len(line)]
  <2>1. idxs[p] \in Cells /\ p \in DOMAIN idxs
    BY <1>1
  <2>2. PICK i \in DOMAIN idxs :
          /\ idxs[i] = idxs[p]
          /\ get_splini_wpts(line)[idxs[p]] = line[IF i < Len(line) THEN i ELSE Len(line)]
    BY <2>1, Written DEF idxs
  <2> QED
    BY <1>1, <1>2, <2>2
<1> QED
  BY <1>3, <1>4 DEF m, idxs

\* The i-th cell from the car on is the i-th from the car's, less the lap
\* behind the finish line.
LEMMA CellAheadIs ==
  ASSUME car \in Waypoint, NLoc <= NumGlbWpnts, NEW i \in 1 .. NLoc
  PROVE  /\ Cell(car.s) \in 0 .. NumGlbWpnts
         /\ \/ CellAhead(i) = Cell(car.s) + i - 1
            \/ CellAhead(i) = (Cell(car.s) + i - 1) - NumGlbWpnts
         /\ CellAhead(i) \in Cells
<1>1. car.s \in Nat /\ car.s < TrackLength
  BY RacelineAssumption DEF Waypoint, Stations
<1>2. Cell(car.s) \in 0 .. NumGlbWpnts
  <2>1. /\ Cell(car.s) \in Nat /\ 200 * Cell(car.s) <= 2 * car.s + 100
    BY <1>1, CellIs
  <2> QED
    BY <1>1, <2>1, RacelineAssumption DEF waypoints_dist
<1> HIDE DEF Cell
<1> DEFINE x == Cell(car.s) + i - 1
<1>3. x \in Nat /\ x < 2 * NumGlbWpnts
  BY <1>2, RacelineAssumption, GeometryAssumption
<1>4. CellAhead(i) = IF x < NumGlbWpnts THEN x ELSE x - NumGlbWpnts
  <2>1. CellAhead(i) = x % NumGlbWpnts
    BY DEF CellAhead
  <2> HIDE DEF x
  <2> QED
    BY <1>3, <2>1, OneLap, RacelineAssumption
<1>5. CellAhead(i) \in Cells
  BY CarCell, GeometryAssumption
<1> QED
  BY <1>2, <1>4, <1>5

\* A published waypoint that is the line's k-th and not the raceline's own
\* comes from a write of the line's k-th or, at its end, last waypoint.
LEMMA PublishedIs ==
  ASSUME NEW line \in Seq(Waypoint), line # <<>>, line # None, PlannersLine(line),
         NEW c \in Cells, NEW k \in 1 .. Len(line),
         get_splini_wpts(line)[c] = line[k], line[k] # GlbLine[c]
  PROVE  \E p \in 1 .. To(line) - From(line) :
           splini_idxs(line)[p] = c /\ k = IF p < Len(line) THEN p ELSE Len(line)
<1>1. PICK p \in DOMAIN splini_idxs(line) :
        /\ splini_idxs(line)[p] = c
        /\ get_splini_wpts(line)[c] = line[IF p < Len(line) THEN p ELSE Len(line)]
  BY Written
<1>2. p \in 1 .. To(line) - From(line) /\ To(line) - From(line) \in Nat
  BY IdxsAre
<1> DEFINE q == IF p < Len(line) THEN p ELSE Len(line)
<1>3. q \in DOMAIN line /\ k \in DOMAIN line /\ line[q] = line[k]
  <2>1. Len(line) \in Nat \ {0} /\ DOMAIN line = 1 .. Len(line)
    OBVIOUS
  <2> QED
    BY <1>1, <1>2, <2>1
<1> HIDE DEF q
<1>4. q = k
  <2>1. line[k].s \in Int
    <3>1. line[k] \in Waypoint
      BY <1>3
    <3> QED
      BY <3>1, RacelineAssumption DEF Waypoint, Stations
  <2>2. ASSUME q # k PROVE Abs(line[q].s - line[k].s) >= 50
    BY <1>3, <2>2 DEF PlannersLine
  <2> QED
    BY <1>3, <2>1, <2>2 DEF Abs
<1> QED
  BY <1>1, <1>2, <1>4 DEF q

\* What is published of a line of the planner is in the line's order.
LEMMA InOrder ==
  ASSUME NEW line \in Seq(Waypoint), line # <<>>, line # None, PlannersLine(line),
         car \in Waypoint,
         NEW i \in 1 .. NLoc, NEW j \in 1 .. NLoc, i < j,
         NEW a \in 1 .. Len(line), NEW b \in 1 .. Len(line),
         FromCar(get_splini_wpts(line))[i] = line[a], line[a] # GlbLine[CellAhead(i)],
         FromCar(get_splini_wpts(line))[j] = line[b], line[b] # GlbLine[CellAhead(j)]
  PROVE  /\ a < b \/ (a = b /\ b = Len(line))
         /\ \A m \in a .. b : \E h \in i .. j : FromCar(get_splini_wpts(line))[h] = line[m]
<1> DEFINE N == NumGlbWpnts
           M == To(line) - From(line)
           C == Cell(car.s)
           idxs == splini_idxs(line)
           V(p) == Spot(line, p)
<1>1. /\ N \in Nat /\ NLoc \in Nat \ {0} /\ M \in Nat /\ M + NLoc <= N
      /\ \A p \in 1 .. M : /\ V(p) \in Int
                           /\ idxs[p] = V(p) \/ idxs[p] = V(p) - N
                           /\ idxs[p] \in 0 .. N - 1
      /\ \A p, q \in 1 .. M : p < q => V(p) < V(q) /\ V(q) - V(p) <= M
  BY SpotIs, RacelineAssumption, GeometryAssumption DEF Cells
<1>2. /\ C \in 0 .. N
      /\ \A h \in 1 .. NLoc :
           /\ CellAhead(h) = C + h - 1 \/ CellAhead(h) = (C + h - 1) - N
           /\ CellAhead(h) \in 0 .. N - 1
           /\ CellAhead(h) \in Cells
  <2>1. NLoc <= NumGlbWpnts
    BY <1>1
  <2> QED
    BY <2>1, <1>1, CellAheadIs DEF Cells
<1>3. \A h \in 1 .. NLoc :
        FromCar(get_splini_wpts(line))[h] = get_splini_wpts(line)[CellAhead(h)]
  BY DEF FromCar
<1> HIDE DEF M, C, idxs
<1>4. PICK q \in 1 .. M : idxs[q] = CellAhead(i) /\ a = IF q < Len(line) THEN q ELSE Len(line)
  BY <1>2, <1>3, PublishedIs DEF M, idxs
<1>5. PICK r \in 1 .. M : idxs[r] = CellAhead(j) /\ b = IF r < Len(line) THEN r ELSE Len(line)
  BY <1>2, <1>3, PublishedIs DEF M, idxs
<1>6. Len(line) \in Nat \ {0}
  OBVIOUS
<1>7. V(r) - V(q) = j - i
  <2> DEFINE x == C + i - 1
             y == C + j - 1
             v == V(q)
             w == V(r)
  <2>1. x \in Int /\ y \in Int /\ y - x = j - i /\ y - x < NLoc /\ y - x > 0
    <3>1. C \in Int /\ NLoc \in Int
      BY <1>1, <1>2
    <3> QED
      BY <3>1
  <2>2. V(q) \in Int /\ V(r) \in Int /\ V(r) - V(q) <= M /\ V(q) - V(r) <= M
    <3>1. V(q) \in Int /\ V(r) \in Int
      BY <1>1
    <3>2. CASE q < r
      BY <1>1, <3>1, <3>2
    <3>3. CASE r < q
      BY <1>1, <3>1, <3>3
    <3>4. CASE q = r
      BY <1>1, <3>1, <3>4
    <3> QED
      BY <3>2, <3>3, <3>4
  <2>3. /\ CellAhead(i) = x \/ CellAhead(i) = x - N
        /\ CellAhead(j) = y \/ CellAhead(j) = y - N
        /\ CellAhead(i) \in Int /\ CellAhead(j) \in Int
    BY <1>2
  <2>4. /\ CellAhead(i) = V(q) \/ CellAhead(i) = V(q) - N
        /\ CellAhead(j) = V(r) \/ CellAhead(j) = V(r) - N
    BY <1>1, <1>4, <1>5
  <2>5. CellAhead(i) \in Int /\ CellAhead(j) \in Int
    BY <1>2
  <2> HIDE DEF x, y, v, w
  <2>6. w - v = y - x
    <3> DEFINE c == CellAhead(i)
               e == CellAhead(j)
    <3>1. /\ c = x \/ c = x - N
          /\ e = y \/ e = y - N
          /\ c = v \/ c = v - N
          /\ e = w \/ e = w - N
          /\ c \in Int /\ e \in Int
      BY <2>3, <2>4, <2>5 DEF v, w
    <3>2. v \in Int /\ w \in Int /\ w - v <= M /\ v - w <= M
      BY <2>2 DEF v, w
    <3>3. N \in Nat /\ M \in Nat /\ NLoc \in Nat /\ M + NLoc <= N
      BY <1>1
    <3> HIDE DEF c, e
    <3> QED
      BY <2>1, <3>1, <3>2, <3>3
  <2> QED
    BY <2>1, <2>6 DEF v, w
<1>8. q < r
  <2>1. /\ V(q) \in Int /\ V(r) \in Int /\ V(q) < V(r)
    BY <1>1, <1>7
  <2>2. ~(r < q)
    BY <1>1, <2>1
  <2> QED
    BY <2>1, <2>2
<1>9. a < b \/ (a = b /\ b = Len(line))
  BY <1>4, <1>5, <1>6, <1>8
<1>10. ASSUME NEW m \in a .. b
       PROVE  \E h \in i .. j : FromCar(get_splini_wpts(line))[h] = line[m]
  <2>1. CASE q < Len(line)
    <3> DEFINE h == i + (V(m) - V(q))
    <3>1. m \in q .. r /\ m \in 1 .. M /\ m <= Len(line)
      BY <1>1, <1>4, <1>5, <1>6, <2>1
    <3>2. /\ V(m) \in Int /\ V(q) \in Int /\ V(r) \in Int
          /\ V(q) <= V(m) /\ V(m) <= V(r)
      <4>1. V(m) \in Int /\ V(q) \in Int /\ V(r) \in Int
        BY <1>1, <3>1
      <4>2. V(q) <= V(m)
        <5>1. CASE q < m
          BY <1>1, <3>1, <4>1, <5>1
        <5>2. CASE q = m
          BY <4>1, <5>2
        <5> QED
          BY <3>1, <5>1, <5>2
      <4>3. V(m) <= V(r)
        <5>1. CASE m < r
          BY <1>1, <3>1, <4>1, <5>1
        <5>2. CASE m = r
          BY <4>1, <5>2
        <5> QED
          BY <3>1, <5>1, <5>2
      <4> QED
        BY <4>1, <4>2, <4>3
    <3>3. h \in i .. j /\ h \in 1 .. NLoc
      <4> DEFINE far == V(m) - V(q)
      <4>1. far \in 0 .. j - i
        BY <1>7, <3>2
      <4>2. NLoc \in Nat
        BY <1>1
      <4> HIDE DEF far
      <4>3. i + far \in i .. j /\ i + far \in 1 .. NLoc
        BY <4>1, <4>2
      <4> QED
        BY <4>3 DEF far
    <3> DEFINE x == C + h - 1
    <3>4. x \in Int /\ x - V(m) = (C + i - 1) - V(q) /\ C + i - 1 \in Int
      <4> DEFINE v == V(m)
                 u == V(q)
      <4>1. C \in Int /\ i \in Int
        BY <1>2
      <4>2. v \in Int /\ u \in Int
        BY <3>2
      <4>3. x = C + (i + (v - u)) - 1
        OBVIOUS
      <4> HIDE DEF v, u, x
      <4>4. x \in Int /\ x - v = (C + i - 1) - u /\ C + i - 1 \in Int
        BY <4>1, <4>2, <4>3
      <4> QED
        BY <4>4 DEF v, u
    <3>5. /\ CellAhead(h) = x \/ CellAhead(h) = x - N
          /\ CellAhead(h) \in 0 .. N - 1
      BY <1>2, <3>3
    <3>6. /\ idxs[m] = V(m) \/ idxs[m] = V(m) - N
          /\ idxs[m] \in 0 .. N - 1
      BY <1>1, <3>1
    <3>7. x - V(m) \in {0, N} \/ V(m) - x = N
      <4> DEFINE c == CellAhead(i)
                 z == C + i - 1
                 v == V(q)
      <4>1. (c = z \/ c = z - N) /\ c \in Int /\ N \in Nat
        BY <1>1, <1>2
      <4>2. c = v \/ c = v - N
        BY <1>1, <1>4
      <4>3. z \in Int /\ v \in Int /\ x - V(m) = z - v /\ x \in Int /\ V(m) \in Int
        BY <3>2, <3>4
      <4> HIDE DEF c, z, v
      <4>4. z - v \in {0, N} \/ v - z = N
        BY <4>1, <4>2, <4>3
      <4> HIDE DEF x
      <4> QED
        BY <4>1, <4>3, <4>4
    <3>8. CellAhead(h) = idxs[m]
      <4> DEFINE c == CellAhead(h)
                 e == idxs[m]
                 v == V(m)
      <4>1. /\ c = x \/ c = x - N
            /\ e = v \/ e = v - N
            /\ c \in 0 .. N - 1 /\ e \in 0 .. N - 1
            /\ x \in Int /\ v \in Int /\ N \in Nat
            /\ x - v \in {0, N} \/ v - x = N
        BY <1>1, <3>2, <3>4, <3>5, <3>6, <3>7
      <4> HIDE DEF c, e, v, x
      <4>2. c = e
        BY <4>1
      <4> QED
        BY <4>2 DEF c, e
    <3>9. get_splini_wpts(line)[idxs[m]] = line[IF m < Len(line) THEN m ELSE Len(line)]
      BY <3>1, WrittenOnce DEF M, idxs
    <3>10. (IF m < Len(line) THEN m ELSE Len(line)) = m
      BY <1>6, <3>1
    <3> HIDE DEF h
    <3> QED
      BY <1>3, <3>3, <3>8, <3>9, <3>10
  <2>2. CASE ~(q < Len(line))
    <3>1. m = a
      BY <1>4, <1>5, <1>6, <1>8, <2>2
    <3>2. i \in i .. j
      OBVIOUS
    <3> QED
      BY <3>1, <3>2
  <2> QED
    BY <2>1, <2>2
<1> QED
  BY <1>9, <1>10

\* The published cell next to the line's first station holds its first
\* waypoint.
LEMMA FirstWritten ==
  ASSUME NEW line \in Seq(Waypoint), line # <<>>, line # None, PlannersLine(line)
  PROVE  get_splini_wpts(line)[Cell(line[1].s) % NumGlbWpnts] = line[1]
<1>1. /\ NumGlbWpnts \in Nat \ {0}
      /\ From(line) \in 0 .. NumGlbWpnts
      /\ From(line) = NumGlbWpnts => Skipped = 0
      /\ 1 \in 1 .. To(line) - From(line)
      /\ splini_idxs(line)[1] =
           IF From(line) + 1 - 1 < NumGlbWpnts THEN From(line) + 1 - 1
           ELSE From(line) + 1 - 1 - NumGlbWpnts + Skipped
  <2>1. 1 \in 1 .. To(line) - From(line)
    <3>1. To(line) - From(line) \in Int
      BY IdxsAre
    <3> QED
      BY <3>1, WrittenOnce
  <2> QED
    BY <2>1, IdxsAre, RacelineAssumption
<1>2. From(line) % NumGlbWpnts =
        IF From(line) < NumGlbWpnts THEN From(line) ELSE From(line) - NumGlbWpnts
  BY <1>1, OneLap
<1>3. splini_idxs(line)[1] = From(line) % NumGlbWpnts
  BY <1>1, <1>2
<1>4. get_splini_wpts(line)[splini_idxs(line)[1]] = line[IF 1 < Len(line) THEN 1 ELSE Len(line)]
  BY <1>1, WrittenOnce
<1>5. (IF 1 < Len(line) THEN 1 ELSE Len(line)) = 1
  <2> DEFINE n == Len(line)
  <2>1. n \in Nat \ {0}
    OBVIOUS
  <2> HIDE DEF n
  <2>2. (IF 1 < n THEN 1 ELSE n) = 1
    BY <2>1
  <2> QED
    BY <2>2 DEF n
<1> QED
  BY <1>3, <1>4, <1>5 DEF From

\* However a line of the planner is spaced and labelled behind the finish
\* line, the fused line begins with its first waypoint and never goes back or
\* leaves one of its waypoints out (get_splini_wpts), for every raceline.
THEOREM LineInOrderAlways ==
  ASSUME HeadToHead, PlannerAssumption
  PROVE  Spec => LineInOrder
<1> DEFINE Ordered ==
      LET line == Decision.line
          On(i, k) == local_waypoints'[i] = line[k] /\ line[k] # GlbLine[CellAhead(i)]
      IN /\ \A i \in 1 .. NLoc :
              CellAhead(i) = Cell(line[1].s) % NumGlbWpnts => local_waypoints'[i] = line[1]
         /\ \A i, j \in 1 .. NLoc : \A a, b \in 1 .. Len(line) :
              i < j /\ On(i, a) /\ On(j, b) =>
                /\ a < b \/ (a = b /\ b = Len(line))
                /\ \A m \in a .. b : \E h \in i .. j : local_waypoints'[h] = line[m]
<1>1. ASSUME IInv, LinesInv, MainLoopCallback, state' \in {"TRAILING", "OVERTAKE"},
             Decision.line # None
      PROVE  Ordered
  <2> DEFINE line == Decision.line
  <2>1. /\ Decision.to = state' /\ ~MainLoopRaises /\ car \in Waypoint
        /\ local_waypoints' = DefaultStateLogic(Decision.to, Decision.line)
    BY <1>1 DEF MainLoopCallback, IInv, CarKnown, TypeOK
  <2>2. line \in Seq(Waypoint) /\ line # <<>> /\ PlannersLine(line) /\ line # None
    BY <1>1, <2>1, DecidedLine
  <2>3. local_waypoints' = FromCar(get_splini_wpts(line))
    BY <1>1, <2>1 DEF DefaultStateLogic
  <2> HIDE DEF line
  <2>4. ASSUME NEW i \in 1 .. NLoc, CellAhead(i) = Cell(line[1].s) % NumGlbWpnts
        PROVE  local_waypoints'[i] = line[1]
    <3>1. local_waypoints'[i] = get_splini_wpts(line)[CellAhead(i)]
      BY <2>3 DEF FromCar
    <3> QED
      BY <2>2, <2>4, <3>1, FirstWritten
  <2>5. ASSUME NEW i \in 1 .. NLoc, NEW j \in 1 .. NLoc, i < j,
               NEW a \in 1 .. Len(line), NEW b \in 1 .. Len(line),
               FromCar(get_splini_wpts(line))[i] = line[a], line[a] # GlbLine[CellAhead(i)],
               FromCar(get_splini_wpts(line))[j] = line[b], line[b] # GlbLine[CellAhead(j)]
        PROVE  /\ a < b \/ (a = b /\ b = Len(line))
               /\ \A m \in a .. b : \E h \in i .. j : FromCar(get_splini_wpts(line))[h] = line[m]
    BY <2>1, <2>2, <2>5, InOrder
  <2> QED
    BY <2>3, <2>4, <2>5 DEF line
<1>2. IInv /\ LinesInv /\ [Next]_vars =>
        [MainLoopCallback /\ state' \in {"TRAILING", "OVERTAKE"} /\ Decision.line # None =>
           Ordered]_vars
  BY <1>1
<1> QED
  BY <1>2, LinesAlways, PTL DEF Spec, LineInOrder

\* A decision to overtake rests on the message just checked, which is the
\* line the tick drives along.
LEMMA OvertakesAlongMessage ==
  ASSUME HeadToHead, TypeOK, ~force_state, Decision.to = "OVERTAKE"
  PROVE  /\ InOtSector /\ Available /\ OFree(avoidance.wpnts)
         /\ Decision.line = avoidance.wpnts
<1> USE DEF Verdict
<1>1. Decision = head_to_head_transition /\ state \in StateType
  BY DEF Decision, TypeOK
<1>2. CASE state = "GB_TRACK"
  BY <1>1, <1>2 DEF head_to_head_transition, SpliniGlobalTrackingTransition
<1>3. CASE state = "TRAILING"
  BY <1>1, <1>3 DEF head_to_head_transition, SpliniTrailingTransition, MayOvertake, Refreshed
<1>4. CASE state = "TRAILING_TO_GBTRACK"
  BY <1>1, <1>4
     DEF head_to_head_transition, SpliniTrailingToGbtrackTransition, MayOvertake, Refreshed
<1>5. CASE state = "OVERTAKE"
  BY <1>1, <1>5 DEF head_to_head_transition, SpliniOvertakingTransition, Refreshed
<1>6. CASE state = "FTGONLY"
  BY <1>1, <1>6 DEF head_to_head_transition, SpliniFTGOnlyTransition
<1> QED
  BY <1>1, <1>2, <1>3, <1>4, <1>5, <1>6 DEF StateType

\* A waypoint of a line within 25 mm of a station is the line's nearest one.
LEMMA NearestIs ==
  ASSUME NEW line \in Seq(Waypoint), PlannersLine(line), NEW k \in DOMAIN line,
         NEW s \in Int, Abs(line[k].s - s) < 25
  PROVE  Nearest(line, s) = line[k]
<1> DEFINE Closest(m) == \A j \in DOMAIN line :
                            /\ Abs(line[m].s - s) <= Abs(line[j].s - s)
                            /\ Abs(line[m].s - s) = Abs(line[j].s - s) => m <= j
<1>1. \A j \in DOMAIN line : line[j].s \in Int /\ j \in Int
  <2> SUFFICES ASSUME NEW j \in DOMAIN line PROVE line[j].s \in Int /\ j \in Int
    OBVIOUS
  <2>1. line[j] \in Waypoint
    OBVIOUS
  <2> QED
    BY <2>1, RacelineAssumption DEF Waypoint, Stations
<1>2. ASSUME NEW j \in DOMAIN line, j # k
      PROVE  Abs(line[k].s - s) < Abs(line[j].s - s)
  <2> DEFINE u == line[j].s
             v == line[k].s
  <2>1. Abs(u - v) >= 50
    BY <1>2 DEF PlannersLine
  <2>2. u \in Int /\ v \in Int /\ s \in Int
    BY <1>1
  <2>3. Abs(v - s) < 25
    OBVIOUS
  <2> HIDE DEF u, v
  <2>4. Abs(v - s) < Abs(u - s)
    BY <2>1, <2>2, <2>3 DEF Abs
  <2> QED
    BY <2>4 DEF u, v
<1>3. \A j \in DOMAIN line : Abs(line[j].s - s) \in Int
  <2> SUFFICES ASSUME NEW j \in DOMAIN line PROVE Abs(line[j].s - s) \in Int
    OBVIOUS
  <2> DEFINE u == line[j].s
  <2>1. u \in Int
    BY <1>1
  <2> HIDE DEF u
  <2>2. Abs(u - s) \in Int
    BY <2>1 DEF Abs
  <2> QED
    BY <2>2 DEF u
<1>4. Closest(k)
  <2> SUFFICES ASSUME NEW j \in DOMAIN line
               PROVE  /\ Abs(line[k].s - s) <= Abs(line[j].s - s)
                      /\ Abs(line[k].s - s) = Abs(line[j].s - s) => k <= j
    OBVIOUS
  <2>1. CASE j = k
    BY <1>1, <1>3, <2>1
  <2>2. CASE j # k
    BY <1>2, <1>3, <2>2
  <2> QED
    BY <2>1, <2>2
<1>5. ASSUME NEW m \in DOMAIN line, Closest(m)
      PROVE  m = k
  <2>1. Abs(line[m].s - s) <= Abs(line[k].s - s)
    BY <1>5
  <2>2. Abs(line[k].s - s) \in Int /\ Abs(line[m].s - s) \in Int
    BY <1>3
  <2> QED
    BY <2>1, <2>2, <1>2
<1>6. Nearest(line, s) = line[CHOOSE m \in DOMAIN line : Closest(m)]
  BY DEF Nearest
<1> HIDE DEF Closest
<1>7. (CHOOSE m \in DOMAIN line : Closest(m)) = k
  BY <1>4, <1>5
<1> QED
  BY <1>6, <1>7

\* What a tick that decides to overtake publishes in a cell.
LEMMA OvertakeIsClear ==
  ASSUME HeadToHead, PlannerAssumption, IInv, LinesInv, FreeTick, state' = "OVERTAKE",
         NEW i \in 1 .. NLoc, local_waypoints'[i] # GlbLine[CellAhead(i)]
  PROVE  /\ \E k \in DOMAIN avoidance.wpnts : local_waypoints'[i] = avoidance.wpnts[k]
         /\ \A o \in obstacles :
              Gap(o) < OtHorizon /\ Abs(local_waypoints'[i].s - o.s) < 25
                => Abs(local_waypoints'[i].d - o.d) >= OtWidth
<1> DEFINE line == avoidance.wpnts
<1>1. /\ Decision.to = "OVERTAKE" /\ ~MainLoopRaises /\ TypeOK /\ car \in Waypoint
      /\ local_waypoints' = DefaultStateLogic(Decision.to, Decision.line)
  BY DEF FreeTick, MainLoopCallback, IInv, CarKnown, TypeOK
<1>2. Available /\ OFree(line) /\ Decision.line = line
  BY <1>1, OvertakesAlongMessage DEF FreeTick
<1>3. avoidance \in Avoidance /\ line \in Seq(Waypoint) /\ line # <<>> /\ line # None
  BY <1>1, <1>2, NoneAssumption DEF Available, TypeOK, Avoidance
<1>4. PlannersLine(line)
  BY <1>1, <1>2, <1>3, DecidedLine
<1>5. local_waypoints' = FromCar(get_splini_wpts(line))
  BY <1>1, <1>2 DEF DefaultStateLogic
<1> HIDE DEF line
<1>6. CellAhead(i) \in Cells
  BY <1>1, CarCell, GeometryAssumption
<1>7. local_waypoints'[i] = get_splini_wpts(line)[CellAhead(i)]
  BY <1>5 DEF FromCar
<1>8. PICK k \in DOMAIN line : local_waypoints'[i] = line[k]
  BY <1>3, <1>6, <1>7, SplicedIs
<1>9. ASSUME NEW o \in obstacles, Gap(o) < OtHorizon, Abs(line[k].s - o.s) < 25
      PROVE  Abs(line[k].d - o.d) >= OtWidth
  <2>1. o.s \in Int /\ o.d \in Int
    <3>1. o \in Obstacle
      BY <1>1 DEF TypeOK
    <3> QED
      BY <3>1, RacelineAssumption DEF Obstacle, Stations
  <2>2. Nearest(line, o.s) = line[k]
    BY <1>3, <1>4, <1>9, <2>1, NearestIs
  <2>3. ~(Abs(line[k].d - o.d) < OtWidth)
    BY <1>2, <1>3, <1>9, <2>2 DEF OFree, line
  <2>4. line[k].d \in Int
    <3>1. line[k] \in Waypoint
      BY <1>3
    <3> QED
      BY <3>1 DEF Waypoint
  <2>5. Abs(line[k].d - o.d) \in Int /\ OtWidth \in Int
    BY <2>1, <2>4, GeometryAssumption DEF Abs
  <2> QED
    BY <2>3, <2>5
<1> QED
  BY <1>8, <1>9 DEF line

\* A tick that decides to overtake does so in an enabled overtaking sector,
\* publishes nothing but the raceline's waypoints and those of the planner's
\* last message, and the latter are clear of every obstacle within the horizon
\* whose station is next to theirs, for every line of the planner: the line
\* that is checked, cached and driven is the same (transitions.py,
\* get_splini_wpts).
THEOREM OvertakeLineIsClearAlways ==
  ASSUME HeadToHead, PlannerAssumption
  PROVE  Spec => OvertakeLineIsClear
<1>1. IInv /\ LinesInv /\ [Next]_vars =>
        [FreeTick /\ state' = "OVERTAKE" =>
           /\ InOtSector
           /\ \A i \in 1 .. NLoc :
                LET w == local_waypoints'[i]
                IN w # GlbLine[CellAhead(i)] =>
                     /\ \E k \in DOMAIN avoidance.wpnts : w = avoidance.wpnts[k]
                     /\ \A o \in obstacles :
                          Gap(o) < OtHorizon /\ Abs(w.s - o.s) < 25
                            => Abs(w.d - o.d) >= OtWidth]_vars
  <2> SUFFICES ASSUME IInv, LinesInv, FreeTick, state' = "OVERTAKE"
               PROVE  /\ InOtSector
                      /\ \A i \in 1 .. NLoc :
                           LET w == local_waypoints'[i]
                           IN w # GlbLine[CellAhead(i)] =>
                                /\ \E k \in DOMAIN avoidance.wpnts : w = avoidance.wpnts[k]
                                /\ \A o \in obstacles :
                                     Gap(o) < OtHorizon /\ Abs(w.s - o.s) < 25
                                       => Abs(w.d - o.d) >= OtWidth
    OBVIOUS
  <2>1. InOtSector
    BY OvertakesAlongMessage DEF FreeTick, MainLoopCallback, IInv
  <2> QED
    BY <2>1, OvertakeIsClear
<1> QED
  BY <1>1, LinesAlways, PTL DEF Spec, OvertakeLineIsClear

-----------------------------------------------------------------------------
(***************************************************************************)
(* What the two counters stand for: splini_ttl bounds the age of a cached  *)
(* line as long as the timer period is never lengthened, and               *)
(* trailing_to_gbtrack_count counts detections in a row.  Every step of    *)
(* StateMachineHistory is a step of StateMachine or leaves its variables   *)
(* alone, so the invariant proved above holds there too.                   *)
(***************************************************************************)

\* The age of the line the planner sent last, against the ticks that are left
\* of its time to live.  The tick that ends the process counts as well.
Held == avoidance # None /\ avoidance.wpnts # <<>>
AgeInv ==
  /\ timer_period \in 1 .. Period
  /\ msg_age \in Int
  /\ ~HeadToHead => avoidance = None
  /\ Held => \/ msg_age <= (TtlTicks - ttl) * Period
             \/ phase = "dead" /\ msg_age <= TtlTime

\* Nobody forces a state; the count is at most the run of free detections and
\* is zero unless the node is counting.
CountInv ==
  /\ ~force_state
  /\ free_run \in 0 .. Threshold
  /\ phase # "dead" => count <= free_run
  /\ state # "TRAILING_TO_GBTRACK" => count = 0

-----------------------------------------------------------------------------
\* The invariant of StateMachine.

\* A step with history is a step of the node or leaves the node alone.
LEMMA StepOfNode == [HistNext]_<<vars, histVars>> => [Next]_vars
BY DEF HistNext, Unrecorded, Receive, Tick, SetRateHz, Next, Inputs

LEMMA NodeInv == HistSpec => []IInv
<1>1. HistInit => IInv
  BY InitInv DEF HistInit
<1>2. IInv /\ [HistNext]_<<vars, histVars>> => IInv'
  BY StepOfNode, NextInv
<1> QED
  BY <1>1, <1>2, PTL DEF HistSpec

-----------------------------------------------------------------------------
\* The age of the cached line.

\* One tick less is one period more.
LEMMA OnePeriodMore ==
  ASSUME NEW t \in 0 .. TtlTicks
  PROVE  /\ (TtlTicks - t) * Period \in Nat
         /\ (TtlTicks - (t - 1)) * Period = (TtlTicks - t) * Period + Period
         /\ t >= 1 => (TtlTicks - t) * Period + Period <= TtlTime
<1> DEFINE k == TtlTicks - t
<1>1. k \in Nat /\ TtlTicks - (t - 1) = k + 1 /\ Period \in Nat
  BY TimingAssumption, PeriodAssumption
<1>2. t >= 1 => TtlTicks = (k + 1) + (t - 1)
  BY TimingAssumption
<1> HIDE DEF k
<1>3. k * Period \in Nat /\ (k + 1) * Period = k * Period + Period
  BY <1>1
<1>4. ASSUME t >= 1 PROVE (k + 1) * Period <= TtlTicks * Period
  <2>1. t - 1 \in Nat
    BY <1>4, TimingAssumption
  <2>2. \A r \in Nat : r * Period \in Nat /\ ((k + 1) + r) * Period = (k + 1) * Period + r * Period
    BY <1>1
  <2>3. TtlTicks * Period = (k + 1) * Period + (t - 1) * Period
    BY <1>2, <1>4, <2>1, <2>2
  <2> QED
    BY <1>1, <1>3, <2>1, <2>2, <2>3
<1>5. t >= 1 => k * Period + Period <= TtlTime
  BY <1>3, <1>4 DEF TtlTime
<1> QED
  BY <1>1, <1>3, <1>5 DEF k

LEMMA InitAge == HistInit => AgeInv
BY PeriodAssumption DEF HistInit, Init, AgeInv, Held

\* A tick adds at most the period the node started with.
LEMMA TickAge ==
  ASSUME IInv, AgeInv, Tick
  PROVE  AgeInv'
<1>1. /\ timer_period' = timer_period /\ timer_period \in 1 .. Period
      /\ msg_age \in Int /\ Period \in Nat /\ AgeCap \in Nat
  BY PeriodAssumption DEF AgeInv, Tick
<1>2. /\ msg_age' \in Int
      /\ msg_age' <= msg_age + Period \/ msg_age' = 0
  BY <1>1 DEF Tick, CappedAge
<1>3. ttl \in -1 .. TtlTicks
  BY DEF IInv, TypeOK
<1>4. Held => ttl \in 1 .. TtlTicks
  BY DEF IInv, SplineLive, Held
<1>5. phase # "dead"
  BY DEF Tick, MainLoop, MainLoopCallback, MainLoopDies, LoopPhases
<1>6. ASSUME Held
      PROVE  msg_age' <= (TtlTicks - ttl) * Period + Period
  <2>1. msg_age <= (TtlTicks - ttl) * Period /\ (TtlTicks - ttl) * Period \in Nat
    BY <1>4, <1>5, <1>6, OnePeriodMore, TimingAssumption DEF AgeInv
  <2> QED
    BY <2>1, <1>1, <1>2
<1>7. CASE MainLoopDies
  <2>1. UNCHANGED <<avoidance, ttl>> /\ phase' = "dead"
    BY <1>7 DEF MainLoopDies, nodeVars
  <2>2. Held => msg_age' <= TtlTime
    <3> SUFFICES ASSUME Held PROVE msg_age' <= TtlTime
      OBVIOUS
    <3>1. (TtlTicks - ttl) * Period + Period <= TtlTime /\ (TtlTicks - ttl) * Period \in Nat
      BY <1>4, OnePeriodMore, TimingAssumption
    <3>2. TtlTime \in Nat
      BY TimingAssumption, PeriodAssumption DEF TtlTime
    <3> QED
      BY <3>1, <3>2, <1>1, <1>2, <1>6
  <2> QED
    BY <2>1, <2>2, <1>1, <1>2 DEF AgeInv, Held
<1>8. CASE MainLoopCallback
  <2>1. CASE ~HeadToHead
    BY <2>1, <1>1, <1>2, <1>8
       DEF MainLoopCallback, ExpireSplini, AgeInv, Held
  <2>2. CASE HeadToHead /\ ttl - 1 <= 0
    <3>1. avoidance' = NoWaypoints /\ ~Held'
      BY <2>2, <1>8 DEF MainLoopCallback, ExpireSplini, Held, NoWaypoints
    <3> QED
      BY <3>1, <2>2, <1>1, <1>2 DEF AgeInv
  <2>3. CASE HeadToHead /\ ~(ttl - 1 <= 0)
    <3>1. ttl' = ttl - 1 /\ avoidance' = avoidance
      BY <2>3, <1>8 DEF MainLoopCallback, ExpireSplini
    <3>2. ASSUME Held PROVE msg_age' <= (TtlTicks - ttl') * Period
      <4>1. (TtlTicks - ttl') * Period = (TtlTicks - ttl) * Period + Period
        BY <3>1, <3>2, <1>4, OnePeriodMore, TimingAssumption
      <4> QED
        BY <4>1, <3>2, <1>6
    <3>3. Held' = Held
      BY <3>1 DEF Held
    <3> QED
      BY <3>2, <3>3, <2>3, <1>1, <1>2 DEF AgeInv
  <2> QED
    BY <2>1, <2>2, <2>3
<1> QED
  BY <1>7, <1>8 DEF Tick, MainLoop

LEMMA NextAge ==
  ASSUME Periods \subseteq 1 .. Period
  PROVE  IInv /\ AgeInv /\ [HistNext]_<<vars, histVars>> => AgeInv'
<1> SUFFICES ASSUME IInv, AgeInv, [HistNext]_<<vars, histVars>> PROVE AgeInv'
  OBVIOUS
<1>1. CASE Tick
  BY <1>1, TickAge
<1>2. ASSUME NEW m, m.wpnts # <<>>, Receive(m)
      PROVE  AgeInv'
  <2>1. ttl' = TtlTicks /\ msg_age' = -1 /\ HeadToHead /\ timer_period' = timer_period
    BY <1>2 DEF Receive, AvoidanceCb
  <2>2. TtlTicks - ttl' = 0
    BY <2>1, TimingAssumption
  <2>3. (TtlTicks - ttl') * Period = 0
    BY <2>2, PeriodAssumption
  <2> QED
    BY <2>1, <2>3 DEF AgeInv
<1>3. ASSUME NEW p \in Periods, SetRateHz(p)
      PROVE  AgeInv'
  BY <1>3 DEF SetRateHz, vars, nodeVars, AgeInv, Held
<1>4. CASE UNCHANGED histVars /\ UNCHANGED <<avoidance, ttl>>
           /\ (phase' # phase => phase # "dead")
  BY <1>4 DEF histVars, AgeInv, Held
<1>5. CASE Unrecorded /\ UNCHANGED histVars
  <2>1. UNCHANGED <<avoidance, ttl>> /\ (phase' # phase => phase # "dead")
    BY <1>5 DEF Unrecorded, Startup, GlbWpntsCb, GlbWpntsScaledCb, CarStateCb, CountReply,
                SectorsReply, CarStateFrenetCb, ObstaclesCb, BatteryCb, OtFlagCb,
                nodeVars, LoopPhases
  <2> QED
    BY <1>4, <1>5, <2>1
<1>6. CASE UNCHANGED <<vars, histVars>>
  BY <1>4, <1>6 DEF vars, nodeVars
<1>7. \A m : Receive(m) => m.wpnts # <<>>
  BY DEF Receive, AvoidanceCb
<1> QED
  BY <1>1, <1>2, <1>3, <1>5, <1>6, <1>7 DEF HistNext

\* Where the timer never gets slower than it was when splini_ttl was turned
\* into ticks, no line is cached any more once the planner has been silent for
\* splini_ttl seconds.  Run ttl_rate shows that the assumption is needed.
THEOREM CachedWithinTtlAlways ==
  ASSUME Periods \subseteq 1 .. Period
  PROVE  HistSpec => []CachedWithinTtl
<1>1. HistInit => AgeInv
  BY InitAge
<1>2. IInv /\ AgeInv /\ [HistNext]_<<vars, histVars>> => AgeInv'
  BY NextAge
<1>3. IInv /\ AgeInv => CachedWithinTtl
  <2> SUFFICES ASSUME IInv, AgeInv, last_valid # None PROVE msg_age <= TtlTime
    BY DEF CachedWithinTtl
  <2>1. Held /\ ttl \in 1 .. TtlTicks
    BY DEF IInv, SplineLive, Held
  <2>2. /\ (TtlTicks - ttl) * Period \in Nat
        /\ (TtlTicks - ttl) * Period + Period <= TtlTime
    BY <2>1, OnePeriodMore, TimingAssumption
  <2>3. TtlTime \in Nat /\ Period \in Nat /\ msg_age \in Int
    BY TimingAssumption, PeriodAssumption DEF TtlTime, AgeInv
  <2> QED
    BY <2>1, <2>2, <2>3 DEF AgeInv
<1> QED
  BY <1>1, <1>2, <1>3, NodeInv, PTL DEF HistSpec

-----------------------------------------------------------------------------
\* The count of free detections.

LEMMA InitCount == HistInit => CountInv
BY TimingAssumption DEF HistInit, Init, CountInv

\* What a tick makes of the count: it grows only on a free raceline and only
\* while the node is counting, and is zero in every other state.
LEMMA CountDecision ==
  ASSUME HeadToHead, TypeOK, CountInv
  PROVE  /\ Decision.to # "TRAILING_TO_GBTRACK" => Decision.n = 0
         /\ Decision.n = 0 \/ (Decision.n = count + 1 /\ GbFree /\ count + 1 < Threshold)
<1> USE DEF Verdict
<1>1. Decision = head_to_head_transition /\ state \in StateType /\ count \in Nat
      /\ (state # "TRAILING_TO_GBTRACK" => count = 0)
  BY DEF Decision, TypeOK, CountInv
<1>2. CASE state = "GB_TRACK"
  BY <1>1, <1>2 DEF head_to_head_transition, SpliniGlobalTrackingTransition
<1>3. CASE state = "TRAILING"
  BY <1>1, <1>3 DEF head_to_head_transition, SpliniTrailingTransition
<1>4. CASE state = "TRAILING_TO_GBTRACK"
  BY <1>1, <1>4, TimingAssumption
     DEF head_to_head_transition, SpliniTrailingToGbtrackTransition
<1>5. CASE state = "OVERTAKE"
  BY <1>1, <1>5 DEF head_to_head_transition, SpliniOvertakingTransition
<1>6. CASE state = "FTGONLY"
  BY <1>1, <1>6 DEF head_to_head_transition, SpliniFTGOnlyTransition
<1> QED
  BY <1>1, <1>2, <1>3, <1>4, <1>5, <1>6 DEF StateType

LEMMA NextCount ==
  ASSUME HeadToHead
  PROVE  IInv /\ CountInv /\ [HistNext]_<<vars, histVars>> => CountInv'
<1> SUFFICES ASSUME IInv, CountInv, [HistNext]_<<vars, histVars>> PROVE CountInv'
  OBVIOUS
<1>1. CASE Tick /\ MainLoopCallback
  <2>1. /\ free_run \in 0 .. Threshold /\ count \in Nat /\ Threshold \in Nat
        /\ count <= free_run
    BY <1>1, TimingAssumption DEF CountInv, IInv, TypeOK, MainLoopCallback, LoopPhases
  <2>2. free_run' = (IF ~GbFree THEN 0
                     ELSE IF free_run < Threshold THEN free_run + 1 ELSE Threshold)
    BY <1>1 DEF Tick
  <2>3. count' = Decision.n /\ state' = Decision.to /\ force_state' = force_state
    BY <1>1 DEF MainLoopCallback, paramVars
  <2>4. free_run' \in 0 .. Threshold
    BY <2>1, <2>2
  <2>5. /\ state' # "TRAILING_TO_GBTRACK" => count' = 0
        /\ count' = 0 \/ (count' = count + 1 /\ GbFree /\ count + 1 < Threshold)
    BY <2>3, CountDecision DEF IInv
  <2>6. count' <= free_run'
    <3>1. CASE count' = 0
      BY <3>1, <2>4
    <3>2. CASE count' = count + 1 /\ GbFree /\ count + 1 < Threshold
      <4>1. free_run' = (IF free_run < Threshold THEN free_run + 1 ELSE Threshold)
        BY <3>2, <2>2
      <4> QED
        BY <3>2, <4>1, <2>1
    <3> QED
      BY <3>1, <3>2, <2>5
  <2> QED
    BY <2>3, <2>4, <2>5, <2>6 DEF CountInv
<1>2. CASE Tick /\ MainLoopDies
  <2>1. phase' = "dead" /\ UNCHANGED <<state, count, force_state>>
    BY <1>2 DEF MainLoopDies, nodeVars, paramVars
  <2>2. free_run' \in 0 .. Threshold
    BY <1>2, TimingAssumption DEF Tick, CountInv
  <2> QED
    BY <2>1, <2>2 DEF CountInv
<1>3. CASE UNCHANGED <<state, count, force_state, free_run>>
           /\ (phase' # "dead" => phase # "dead")
  BY <1>3 DEF CountInv
<1>4. CASE Unrecorded /\ UNCHANGED histVars
  <2>1. CASE \E flags \in [DOMAIN Sectors -> BOOLEAN] : SectorsReply(flags)
    <3>1. count' = 0 /\ UNCHANGED <<state, force_state, free_run>>
      BY <2>1, <1>4 DEF SectorsReply, paramVars, histVars
    <3> QED
      BY <3>1 DEF CountInv
  <2>2. CASE ~(\E flags \in [DOMAIN Sectors -> BOOLEAN] : SectorsReply(flags))
    <3>1. UNCHANGED <<state, count, force_state>> /\ (phase' # "dead" => phase # "dead")
      BY <1>4, <2>2 DEF Unrecorded, Startup, GlbWpntsCb, GlbWpntsScaledCb, CarStateCb,
                CountReply, CarStateFrenetCb, ObstaclesCb, BatteryCb, OtFlagCb,
                nodeVars, paramVars, LoopPhases
    <3> QED
      BY <3>1, <1>3, <1>4 DEF histVars
  <2> QED
    BY <2>1, <2>2
<1>5. ASSUME NEW m, Receive(m)
      PROVE  CountInv'
  BY <1>3, <1>5 DEF Receive, AvoidanceCb, paramVars
<1>6. ASSUME NEW p, SetRateHz(p)
      PROVE  CountInv'
  BY <1>3, <1>6 DEF SetRateHz, vars, nodeVars, paramVars
<1>7. CASE UNCHANGED <<vars, histVars>>
  BY <1>3, <1>7 DEF vars, histVars, nodeVars, paramVars
<1> QED
  BY <1>1, <1>2, <1>4, <1>5, <1>6, <1>7 DEF HistNext, Tick, MainLoop

\* Trailing ends on the raceline only after Threshold detections of a free
\* raceline in a row (transitions.py), for every threshold.
THEOREM RejoinsAfterFreeRun ==
  ASSUME HeadToHead
  PROVE  HistSpec => RejoinAfterFreeRun
<1>1. HistInit => CountInv
  BY InitCount
<1>2. IInv /\ CountInv /\ [HistNext]_<<vars, histVars>> => CountInv'
  BY NextCount
<1>3. ASSUME IInv, CountInv, HistNext,
             FreeTick, state = "TRAILING_TO_GBTRACK", state' = "GB_TRACK"
      PROVE  free_run' >= Threshold
  <2>1. Tick
    BY <1>3 DEF HistNext, FreeTick, Unrecorded, Startup, GlbWpntsCb, GlbWpntsScaledCb,
       CarStateCb, CountReply, SectorsReply, CarStateFrenetCb, ObstaclesCb, BatteryCb,
       OtFlagCb, Receive, AvoidanceCb, SetRateHz, vars, nodeVars
  <2>2. SpliniTrailingToGbtrackTransition.to = "GB_TRACK"
    BY <1>3 DEF FreeTick, MainLoopCallback, Decision, head_to_head_transition
  <2>3. GbFree /\ count + 1 >= Threshold
    BY <2>2 DEF SpliniTrailingToGbtrackTransition, Verdict
  <2>4. free_run' = (IF free_run < Threshold THEN free_run + 1 ELSE Threshold)
    BY <2>1, <2>3 DEF Tick
  <2>5. count <= free_run /\ count \in Nat /\ free_run \in 0 .. Threshold
    BY <1>3 DEF CountInv, IInv, TypeOK, FreeTick, MainLoopCallback, LoopPhases
  <2> QED
    BY <2>3, <2>4, <2>5, TimingAssumption
<1>4. IInv /\ CountInv /\ [HistNext]_<<vars, histVars>> =>
        [FreeTick /\ state = "TRAILING_TO_GBTRACK" /\ state' = "GB_TRACK" =>
           free_run' >= Threshold]_<<vars, histVars>>
  BY <1>3
<1> QED
  BY <1>1, <1>2, <1>4, NodeInv, PTL DEF HistSpec, RejoinAfterFreeRun
=============================================================================
