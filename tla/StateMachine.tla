---------------------------- MODULE StateMachine ----------------------------
(***************************************************************************)
(* The race state machine node (race_stack/state_machine).  It reads the   *)
(* car's Frenet pose, the tracked obstacles and the overtaking line of the *)
(* planner, decides once per timer tick between following the raceline,    *)
(* trailing and overtaking, and publishes the decision and the local       *)
(* waypoints that go with it.                                              *)
(*                                                                         *)
(* The node spins in a single-threaded executor: each callback below is    *)
(* one atomic step, and they interleave in any order.  Stations, horizons  *)
(* and the track length are in millimetres; the raceline has one waypoint  *)
(* per started 0.1 m, its cells; d is a lateral offset in an integer unit. *)
(* Speeds, poses in the map frame and visualisation markers are left out:  *)
(* no decision reads them.                                                 *)
(***************************************************************************)
EXTENDS Integers, Sequences

CONSTANTS
  Mode,            \* "head_to_head", "timetrials" or "dummy"
  InitialState,    \* parameter initial_state
  TestOnCar,       \* parameter test_on_car: battery telemetry is subscribed
  TrackLength,     \* track_length, the last s_m of the raceline message
  NumGlbWpnts,     \* num_glb_wpnts
  Raceline,        \* the station of each waypoint of glb_wpnts
  NLoc,            \* n_loc_wpnts
  GbHorizon,       \* gb_horizon_m
  OtHorizon,       \* overtaking_horizon_m
  GbWidth,         \* lateral_width_gb_m
  OtWidth,         \* lateral_width_ot_m
  EgoWidth,        \* gb_ego_width_m
  Hyst,            \* splini_hyst_timer_sec
  TtlTicks,        \* int(splini_ttl * rate_hz)
  Threshold,       \* Trailing_to_GBtrack_counting_threshold
  Sectors,         \* the ot_interpolator's sectors, <<[start |-> , end |-> ]>>
  Poses,           \* the poses [s |-> , d |-> ] localisation may report
  ObstacleArrays,  \* the obstacle arrays perception may report (as sets)
  Paths,           \* the waypoint sequences the overtaking planner may send
  SwitchAges,      \* stamp - last_switch_time of its messages
  ForceChoices,    \* states an operator may force
  InitialStates,   \* states an operator may write into initial_state
  None             \* Python's None

StateType == {"GB_TRACK", "TRAILING", "OVERTAKE", "FTGONLY", "TRAILING_TO_GBTRACK"}

waypoints_dist == 100

Stations  == 0 .. TrackLength - 1
Cells     == 0 .. NumGlbWpnts - 1
Waypoint  == [s : Stations, d : Int]
Obstacle  == [s : Stations, d : Int]
Avoidance == [wpnts : Seq(Waypoint), age : Nat]

ASSUME ModeAssumption ==
  /\ Mode \in {"head_to_head", "timetrials", "dummy"}
  /\ InitialState \in StateType
  /\ TestOnCar \in BOOLEAN
  /\ ForceChoices \subseteq StateType

\* The raceline of each map in stack_master/maps has a waypoint for every
\* started 0.1 m of the track.
ASSUME RacelineAssumption ==
  /\ TrackLength \in Nat /\ NumGlbWpnts \in Nat \ {0}
  /\ (NumGlbWpnts - 1) * waypoints_dist < TrackLength
  /\ TrackLength <= NumGlbWpnts * waypoints_dist
  /\ Raceline \in [Cells -> Stations]

ASSUME GeometryAssumption ==
  /\ NLoc \in Nat \ {0}
  /\ GbHorizon \in Nat /\ OtHorizon \in Nat
  /\ GbWidth \in Nat /\ OtWidth \in Nat /\ EgoWidth \in Nat
  /\ Poses \subseteq Waypoint
  /\ ObstacleArrays \subseteq SUBSET Obstacle
  /\ Paths \subseteq Seq(Waypoint)

\* TtlTicks is at least 1: splini_ttl is ranged to 1 .. 5 s and rate_hz to
\* 10 .. 100 Hz by their parameter descriptors.
ASSUME TimingAssumption ==
  /\ TtlTicks \in Nat \ {0}
  /\ Threshold \in Nat
  /\ Hyst \in Nat
  /\ SwitchAges \subseteq Nat

ASSUME SectorAssumption ==
  Sectors \in Seq([start : Int, end : Int])

ASSUME NoneAssumption ==
  /\ None \notin Seq(Waypoint)
  /\ None \notin Avoidance
  /\ None \notin Waypoint

VARIABLES
  phase,          \* how far the constructor has come, "ready", or "dead"
  state,          \* self.state
  car,            \* cur_s, cur_d
  obstacles,      \* self.obstacles
  avoidance,      \* self.avoidance_wpnts
  last_valid,     \* self.last_valid_avoidance_wpnts
  ttl,            \* self.splini_ttl_counter
  count,          \* self.trailing_to_gbtrack_count
  ot_flags,       \* the ot_flag of each entry of self.ot_sectors
  force_state,    \* params.force_state
  force_choice,   \* params.force_state_choice
  battery,        \* battery_level: "unset", "ok" or "low"
  local_waypoints \* the last message on local_waypoints

nodeVars   == <<state, last_valid, avoidance, ttl, count, local_waypoints>>
inputVars  == <<car, obstacles, ot_flags, battery>>
paramVars  == <<force_state, force_choice>>
vars == <<phase, nodeVars, inputVars, paramVars>>

HeadToHead == Mode = "head_to_head"

-----------------------------------------------------------------------------
\* Constructor.  "glb" .. "pose" are its wait loops, one message each;
\* "ask_count" and "ask_sectors" its two service calls, during which the
\* main loop timer already runs; "ready" is rclpy.spin.

WaitPhases == {"glb", "scaled", "frenet", "pose"}
LoopPhases == {"ask_count", "ask_sectors", "ready"}

TypeOK ==
  /\ phase \in WaitPhases \cup LoopPhases \cup {"dead"}
  /\ state \in StateType
  /\ car \in Waypoint \cup {None}
  /\ obstacles \in SUBSET Obstacle
  /\ avoidance \in Avoidance \cup {None}
  /\ last_valid \in Seq(Waypoint) \cup {None}
  /\ ttl \in -1 .. TtlTicks
  /\ count \in Nat
  /\ ot_flags \in [DOMAIN Sectors -> BOOLEAN]
  /\ force_state \in BOOLEAN
  /\ force_choice \in StateType
  /\ battery \in {"unset", "ok", "low"}
  /\ local_waypoints \in Seq(Waypoint)

Init ==
  /\ phase = "glb"
  /\ state = InitialState
  /\ car = None
  /\ obstacles = {}
  /\ avoidance = None
  /\ last_valid = None
  /\ ttl = 0
  /\ count = 0
  /\ ot_flags = [i \in DOMAIN Sectors |-> FALSE]
  /\ force_state = FALSE
  /\ force_choice = "GB_TRACK"
  /\ battery = (IF TestOnCar THEN "unset" ELSE "ok")
  /\ local_waypoints = <<>>

\* glb_wpnts_cb and glb_wpnts_scaled_cb: afterwards the same raceline is only
\* re-sent with other speeds, which changes nothing that is modelled.
GlbWpntsCb ==
  /\ phase = "glb"
  /\ phase' = "scaled"
  /\ UNCHANGED <<nodeVars, inputVars, paramVars>>

GlbWpntsScaledCb ==
  /\ phase = "scaled"
  /\ phase' = "frenet"
  /\ UNCHANGED <<nodeVars, inputVars, paramVars>>

CarStateFrenetCb(p) ==
  /\ phase \in {"frenet", "pose"} \cup LoopPhases
  /\ car' = p
  /\ phase' = CASE phase # "frenet" -> phase
                [] phase = "frenet" /\ HeadToHead -> "pose"
                [] OTHER -> "ask_count"
  /\ UNCHANGED <<nodeVars, obstacles, ot_flags, battery, paramVars>>

CarStateCb ==
  /\ phase = "pose"
  /\ phase' = "ask_count"
  /\ UNCHANGED <<nodeVars, inputVars, paramVars>>

\* The reply with n_sectors, then the reply with the sectors themselves.
CountReply ==
  /\ phase = "ask_count"
  /\ phase' = "ask_sectors"
  /\ UNCHANGED <<nodeVars, inputVars, paramVars>>

SectorsReply(flags) ==
  /\ phase = "ask_sectors"
  /\ phase' = "ready"
  /\ ot_flags' = flags
  /\ count' = 0
  /\ UNCHANGED <<state, last_valid, avoidance, ttl, local_waypoints,
                 car, obstacles, battery, paramVars>>

-----------------------------------------------------------------------------
\* Subscriptions of head_to_head mode.

\* Mutant: an empty line overwrites the stored one.
AvoidanceCbAnyLine(m) ==
  /\ HeadToHead
  /\ phase \in LoopPhases
  /\ ttl' = TtlTicks
  /\ avoidance' = m
  /\ UNCHANGED <<phase, state, last_valid, count, local_waypoints, inputVars, paramVars>>

\* An empty line does not overwrite the stored one.
AvoidanceCb(m) ==
  /\ HeadToHead
  /\ phase \in LoopPhases
  /\ m.wpnts # <<>>
  /\ ttl' = TtlTicks
  /\ avoidance' = m
  /\ UNCHANGED <<phase, state, last_valid, count, local_waypoints, inputVars, paramVars>>

ObstaclesCb(obs) ==
  /\ HeadToHead
  /\ phase \in LoopPhases
  /\ obstacles' = obs
  /\ UNCHANGED <<phase, nodeVars, car, ot_flags, battery, paramVars>>

BatteryCb(level) ==
  /\ TestOnCar
  /\ phase # "dead"
  /\ battery' = level
  /\ UNCHANGED <<phase, nodeVars, car, obstacles, ot_flags, paramVars>>

\* The sector is found by the last digit of its index in the parameter name.
OtFlagCb(i, flag) ==
  /\ phase = "ready"
  /\ ot_flags' = [ot_flags EXCEPT ![((i - 1) % 10) + 1] = flag]
  /\ UNCHANGED <<phase, nodeVars, car, obstacles, battery, paramVars>>

\* parameters_callback is registered before the first wait loop.  It writes
\* initial_state into node.state, which the constructor overwrites when it
\* comes after; the others have a field of their own.
SetForceState(b) ==
  /\ phase # "dead"
  /\ force_state' = b
  /\ UNCHANGED <<phase, nodeVars, inputVars, force_choice>>

SetForceStateChoice(st) ==
  /\ phase # "dead"
  /\ force_choice' = st
  /\ UNCHANGED <<phase, nodeVars, inputVars, force_state>>

SetInitialState(st) ==
  /\ phase \in LoopPhases
  /\ st \in StateType
  /\ state' = st
  /\ UNCHANGED <<phase, last_valid, avoidance, ttl, count, local_waypoints, inputVars, paramVars>>

\* StateType(param.value) raises ValueError for any other string, in the
\* service call that sets the parameter, and ends the node.
SetUnknownInitialState(st) ==
  /\ phase # "dead"
  /\ st \notin StateType
  /\ phase' = "dead"
  /\ UNCHANGED <<nodeVars, inputVars, paramVars>>

-----------------------------------------------------------------------------
\* What the transitions ask about the inputs.

Abs(x) == IF x < 0 THEN -x ELSE x

\* Distance along the track from the car to an obstacle, wrapped.
Gap(o) == (o.s - car.s) % TrackLength

\* _check_gbfree: no obstacle ahead within the horizon and on the raceline.
GbFree == \A o \in obstacles : ~(Gap(o) < GbHorizon /\ Abs(o.d) < GbWidth)

\* _check_close_to_raceline
CloseToRaceline == Abs(car.d) < EgoWidth

\* _check_ot_sector; self.ot_sectors is [] until the second reply.
InOtSector ==
  /\ phase = "ready"
  /\ \E i \in DOMAIN Sectors :
       /\ ot_flags[i]
       /\ Sectors[i].start * waypoints_dist <= car.s
       /\ car.s <= (Sectors[i].end + 1) * waypoints_dist

\* The waypoint of a line next to a station: numpy.argmin of the absolute
\* difference takes the first minimum and does not wrap around the track.
Nearest(line, s) ==
  line[CHOOSE i \in DOMAIN line :
         \A j \in DOMAIN line :
            /\ Abs(line[i].s - s) <= Abs(line[j].s - s)
            /\ Abs(line[i].s - s) = Abs(line[j].s - s) => i <= j]

\* _check_ofree, of the given last valid line.
OFree(line) ==
  \/ line = None
  \/ \A o \in obstacles :
       ~ /\ Gap(o) < OtHorizon
         /\ line # <<>>
         /\ Abs(Nearest(line, o.s).d - o.d) < OtWidth

\* _check_availability_splini_wpts: its verdict, and the last valid line it
\* leaves behind when it is evaluated.
Available ==
  /\ avoidance # None
  /\ avoidance.wpnts # <<>>
  /\ avoidance.age >= Hyst

\* Mutant: the line is cached before it is checked.
RefreshedUnchecked == IF avoidance # None THEN avoidance.wpnts ELSE last_valid

Refreshed == IF Available THEN avoidance.wpnts ELSE last_valid

-----------------------------------------------------------------------------
\* transitions.py: what each state decides, the last valid line and the
\* free-detection count it leaves.  only_ftg_zones is always empty and
\* ftg_disabled always set, so no transition enters FTGONLY.

Verdict(st, line, n) == [to |-> st, line |-> line, n |-> n]

SpliniGlobalTrackingTransition ==
  Verdict(IF GbFree THEN "GB_TRACK" ELSE "TRAILING", last_valid, count)

\* Mutant: the freedom of the line cached before the refresh.
MayOvertakeStale == ~GbFree /\ InOtSector /\ Available /\ OFree(last_valid)

\* May the car leave the raceline now, along the line just refreshed?
MayOvertake == ~GbFree /\ InOtSector /\ Available /\ OFree(Refreshed)

\* Availability is evaluated in the last two branches, at the latest by the
\* arguments of the print in the last one.
SpliniTrailingTransition ==
  IF ~GbFree /\ ~InOtSector
  THEN Verdict("TRAILING", last_valid, count)
  ELSE IF GbFree /\ CloseToRaceline
  THEN Verdict("TRAILING_TO_GBTRACK", last_valid, count)
  ELSE Verdict(IF MayOvertake THEN "OVERTAKE" ELSE "TRAILING", Refreshed, count)

\* Mutants: the count survives a detour; the count is not kept.
TrailingToGbtrackNoReset ==
  IF GbFree /\ CloseToRaceline
  THEN IF count + 1 >= Threshold
       THEN Verdict("GB_TRACK", last_valid, 0)
       ELSE Verdict("TRAILING_TO_GBTRACK", last_valid, count + 1)
  ELSE Verdict(IF MayOvertake THEN "OVERTAKE" ELSE "TRAILING",
               IF ~GbFree /\ InOtSector THEN Refreshed ELSE last_valid,
               count)
TrailingToGbtrackNoCount ==
  IF GbFree /\ CloseToRaceline
  THEN IF count + 1 >= Threshold
       THEN Verdict("GB_TRACK", last_valid, 0)
       ELSE Verdict("TRAILING_TO_GBTRACK", last_valid, count)
  ELSE Verdict("TRAILING", last_valid, 0)

SpliniTrailingToGbtrackTransition ==
  IF GbFree /\ CloseToRaceline
  THEN IF count + 1 >= Threshold
       THEN Verdict("GB_TRACK", last_valid, 0)
       ELSE Verdict("TRAILING_TO_GBTRACK", last_valid, count + 1)
  ELSE Verdict(IF MayOvertake THEN "OVERTAKE" ELSE "TRAILING",
               IF ~GbFree /\ InOtSector THEN Refreshed ELSE last_valid,
               0)

\* Mutant: the raceline is not checked when the sector ends.
OvertakingTransitionUnchecked ==
  Verdict(IF ~OFree(Refreshed) THEN "TRAILING"
          ELSE IF InOtSector /\ Available THEN "OVERTAKE"
          ELSE IF ~InOtSector THEN "GB_TRACK"
          ELSE "TRAILING",
          Refreshed, count)

SpliniOvertakingTransition ==
  Verdict(IF ~OFree(Refreshed) THEN "TRAILING"
          ELSE IF InOtSector /\ Available THEN "OVERTAKE"
          ELSE IF ~InOtSector /\ GbFree THEN "GB_TRACK"
          ELSE "TRAILING",
          Refreshed, count)

SpliniFTGOnlyTransition ==
  Verdict(IF CloseToRaceline /\ GbFree THEN "GB_TRACK" ELSE "FTGONLY",
          last_valid, count)

head_to_head_transition ==
  CASE state = "GB_TRACK"            -> SpliniGlobalTrackingTransition
    [] state = "TRAILING"            -> SpliniTrailingTransition
    [] state = "TRAILING_TO_GBTRACK" -> SpliniTrailingToGbtrackTransition
    [] state = "OVERTAKE"            -> SpliniOvertakingTransition
    [] state = "FTGONLY"             -> SpliniFTGOnlyTransition

\* timetrials_transition, and what dummy_transition returns when it returns.
Decision ==
  IF force_state THEN Verdict(force_choice, last_valid, count)
  ELSE IF HeadToHead THEN head_to_head_transition
  ELSE Verdict("GB_TRACK", last_valid, count)

\* When evaluating the transition raises: iterating over ot_sectors while it
\* is None, counting before the constructor has set the counter and its
\* threshold, and the names dummy_transition uses that do not exist
\* (battery_level before the first message, StateType.LOW_BAT).
TransitionRaises ==
  /\ ~force_state
  /\ \/ /\ HeadToHead
        /\ phase = "ask_count"
        /\ state \in {"TRAILING", "TRAILING_TO_GBTRACK", "OVERTAKE"}
     \/ /\ HeadToHead
        /\ phase = "ask_sectors"
        /\ state = "TRAILING_TO_GBTRACK" /\ GbFree /\ CloseToRaceline
     \/ /\ Mode = "dummy"
        /\ state # "GB_TRACK" \/ battery # "ok"

-----------------------------------------------------------------------------
\* states.py: the local waypoints of each state.

\* int(s_m / waypoints_dist + 0.5), the cell next to a station.
Cell(s) == (2 * s + waypoints_dist) \div (2 * waypoints_dist)

GlbLine == [c \in Cells |-> [s |-> Raceline[c], d |-> 0]]

\* Mutant: across the finish line the range ends as if there were none.
splini_idxsNoLap(line) ==
  LET from == Cell(line[1].s)
      to   == Cell(line[Len(line)].s)
  IN [i \in 1 .. to - from |-> from + i - 1]

\* The cells a line overwrites, in the order of its waypoints: from its first
\* station to, excluding, its last one.  Across the finish line a cell is the
\* remainder of a multiple of 0.1 m by the track length, rounded.
splini_idxs(line) ==
  LET first  == line[1].s
      last   == line[Len(line)].s
      from   == Cell(first)
      to     == IF last > first THEN Cell(last) ELSE Cell(TrackLength + last)
      idx(k) == IF last > first THEN k ELSE Cell((k * waypoints_dist) % TrackLength)
  IN [i \in 1 .. to - from |-> idx(from + i - 1)]

\* get_splini_wpts: the i-th of these cells gets the i-th waypoint, or the
\* last one when there are more cells than waypoints; a later write wins.
get_splini_wpts(line) ==
  IF line = None THEN GlbLine
  ELSE LET idxs == splini_idxs(line)
           latest(c) == CHOOSE i \in DOMAIN idxs :
                          idxs[i] = c /\ \A j \in i + 1 .. Len(idxs) : idxs[j] # c
       IN [c \in Cells |->
             IF \A i \in DOMAIN idxs : idxs[i] # c THEN GlbLine[c]
             ELSE line[IF latest(c) < Len(line) THEN latest(c) ELSE Len(line)]]

\* The i-th cell from the car on.
CellAhead(i) == (Cell(car.s) + i - 1) % NumGlbWpnts

FromCar(glb) == [i \in 1 .. NLoc |-> glb[CellAhead(i)]]

\* Trailing and Overtaking follow the last valid line; FTGOnly returns no
\* waypoints, and an empty array is not published.
DefaultStateLogic(st, line) ==
  CASE st \in {"GB_TRACK", "TRAILING_TO_GBTRACK"} -> FromCar(GlbLine)
    [] st \in {"TRAILING", "OVERTAKE"}            -> FromCar(get_splini_wpts(line))
    [] st = "FTGONLY"                             -> local_waypoints

\* When it raises: outside head_to_head the attribute for the last valid line
\* does not exist, an empty line has no last element, and a cell behind the
\* end of the raceline cannot be written.
StateLogicRaises(st, line) ==
  /\ st \in {"TRAILING", "OVERTAKE"}
  /\ \/ ~HeadToHead
     \/ line = <<>>
     \/ /\ line \notin {None, <<>>}
        /\ LET idxs == splini_idxs(line)
           IN ~ \A i \in DOMAIN idxs : idxs[i] \in Cells

-----------------------------------------------------------------------------
\* main_loop_callback.

NoWaypoints == [wpnts |-> <<>>, age |-> 0]

\* Mutants: the counter has no floor; only the message is dropped.
ExpireSpliniNoFloor(line) ==
  IF ttl - 1 <= 0
  THEN last_valid' = None /\ avoidance' = NoWaypoints /\ ttl' = ttl - 1
  ELSE last_valid' = line /\ ttl' = ttl - 1 /\ UNCHANGED avoidance
ExpireSpliniKeepLine(line) ==
  IF ttl - 1 <= 0
  THEN last_valid' = line /\ avoidance' = NoWaypoints /\ ttl' = -1
  ELSE last_valid' = line /\ ttl' = ttl - 1 /\ UNCHANGED avoidance

\* Count one tick off the time to live; at its end forget both lines.
ExpireSplini(line) ==
  IF ~HeadToHead
  THEN last_valid' = line /\ UNCHANGED <<avoidance, ttl>>
  ELSE IF ttl - 1 <= 0
  THEN last_valid' = None /\ avoidance' = NoWaypoints /\ ttl' = -1
  ELSE last_valid' = line /\ ttl' = ttl - 1 /\ UNCHANGED avoidance

MainLoopRaises ==
  TransitionRaises \/ StateLogicRaises(Decision.to, Decision.line)

MainLoopCallback ==
  /\ phase \in LoopPhases
  /\ UNCHANGED <<phase, inputVars, paramVars>>
  /\ ~MainLoopRaises
  /\ \E decision \in {Decision} :
       /\ state' = decision.to
       /\ count' = decision.n
       /\ local_waypoints' = DefaultStateLogic(decision.to, decision.line)
       /\ ExpireSplini(decision.line)

\* The exception leaves rclpy.spin and ends the process.
MainLoopDies ==
  /\ phase \in LoopPhases
  /\ phase' = "dead"
  /\ UNCHANGED <<nodeVars, inputVars, paramVars>>
  /\ MainLoopRaises

MainLoop == MainLoopCallback \/ MainLoopDies

Startup ==
  \/ GlbWpntsCb
  \/ GlbWpntsScaledCb
  \/ CarStateCb
  \/ CountReply
  \/ \E flags \in [DOMAIN Sectors -> BOOLEAN] : SectorsReply(flags)

Inputs ==
  \/ \E p \in Poses : CarStateFrenetCb(p)
  \/ \E line \in Paths, age \in SwitchAges : AvoidanceCb([wpnts |-> line, age |-> age])
  \/ \E obs \in ObstacleArrays : ObstaclesCb(obs)
  \/ \E level \in {"ok", "low"} : BatteryCb(level)
  \/ \E i \in DOMAIN Sectors, flag \in BOOLEAN : OtFlagCb(i, flag)

Operator ==
  \/ \E b \in BOOLEAN : SetForceState(b)
  \/ \E st \in ForceChoices : SetForceStateChoice(st)
  \/ \E st \in InitialStates : SetInitialState(st) \/ SetUnknownInitialState(st)

Next == Startup \/ Inputs \/ Operator \/ MainLoop

Spec == Init /\ [][Next]_vars

\* The timer fires at rate_hz and the single-threaded executor serves it.
FairSpec == Spec /\ WF_vars(MainLoop)

-----------------------------------------------------------------------------
\* Properties.

\* A timer tick that was left to the transition function.
FreeTick == MainLoopCallback /\ ~force_state

\* The cached line, the planner message it came from and the time to live stay
\* in step: whenever a line is cached or a message is held, ticks are left
\* before both are dropped; the message is never dropped before the cached
\* line, and a cached line is never empty, so that get_splini_wpts can splice
\* it (avoidance_cb, _check_availability_splini_wpts, main_loop_callback).
SplineLive ==
  /\ last_valid # None =>
       /\ last_valid # <<>>
       /\ avoidance # None /\ avoidance.wpnts # <<>>
  /\ avoidance # None /\ avoidance.wpnts # <<>> => ttl \in 1 .. TtlTicks

\* Once the constructor is through, no order of messages, parameter changes
\* and ticks leads to a state in which the main loop of a head-to-head race
\* would raise an exception.
SurvivesOnceReady == phase = "ready" => ~MainLoopRaises

\* However the planner spaces its waypoints and labels them behind the finish
\* line, get_splini_wpts fuses them with the raceline so that the car drives
\* them in their order: the published cell next to the line's first station
\* holds its first waypoint, and from one published waypoint of the line to a
\* later one it never goes back and leaves none out; only the last one may be
\* repeated.
LineInOrder ==
  [][MainLoopCallback /\ state' \in {"TRAILING", "OVERTAKE"} /\ Decision.line # None =>
       LET line == Decision.line
           On(i, k) == local_waypoints'[i] = line[k] /\ line[k] # GlbLine[CellAhead(i)]
       IN /\ \A i \in 1 .. NLoc :
               CellAhead(i) = Cell(line[1].s) % NumGlbWpnts => local_waypoints'[i] = line[1]
          /\ \A i, j \in 1 .. NLoc : \A a, b \in 1 .. Len(line) :
               i < j /\ On(i, a) /\ On(j, b) =>
                 /\ a < b \/ (a = b /\ b = Len(line))
                 /\ \A m \in a .. b : \E h \in i .. j : local_waypoints'[h] = line[m]]_vars

\* When a tick decides to overtake, the car is in an enabled overtaking sector
\* and drives the line of the planner's last message: every waypoint published
\* is one of it or the raceline's own, and one of it within 25 mm of the
\* station of an obstacle within the horizon is clear of that obstacle.  The
\* line that was checked, cached and driven is the same.
OvertakeLineIsClear ==
  [][FreeTick /\ state' = "OVERTAKE" =>
       /\ InOtSector
       /\ \A i \in 1 .. NLoc :
            LET w == local_waypoints'[i]
            IN w # GlbLine[CellAhead(i)] =>
                 /\ \E k \in DOMAIN avoidance.wpnts : w = avoidance.wpnts[k]
                 /\ \A o \in obstacles :
                      Gap(o) < OtHorizon /\ Abs(w.s - o.s) < 25 => Abs(w.d - o.d) >= OtWidth]_vars

\* The node sends the car along the bare raceline at race speed only when no
\* obstacle was on it within the horizon, whichever state it comes from.
RacelineOnlyWhenFree ==
  [][FreeTick /\ state' \in {"GB_TRACK", "TRAILING_TO_GBTRACK"} => GbFree]_vars

\* An overtake starts only from a trailing state, behind an obstacle that
\* blocks the raceline.
OvertakeOnlyWhenBlocked ==
  [][FreeTick /\ state' = "OVERTAKE" /\ state # "OVERTAKE" =>
       /\ state \in {"TRAILING", "TRAILING_TO_GBTRACK"}
       /\ ~GbFree]_vars

\* Once only the timer runs any more and the car is on a free raceline, the
\* node ends up tracking the raceline, from every state it can be in.
RejoinsRaceline ==
  /\ <>[][MainLoop]_vars
  /\ <>[](phase = "ready" /\ ~force_state /\ obstacles = {} /\ CloseToRaceline)
  => <>[](state = "GB_TRACK")

\* Once the planner falls silent, a cached line is dropped for good, in every
\* state and also while a state is forced.
SplineExpires ==
  <>[][MainLoop]_vars /\ <>[](phase \in LoopPhases) => <>[](last_valid = None)

-----------------------------------------------------------------------------
\* What the documentation says and the code does not do.

\* The description of parameter initial_state offers every state: a race that
\* starts in one of them runs.
InitialStateUsable == phase # "dead"
=============================================================================
