------------------------------- MODULE Tracking -------------------------------
(***************************************************************************)
(* The opponent tracker, perception_cpp/src/tracking.cpp.                  *)
(*                                                                         *)
(* The detector sends arrays of obstacles; a timer matches the last array  *)
(* with the tracks it keeps, decides which of them stand still, feeds one  *)
(* Kalman filter, the opponent, from those that move, and publishes what   *)
(* the state machine and the planner take for the obstacles on the track.  *)
(*                                                                         *)
(* Stations are cells of the raceline, lateral offsets and sizes are left  *)
(* out.  The floating-point parts are choices: the standard deviations of  *)
(* a track make it static or dynamic, a mean and a filter update end       *)
(* between the old value and the measurement, a prediction moves by one of *)
(* Drift and may make the filter too uncertain to be published.            *)
(***************************************************************************)
EXTENDS Integers, SequencesExt

CONSTANTS
  TrackLen,     \* raceline_length(), in cells
  MaxDist,      \* max_dist: a match is closer than this
  Aggro,        \* aggro_multi: factor of max_dist beside the opponent
  InFrontDist,  \* dist_infront
  Deletion,     \* dist_deletion
  Ttl,          \* sd_ttl
  MinMeas,      \* sd_min_nb_meas
  Confirm,      \* a track is published after more measurements than this
  OppTtl,       \* ticks the opponent outlives its last measurement
  PlausibleVs,  \* three times the accepted speeds, in cells per tick
  Drift,        \* cells a prediction may move the opponent by
  Detections,   \* the arrays the detector may send, sequences of cells
  Poses,        \* the stations the car may report
  Switches,     \* the Boolean parameters an operator changes
  None

ASSUME TrackingAssumption ==
  /\ TrackLen \in Nat \ {0}
  /\ {MaxDist, Aggro, OppTtl} \subseteq Nat \ {0}
  /\ {InFrontDist, Deletion, Ttl, MinMeas, Confirm} \subseteq Nat
  /\ PlausibleVs \subseteq Int /\ Drift \subseteq Int
  /\ Poses \subseteq 0..TrackLen - 1
  /\ Detections \subseteq Seq(0..TrackLen - 1)
  /\ Switches \subseteq {"noMemoryMode", "publish_static"}
  /\ None \notin Int

VARIABLES
  path,       \* initialized_track_
  car_s,      \* last station of the car, or None
  meas,       \* meas_obstacles_, the last array, never consumed
  tracked,    \* the tracks, oldest first
  opponent,   \* the Kalman filter
  params,     \* the Boolean parameters
  obstacles,  \* last message on /perception/obstacles
  raw,        \* last message on /perception/raw_obstacles
  quiet       \* history: ticks in a row without a detection and without memory

vars == <<path, car_s, meas, tracked, opponent, params, obstacles, raw, quiet>>

Cells == 0..TrackLen - 1
Abs(n) == IF n < 0 THEN -n ELSE n

\* wrap_s_residual_sym and wrap_s_coord, on cells.
Residual(ds) ==
  LET r == ds % TrackLen IN IF 2 * r >= TrackLen THEN r - TrackLen ELSE r
Wrap(s) == s % TrackLen

\* Where an average of two stations may end: on the shorter arc between them.
Between(a, b) ==
  LET d == Residual(b - a)
  IN {Wrap(a + (IF d < 0 THEN -k ELSE k)) : k \in 0..Abs(d)}

InFront(s) == LET d == Residual(s - car_s) IN 0 < d /\ d < InFrontDist

\* Counts beyond both thresholds are alike.
NbCap == 1 + (IF MinMeas > Confirm THEN MinMeas ELSE Confirm)

\* Identifiers are only compared: a fresh one is one nothing carries any more.
Fresh(trks, opp) ==
  CHOOSE i \in 1..Len(trks) + 2 :
    (\A k \in DOMAIN trks : trks[k].id # i) /\ ~(opp.init /\ opp.id = i)

NewTrack(i, s) ==
  [id |-> i, meas_s |-> <<s>>, mean |-> s, nb |-> 0, ttl |-> Ttl,
   flag |-> "unknown", front |-> TRUE, visible |-> TRUE]

NoOpponent == [init |-> FALSE, id |-> 0, s |-> 0, ttl |-> 0, sure |-> FALSE]

Init ==
  /\ path = FALSE
  /\ car_s = None
  /\ meas = <<>>
  /\ tracked = <<>>
  /\ opponent = NoOpponent
  /\ params = [p \in {"noMemoryMode", "publish_static"} |-> TRUE]
  /\ obstacles = {} /\ raw = {}
  /\ quiet = 0

-----------------------------------------------------------------------------
(* Matching a track with the measurements that are left.                   *)

\* The index of the first closest candidate, or 0.  The distance does not
\* wrap at the finish line.
ClosestWithin(maxd, s, cands) ==
  LET near == {i \in DOMAIN cands : Abs(s - cands[i]) < maxd}
      closer(i, j) == LET a == Abs(s - cands[i]) b == Abs(s - cands[j])
                      IN a < b \/ (a = b /\ i <= j)
  IN IF near = {} THEN 0 ELSE CHOOSE i \in near : \A j \in near : closer(i, j)

\* Mutant: without the second search at the track's own mean.
VerifyPositionOpponentOnly(t, cands, opp) ==
  IF t.flag = "dynamic" /\ opp.init THEN ClosestWithin(Aggro * MaxDist, opp.s, cands)
  ELSE ClosestWithin(MaxDist, t.mean, cands)

\* A moving track is looked for beside the opponent first, then at its mean.
VerifyPosition(t, cands, opp) ==
  LET follow == t.flag = "dynamic" /\ opp.init
      maxd   == IF follow THEN Aggro * MaxDist ELSE MaxDist
      match  == ClosestWithin(maxd, IF follow THEN opp.s ELSE t.mean, cands)
  IN IF match = 0 /\ t.flag = "dynamic"
     THEN ClosestWithin(maxd, t.mean, cands) ELSE match

\* Mutant: a track that is seen again stays marked as behind the car.
UpdatedKeepsFront(t, s) ==
  {[t EXCEPT !.meas_s = Append(SubSeq(@, IF Len(@) = 3 THEN 2 ELSE 1, Len(@)), s),
             !.mean = IF t.nb = 0 THEN s ELSE @, !.nb = IF @ < NbCap THEN @ + 1 ELSE @,
             !.ttl = Ttl, !.flag = flag, !.visible = TRUE] :
      flag \in IF t.nb >= MinMeas THEN {"static", "dynamic"} ELSE {"unknown"}}

\* updateTrackedObstacle: the measurement enters the track and the standard
\* deviations decide what it is.  Of the measurements the last three matter.
Updated(t, s) ==
  LET nb == IF t.nb < NbCap THEN t.nb + 1 ELSE NbCap
      ms == Append(t.meas_s, s)
  IN {[id |-> t.id, meas_s |-> IF Len(ms) > 3 THEN Tail(ms) ELSE ms, mean |-> mean,
       nb |-> nb, ttl |-> Ttl, flag |-> flag, front |-> TRUE, visible |-> TRUE] :
        mean \in IF t.nb = 0 THEN {s} ELSE Between(t.mean, s),
        flag \in IF nb > MinMeas THEN {"static", "dynamic"} ELSE {"unknown"}}

\* Three times the speed between the last three measurements.
Vs(t) == 2 * (t.meas_s[3] - t.meas_s[2]) + (t.meas_s[2] - t.meas_s[1])

\* A moving track feeds the opponent, or becomes it.
Fed(t, opp) ==
  LET s == Last(t.meas_s)
      refreshed(x) == [init |-> TRUE, id |-> t.id, s |-> x, ttl |-> OppTtl, sure |-> TRUE]
  IN IF t.flag # "dynamic" \/ (opp.init /\ Len(t.meas_s) < 3) THEN {opp}
     ELSE IF ~opp.init THEN {refreshed(s)}
     ELSE IF Vs(t) \in PlausibleVs THEN {refreshed(x) : x \in Between(opp.s, s)}
     ELSE {NoOpponent}

\* A track without a measurement ages; with memory, a static one only where
\* the car ought to see it.
Aged(t, fov) ==
  LET front == IF t.flag = "unknown" THEN t.front ELSE InFront(Last(t.meas_s))
      near  == Wrap(Last(t.meas_s) - car_s) < Deletion
      kept  == t.flag = "static" /\ ~params.noMemoryMode /\ ~(near /\ fov)
  IN [t EXCEPT !.front = front,
               !.ttl = IF kept THEN @ ELSE @ - 1,
               !.visible = IF t.flag # "static" \/ params.noMemoryMode THEN @ ELSE ~kept]

\* Mutant: a measurement stays available after a track has used it.
TrackTurnReuses(acc, t) ==
  LET i == VerifyPosition(t, acc.left, acc.opp)
  IN IF i # 0
     THEN UNION {{[acc EXCEPT !.kept = Append(@, u), !.opp = o] : o \in Fed(u, acc.opp)} :
                   u \in Updated(t, acc.left[i])}
     ELSE IF t.ttl <= 0 THEN {acc}
     ELSE {[acc EXCEPT !.kept = Append(@, Aged(t, fov))] : fov \in BOOLEAN}

\* Mutant: an expired track is aged once more instead of being removed.
TrackTurnLate(acc, t) ==
  LET i == VerifyPosition(t, acc.left, acc.opp)
  IN IF i # 0
     THEN UNION {{[kept |-> Append(acc.kept, u), left |-> RemoveAt(acc.left, i), opp |-> o] :
                    o \in Fed(u, acc.opp)} : u \in Updated(t, acc.left[i])}
     ELSE IF t.ttl < 0 THEN {acc}
     ELSE {[acc EXCEPT !.kept = Append(@, Aged(t, fov))] : fov \in BOOLEAN}

\* One turn of the loop over the tracks: the outcomes for a track, the tracks
\* kept so far, the measurements left and the opponent.
TrackTurn(acc, t) ==
  LET i == VerifyPosition(t, acc.left, acc.opp)
  IN IF i # 0
     THEN UNION {{[kept |-> Append(acc.kept, u), left |-> RemoveAt(acc.left, i), opp |-> o] :
                    o \in Fed(u, acc.opp)} : u \in Updated(t, acc.left[i])}
     ELSE IF t.ttl <= 0 THEN {acc}
     ELSE {[acc EXCEPT !.kept = Append(@, Aged(t, fov))] : fov \in BOOLEAN}

\* Mutant: the opponent is kept when its time to live is over.
OpponentAgedForever(opp) ==
  IF ~opp.init THEN NoOpponent ELSE [opp EXCEPT !.ttl = IF @ > 0 THEN @ - 1 ELSE 0]

OpponentAged(opp) ==
  IF ~opp.init \/ opp.ttl <= 0 THEN NoOpponent ELSE [opp EXCEPT !.ttl = @ - 1]

\* The loop over the tracks, from the oldest on.
Turns(opp) ==
  LET turns[i \in 0..Len(tracked)] ==
        IF i = 0 THEN {[kept |-> <<>>, left |-> meas, opp |-> opp]}
        ELSE UNION {TrackTurn(acc, tracked[i]) : acc \in turns[i - 1]}
  IN turns[Len(tracked)]

\* A new track for every measurement that is left.
WithNewTracks(kept, left, opp) ==
  LET trks[k \in 0..Len(left)] ==
        IF k = 0 THEN kept
        ELSE Append(trks[k - 1], NewTrack(Fresh(trks[k - 1], opp), left[k]))
  IN trks[Len(left)]

\* updateTracking: the tracks in order, the opponent's time to live, and the
\* new tracks.
UpdateTracking(opp) ==
  {LET o == OpponentAged(r.opp)
   IN [tracks |-> WithNewTracks(r.kept, r.left, o), opp |-> o] : r \in Turns(opp)}

\* predict, before the tracks are looked at.
Predicted(opp) ==
  IF ~opp.init THEN {opp}
  ELSE UNION {{[opp EXCEPT !.s = Wrap(@ + v), !.sure = sure] :
                  sure \in {FALSE, opp.sure}} : v \in Drift}

-----------------------------------------------------------------------------
(* What is published.                                                      *)

Report(t) == [id |-> t.id, s |-> IF t.flag = "static" THEN t.mean ELSE Last(t.meas_s),
              static |-> TRUE, visible |-> t.visible]

Reportable(trks) == {trks[i] : i \in {k \in DOMAIN trks : trks[k].front /\ trks[k].nb > Confirm}}

Obstacles(trks, opp) ==
  {Report(t) : t \in {u \in Reportable(trks) : u.flag # "dynamic" /\ params.publish_static}}
  \union (IF opp.init /\ opp.sure /\ InFront(opp.s)
          THEN {[id |-> opp.id, s |-> opp.s, static |-> FALSE, visible |-> TRUE]} ELSE {})

RawObstacles(trks) ==
  {Report(t) : t \in {u \in Reportable(trks) :
                        u.flag = "dynamic" \/ (u.flag = "unknown" /\ ~params.publish_static)}}

-----------------------------------------------------------------------------
\* Counted until every bound of ForgottenInTime has passed.
QuietAfter ==
  IF meas # <<>> \/ ~params.noMemoryMode THEN 0
  ELSE IF quiet > Ttl + OppTtl THEN quiet ELSE quiet + 1

ObstacleCallback(m) ==
  /\ meas' = m
  /\ UNCHANGED <<path, car_s, tracked, opponent, params, obstacles, raw, quiet>>

PathCallback ==
  /\ ~path
  /\ path' = TRUE
  /\ UNCHANGED <<car_s, meas, tracked, opponent, params, obstacles, raw, quiet>>

CarStateFrenetCB(s) ==
  /\ car_s' = s
  /\ UNCHANGED <<path, meas, tracked, opponent, params, obstacles, raw, quiet>>

SetParameter(p) ==
  /\ params' = [params EXCEPT ![p] = ~@]
  /\ UNCHANGED <<path, car_s, meas, tracked, opponent, obstacles, raw, quiet>>

Loop ==
  /\ path /\ car_s # None
  /\ \E opp \in Predicted(opponent) : \E r \in UpdateTracking(opp) :
       /\ tracked' = r.tracks
       /\ opponent' = r.opp
       /\ obstacles' = Obstacles(r.tracks, r.opp)
       /\ raw' = RawObstacles(r.tracks)
  /\ quiet' = QuietAfter
  /\ UNCHANGED <<path, car_s, meas, params>>

Next ==
  \/ \E m \in Detections : ObstacleCallback(m)
  \/ PathCallback
  \/ \E s \in Poses : CarStateFrenetCB(s)
  \/ \E p \in Switches : SetParameter(p)
  \/ Loop

Spec == Init /\ [][Next]_vars

-----------------------------------------------------------------------------
Track == [id : Nat \ {0}, meas_s : BoundedSeq(Cells, 3), mean : Cells, nb : 0..NbCap,
          ttl : 0..Ttl, flag : {"unknown", "static", "dynamic"},
          front : BOOLEAN, visible : BOOLEAN]

\* The node's state is well formed and no two tracks share an identifier.
TypeOK ==
  /\ path \in BOOLEAN
  /\ car_s \in Cells \union {None}
  /\ meas \in Detections \union {<<>>}
  /\ \A i \in DOMAIN tracked : tracked[i] \in Track
  /\ opponent \in [init : BOOLEAN, id : Nat, s : Cells, ttl : 0..OppTtl, sure : BOOLEAN]
  /\ \A i, j \in DOMAIN tracked : tracked[i].id = tracked[j].id => i = j
  /\ params \in [{"noMemoryMode", "publish_static"} -> BOOLEAN]

\* Only the timer leaves all inputs as they are.
Ticked == path /\ car_s # None /\ UNCHANGED <<path, car_s, meas, params>>

\* The tracks the last tick has fed or started at a station: their time to
\* live is the full one, and a track that is only remembered is not visible.
FedAt(trks, s) ==
  {i \in DOMAIN trks : trks[i].ttl = Ttl /\ trks[i].visible /\ Last(trks[i].meas_s) = s}

\* updateTracking uses every measurement for exactly one track: after a tick
\* as many tracks were fed or started at a station as the array has detections
\* there, although the tracks choose one after the other, a moving one from
\* elsewhere than its own mean, and the same array is matched tick after tick.
EachDetectionOnce ==
  [][Ticked => \A s \in Cells :
       Cardinality(FedAt(tracked', s)) = Cardinality({i \in DOMAIN meas : meas[i] = s})]_vars

\* A lone obstacle keeps its track: when one obstacle is tracked and one is
\* detected closer than max_dist to that track's mean, no second track is
\* started, wherever the filter has taken the opponent meanwhile.
LoneTrackKept ==
  [][Ticked /\ Len(tracked) = 1 /\ Len(meas) = 1 =>
       (Abs(tracked[1].mean - meas[1]) < MaxDist =>
          Len(tracked') = 1 /\ tracked'[1].id = tracked[1].id)]_vars

\* What has been seen often enough reaches the planners: a track that was fed
\* by the last tick is in one of the two messages, even if the track had
\* fallen behind the car or had been hidden before.
ConfirmedReported ==
  [][Ticked /\ params.publish_static =>
       \A s \in Cells : \A i \in FedAt(tracked', s) :
         tracked'[i].nb > Confirm => \E m \in obstacles' \union raw' : m.id = tracked'[i].id]_vars

\* Without memory no phantom stays: a track is forgotten in the tick after
\* sd_ttl ticks without a detection, the opponent after its own time to live,
\* and then the planners see a free track, however the obstacles were seen,
\* taken for static or moving, and confused with one another before.
ForgottenInTime ==
  /\ quiet > Ttl => tracked = <<>> /\ raw = {}
  /\ quiet >= OppTtl => ~opponent.init
  /\ quiet > Ttl /\ quiet >= OppTtl => obstacles = {}
=============================================================================
