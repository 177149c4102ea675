# A verification development for the F1TENTH racing stack

TLA+ models, TLC runs and TLAPS proofs for the racing software in
`src/race_stack`: what the car sees of its opponents (the tracker), where it
could overtake (the graph planner), what it decides to do (the race state
machine), how an operator's changes reach it (the sector tuner and the
overtaking sectors), who may drive it (the drive command multiplexer), and how
it talks to its motor controller (the VESC driver and its framing).

Paths in this file are relative to `src/race_stack` unless they begin with
`src/`.

## 1. Inventory

The repository holds one program, `src/race_stack`, a ROS 2 workspace of about
forty packages, and one vendored library, `src/g2o`. ROS nodes exchange
messages over topics, call each other's parameter services, and are otherwise
independent processes; nothing is persisted between runs.

```
   detector --array--> tracking --obstacles--+--> graph planner
                                             |        | otwpnts (lines)
                                             v        v
 localisation --car_state----------------> state machine <--ot_flag events--+
                                             |                              |
 republisher --global_waypoints--> sector_tuner --scaled--> ot_interpolator-+
                                             |
                    state, local_waypoints   v
                                         controller --/drive--> ackermann_mux <-- joystick, locks
                                                                    | ackermann_cmd
                                                                    v
                                      ackermann_to_vesc -> vesc_driver ==serial== VESC
```

| component | state it keeps | operations | hard behaviours |
|---|---|---|---|
| state machine (`state_machine/`) | race state, last planner message, cached overtaking line, time to live, free-detection count, sector flags, parameters | one callback per topic, parameter callback, 10-100 Hz main loop | callbacks in any order; caching as a side effect of a test; counters loaded and counted in different places; timer running during the constructor |
| graph planner (`planner/graph_planner`) | lattice of nodes and edges, their costs, obstacles, parameters | offline pruning; callbacks; one search per tick | recursive removal around the lap; costs changed for one search and restored; stale queue entries; the end of the lap |
| opponent tracking (`perception_cpp/`) | tracks with votes and time to live, one Kalman filter, the last array of detections | detection, path and pose callbacks, parameters, timer | greedy association, an array that is never consumed, one ageing branch per classification |
| sector tuner, ot_interpolator (`utilities/nodes/sector_tuner`) | sector parameters, waypoints as received and as scaled, the bent line | waypoint callbacks, parameter events, timers | parameters of one node read by two others; events and waypoints overtaking one another; two names for one message |
| parameter event handler | callbacks per parameter | event callback | events before the registration |
| ackermann_mux | stamp and last message of every source and lock | callback per source and lock | timeouts read lazily, when some other message arrives; ties; locks that fall silent |
| VESC driver (`sensors/vesc/vesc_driver`) | driver mode, firmware version, limits, publishers, the reader thread and its run flag | timer, six command callbacks, reader thread, connect, disconnect | two threads without a lock; constructor and destructor racing the reader; lost replies |
| VESC framing (`vesc_interface.cpp`, `vesc_packet_factory.cpp`) | bytes received but not consumed | one read of the reader thread | frames cut by reads, noise that looks like a frame start |
| controller | state, local waypoints, opponent, trailing integral | timer, one callback per topic | acting on data of different ages |
| lap analyser | lap count and times | pose callback | wrap at the finish line |
| global planner, Frenet conversion, SLAM, simulator, MPCC, system identification, 3D detection, teleoperation, g2o | - | - | numerics, vendored or offline code |

What makes each correct:

* state machine: the car is never sent along the raceline at race speed into an
  obstacle, overtakes only where allowed and only along a line that was
  checked, forgets a line when the planner falls silent, always comes back to
  the raceline, and never dies of an exception in the main loop;
* graph planner: a published line is a cheapest way around the obstacles of
  this tick, the search never gets stuck, and no tick leaves a trace in the
  graph;
* tracking: every detection belongs to one track, what is seen reaches the
  planners, what is not seen is forgotten;
* sector tuner, ot_interpolator, event handler: after an operator's changes all
  three nodes end with the parameters as they are;
* multiplexer: only the source with priority drives, engaged or silent locks
  hold back everything below them, and nobody is held back for nothing;
* VESC driver: no command before the controller has identified itself, commands
  within limits, start and shutdown come to an end;
* framing: however the bytes are cut by the reads, every frame is delivered, in
  order and once, and noise holds back little;
* controller: it does not go on steering by data that has become too old;
  lap analyser: one crossing of the line, one lap.

## 2. Plan

The most important behaviour first.

| step | modules | composes | done |
|---|---|---|---|
| 1 | `StateMachine` | - | yes |
| 2 | `StateMachineHistory`: what the state machine's counters stand for; `StateMachineProofs` about both | extends StateMachine | yes |
| 3 | `AckermannMux`, `AckermannMuxProofs` | - | yes |
| 4 | `VescDriver`, `VescDriverProofs` | - | yes |
| 5 | `VescPacket`, `VescFraming`, and the abstract `PacketStream` it implements; `VescFramingProofs` | VescFraming refines PacketStream | yes |
| 6 | `Sectors`, `SectorsProofs` | sector_tuner, ot_interpolator and the state machine's `init_ot_params` and `ot_flag_cb`, with the event handler between them | yes |
| 7 | `Tracking`, `TrackingProofs` | feeds the obstacles of StateMachine and GraphPlanner | yes |
| 8 | `GraphPlanner`, `GraphPlannerProofs` | sends the lines that StateMachine takes as `Paths` | yes |
| - | `Induction`: what the proofs of loops share | used by the proofs of steps 3, 7 and 8 | yes |
| 9 | `Controller`: ages of state, waypoints and opponent | reads StateMachine's output | - |
| 10 | `LapAnalyser`: laps counted across the finish line | - | - |
| 11 | an arbiter that AckermannMux implements: what it would promise is `NeverOverridden` and `NeverSwallowed`, stated without the loops of the code and proved, so a module of its own would add nothing | - | - |

Of the two components left, the interesting part of the controller, stopping when
no waypoints have come for a while, is commented out in the one that the racing
launch files start (`controller_cpp/src/controller_manager_cpp.cpp:650`; the
Python controller of the test launch file has it): what remains there is steering
arithmetic. The lap analyser keeps statistics.

Composition is by contract: StateMachine takes the lines and the obstacles as
arbitrary inputs, which is more than GraphPlanner and Tracking send. Where a
theorem needs more (`LineInOrderAlways`, `OvertakeLineIsClearAlways`) it is an
assumption named `PlannerAssumption`, which the planner meets as it samples its
lines (`graph_planner.cpp:430`): stations 50 mm apart or more (it samples at
about 0.1 m), a line that leads forwards by 0.1 m or more, and that fits on the
lap together with the published horizon. The exact spacing and how stations are
labelled behind the finish line stay open. Putting both nodes into one state
space would multiply their states for no further property.

## 3. The modules and the code

### StateMachine (`state_machine/state_machine/`)

The node spins in a single-threaded executor, so one callback is one atomic
action; they interleave in any order.

| code | model |
|---|---|
| `__init__`: four wait loops, then the timer, then two service calls in `init_ot_params` | `phase`: `glb`, `scaled`, `frenet`, `pose`, `ask_count`, `ask_sectors`, `ready`; `dead` once an exception has left a callback |
| `state`, `cur_s`/`cur_d`, `obstacles`, `avoidance_wpnts`, `last_valid_avoidance_wpnts`, `splini_ttl_counter`, `trailing_to_gbtrack_count`, `ot_sectors[i].ot_flag`, `params.force_state`, `force_state_choice`, `battery_level` | the variables of the same meaning |
| `glb_wpnts_cb`, `glb_wpnts_scaled_cb`, `car_state_frenet_cb`, `car_state_cb`, `avoidance_cb`, `obstacles_cb`, `battery_cb`, `ot_flag_cb` | one action each |
| `parameters_callback` | `SetForceState`, `SetForceStateChoice`, `SetInitialState`, and `SetUnknownInitialState`, which raises and ends the node |
| `main_loop_callback`: transition, state logic, publication, time to live | `MainLoopCallback` (one action, with everything it calls), `MainLoopDies` when it raises |
| `_check_gbfree`, `_check_ofree`, `_check_availability_splini_wpts`, ..., `transitions.py` | operators; `Refreshed` is the cached line after the availability test, whose side effect is kept where the code has it: a transition returns the line together with the state |
| `get_splini_wpts`, `states.py` | `Cell` (metres to cells), `splini_idxs` (the cells a line overwrites, with both modulos of the finish line), `get_splini_wpts`, `CellAhead`, `FromCar`, `DefaultStateLogic`; `StateLogicRaises` when they raise |

Left out: velocities, the speed scaler, poses in the map frame, markers,
properties that no transition reads (`_check_emergency_break`, the
follow-the-gap zones), the wording of refused parameters, and changes of the
other numeric parameters (widths, horizons, thresholds, `overtake_mode`) at run
time: they are constants. Stations, horizons and the track length are in
millimetres, a lateral offset is an integer, and the raceline has one waypoint
for every started 0.1 m (`RacelineAssumption`, met by the raceline of every map
in `stack_master/maps`).

### StateMachineHistory

Extends StateMachine by two histories, the age of the planner's last message
and the number of successive free ticks, and by the one thing that changes the
length of a tick, `rate_hz`. It asks whether the two counters of the code mean
what they are for.

### GraphPlanner (`planner/graph_planner/`)

| code | model |
|---|---|
| `genEdges` | `Edges`, `Ahead`: the raceline, and from each node those around the one ahead |
| `pruneEdges`, `removeEdge` (recursive) | `graph`, `doomed`; `RemoveEdge`, `RemoveIsolated`, `GoOnline`: the recursive calls are a set of calls still to be made, in any order, of which the code's is one |
| pose, obstacle and parameter callbacks | `StateCb`, `ObsCb`, `ParamCb` |
| `online_loop`, `runOnline` | `OnlineLoopFree` (no obstacle: an empty line), `OnlineLoop`, `ApplyNodeFilter` once per blocked zone, `StartSearch`, `Expand` once per round of the search, `Publish` |
| `find_obs_jone` of every obstacle, `apply_node_filter`, `graph_search` | `BlockedZones`, `AllBlockedZones`, `Covers`, `orig_edges`, `dist`, `parent`, `pq`, `best`, `GoalNode`, `Backtrack` |

One executor runs everything, so no callback comes between the steps of a tick.
Splines, edge costs, curvature, the prediction of obstacles and the node nearest
to a point are arithmetic: `Cost`, `Sharp` (which edges may turn out too sharp),
`Messages` and `cur` are given. Left out: the CSV files, markers, velocity
profile, and the hysteresis that nothing calls. Not modelled either is the
exception that `sampleSingleSpline` throws if a cascade of removals comes round
the whole lap to the node that is being visited.

### Tracking (`perception_cpp/src/tracking.cpp`)

`Loop` is one tick of the timer: prediction, the tracks in their order
(`Turns`, one `TrackTurn` each), the opponent's time to live (`OpponentAged`),
new tracks (`WithNewTracks`), and the two messages. `VerifyPosition` is the association, `Updated`, `Fed` and
`Aged` what happens to a track that is or is not matched. Stations are cells of
the raceline. Floating-point results are choices over what they can decide:
static or dynamic, a mean anywhere on the shorter arc between the old one and
the measurement, a prediction of `Drift` cells that may make the filter too
uncertain to publish. Identifiers are reused when nothing carries them any
more, as they are only compared. Lateral offsets, sizes, markers and changes of
the numeric parameters at run time are left out.

### Sectors (`utilities/nodes/sector_tuner`, the state machine's sector flags)

Three nodes and an operator. The operator sets a scaling, the global limit or
an overtaking flag; the owner's event goes to every subscriber, and the
subscriber reads the parameters when it handles the event, not as they were
when it was sent. `shared` says that the tuner's `glb_wpnts_scaled` and
`glb_wpnts_og` are one object. `line` is the ot_interpolator: still waiting for
its first messages, looping, or dead of an exception; `ot` is the state machine
between asking for the flags and listening to their events. The tuner starts
with the scalings of the file as they are (`sector_tuner.py:31`) and applies the
global limit from the first change of a speed parameter on: `tuned`, and
`InForce` for the speed that is in force by that rule. A speed is the
number of times the raceline's speed was halved, so that scaling twice can be
told from scaling once.

### AckermannMux (`base_system/f1tenth_system/ackermann_mux/`)

`velocity_age`, `lock_age` are now() - stamp_, aged by `Elapse`;
`VelocityCallback` and `LockCallback` are the two subscriptions, with
`hasPriority`, `getLockPriority`, `isLocked`, `isMasked` and `hasExpired`
translated as operators; `cmd` is what was last published on `ackermann_cmd`.
Ages are capped just above the largest timeout (`CappedAge`): all larger ages
are the same to every comparison. Diagnostics only read.

### VescDriver (`vesc_driver/src/vesc_driver.cpp`, `vesc_interface.cpp`)

| code | model |
|---|---|
| main thread: constructor, executor, destructors | `main`: `connect`, `create`, `spin`, `destroy`, `stop`, `join`, `gone`; `Connect`, `ConnectFails`, `CreatePublisher`, `StartSpinning`, `TimerCallback`, `Command`, `Shutdown`, `DestroyPublisher`, `StopReader`, `WakeReader`, `Join` |
| reader thread: `packet_creation_thread` and `vescPacketCallback` | `reader`: `check` (the loop's flag), `receive`, `version` (between the two unlocked assignments, either of which may become visible first), `handled`, `exited`, `crashed` |
| `state_pub_`, `imu_pub_`, `imu_std_pub_`, `servo_sensor_pub_` | `pubs`, how many exist: they are created in one order and destroyed in the opposite one |
| `CommandLimit` | `CommandLimit`, `Clip`, over the configured bounds `params` |
| serial line | `requests`, `replies`; `VescReply`, `LoseRequest`, `LoseReply` (external) |

Publishing through a publisher that was not created crashes; through one that
was destroyed it crashes or happens to work. The content of the telemetry
messages is left out. The timer's test of `isConnected` is not modelled apart
from `Shutdown`: nothing but disconnect closes the port.

### VescPacket, VescFraming, PacketStream

`VescPacket` is `createPacket`: what a frame is and when more bytes are needed
to tell. `VescFraming` is the reader's search (`vesc_interface.cpp`), one
iteration of its loop per action: `DeliverPacket`, `SkipByte`, `EndSearch`;
`Receive` is one read of the port. `iter` and `buffer` are the code's;
`received` and `packets` are histories that say where in the line a packet came
from. `PacketStream` is the abstract specification: a reader that has the whole
line before it, no buffer, and passes over it once. `Stream` instantiates it with
`pos` the number of bytes the reader has gone past, and `ReadsTheStream` says
that every step of VescFraming is one of PacketStream or changes nothing. The
byte has `Base` values instead of 256, so that two-byte lengths occur in short
lines, and the checksum is an arbitrary function of the payload.

## 4. The runs

| run | shows | distinct states |
|---|---|---|
| `sm_h2h` | every order of startup, messages and ticks of a head-to-head race whose timer may run faster: the counters stay in step (`SplineLive`), a cached line is gone after `splini_ttl` seconds of silence (`CachedWithinTtl`), the fused line begins with the planner's first waypoint and leaves none out nor goes back, also across the finish line (`LineInOrder`), the line that is checked is the one that is driven (`OvertakeLineIsClear`), the raceline is chosen only when free (`RacelineOnlyWhenFree`) and resumed only after enough free ticks in a row (`RejoinAfterFreeRun`) | 96 311 |
| `sm_operator` | the same node with an operator who forces and rewrites states: its main loop never raises once ready (`SurvivesOnceReady`), it comes back to the raceline (`RejoinsRaceline`) and forgets a silent planner's line (`SplineExpires`) | 70 800 |
| `graph` | however the lattice is pruned there is no dead end (`NoDeadEnds`); from every node, around overlapping and askew obstacles, the line is a cheapest one under the zones of that plan alone (`CheapestLine`), a node the search has settled stays settled (`NodesSettle`), and the graph is left as it was (`CostsRestored`) | 50 227 |
| `tracking` | one or two obstacles that appear, creep on, are confused, hidden and vanish: each detection feeds one track (`EachDetectionOnce`), a lone obstacle keeps its track wherever the filter went (`LoneTrackKept`), what is seen is reported (`ConfirmedReported`), no phantom stays (`ForgottenInTime`) | 531 168 |
| `sectors` | from every scaling and limit in the file, two parameter changes at any time from the start on: flags are taken over in order (`FlagsFollow`), no change is lost on the way to the line (`LineFollows`), once the tuner's two names are apart what it publishes is scaled once (`ScaledOnceApart`), speeds and line end as the parameters in force say (`SpeedsSettle`, `LineSettles`) | 340 478 |
| `mux` | three sources and two locks, in every order: `NeverOverridden`, `NeverSwallowed`, `Handover` | 7 659 |
| `vesc` | one life of the driver over a lossy link: `DrivenIdentified`, `DrivenClosest`, `TelemetryHasPublisher`, `Identified`, and at the end no wake-up of the reader is lost (`NoLostWakeup`), so that `DisconnectReturns` | 87 626 |
| `framing` | 343 noisy lines, cut in every way: `PacketsAreFrames`, `NothingMissed`, `BufferBounded`, and the refinement `ReadsTheStream` | 44 698 |
| `sm_initial`, `ttl_rate`, `mux_silence`, `sectors_scaled` | the four disagreements of section 6 | - |

The passing runs also check the type invariant of their module once, except
`graph` and `mux`. What is proved and says little that a run could add is in no
run: the multiplexer's type invariant, `WaitsForFrame`, of which `BufferBounded`
is a consequence, and `OvertakeOnlyWhenBlocked`.

Bounds and why they are enough:

* StateMachine: a track of 725 mm with 8 raceline waypoints, so that the last
  cell is a short one; 3 local waypoints and horizons of 300 mm, with poses on
  either side of the finish line and off the raceline; a line that stays in the
  lap, one that crosses the finish line, and the empty one. Lines have waypoints
  133 mm apart and are labelled behind the finish line as the planner does, from
  its last sampled layer (600 mm), so that they cover as many cells as they have
  waypoints in the one case and more in the other; the sector reaches up to the finish; obstacles
  on the raceline, on the line, on both and behind the finish; in the operator's
  run also an `initial_state` that is no state; a time to live and a threshold of 2 or
  3, the smallest values at which a counter can be reset half way. The
  decisions are comparisons of these few positions.
* GraphPlanner: five layers of two or three nodes, one node without parents
  from the start, three sets of edges that are too sharp, of which one cascades
  backwards and one forwards over the end of the lap; horizons of two layers, of
  four, and of the whole lap; zones that overlap, lie askew, end the lap and
  cross its end; edge costs for which a later find of a node is cheaper; a
  penalty larger than any way without one.
* Tracking: a ring of seven cells and matches closer than two (four beside the
  opponent's prediction), so that two neighbouring obstacles can take each
  other's detections and the prediction can run away from its obstacle and
  over the finish line; times to live of one and two ticks, so that a track and the
  filter expire apart from each other; memory switched on and off. `publish_static`
  stays on.
* Sectors: two overtaking sectors, so that a flag can be taken for the other's;
  two changes, so that an event can be handled after the next change; one scaled
  message under way where the code's queue holds ten, since older ones would only
  make the waypoints of a line older, of which no property speaks; speeds told
  apart down to an eighth.
* AckermannMux: two sources of equal priority and one below, one lock that
  never expires and one that does, timeouts of 1 and 2: the ties, the masks and
  the lazily expired handles all occur. The clock starts at 9, well after 0, as
  a wall clock does.
* VescDriver: one outstanding request of a kind and two replies on the line, so
  that a reply can wait behind another one; limits in order, and limits out of
  order and out of range for every kind of command; a value inside and one
  outside of them. Nothing else in the module counts.
* VescFraming: pieces of every kind the search tells apart (frame, frame that
  contains a frame, wrong checksum, unknown payload, cut frame, stray start,
  stray byte), three to a line; reads of 1 to 13 bytes, the longest piece.

Fairness: StateMachine assumes that the main loop's timer goes on firing
(`WF_vars(MainLoop)`: callbacks are short and the executor serves all of them).
AckermannMux assumes that time passes and, for `Handover`, that a `Reliable`
source goes on publishing. VescDriver assumes that both threads are scheduled,
that the timer fires, and that the controller answers and one of its answers
gets through if it is asked over and over (strong fairness of the controller's
version reply and of the reader receiving it); nothing is assumed of commands,
of the shutdown or of losses. `DisconnectReturns` says openly that a single
lost answer suspends it, as the code asks only once. Sectors assumes weak
fairness of every callback and timer of the three nodes: the republisher repeats
its waypoints for ever, timers are never cancelled, every node spins; nothing is
assumed of the operator. `SpeedsSettle` and `LineSettles` speak of behaviours in
which the operator stops, as the bound on the changes makes all of them.
Tracking and GraphPlanner assume none: their properties are safety properties.

Deadlock is not checked in the runs in which the node may stop for good: the
state machine once it has died or nothing is left to do, the driver when it is
gone, the receiver at the end of the line.

Each property of a passing run is accompanied by a mutant, a definition marked
*Mutant* in the module, with a plausible error in the code it models that
violates the property.

## 5. The proofs

Everything below holds for every value of the constants that satisfies the
named assumptions of the modules, and whatever else a theorem assumes is in its
statement.

What a loop of the code computes is a recursive function in the modules.
`Induction` has what it takes to reason about one without a lemma that has an
operator as its parameter: a set of numbers that is not empty has a least
member (`Least`, from the well-foundedness of `<`), a set of numbers that
contains 0 and with each number the next contains all (`Induct`), and every loop
can be run through (`Recursion`), so that the function a module defines by
recursion is the one its equations describe. The property to be shown by
induction is then a set that is named in the proof.

`StateMachineProofs`:

* `TypeCorrect` and `SplineLiveAlways`, by the inductive invariant
  `IInv == TypeOK /\ SplineLive /\ CarKnown`. `SplineLive` is not inductive
  alone: that a tick leaves the right things behind depends on the types of
  the counter and of the line, and the tick needs a known pose (`CarKnown`).
* `ReadySurvives`: in a head-to-head race no ready state is one in which the main
  loop would raise. By `SplineLive` a cached line is never empty when it is
  spliced, by `IdxsAre` it is spliced into cells that exist, and sectors and
  counter exist in `ready`.
* `RacelineFree`, `OvertakeBlocked`: what a tick that was not forced may choose
  with and without an obstacle on the raceline; a case distinction over the
  transition functions.
* `CachedWithinTtlAlways`, provided `rate_hz` is never lowered below its
  configured value (`Periods \subseteq 1 .. Period`; `ttl_rate` shows that it
  fails otherwise). `AgeInv` relates age and counter: a message that a cached line
  came from is at most as old as the ticks already counted off allow.
* `RejoinsAfterFreeRun`, in a head-to-head race: `CountInv` says that the
  code's counter never runs ahead of the free ticks in a row, and is zero
  unless the node is counting (no operator forces a state in this module).
* `LineInOrderAlways` and `OvertakeLineIsClearAlways`, in a head-to-head race,
  for every raceline with a waypoint per started 0.1 m and every line that meets
  `PlannerAssumption` (section 2). Both need `LinesInv`, the lines the node holds
  are lines of the planner, and what the conversion from metres to cells and
  the two modulos of `get_splini_wpts` come to. `IdxsAre`: the cells a line
  overwrites are numbered on from its first one, cross the finish line once,
  and skip at most one cell there. `WrittenOnce`: so no cell is written twice,
  and the i-th holds the i-th waypoint or the last. `InOrder` puts the published
  horizon beside that numbering: ahead of the car both run the same way, less
  than a lap long, and what lies between two waypoints of the line in one lies
  between them in the other. For the obstacles, `NearestIs`: of waypoints 50 mm
  apart the one within 25 mm of an obstacle is the one argmin finds.

`GraphPlannerProofs`, for every lattice (`LatticeAssumption`, `EdgesAssumption`)
and every array of obstacles on its nodes (`MessageAssumption`):

* `NoDeadEndsAlways`, by `PruneInv`: every edge that is not about to be removed
  leads to a node with children, after the first loop of `pruneEdges` also from
  a node with parents; the raceline is never about to be removed.
* `CostsRestoredAlways`, by `RecordInv`: an edge that is not recorded has its
  offline cost, a recorded one is recorded with its offline cost, and outside
  of a tick nothing is recorded.
* `CheapestLineAlways`. The search takes nodes again when a cheaper way to them
  is found, and its queue and its best goal hold costs that are out of date. The
  proof does not rest on the order in which nodes are taken.
  The invariants are: `FilterInv`, what the zones applied so far have added to
  an edge (`OneMoreZone`); `ReachedInv`, a node was reached over an edge from
  a reached node at no less than that way costs; `QueueInv`, queued costs are
  not below the present ones; `DoneInv`, a node reached is queued at its
  present cost or all its edges have been tried from that cost. When the
  queue is empty no way is cheaper than the cost of the goal it ends at
  (`NoWayIsCheaper`, induction along the way), the parents lead back to the start
  without exceeding that cost (`PathExists`, `BacktrackIs`), and if no goal was found no
  way reaches one (`NothingReached`). `RoutesAre` and `WayCostIs` say what the
  recursive definitions in the property compute.
* `NodesSettleAlways`, which is about that order: by `OrderInv` a node that is
  not queued at its present cost costs no more than any entry of the queue, since
  a least entry is taken in each round (`ExpandTakesLeast`) and edges cost at
  least nothing. The code marks no node as visited and drops no outdated entry;
  this costs it rounds and never undoes a settled node.

`TrackingProofs`, for every number of tracks and detections and every threshold
(`TrackingAssumption`; a detection is a cell of the raceline). The loop over
the tracks leads from a set of outcomes to the next; what holds of its start and
goes over each turn holds of its end (`TurnsInduct`, and `NewTracksInduct` for
the new tracks), and a turn feeds, drops or ages its track (`TurnIs`):

* `TypeCorrect`, by `TypeInv`: identifiers stay apart, since among two numbers
  more than there are tracks one is free (`FreshIs`, the pigeonhole principle).
* `ForgottenInTimeAlways`, by `QuietInv`: time to live and quiet ticks
  together never exceed `Ttl`, nor `OppTtl` for the opponent, whichever
  branch of the ageing a track goes through.
* `EachDetectionOnceAlways`: over each turn the tracks fed at a station and the
  detections left there stay as many as were sent (`TurnsUseOnce`, counting with
  `FedAppend` and `CountRemoved`).
* `LoneTrackKeptAlways`: the closest candidate within the distance exists
  whenever a candidate is within it (`ClosestIs`), so the second search of
  `verifyPosition` finds what the first one missed (`NearIsFound`).
* `ConfirmedReportedAlways`: over each turn a track that looks as if it had been
  fed is not marked as behind the car (`TurnsBringFront`).

`SectorsProofs`:

* `TypeCorrect`.
* `FlagsFollowAlways`, for at most ten sectors (`NSectors <= 10`: the code
  finds the sector by the last digit of its index). `FlagInv` says that the last
  event under way for a sector carries the flag's present value, and that
  without one the state machine has it already.
* `LineFollowsAlways`, by `LineInv`: without an event of its own under way the
  ot_interpolator knows the flags as they are (`FlagsRead`), and a line that is
  not due was made for the flags it knows (`LineMade`). The events of the
  sector_tuner are in the same queue; `ToldLine` and `HandledLine` say that they
  leave both in force.
* `ScaledOnceApartAlways`, by `SpeedInv`: without an event under way the tuner
  works with the speed that is in force, which until the first change of a speed
  is the one in the file, whatever the limit (`SpeedKnown`); a message that has
  one name only has not been written to (`Unwritten`). It is the part of what the tuner's
  README promises that the code keeps; `sectors_scaled` is the part it does not.

`VescDriverProofs`:

* `IdentifiedFirst` (`DrivenIdentified`), by strengthening with the mode:
  commands imply operating, operating implies both parts of the version, and
  the reader never takes a part back.
* `PublishersFirst` (`TelemetryHasPublisher`), by `ThreadsInStep`: on a line
  clean when opened nothing is on the link while the constructor runs, and the
  executor runs with all publishers. On a line that is not clean it does not
  hold, and the theorem says so in its statement.
* `TypeCorrect`.
* `DrivenIsClosest` (`DrivenClosest`), for limits in any order and however far
  out of range: `ClipIsClosest` is about `clip` alone, and `ScaleIsUndone` about
  the integers on the line.
* `ReaderIsWoken` (`NoLostWakeup`), for every capacity of the link and whatever
  was on the line: `WakeInv` adds that the flag is already false when the
  last request is made, so that a reader that has handled something leaves.

`VescFramingProofs`, for every line, byte size, checksum and payload limit:

* `TypeCorrect`, and `Refinement`: `Spec => Stream!Spec`. The invariant `Inv`
  says that the buffer is a tail of what was received and that a waiting search
  stands at its front; the lemmas say that what `createPacket` makes of a place
  depends on the bytes behind it only, and once enough of them have come, on
  no later one.
* `PacketsAreFramesAlways`, `NothingMissedAlways`, by `PacketInv`: what was
  handed on are frames, apart and in order, and every place passed over lies in one
  of them or begins no frame.
* `WaitsForFrameAlways`, `BufferBoundedAlways`.

`AckermannMuxProofs`, for any number of sources and locks, priorities and
timeouts:

* `TypeCorrect`.
* `NoOverride` (`NeverOverridden`) and `NoSwallowing` (`NeverSwallowed`): the loop of
  `getLockPriority` returns the highest priority of an engaged lock
  (`LockPriorityIs`, `HeldBackIs`), the loop of `hasPriority` the first unmasked
  source of the highest priority (`WinnerIs`). The properties say "engaged" and
  "competing" without the loops, and a source that has just been heard is masked
  only by a lock (`MaskedAtArrival`).

Only model-checked: the liveness properties, `RejoinsRaceline`, `SplineExpires`,
`Handover`, `Identified`, `DisconnectReturns`, `SpeedsSettle` and `LineSettles`,
which need fairness, and what enabled means, of which the prover does not know.
For most of them the part that is a safety property is proved, and only that the
steps it relies on are taken in the end is left to TLC: `RejoinAfterFreeRun` for
`RejoinsRaceline`, `CachedWithinTtl` for `SplineExpires`, `NoLostWakeup` for
`DisconnectReturns`, `ScaledOnceApart` for `SpeedsSettle`, `LineFollows` for
`LineSettles`. Every invariant and every action property of the passing runs is proved.

## 6. Disagreements between the code and its documentation

Each is a run in which TLC finds the documented statement violated.

* `sm_initial`: `initial_state` offers every state, but a race that starts in a
  state whose transition reads the overtaking sectors ends in an exception,
  because the timer runs while the sectors are still being fetched.
* `ttl_rate`: `splini_ttl` is said to be in seconds; lowering `rate_hz`
  at run time stretches it, since the new rate is never stored.
* `mux_silence`: a source's timeout is said to lead to 0.0 speed; nothing is
  published, and the last command stays in force.
* `sectors_scaled`: the sector tuner is said to publish the scaled
  trajectories; the first tick makes two names of one message, and every
  tick until the next message scales what is scaled already.

Noticed while modelling and not made into runs.

Contained in the modules:

* state machine: an `initial_state` that is no state raises in the parameter
  callback and ends the node (`state_machine_params.py:222`); forcing TRAILING or OVERTAKE outside of a head-to-head race
  reads an attribute that exists in head-to-head mode only; a low battery in
  dummy mode reads a state that `StateType` does not have; the time to live is
  restarted by every message of the planner, also by one whose line is not
  adopted (`state_machine.py:167`); an obstacle behind the end of the overtaking
  line is compared with an unrelated waypoint (`state_machine.py:238`); on a
  track less than half a cell longer than a whole number of cells, as
  `real_hall` is (361.39 cells), the rounded remainder skips cell 0 at the finish
  line (`state_machine.py:371`), and the raceline's first waypoint is published in
  the middle of a line that crosses it;
* graph planner: the last message about obstacles is never consumed, so that
  lines around obstacles long gone go out with fresh stamps; an obstacle across
  the finish line blocks no zone (`graph_planner.cpp:1026`); the fallback to
  goals further on (`NodeGraph.hpp:1020`) never helps, because their layers lie
  outside of the search; the node nearest to the car may have been pruned, which
  gives an empty line; the node at the goal costs nothing even inside a zone;
* multiplexer: priority 0 never drives; under simulated time the multiplexer takes
  handles it has never heard of for fresh (`topic_handle.hpp:85`);
* sector tuner: a scaling above the global limit in the file is published as it
  is until a speed parameter changes (`sector_tuner.py:31`);
* tracking: while the detector is silent its last array is fed to the tracks at
  every tick (`tracking.cpp:593`);
* VESC driver: telemetry that arrives during shutdown goes through a publisher
  that is destroyed already (`vesc_driver.hpp:95`); a line that still holds telemetry when it is opened crashes the
  driver before its publishers exist (`TelemetryHasPublisher` says so in its
  statement); unlimited currents become 0 (`vesc_driver.cpp:419`);
* sector flags: from ten sectors on the wrong one is switched
  (`state_machine.py:445`);
* ot_interpolator: it dies if its first messages come in an order in which
  one attribute does not exist yet (`ot_interpolator.py:110`).

Outside of them:

* a set of several parameters is applied one by one, and one that is refused
  leaves the earlier ones in force (`state_machine_params.py:228`);
* the hysteresis compares with `last_switch_time`, which the graph planner does
  not send (`state_machine.py:297`);
* NaN passes both comparisons of `clip` (`vesc_driver.cpp:450`); nothing is
  sent when commands stop arriving, and the last one stays in force
  (`vesc_driver.cpp:290`).

## 7. What is not modelled

The rows of section 1 that no module of section 3 names, each with its reason in
`PROJECT.json`: the controller and the lap analyser (section 2), and those whose
substance is numerics (global planner, Frenet conversion, model predictive
control, state estimation, system identification, the simulator), vendored (g2o,
the libraries below MPCC and 3D detection, which are most of the repository's
lines) or tooling. Within the VESC packages, `ackermann_to_vesc` and
`vesc_to_odom` are unit conversions, and payloads are not modelled byte by byte.
Of the parameter event handler, the removal of callbacks is left out, which
nothing calls. Which zones an obstacle ought to block (`graph_planner.cpp:1026`)
is geometry that GraphPlanner does not have: it takes the zones as the code
computes them.
