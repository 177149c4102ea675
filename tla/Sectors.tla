------------------------------- MODULE Sectors -------------------------------
(***************************************************************************)
(* How an operator's changes reach the car: the parameters of the speed    *)
(* sectors, owned by the sector_tuner, and of the overtaking sectors,      *)
(* owned by the ot_interpolator.                                           *)
(*                                                                         *)
(* The republisher repeats /global_waypoints.  The sector_tuner scales     *)
(* their speeds at every timer tick.  The ot_interpolator bends the scaled *)
(* line inside the overtaking sectors whenever a parameter has changed.    *)
(* The state machine asks once for the sectors' flags and from then on     *)
(* follows the parameter events.  Events and waypoints are messages in     *)
(* queues of their own, so they overtake one another.                      *)
(*                                                                         *)
(* A speed is the number of times the raceline's speed has been halved: a  *)
(* scaling of 2^-k adds k, and a lower limit is a larger number.  All      *)
(* speed sectors are scaled alike.                                         *)
(***************************************************************************)
EXTENDS Integers, Sequences

CONSTANTS
  NSectors,     \* number of overtaking sectors
  Scalings,     \* the scalings and limits an operator sets, as halvings
  MaxHalvings,  \* speeds are told apart up to this bound
  MaxChanges,   \* parameter changes in a behaviour
  Depth,        \* scaled waypoints under way to the ot_interpolator
  None

ASSUME SectorsAssumption ==
  /\ NSectors \in Nat \ {0}
  /\ Scalings \subseteq Nat /\ {0, 1} \subseteq Scalings
  /\ {MaxHalvings, MaxChanges} \subseteq Nat
  /\ Depth \in Nat \ {0}
  /\ None \notin Nat

VARIABLES
  scaling, limit, flags,  \* the parameters of the two nodes
  changes,                \* parameter changes so far
  og,         \* sector_tuner: speed in glb_wpnts_og, or None
  shared,     \* sector_tuner: glb_wpnts_scaled is the object glb_wpnts_og
  scaled,     \* sector_tuner: speed in glb_wpnts_scaled, or None; published last
  sectors,    \* sector_tuner: scaling in sectors_params
  tunerEvents,   \* number of events under way to the sector_tuner
  line,       \* ot_interpolator: its private state
  lineEvents,    \* the nodes whose events are under way to it
  lineWpnts,     \* the scaled waypoints under way to it
  ot,         \* state machine: how far init_ot_params is, flags, events
  heard,      \* history: sectors whose flag changed after the registration
  tuned       \* history: a speed parameter has changed since the start

paramVars == <<scaling, limit, flags, changes, tuned>>
tunerVars == <<og, shared, scaled, sectors, tunerEvents>>
lineVars == <<line, lineEvents, lineWpnts>>
vars == <<paramVars, tunerVars, lineVars, ot, heard>>

Indices == 0..NSectors - 1
Capped(h) == IF h > MaxHalvings THEN MaxHalvings ELSE h

\* np.clip(scaling, 0, global_limit).
Clipped == IF scaling < limit THEN limit ELSE scaling

\* The constructor of the sector_tuner takes the scalings from the parameter
\* file as they are, also where its global_limit is lower.
Init ==
  /\ scaling \in Scalings /\ limit \in Scalings
  /\ tuned = FALSE
  /\ flags = [i \in Indices |-> FALSE]
  /\ changes = 0
  /\ og = None /\ scaled = None /\ shared = FALSE
  /\ sectors = scaling
  /\ tunerEvents = 0
  /\ line = [phase |-> "waiting", scaled |-> None, og |-> FALSE, sp |-> FALSE,
             need |-> TRUE, flags |-> flags, wpnts |-> None]
  /\ lineEvents = <<>> /\ lineWpnts = <<>>
  /\ ot = [phase |-> "asking", flags |-> flags, events |-> <<>>]
  /\ heard = {}

-----------------------------------------------------------------------------
(* An operator sets one parameter; its owner tells all subscribers.        *)

Change ==
  /\ changes < MaxChanges
  /\ changes' = changes + 1

TellTunerChange ==
  /\ tuned' = TRUE
  /\ tunerEvents' = tunerEvents + 1
  /\ lineEvents' = Append(lineEvents, "sector_tuner")
  /\ UNCHANGED <<flags, og, shared, scaled, sectors, line, lineWpnts, ot, heard>>

SetScaling(k) == Change /\ scaling' = k /\ UNCHANGED limit /\ TellTunerChange
SetGlobalLimit(k) == Change /\ limit' = k /\ UNCHANGED scaling /\ TellTunerChange

\* Only a state machine that has registered is told.
SetOtFlag(i) ==
  /\ line.phase # "dead"
  /\ Change
  /\ flags' = [flags EXCEPT ![i] = ~@]
  /\ lineEvents' = Append(lineEvents, "ot_interpolator")
  /\ IF ot.phase = "ready"
     THEN /\ ot' = [ot EXCEPT !.events = Append(@, [sector |-> i, ot_flag |-> flags'[i]])]
          /\ heard' = heard \union {i}
     ELSE UNCHANGED <<ot, heard>>
  /\ UNCHANGED <<scaling, limit, tuned, tunerVars, line, lineWpnts>>

-----------------------------------------------------------------------------
(* sector_tuner                                                            *)

\* Mutant: the scaling is taken over without its limit.
TunerDynParamCbUnclipped ==
  /\ tunerEvents > 0
  /\ tunerEvents' = tunerEvents - 1
  /\ sectors' = scaling
  /\ UNCHANGED <<paramVars, og, shared, scaled, lineVars, ot, heard>>

\* dyn_param_cb: an event says only that the parameters have to be read again.
TunerDynParamCb ==
  /\ tunerEvents > 0
  /\ tunerEvents' = tunerEvents - 1
  /\ sectors' = Clipped
  /\ UNCHANGED <<paramVars, og, shared, scaled, lineVars, ot, heard>>

\* A message is a new object: glb_wpnts_scaled keeps the old one.
GlobalWaypointsCb ==
  /\ og' = 0
  /\ shared' = FALSE
  /\ UNCHANGED <<paramVars, scaled, sectors, tunerEvents, lineVars, ot, heard>>

\* Mutant: what is scaled is always the message kept.
TunerTimerKept ==
  /\ og # None
  /\ LET v == Capped(og + sectors)
         sent == Append(lineWpnts, v)
     IN /\ scaled' = v /\ og' = v /\ shared' = shared
        /\ lineWpnts' = IF Len(sent) > Depth THEN Tail(sent) ELSE sent
  /\ UNCHANGED <<paramVars, sectors, tunerEvents, line, lineEvents, ot, heard>>

\* scale_points and the publication.  The first tick makes glb_wpnts_scaled a
\* second name of glb_wpnts_og, and writing to the one changes the other.
TunerTimer ==
  /\ og # None
  /\ LET v == Capped(og + sectors)
         alias == shared \/ scaled = None
         sent == Append(lineWpnts, v)
     IN /\ scaled' = v
        /\ shared' = alias
        /\ og' = IF alias THEN v ELSE og
        /\ lineWpnts' = IF Len(sent) > Depth THEN Tail(sent) ELSE sent
  /\ UNCHANGED <<paramVars, sectors, tunerEvents, line, lineEvents, ot, heard>>

-----------------------------------------------------------------------------
(* ot_interpolator                                                         *)

LineStep == UNCHANGED <<paramVars, tunerVars, ot, heard>>

LineOgCb ==
  /\ line.phase # "dead"
  /\ line' = [line EXCEPT !.og = TRUE]
  /\ UNCHANGED <<lineEvents, lineWpnts>> /\ LineStep

LineSpCb ==
  /\ line.phase # "dead"
  /\ line' = [line EXCEPT !.sp = TRUE]
  /\ UNCHANGED <<lineEvents, lineWpnts>> /\ LineStep

LineWpntsCb ==
  /\ line.phase # "dead" /\ lineWpnts # <<>>
  /\ line' = [line EXCEPT !.scaled = Head(lineWpnts)]
  /\ lineWpnts' = Tail(lineWpnts)
  /\ UNCHANGED lineEvents /\ LineStep

\* Mutant: a change of its own parameters does not ask for a new line.
LineDynParamCbKeepsLine ==
  /\ line.phase # "dead" /\ lineEvents # <<>>
  /\ line' = IF Head(lineEvents) = "sector_tuner"
             THEN [line EXCEPT !.need = TRUE, !.scaled = None]
             ELSE [line EXCEPT !.flags = flags]
  /\ lineEvents' = Tail(lineEvents)
  /\ UNCHANGED lineWpnts /\ LineStep

\* dyn_param_cb: new speeds are waited for, new flags are read at once.
LineDynParamCb ==
  /\ line.phase # "dead" /\ lineEvents # <<>>
  /\ line' = IF Head(lineEvents) = "sector_tuner"
             THEN [line EXCEPT !.need = TRUE, !.scaled = None]
             ELSE [line EXCEPT !.need = TRUE, !.flags = flags]
  /\ lineEvents' = Tail(lineEvents)
  /\ UNCHANGED lineWpnts /\ LineStep

\* wait_for_message_callback reads glb_wpnts_sp_og last, an attribute that
\* exists only once the shortest path has come.
LineWait ==
  /\ line.phase = "waiting" /\ line.scaled # None /\ line.og
  /\ line' = [line EXCEPT !.phase = IF line.sp THEN "looping" ELSE "dead"]
  /\ UNCHANGED <<lineEvents, lineWpnts>> /\ LineStep

\* Mutant: the scaled waypoints are not waited for.
LineLoopTooEarly ==
  /\ line.phase = "looping"
  /\ LET new == IF line.need THEN [flags |-> line.flags, speed |-> line.scaled] ELSE line.wpnts
     IN line' = [line EXCEPT !.wpnts = new, !.need = FALSE,
                             !.phase = IF new = None THEN "dead" ELSE @]
  /\ UNCHANGED <<lineEvents, lineWpnts>> /\ LineStep

\* loop_cb: None, which is not a message, is published as well.
LineLoop ==
  /\ line.phase = "looping"
  /\ LET due == line.need /\ line.scaled # None
         new == IF due THEN [flags |-> line.flags, speed |-> line.scaled] ELSE line.wpnts
     IN line' = [line EXCEPT !.wpnts = new, !.need = @ /\ ~due,
                             !.phase = IF new = None THEN "dead" ELSE @]
  /\ UNCHANGED <<lineEvents, lineWpnts>> /\ LineStep

-----------------------------------------------------------------------------
(* The state machine's init_ot_params and ot_flag_cb.                      *)

OtStep == UNCHANGED <<paramVars, tunerVars, lineVars, heard>>

\* The service is there and answers with the parameters of that moment.
GetParameters ==
  /\ ot.phase = "asking" /\ line.phase # "dead"
  /\ ot' = [ot EXCEPT !.phase = "answered", !.flags = flags]
  /\ OtStep

\* The answer arrives, then the handler subscribes to the events.
InitOtParams ==
  /\ ot.phase = "answered"
  /\ ot' = [ot EXCEPT !.phase = "ready"]
  /\ OtStep

\* Mutant: the sector is not told from the parameter's name.
OtFlagCbFirstSector ==
  /\ ot.events # <<>>
  /\ LET e == Head(ot.events)
     IN ot' = [ot EXCEPT !.flags[0] = e.ot_flag, !.events = Tail(@)]
  /\ OtStep

\* The sector is the last digit of the parameter's sector name.
OtFlagCb ==
  /\ ot.events # <<>>
  /\ LET e == Head(ot.events)
     IN ot' = [ot EXCEPT !.flags[e.sector % 10] = e.ot_flag, !.events = Tail(@)]
  /\ OtStep

-----------------------------------------------------------------------------
Next ==
  \/ \E k \in Scalings : SetScaling(k) \/ SetGlobalLimit(k)
  \/ \E i \in Indices : SetOtFlag(i)
  \/ TunerDynParamCb \/ GlobalWaypointsCb \/ TunerTimer
  \/ LineOgCb \/ LineSpCb \/ LineWpntsCb \/ LineDynParamCb \/ LineWait \/ LineLoop
  \/ GetParameters \/ InitOtParams \/ OtFlagCb

Spec == Init /\ [][Next]_vars

\* The republisher and the timers never stop and every node spins.
FairSpec ==
  /\ Spec
  /\ WF_vars(TunerDynParamCb) /\ WF_vars(GlobalWaypointsCb) /\ WF_vars(TunerTimer)
  /\ WF_vars(LineOgCb) /\ WF_vars(LineSpCb) /\ WF_vars(LineWpntsCb)
  /\ WF_vars(LineDynParamCb) /\ WF_vars(LineWait) /\ WF_vars(LineLoop)
  /\ WF_vars(GetParameters) /\ WF_vars(InitOtParams) /\ WF_vars(OtFlagCb)

-----------------------------------------------------------------------------
Speed == 0..MaxHalvings

\* The nodes' state is well formed.
TypeOK ==
  /\ {scaling, limit, sectors} \subseteq Scalings /\ tuned \in BOOLEAN
  /\ flags \in [Indices -> BOOLEAN]
  /\ {og, scaled} \subseteq Speed \union {None} /\ shared \in BOOLEAN
  /\ tunerEvents \in 0..MaxChanges
  /\ line.phase \in {"waiting", "looping", "dead"}
  /\ line.scaled \in Speed \union {None}
  /\ {line.og, line.sp, line.need} \subseteq BOOLEAN
  /\ line.flags \in [Indices -> BOOLEAN]
  /\ line.wpnts \in [flags : [Indices -> BOOLEAN], speed : Speed] \union {None}
  /\ Len(lineWpnts) <= Depth
  /\ ot.phase \in {"asking", "answered", "ready"}
  /\ ot.flags \in [Indices -> BOOLEAN]
  /\ heard \subseteq Indices

\* The scaling the sector_tuner ought to work with.  The limit is applied from
\* the first change of a speed parameter on, whichever it is; a start with a
\* limit below a scaling drives at the scaling until then.
InForce == IF tuned THEN Clipped ELSE scaling

\* When the operator leaves the parameters alone the car ends up driving at
\* the speeds that are in force, within the global limit once anything has
\* been tuned: neither the aliased first messages nor an event that is late
\* leaves a wrong speed behind.
SpeedsSettle == <>[](scaled = Capped(InForce))

\* Every flag that changes after the registration is taken over, in the order
\* of the changes: with no event under way the state machine overtakes in the
\* sectors the operator has released.
FlagsFollow ==
  ot.phase = "ready" /\ ot.events = <<>> => \A i \in heard : ot.flags[i] = flags[i]

\* No change of a flag is forgotten: with no event of its own under way and no
\* new line due, what the ot_interpolator publishes was made for the flags as
\* they are, although one variable tells it of both kinds of change
\* (dyn_param_cb, loop_cb).
LineFollows ==
  (\A k \in DOMAIN lineEvents : lineEvents[k] # "ot_interpolator") /\ ~line.need
    => line.wpnts.flags = flags

\* Once a second message has come the two names are apart for good, and every
\* speed that is published from then on, with no event under way, is the one
\* in force, scaled once (scale_points, dyn_param_cb).
ScaledOnceApart ==
  [][scaled # None /\ ~shared =>
       /\ ~shared'
       /\ scaled' # scaled /\ tunerEvents = 0 => scaled' = Capped(InForce)]_vars

\* An ot_interpolator that survives its start publishes, in the end, a line
\* for the flags as they are, although an event of the sector_tuner makes it
\* drop the waypoints it needs for that.
LineSettles ==
  <>[](line.phase = "dead" \/ (line.wpnts # None /\ line.wpnts.flags = flags))

\* What the sector_tuner says it publishes: the raceline's speeds, scaled.
ScaledOnce == [][scaled' # scaled => scaled' = sectors]_vars
=============================================================================
