------------------------- MODULE StateMachineHistory -------------------------
(***************************************************************************)
(* StateMachine with a record of what its two counters stand for.          *)
(*                                                                         *)
(* splini_ttl is a number of seconds, but the node counts it down in timer *)
(* ticks, loaded by one callback and counted by another: msg_age measures  *)
(* how old the planner's last message really is, and the timer period may  *)
(* change through parameter rate_hz.  trailing_to_gbtrack_count counts     *)
(* detections of a free raceline in one transition function and is reset   *)
(* in others: free_run says for how many ticks in a row it has been free.  *)
(***************************************************************************)
EXTENDS StateMachine

CONSTANTS
  Period,   \* the timer period the node starts with
  Periods,  \* the periods an operator may set
  AgeCap    \* ages are counted up to this bound

ASSUME PeriodAssumption ==
  /\ Period \in Nat \ {0}
  /\ Periods \subseteq Nat \ {0}
  /\ AgeCap \in Nat /\ AgeCap > TtlTicks * Period

VARIABLES
  timer_period,  \* main_loop.timer_period_ns
  msg_age,       \* time since avoidance_cb last stored a message
  free_run       \* ticks in a row that found the raceline free, to Threshold

histVars == <<timer_period, msg_age, free_run>>

\* The time to live in time units, as the parameters were at the start.
TtlTime == TtlTicks * Period

CappedAge(x) == IF x > AgeCap THEN AgeCap ELSE x

HistInit ==
  /\ Init
  /\ timer_period = Period
  /\ msg_age = 0
  /\ free_run = 0

\* Receiving a message costs no time.  Ages count whole periods from the first
\* tick after the message, so they never exceed the true age: -1 stands for a
\* message no tick has seen yet.
Receive(m) ==
  /\ AvoidanceCb(m)
  /\ msg_age' = -1
  /\ UNCHANGED <<timer_period, free_run>>

\* Every tick looks at the obstacles it finds.
Tick ==
  /\ MainLoop
  /\ msg_age' = (IF msg_age = -1 THEN 0 ELSE CappedAge(msg_age + timer_period))
  /\ free_run' = (IF ~GbFree THEN 0
                  ELSE IF free_run < Threshold THEN free_run + 1 ELSE Threshold)
  /\ UNCHANGED timer_period

\* parameters_callback, case rate_hz: only the timer is changed.
SetRateHz(p) ==
  /\ phase \in LoopPhases
  /\ timer_period' = p
  /\ UNCHANGED <<vars, msg_age, free_run>>

Unrecorded ==
  \/ Startup
  \/ \E p \in Poses : CarStateFrenetCb(p)
  \/ \E obs \in ObstacleArrays : ObstaclesCb(obs)
  \/ \E level \in {"ok", "low"} : BatteryCb(level)
  \/ \E i \in DOMAIN Sectors, flag \in BOOLEAN : OtFlagCb(i, flag)

HistNext ==
  \/ Unrecorded /\ UNCHANGED histVars
  \/ \E line \in Paths, age \in SwitchAges : Receive([wpnts |-> line, age |-> age])
  \/ Tick
  \/ \E p \in Periods : SetRateHz(p)

HistSpec == HistInit /\ [][HistNext]_<<vars, histVars>>

-----------------------------------------------------------------------------
\* splini_ttl bounds how long a cached line outlives the planner: once the
\* planner has been silent for that many seconds, no line is cached.
CachedWithinTtl == last_valid # None => msg_age <= TtlTime

\* Without an operator, the race is resumed on the raceline after trailing
\* only when the raceline was found free by Threshold ticks in a row, this one
\* included, whatever detours the state machine took while it counted.
RejoinAfterFreeRun ==
  [][FreeTick /\ state = "TRAILING_TO_GBTRACK" /\ state' = "GB_TRACK" =>
       free_run' >= Threshold]_<<vars, histVars>>
=============================================================================
