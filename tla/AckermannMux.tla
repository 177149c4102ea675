----------------------------- MODULE AckermannMux -----------------------------
(***************************************************************************)
(* The drive command multiplexer (ackermann_mux).  Several sources publish *)
(* drive commands, each with a priority and a timeout; locks, also with a  *)
(* priority and a timeout, hold back every source below them.  A command   *)
(* is passed on when it arrives, if its source then has priority.          *)
(*                                                                         *)
(* The node is spun by one thread: a callback is one atomic step.  Time is *)
(* kept as the age of each handle's stamp, counted up to one more than its *)
(* timeout, beyond which nothing distinguishes it.                         *)
(***************************************************************************)
EXTENDS Integers, Sequences

CONSTANTS
  Velocities,  \* the velocity handles in list order, [timeout |-> , priority |-> ]
  Locks,       \* the lock handles in list order
  StartTime,   \* the clock when the node starts; 0 under simulated time
  Commands,    \* what a drive command says; "stop" is zero speed
  Reliable     \* the sources that keep publishing, as timer-driven nodes do

ASSUME HandleAssumption ==
  /\ Velocities \in Seq([timeout : Nat, priority : Int])
  /\ Locks \in Seq([timeout : Nat, priority : Int])
  /\ StartTime \in Nat
  /\ Reliable \subseteq DOMAIN Velocities

VARIABLES
  velocity_age,  \* now() - stamp_ of each velocity handle
  lock_age,      \* now() - stamp_ of each lock handle
  lock_data,     \* msg_.data of each lock handle
  cmd            \* the last command published on ackermann_cmd

vars == <<velocity_age, lock_age, lock_data, cmd>>

Inputs == DOMAIN Velocities
LockIds == DOMAIN Locks

\* Ages are compared with a timeout only.
CappedAge(h, age) == IF age > h.timeout + 1 THEN h.timeout + 1 ELSE age

NoCommand == [from |-> 0, drive |-> "none"]

TypeOK ==
  /\ \A v \in Inputs : velocity_age[v] \in 0 .. Velocities[v].timeout + 1
  /\ \A l \in LockIds : lock_age[l] \in 0 .. Locks[l].timeout + 1
  /\ lock_data \in [LockIds -> BOOLEAN]
  /\ cmd \in [from : Inputs, drive : Commands] \cup {NoCommand}

\* stamp_ starts at 0, so that the age is the time the clock starts with.
Init ==
  /\ velocity_age = [v \in Inputs |-> CappedAge(Velocities[v], StartTime)]
  /\ lock_age = [l \in LockIds |-> CappedAge(Locks[l], StartTime)]
  /\ lock_data = [l \in LockIds |-> FALSE]
  /\ cmd = NoCommand

-----------------------------------------------------------------------------
\* topic_handle.hpp

\* The constructor clamps the priority.
Priority(h) == IF h.priority < 0 THEN 0 ELSE IF h.priority > 255 THEN 255 ELSE h.priority

\* Mutant: a silent handle never expires.
HasExpiredLate(h, age) == h.timeout > 0 /\ age > h.timeout + 1

\* A timeout of 0 means none.
HasExpired(h, age) == h.timeout > 0 /\ age > h.timeout

\* Mutant: a silent lock opens.
IsLockedSpoken(l, age, data) == data[l]

\* A lock whose publisher falls silent locks.
IsLocked(l, age, data) == HasExpired(Locks[l], age[l]) \/ data[l]

IsMasked(v, age, lock_priority) ==
  HasExpired(Velocities[v], age[v]) \/ Priority(Velocities[v]) < lock_priority

-----------------------------------------------------------------------------
\* ackermann_mux.cpp

\* The highest priority of an engaged lock, 0 without one.
GetLockPriority ==
  LET best[l \in 0 .. Len(Locks)] ==
        IF l = 0 THEN 0
        ELSE IF IsLocked(l, lock_age, lock_data) /\ best[l - 1] < Priority(Locks[l])
        THEN Priority(Locks[l]) ELSE best[l - 1]
  IN best[Len(Locks)]

\* The first of the unmasked inputs with the highest priority; 0 ("NULL")
\* when there is none with a priority above 0.
Winner(age) ==
  LET best[v \in 0 .. Len(Velocities)] ==
        IF v = 0 THEN [priority |-> 0, input |-> 0]
        ELSE IF /\ ~IsMasked(v, age, GetLockPriority)
                /\ best[v - 1].priority < Priority(Velocities[v])
        THEN [priority |-> Priority(Velocities[v]), input |-> v] ELSE best[v - 1]
  IN best[Len(Velocities)].input

\* Mutant: the winner is sought before the message is stamped.
VelocityCallbackUnstamped(v, drive) ==
  /\ velocity_age' = [velocity_age EXCEPT ![v] = 0]
  /\ cmd' = IF Winner(velocity_age) = v THEN [from |-> v, drive |-> drive] ELSE cmd
  /\ UNCHANGED <<lock_age, lock_data>>

\* VelocityTopicHandle::callback: stamp, then publish if it has priority.
VelocityCallback(v, drive) ==
  /\ velocity_age' = [velocity_age EXCEPT ![v] = 0]
  /\ cmd' = IF Winner(velocity_age') = v THEN [from |-> v, drive |-> drive] ELSE cmd
  /\ UNCHANGED <<lock_age, lock_data>>

\* LockTopicHandle::callback
LockCallback(l, data) ==
  /\ lock_age' = [lock_age EXCEPT ![l] = 0]
  /\ lock_data' = [lock_data EXCEPT ![l] = data]
  /\ UNCHANGED <<velocity_age, cmd>>

\* The clock advances for every handle.
Elapse ==
  /\ velocity_age' = [v \in Inputs |-> CappedAge(Velocities[v], velocity_age[v] + 1)]
  /\ lock_age' = [l \in LockIds |-> CappedAge(Locks[l], lock_age[l] + 1)]
  /\ UNCHANGED <<lock_data, cmd>>

Next ==
  \/ \E v \in Inputs, drive \in Commands : VelocityCallback(v, drive)
  \/ \E l \in LockIds, data \in BOOLEAN : LockCallback(l, data)
  \/ Elapse

Spec == Init /\ [][Next]_vars

\* Time passes, and the reliable sources keep publishing; the others, such as
\* a joystick, and the locks may fall silent.
FairSpec ==
  /\ Spec
  /\ WF_vars(Elapse)
  /\ \A v \in Reliable : WF_vars(\E drive \in Commands : VelocityCallback(v, drive))

-----------------------------------------------------------------------------
\* Properties.

\* What "engaged" and "competing" mean, without the loops of the code.
Engaged(l) == lock_data[l] \/ (Locks[l].timeout > 0 /\ lock_age[l] > Locks[l].timeout)
Silent(v) == Velocities[v].timeout > 0 /\ velocity_age[v] > Velocities[v].timeout
HeldBack(v) == \E l \in LockIds : Engaged(l) /\ Priority(Velocities[v]) < Priority(Locks[l])
Outranks(w, v) ==
  \/ Priority(Velocities[w]) > Priority(Velocities[v])
  \/ Priority(Velocities[w]) = Priority(Velocities[v]) /\ w < v

\* A source's command reaches the motors only while no lock above it is
\* engaged or has fallen silent, and while every source that outranks it is
\* silent itself: the joystick keeps the autopilot out, and a dead lock
\* publisher stops everything below it.
NeverOverridden ==
  [][\A v \in Inputs, drive \in Commands :
       VelocityCallback(v, drive) /\ cmd' # cmd =>
         /\ ~HeldBack(v)
         /\ \A w \in Inputs \ {v} : Outranks(w, v) => Silent(w) \/ HeldBack(w)]_vars

\* A command is never lost to a source that could not have been passed on
\* itself: when no other source competes, it goes through.
NeverSwallowed ==
  [][\A v \in Inputs, drive \in Commands :
       /\ VelocityCallback(v, drive)
       /\ ~HeldBack(v) /\ Priority(Velocities[v]) > 0
       /\ \A w \in Inputs \ {v} : Outranks(w, v) => Silent(w) \/ HeldBack(w)
       => cmd' = [from |-> v, drive |-> drive]]_vars

\* When a reliable source is alone for good, its commands take over from
\* whichever source was driving before.
Alone(v) ==
  /\ ~HeldBack(v)
  /\ \A w \in Inputs \ {v} : Silent(w)
Handover ==
  \A v \in Reliable :
    Priority(Velocities[v]) > 0 /\ <>[]Alone(v) => <>[](cmd.from = v)

-----------------------------------------------------------------------------
\* What the documentation says and the code does not do.

\* ackermann_mux_topics.yaml, timeout: "start discarding old messages, and use
\* 0.0 speed instead".
SilenceStops ==
  <>[](\A v \in Inputs : Silent(v)) => <>[](cmd = NoCommand \/ cmd.drive = "stop")
=============================================================================
