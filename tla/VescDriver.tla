------------------------------ MODULE VescDriver ------------------------------
(***************************************************************************)
(* The VESC driver (sensors/vesc/vesc_driver): the node that forwards      *)
(* motor and servo commands to the motor controller and publishes its      *)
(* telemetry.                                                              *)
(*                                                                         *)
(* Two threads share plain variables without a lock.  The main thread runs *)
(* the constructor, then the executor (timer and command callbacks), then  *)
(* the destructors; the reader thread, started by connect and joined by    *)
(* disconnect, blocks on the serial port and handles each packet.  The     *)
(* controller answers requests over a link that may lose bytes, and with   *)
(* them whole packets; how bytes become packets is VescFraming's subject.  *)
(***************************************************************************)
EXTENDS Integers, Sequences

CONSTANTS
  FwMajor, FwMinor,  \* the version the controller reports
  Unit,              \* 1.0 of a duty cycle or servo position, in model units
  Configs,           \* the limits that may be configured, per kind of command
  Values,            \* the values that may be commanded
  StaleReplies,      \* what may be left on the line when the port is opened
  MaxOutstanding,    \* requests of one kind the link holds
  MaxReplies         \* replies the line holds

Replies == {"FWVersion", "Values", "ImuData"}

CommandKinds == {"duty_cycle", "current", "brake", "speed", "position", "servo"}

\* state_pub_, imu_pub_, imu_std_pub_ and servo_sensor_pub_ are created in
\* this order and destroyed in the opposite one.
Publishers == 4

ASSUME VersionAssumption == FwMajor \in Nat /\ FwMinor \in Nat

ASSUME CommandAssumption ==
  /\ Unit \in Nat \ {0}
  /\ Configs \subseteq [CommandKinds -> [min : Int, max : Int]]
  /\ Values \subseteq Int

ASSUME LinkAssumption ==
  /\ StaleReplies \subseteq Seq(Replies)
  /\ MaxOutstanding \in Nat \ {0}
  /\ MaxReplies \in Nat

VARIABLES
  main,      \* what the main thread is in
  pubs,      \* how many of the publishers exist
  mode,      \* driver_mode_
  fw_major,  \* fw_version_major_
  fw_minor,  \* fw_version_minor_
  params,    \* the configured *_min and *_max
  driven,    \* the last command sent to the controller
  reader,    \* what the reader thread is in
  run,       \* packet_thread_run_
  requests,  \* requests the controller has not answered
  replies,   \* the packets on the line to the driver
  lost       \* was anything lost since the reader was told to stop?

driverVars == <<pubs, mode, fw_major, fw_minor, params, driven, run>>
linkVars   == <<requests, replies, lost>>
vars       == <<main, reader, driverVars, linkVars>>

NoCommand == [kind |-> "none", value |-> 0]

StopPhases == {"destroy", "stop", "join"}
MainPhases == {"connect", "create", "spin", "gone"} \cup StopPhases

TypeOK ==
  /\ main \in MainPhases
  /\ pubs \in 0 .. Publishers
  /\ mode \in {"INITIALIZING", "OPERATING"}
  /\ fw_major \in {-1, FwMajor}
  /\ fw_minor \in {-1, FwMinor}
  /\ params \in [CommandKinds -> [min : Int, max : Int]]
  /\ driven \in [kind : CommandKinds, value : Int] \cup {NoCommand}
  /\ reader \in {"none", "check", "receive", "version", "handled", "exited", "crashed"}
  /\ run \in BOOLEAN
  /\ requests \in [Replies -> 0 .. MaxOutstanding]
  /\ replies \in Seq(Replies)
  /\ lost \in BOOLEAN

Init ==
  /\ main = "connect"
  /\ pubs = 0
  /\ mode = "INITIALIZING"
  /\ fw_major = -1
  /\ fw_minor = -1
  /\ params \in Configs
  /\ driven = NoCommand
  /\ reader = "none"
  /\ run = FALSE
  /\ requests = [k \in Replies |-> 0]
  /\ replies \in StaleReplies
  /\ lost = FALSE

\* A thread that crashes takes the process with it.
Alive == reader # "crashed"

-----------------------------------------------------------------------------
\* CommandLimit: the configured bounds, moved into the feasible range and put
\* in order.  A bound that is not configured is 0.0.

Bounded(kind)  == kind \in {"duty_cycle", "servo"}
MinLower(kind) == IF kind = "servo" THEN 0 ELSE -Unit
MaxUpper(kind) == Unit

Feasible(kind, x) ==
  IF ~Bounded(kind) THEN x
  ELSE IF x < MinLower(kind) THEN MinLower(kind)
  ELSE IF x > MaxUpper(kind) THEN MaxUpper(kind)
  ELSE x

\* Mutant: bounds in the wrong order are not exchanged.
CommandLimitUnordered(kind) ==
  [lower |-> Feasible(kind, params[kind].min), upper |-> Feasible(kind, params[kind].max)]

CommandLimit(kind) ==
  LET a == Feasible(kind, params[kind].min)
      b == Feasible(kind, params[kind].max)
  IN IF a > b THEN [lower |-> b, upper |-> a] ELSE [lower |-> a, upper |-> b]

Clip(kind, v) ==
  IF v < CommandLimit(kind).lower THEN CommandLimit(kind).lower
  ELSE IF v > CommandLimit(kind).upper THEN CommandLimit(kind).upper
  ELSE v

\* Positions are sent in degrees; 180 / pi to the nearest integer.
Scale(kind) == IF kind = "position" THEN 57 ELSE 1

-----------------------------------------------------------------------------
\* The main thread.

Ask(k) == [requests EXCEPT ![k] = IF @ < MaxOutstanding THEN @ + 1 ELSE @]

\* vesc_.connect: the reader runs from here on, before any publisher exists.
Connect ==
  /\ main = "connect"
  /\ main' = "create"
  /\ run' = TRUE
  /\ reader' = "check"
  /\ UNCHANGED <<pubs, mode, fw_major, fw_minor, params, driven, linkVars>>

\* The port cannot be opened: the constructor shuts the node down.
ConnectFails ==
  /\ main = "connect"
  /\ main' = "gone"
  /\ UNCHANGED <<reader, driverVars, linkVars>>

CreatePublisher ==
  /\ Alive
  /\ main = "create" /\ pubs < Publishers
  /\ pubs' = pubs + 1
  /\ UNCHANGED <<main, reader, mode, fw_major, fw_minor, params, driven, run, linkVars>>

\* Mutant: the timer is created and runs before all publishers exist.
StartSpinningEarly ==
  /\ Alive
  /\ main = "create"
  /\ main' = "spin"
  /\ UNCHANGED <<reader, driverVars, linkVars>>

\* Subscriptions and timer exist, and the node is spun.
StartSpinning ==
  /\ Alive
  /\ main = "create" /\ pubs = Publishers
  /\ main' = "spin"
  /\ UNCHANGED <<reader, driverVars, linkVars>>

\* Mutant: half a version is enough.
TimerInitializingMajor ==
  /\ mode = "INITIALIZING"
  /\ requests' = Ask("FWVersion")
  /\ mode' = IF fw_major >= 0 THEN "OPERATING" ELSE mode

\* timerCallback, MODE_INITIALIZING: ask for the version and go on once both
\* parts are there.
TimerInitializing ==
  /\ mode = "INITIALIZING"
  /\ requests' = Ask("FWVersion")
  /\ mode' = IF fw_major >= 0 /\ fw_minor >= 0 THEN "OPERATING" ELSE mode

\* timerCallback, MODE_OPERATING: poll state and inertial data.
TimerOperating ==
  /\ mode = "OPERATING"
  /\ requests' = [k \in Replies |->
                    IF k = "FWVersion" THEN requests[k] ELSE Ask(k)[k]]
  /\ UNCHANGED mode

TimerCallback ==
  /\ Alive
  /\ main = "spin"
  /\ TimerInitializing \/ TimerOperating
  /\ UNCHANGED <<main, reader, pubs, fw_major, fw_minor, params, driven, run, replies, lost>>

\* The six command callbacks; a command is dropped unless operating.
Command(kind, v) ==
  /\ Alive
  /\ main = "spin"
  /\ mode = "OPERATING"
  /\ driven' = [kind |-> kind, value |-> Scale(kind) * Clip(kind, v)]
  /\ UNCHANGED <<main, reader, pubs, mode, fw_major, fw_minor, params, run, linkVars>>

\* rclcpp::shutdown, by a signal or by the timer when the port is closed, ends
\* the spinning; the node's members are destroyed in reverse order of their
\* declaration: the publishers go before vesc_, whose destructor disconnects.
Shutdown ==
  /\ Alive
  /\ main = "spin"
  /\ main' = "destroy"
  /\ UNCHANGED <<reader, driverVars, linkVars>>

\* Mutant: one publisher too many is released.
DestroyPublisherTwice ==
  /\ Alive
  /\ main = "destroy"
  /\ pubs' = pubs - 1
  /\ UNCHANGED <<main, reader, mode, fw_major, fw_minor, params, driven, run, linkVars>>

DestroyPublisher ==
  /\ Alive
  /\ main = "destroy" /\ pubs > 0
  /\ pubs' = pubs - 1
  /\ UNCHANGED <<main, reader, mode, fw_major, fw_minor, params, driven, run, linkVars>>

\* VescInterface::disconnect: tell the reader to stop, ask for one more
\* packet so that it leaves receive, and wait for it.  It does so only if
\* isConnected, which it is: a constructor that cannot open the port throws,
\* and only disconnect closes it, once, after the join.
StopReader ==
  /\ Alive
  /\ main = "destroy" /\ pubs = 0
  /\ main' = "stop"
  /\ run' = FALSE
  /\ UNCHANGED <<reader, pubs, mode, fw_major, fw_minor, params, driven, linkVars>>

\* Mutant: nothing wakes the reader.
WakeReaderNot ==
  /\ Alive
  /\ main = "stop"
  /\ main' = "join"
  /\ UNCHANGED <<reader, driverVars, linkVars>>

WakeReader ==
  /\ Alive
  /\ main = "stop"
  /\ main' = "join"
  /\ requests' = Ask("FWVersion")
  /\ UNCHANGED <<reader, driverVars, replies, lost>>

Join ==
  /\ main = "join"
  /\ reader = "exited"
  /\ main' = "gone"
  /\ UNCHANGED <<reader, driverVars, linkVars>>

-----------------------------------------------------------------------------
\* The reader thread.

\* vescPacketCallback, FWVersion: the two parts are written without a lock, so
\* that either may be the first the main thread sees.
ReaderVersion ==
  /\ reader = "receive"
  /\ replies # <<>> /\ Head(replies) = "FWVersion"
  /\ reader' = "version"
  /\ \/ fw_major' = FwMajor /\ UNCHANGED fw_minor
     \/ fw_minor' = FwMinor /\ UNCHANGED fw_major
  /\ replies' = Tail(replies)
  /\ UNCHANGED <<main, pubs, mode, params, driven, run, requests, lost>>

\* Mutant: the second assignment is to the major part, too.
ReaderVersionDoneMajor ==
  /\ reader = "version"
  /\ reader' = "handled"
  /\ fw_major' = FwMajor
  /\ UNCHANGED <<main, pubs, mode, fw_minor, params, driven, run, linkVars>>

ReaderVersionDone ==
  /\ reader = "version"
  /\ reader' = "handled"
  /\ fw_major' = FwMajor
  /\ fw_minor' = FwMinor
  /\ UNCHANGED <<main, pubs, mode, params, driven, run, linkVars>>

\* How many publishers a packet needs: Values the first, ImuData the first
\* three.
Needed(k) == IF k = "Values" THEN 1 ELSE 3

\* vescPacketCallback, Values and ImuData: publishing through a publisher that
\* is not there is undefined behaviour; the process crashes, or gets away with
\* it once the publisher has been destroyed.
ReaderTelemetry ==
  /\ reader = "receive"
  /\ replies # <<>> /\ Head(replies) # "FWVersion"
  /\ \/ pubs >= Needed(Head(replies)) /\ reader' = "handled"
     \/ pubs < Needed(Head(replies)) /\ reader' = "crashed"
     \/ pubs < Needed(Head(replies)) /\ main \in StopPhases /\ reader' = "handled"
  /\ replies' = Tail(replies)
  /\ UNCHANGED <<main, driverVars, requests, lost>>

\* The rest of the same read, if any, is handled before the flag is looked at.
ReaderContinue ==
  /\ reader = "handled"
  /\ replies # <<>>
  /\ reader' = "receive"
  /\ UNCHANGED <<main, driverVars, linkVars>>

ReaderCheck ==
  /\ reader \in {"check", "handled"}
  /\ reader' = IF run THEN "receive" ELSE "exited"
  /\ UNCHANGED <<main, driverVars, linkVars>>

-----------------------------------------------------------------------------
\* The controller and the link to it.

VescReply(k) ==
  /\ Alive
  /\ requests[k] > 0
  /\ Len(replies) < MaxReplies
  /\ requests' = [requests EXCEPT ![k] = @ - 1]
  /\ replies' = Append(replies, k)
  /\ UNCHANGED <<main, reader, driverVars, lost>>

Losing == lost' = (lost \/ main \in {"stop", "join"})

LoseRequest(k) ==
  /\ Alive
  /\ requests[k] > 0
  /\ requests' = [requests EXCEPT ![k] = @ - 1]
  /\ Losing
  /\ UNCHANGED <<main, reader, driverVars, replies>>

LoseReply ==
  /\ Alive
  /\ replies # <<>>
  /\ replies' = Tail(replies)
  /\ Losing
  /\ UNCHANGED <<main, reader, driverVars, requests>>

-----------------------------------------------------------------------------
Reader ==
  \/ ReaderVersion \/ ReaderVersionDone \/ ReaderTelemetry
  \/ ReaderContinue \/ ReaderCheck

Lifecycle ==
  \/ Connect \/ CreatePublisher \/ StartSpinning
  \/ DestroyPublisher \/ StopReader \/ WakeReader \/ Join

Link ==
  \/ \E k \in Replies : VescReply(k) \/ LoseRequest(k)
  \/ LoseReply

Next ==
  \/ Lifecycle \/ ConnectFails \/ Shutdown
  \/ TimerCallback
  \/ \E kind \in CommandKinds, v \in Values : Command(kind, v)
  \/ Reader
  \/ Link

Spec == Init /\ [][Next]_vars

\* Threads are scheduled, the timer fires, the controller answers, and the
\* link, when asked over and over, does not lose every answer.
FairSpec ==
  /\ Spec
  /\ WF_vars(Lifecycle) /\ WF_vars(TimerCallback)
  /\ WF_vars(Reader) /\ SF_vars(ReaderVersion)
  /\ SF_vars(VescReply("FWVersion"))

-----------------------------------------------------------------------------
\* Properties.

\* The motor is not driven before the controller has identified itself
\* completely, although the reader writes the version in two steps while the
\* timer reads it (timerCallback, vescPacketCallback).
DrivenIdentified ==
  driven # NoCommand => fw_major = FwMajor /\ fw_minor = FwMinor

\* The values a kind of command may take: between the configured bounds,
\* whichever of them is the larger, and feasible.
Permitted(kind, x) ==
  /\ \/ params[kind].min <= x /\ x <= params[kind].max
     \/ params[kind].max <= x /\ x <= params[kind].min
  /\ Bounded(kind) => MinLower(kind) <= x /\ x <= MaxUpper(kind)

\* A command is sent as it is when it is permitted, and is otherwise replaced
\* by the permitted value closest to it, in whichever order and however far
\* out of range the limits are configured (CommandLimit, clip).
Distance(x, y) == IF x < y THEN y - x ELSE x - y
DrivenClosest ==
  [][\A kind \in CommandKinds, v \in Values :
       Command(kind, v) =>
         \A x \in -3 * Unit .. 3 * Unit : Permitted(kind, x) =>
           /\ Permitted(kind, driven'.value \div Scale(kind))
           /\ Distance(driven'.value \div Scale(kind), v) <= Distance(x, v)]_vars

\* Telemetry that was asked for always finds the publishers it needs: when
\* nothing was left on the line, only the destructors can take a publisher
\* away from the reader (constructor, vescPacketCallback).
TelemetryHasPublisher ==
  reader = "crashed" => main \in StopPhases \/ StaleReplies # {<<>>}

\* A driver that keeps running gets to know its controller in spite of lost
\* requests and answers, because every timer tick asks again.
Identified ==
  <>[](main = "spin" /\ Alive) => <>(mode = "OPERATING")

\* The reader that disconnect waits for is never left in receive with nothing
\* to take it out: the last request or what answers it is still under way,
\* unless the line has lost it (VescInterface::disconnect, rxThread).
NoLostWakeup ==
  main = "join" /\ reader = "receive" =>
    requests["FWVersion"] > 0 \/ replies # <<>> \/ lost

\* disconnect comes back: the answer to its last request takes the reader out
\* of receive, and the flag written before makes it leave, unless that answer
\* is lost.
DisconnectReturns == main = "stop" ~> main = "gone" \/ lost \/ ~Alive
=============================================================================
