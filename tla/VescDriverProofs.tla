--------------------------- MODULE VescDriverProofs ---------------------------
(***************************************************************************)
(* What holds of VescDriver for every controller, every configuration and  *)
(* every capacity of the link.                                             *)
(***************************************************************************)
EXTENDS VescDriver, TLAPS

\* Neither the mode nor a command runs ahead of the two parts of the version.
VersionBeforeMode ==
  /\ mode = "OPERATING" => fw_major = FwMajor /\ fw_minor = FwMinor
  /\ driven # NoCommand => mode = "OPERATING"

\* While the constructor runs nothing has been asked for, and the executor
\* runs with all publishers; the reader is gone before the process is.
ThreadsInStep ==
  /\ main = "connect" => reader = "none"
  /\ main = "gone" => reader \in {"none", "exited"}
  /\ main = "spin" => pubs = Publishers
  /\ (main \in {"connect", "create"} /\ StaleReplies = {<<>>}) =>
       /\ replies = <<>>
       /\ requests = [k \in Replies |-> 0]

IInv == TypeOK /\ VersionBeforeMode /\ ThreadsInStep /\ TelemetryHasPublisher

-----------------------------------------------------------------------------
\* A limited command is a number, whatever the configuration.
LEMMA ClipType ==
  ASSUME CommandAssumption, params \in [CommandKinds -> [min : Int, max : Int]],
         NEW kind \in CommandKinds, NEW v \in Values
  PROVE  Scale(kind) * Clip(kind, v) \in Int
<1>1. v \in Int /\ params[kind].min \in Int /\ params[kind].max \in Int
  BY DEF CommandAssumption
<1>2. ASSUME NEW x \in Int PROVE Feasible(kind, x) \in Int
  BY DEF Feasible, MinLower, MaxUpper, CommandAssumption
<1>3. CommandLimit(kind).lower \in Int /\ CommandLimit(kind).upper \in Int
  BY <1>1, <1>2 DEF CommandLimit
<1>4. Clip(kind, v) \in Int
  BY <1>1, <1>3 DEF Clip
<1> QED
  BY <1>4 DEF Scale

\* One more request of a kind still fits.
LEMMA AskType ==
  ASSUME LinkAssumption, requests \in [Replies -> 0 .. MaxOutstanding], NEW k \in Replies
  PROVE  Ask(k) \in [Replies -> 0 .. MaxOutstanding]
BY DEF Ask, LinkAssumption

LEMMA InitIInv == Init => IInv
<1> SUFFICES ASSUME Init PROVE IInv
  OBVIOUS
<1>1. params \in [CommandKinds -> [min : Int, max : Int]] /\ replies \in Seq(Replies)
  BY CommandAssumption, LinkAssumption DEF Init, CommandAssumption, LinkAssumption
<1>2. requests \in [Replies -> 0 .. MaxOutstanding]
  BY LinkAssumption DEF Init, LinkAssumption
<1>3. pubs \in 0 .. Publishers
  BY DEF Init, Publishers
<1>4. TypeOK
  BY <1>1, <1>2, <1>3, Zenon DEF Init, TypeOK, MainPhases
<1>5. VersionBeforeMode /\ TelemetryHasPublisher
  BY DEF Init, VersionBeforeMode, TelemetryHasPublisher
<1>6. ThreadsInStep
  BY DEF Init, ThreadsInStep
<1> QED
  BY <1>4, <1>5, <1>6 DEF IInv

-----------------------------------------------------------------------------
\* The steps of the three actors keep the invariant.

LEMMA LifecycleIInv == ASSUME IInv, Lifecycle \/ ConnectFails \/ Shutdown PROVE IInv'
<1> USE DEF IInv, driverVars, linkVars
<1>1. TypeOK'
  <2>1. main' \in MainPhases /\ run' \in BOOLEAN
    BY Zenon DEF TypeOK, Lifecycle, Connect, ConnectFails, CreatePublisher, StartSpinning,
        Shutdown, DestroyPublisher, StopReader, WakeReader, Join, MainPhases, StopPhases
  <2>2. pubs' \in 0 .. Publishers
    BY DEF TypeOK, Lifecycle, Connect, ConnectFails, CreatePublisher, StartSpinning, Shutdown,
        DestroyPublisher, StopReader, WakeReader, Join, Publishers
  <2>3. requests' \in [Replies -> 0 .. MaxOutstanding]
    <3>1. Ask("FWVersion") \in [Replies -> 0 .. MaxOutstanding]
      BY AskType, LinkAssumption DEF TypeOK, Replies
    <3> QED
      BY <3>1 DEF TypeOK, Lifecycle, Connect, ConnectFails, CreatePublisher, StartSpinning,
          Shutdown, DestroyPublisher, StopReader, WakeReader, Join
  <2>4. reader' \in {"none", "check", "receive", "version", "handled", "exited", "crashed"}
    BY DEF TypeOK, Lifecycle, Connect, ConnectFails, CreatePublisher, StartSpinning, Shutdown,
        DestroyPublisher, StopReader, WakeReader, Join
  <2>5. UNCHANGED <<mode, fw_major, fw_minor, params, driven, replies, lost>>
    BY DEF Lifecycle, Connect, ConnectFails, CreatePublisher, StartSpinning, Shutdown,
        DestroyPublisher, StopReader, WakeReader, Join
  <2> QED
    BY <2>1, <2>2, <2>3, <2>4, <2>5 DEF TypeOK
<1>2. VersionBeforeMode'
  BY DEF VersionBeforeMode, Lifecycle, Connect, ConnectFails, CreatePublisher, StartSpinning,
      Shutdown, DestroyPublisher, StopReader, WakeReader, Join
<1>3. ThreadsInStep'
  BY DEF ThreadsInStep, TypeOK, Publishers, Lifecycle, Connect, ConnectFails, CreatePublisher,
      StartSpinning, Shutdown, DestroyPublisher, StopReader, WakeReader, Join
<1>4. TelemetryHasPublisher'
  BY DEF TelemetryHasPublisher, ThreadsInStep, Alive, StopPhases, Lifecycle, Connect,
      ConnectFails, CreatePublisher, StartSpinning, Shutdown, DestroyPublisher, StopReader,
      WakeReader, Join
<1> QED
  BY <1>1, <1>2, <1>3, <1>4

\* The timer goes on only when both parts of the version are there.
LEMMA TimerIInv == ASSUME IInv, TimerCallback PROVE IInv'
<1> USE DEF IInv, TimerCallback
<1>1. requests' \in [Replies -> 0 .. MaxOutstanding] /\ mode' \in {"INITIALIZING", "OPERATING"}
  <2>1. CASE TimerInitializing
    BY <2>1, AskType, LinkAssumption DEF TimerInitializing, TypeOK, Replies
  <2>2. CASE TimerOperating
    <3>1. \A k \in Replies : Ask(k)[k] \in 0 .. MaxOutstanding
      BY AskType, LinkAssumption DEF TypeOK
    <3> QED
      BY <2>2, <3>1 DEF TimerOperating, TypeOK
  <2> QED
    BY <2>1, <2>2
<1>2. TypeOK'
  BY <1>1 DEF TypeOK
<1>3. VersionBeforeMode'
  BY VersionAssumption
  DEF VersionBeforeMode, TypeOK, VersionAssumption, TimerInitializing, TimerOperating
<1>4. ThreadsInStep' /\ TelemetryHasPublisher'
  BY DEF ThreadsInStep, TelemetryHasPublisher, TypeOK
<1> QED
  BY <1>2, <1>3, <1>4

\* Commands are sent only in the mode that has seen the version.
LEMMA CommandIInv ==
  ASSUME IInv, NEW kind \in CommandKinds, NEW v \in Values, Command(kind, v)
  PROVE  IInv'
<1> USE DEF IInv, Command, linkVars
<1>1. TypeOK'
  <2>1. driven' \in [kind : CommandKinds, value : Int]
    BY ClipType, CommandAssumption DEF TypeOK
  <2> QED
    BY <2>1 DEF TypeOK
<1>2. VersionBeforeMode'
  BY DEF VersionBeforeMode
<1>3. ThreadsInStep' /\ TelemetryHasPublisher'
  BY DEF ThreadsInStep, TelemetryHasPublisher
<1> QED
  BY <1>1, <1>2, <1>3

\* The reader only ever completes the version, and meets a missing publisher
\* only after the executor has stopped.
LEMMA ReaderIInv == ASSUME IInv, Reader PROVE IInv'
<1> USE DEF IInv, driverVars, linkVars
<1>1. TypeOK'
  <2>1. /\ reader' \in {"none", "check", "receive", "version", "handled", "exited", "crashed"}
        /\ fw_major' \in {-1, FwMajor} /\ fw_minor' \in {-1, FwMinor}
    BY DEF TypeOK, Reader, ReaderVersion, ReaderVersionDone, ReaderTelemetry, ReaderContinue,
        ReaderCheck
  <2>2. replies' \in Seq(Replies)
    <3>1. CASE ReaderVersion \/ ReaderTelemetry
      <4>1. replies # <<>> /\ replies' = Tail(replies)
        BY <3>1 DEF ReaderVersion, ReaderTelemetry
      <4> QED
        BY <4>1 DEF TypeOK
    <3>2. CASE ReaderVersionDone \/ ReaderContinue \/ ReaderCheck
      BY <3>2 DEF TypeOK, ReaderVersionDone, ReaderContinue, ReaderCheck
    <3> QED
      BY <3>1, <3>2 DEF Reader
  <2>3. UNCHANGED <<main, pubs, mode, params, driven, run, requests, lost>>
    BY DEF Reader, ReaderVersion, ReaderVersionDone, ReaderTelemetry, ReaderContinue,
        ReaderCheck
  <2> QED
    BY <2>1, <2>2, <2>3 DEF TypeOK
<1>2. VersionBeforeMode'
  BY DEF VersionBeforeMode, Reader, ReaderVersion, ReaderVersionDone, ReaderTelemetry,
      ReaderContinue, ReaderCheck
<1>3. ThreadsInStep'
  BY DEF ThreadsInStep, TypeOK, Reader, ReaderVersion, ReaderVersionDone, ReaderTelemetry,
      ReaderContinue, ReaderCheck
<1>4. TelemetryHasPublisher'
  <2>1. CASE ReaderTelemetry
    BY <2>1 DEF TelemetryHasPublisher, ReaderTelemetry, ThreadsInStep, TypeOK, MainPhases,
        Needed, Publishers
  <2>2. CASE ReaderVersion \/ ReaderVersionDone \/ ReaderContinue \/ ReaderCheck
    BY <2>2 DEF TelemetryHasPublisher, ReaderVersion, ReaderVersionDone, ReaderContinue,
        ReaderCheck
  <2> QED
    BY <2>1, <2>2 DEF Reader
<1> QED
  BY <1>1, <1>2, <1>3, <1>4

\* Nothing is on the link before something was asked for.
LEMMA LinkIInv == ASSUME IInv, Link PROVE IInv'
<1> USE DEF IInv, driverVars
<1>1. CASE \E k \in Replies : VescReply(k)
  <2> PICK k \in Replies : VescReply(k)
    BY <1>1
  <2>1. TypeOK'
    BY LinkAssumption DEF TypeOK, VescReply, LinkAssumption
  <2>2. ThreadsInStep'
    BY DEF ThreadsInStep, VescReply
  <2> QED
    BY <2>1, <2>2 DEF VescReply, VersionBeforeMode, TelemetryHasPublisher
<1>2. CASE \E k \in Replies : LoseRequest(k)
  <2> PICK k \in Replies : LoseRequest(k)
    BY <1>2
  <2>1. TypeOK'
    BY LinkAssumption DEF TypeOK, LoseRequest, Losing, LinkAssumption
  <2>2. ThreadsInStep'
    BY DEF ThreadsInStep, LoseRequest
  <2> QED
    BY <2>1, <2>2 DEF LoseRequest, VersionBeforeMode, TelemetryHasPublisher
<1>3. CASE LoseReply
  <2>1. TypeOK'
    BY <1>3 DEF TypeOK, LoseReply, Losing
  <2> QED
    BY <1>3, <2>1 DEF LoseReply, VersionBeforeMode, ThreadsInStep, TelemetryHasPublisher
<1> QED
  BY <1>1, <1>2, <1>3 DEF Link

\* A step that changes nothing keeps the invariant.
LEMMA StutterIInv == ASSUME IInv, UNCHANGED vars PROVE IInv'
BY DEF IInv, vars, driverVars, linkVars, TypeOK, VersionBeforeMode, ThreadsInStep,
    TelemetryHasPublisher

LEMMA SpecIInv == Spec => []IInv
<1>1. IInv /\ [Next]_vars => IInv'
  BY LifecycleIInv, TimerIInv, CommandIInv, ReaderIInv, LinkIInv, StutterIInv DEF Next
<1> QED
  BY InitIInv, <1>1, PTL DEF Spec

-----------------------------------------------------------------------------
\* The driver's state stays within its type, on every link.
THEOREM TypeCorrect == Spec => []TypeOK
<1>1. IInv => TypeOK
  BY DEF IInv
<1> QED
  BY SpecIInv, <1>1, PTL

\* No command reaches a controller that has not identified itself, although
\* reader and timer share the version without a lock.
THEOREM IdentifiedFirst == Spec => []DrivenIdentified
<1>1. IInv => DrivenIdentified
  BY DEF IInv, VersionBeforeMode, DrivenIdentified
<1> QED
  BY SpecIInv, <1>1, PTL

\* On a line that is clean when it is opened, only the destructors can take a
\* publisher away from the reader.
THEOREM PublishersFirst == Spec => []TelemetryHasPublisher
<1>1. IInv => TelemetryHasPublisher
  BY DEF IInv
<1> QED
  BY SpecIInv, <1>1, PTL
-----------------------------------------------------------------------------
\* Once told to stop the reader goes back to receive only to handle what has
\* come already.
WakeInv ==
  /\ main \in {"stop", "join"} => ~run
  /\ NoLostWakeup

\* A request that was made is on the link.
LEMMA Asked ==
  ASSUME IInv
  PROVE  Ask("FWVersion")["FWVersion"] > 0
<1>1. requests["FWVersion"] \in 0 .. MaxOutstanding
  BY DEF IInv, TypeOK, Replies
<1>2. MaxOutstanding \in Nat \ {0}
  BY LinkAssumption DEF LinkAssumption
<1>3. Ask("FWVersion")["FWVersion"] =
        IF requests["FWVersion"] < MaxOutstanding
          THEN requests["FWVersion"] + 1 ELSE requests["FWVersion"]
  BY DEF Ask, IInv, TypeOK, Replies
<1> QED
  BY <1>1, <1>2, <1>3

LEMMA LifecycleWakes ==
  ASSUME IInv, WakeInv, Lifecycle \/ ConnectFails \/ Shutdown
  PROVE  WakeInv'
<1> USE DEF WakeInv, NoLostWakeup, driverVars, linkVars
<1>1. CASE StopReader
  BY <1>1 DEF StopReader
<1>2. CASE WakeReader
  <2>1. requests'["FWVersion"] > 0
    BY <1>2, Asked DEF WakeReader
  <2> QED
    BY <1>2, <2>1 DEF WakeReader
<1>3. CASE \/ Connect \/ CreatePublisher \/ StartSpinning \/ DestroyPublisher \/ Join
           \/ ConnectFails \/ Shutdown
  <2>1. main' \notin {"stop", "join"}
    BY <1>3 DEF Connect, CreatePublisher, StartSpinning, DestroyPublisher, Join,
        ConnectFails, Shutdown
  <2> QED
    BY <2>1
<1> QED
  BY <1>1, <1>2, <1>3 DEF Lifecycle

\* The reader goes to receive only when something is there, or while it runs.
LEMMA ReaderWakes ==
  ASSUME WakeInv, Reader
  PROVE  WakeInv'
<1> USE DEF WakeInv, NoLostWakeup, driverVars, linkVars
<1>1. UNCHANGED <<main, run>>
  BY DEF Reader, ReaderVersion, ReaderVersionDone, ReaderTelemetry, ReaderContinue,
      ReaderCheck
<1>2. CASE ReaderVersion \/ ReaderVersionDone \/ ReaderTelemetry
  <2>1. reader' # "receive"
    BY <1>2 DEF ReaderVersion, ReaderVersionDone, ReaderTelemetry
  <2> QED
    BY <1>1, <2>1
<1>3. CASE ReaderContinue
  BY <1>1, <1>3 DEF ReaderContinue
<1>4. CASE ReaderCheck
  BY <1>1, <1>4 DEF ReaderCheck
<1> QED
  BY <1>2, <1>3, <1>4 DEF Reader

\* What the link does not lose goes from the requests to the replies.
LEMMA LinkWakes ==
  ASSUME IInv, WakeInv, Link
  PROVE  WakeInv'
<1> USE DEF WakeInv, NoLostWakeup
<1>1. UNCHANGED <<main, reader, run>>
  BY DEF Link, VescReply, LoseRequest, LoseReply, driverVars
<1>2. CASE \E k \in Replies : VescReply(k)
  <2> PICK k \in Replies : VescReply(k)
    BY <1>2
  <2>1. replies' # <<>>
    <3>1. replies \in Seq(Replies) /\ replies' = Append(replies, k)
      BY DEF IInv, TypeOK, VescReply
    <3> QED
      BY <3>1
  <2> QED
    BY <1>1, <2>1
<1>3. CASE (\E k \in Replies : LoseRequest(k)) \/ LoseReply
  <2>1. main = "join" => lost'
    BY <1>3 DEF LoseRequest, LoseReply, Losing
  <2> QED
    BY <1>1, <2>1
<1> QED
  BY <1>2, <1>3 DEF Link

\* disconnect never waits for a reader that nothing will take out of receive,
\* in whichever order the threads and the link take their steps, for every
\* capacity of the link and whatever was on the line.
THEOREM ReaderIsWoken == Spec => []NoLostWakeup
<1>1. Init => WakeInv
  BY DEF Init, WakeInv, NoLostWakeup
<1>2. IInv /\ WakeInv /\ [Next]_vars => WakeInv'
  <2> SUFFICES ASSUME IInv, WakeInv, [Next]_vars PROVE WakeInv'
    OBVIOUS
  <2>1. CASE TimerCallback \/ \E kind \in CommandKinds, v \in Values : Command(kind, v)
    <3>1. main' = "spin"
      BY <2>1 DEF TimerCallback, Command
    <3> QED
      BY <3>1 DEF WakeInv, NoLostWakeup
  <2>2. CASE UNCHANGED vars
    BY <2>2 DEF vars, driverVars, linkVars, WakeInv, NoLostWakeup
  <2> QED
    BY <2>1, <2>2, LifecycleWakes, ReaderWakes, LinkWakes DEF Next
<1>3. WakeInv => NoLostWakeup
  BY DEF WakeInv
<1> QED
  BY SpecIInv, <1>1, <1>2, <1>3, PTL DEF Spec

-----------------------------------------------------------------------------
\* The feasible value closest to a bound is one, and a feasible bound is kept.
LEMMA FeasibleIs ==
  ASSUME CommandAssumption, NEW kind \in CommandKinds, NEW x \in Int
  PROVE  /\ Feasible(kind, x) \in Int
         /\ ~Bounded(kind) => Feasible(kind, x) = x
         /\ Bounded(kind) => /\ MinLower(kind) <= Feasible(kind, x)
                             /\ Feasible(kind, x) <= MaxUpper(kind)
                             /\ x < MinLower(kind) => Feasible(kind, x) = MinLower(kind)
                             /\ x > MaxUpper(kind) => Feasible(kind, x) = MaxUpper(kind)
                             /\ (MinLower(kind) <= x /\ x <= MaxUpper(kind)) =>
                                   Feasible(kind, x) = x
BY DEF Feasible, MinLower, MaxUpper, CommandAssumption

\* What is driven is the limited command, although it is sent scaled.
LEMMA ScaleIsUndone ==
  ASSUME NEW kind \in CommandKinds, NEW c \in Int
  PROVE  (Scale(kind) * c) \div Scale(kind) = c
<1>1. (57 * c) \div 57 = c
  OBVIOUS
<1>2. (1 * c) \div 1 = c
  OBVIOUS
<1> QED
  BY <1>1, <1>2 DEF Scale

\* When any value is permitted the limits are exactly the permitted values, so
\* that the limited command is permitted and no permitted value is closer.
LEMMA ClipIsClosest ==
  ASSUME CommandAssumption, params \in [CommandKinds -> [min : Int, max : Int]],
         NEW kind \in CommandKinds, NEW v \in Int, NEW x \in Int, Permitted(kind, x)
  PROVE  /\ Clip(kind, v) \in Int
         /\ Permitted(kind, Clip(kind, v))
         /\ Distance(Clip(kind, v), v) <= Distance(x, v)
<1> DEFINE a == params[kind].min
           b == params[kind].max
           lo == CommandLimit(kind).lower
           hi == CommandLimit(kind).upper
<1>1. a \in Int /\ b \in Int
  OBVIOUS
<1>2. MinLower(kind) \in Int /\ MaxUpper(kind) \in Int /\ MinLower(kind) <= MaxUpper(kind)
  BY DEF CommandAssumption, MinLower, MaxUpper
<1>3. (a <= x /\ x <= b) \/ (b <= x /\ x <= a)
  BY DEF Permitted
<1>4. Bounded(kind) => MinLower(kind) <= x /\ x <= MaxUpper(kind)
  BY DEF Permitted
<1>5. /\ lo \in Int /\ hi \in Int /\ lo <= x /\ x <= hi
      /\ (a <= lo /\ hi <= b) \/ (b <= lo /\ hi <= a)
      /\ Bounded(kind) => MinLower(kind) <= lo /\ hi <= MaxUpper(kind)
  BY <1>1, <1>2, <1>3, <1>4, FeasibleIs DEF CommandLimit
<1>6. Clip(kind, v) = IF v < lo THEN lo ELSE IF v > hi THEN hi ELSE v
  BY DEF Clip
<1>7. Clip(kind, v) \in Int /\ lo <= Clip(kind, v) /\ Clip(kind, v) <= hi
  <2> HIDE DEF lo, hi
  <2> QED BY <1>5, <1>6
<1>8. Permitted(kind, Clip(kind, v))
  <2> HIDE DEF lo, hi
  <2> QED BY <1>1, <1>2, <1>5, <1>7 DEF Permitted
<1>9. Distance(Clip(kind, v), v) <= Distance(x, v)
  <2> HIDE DEF lo, hi
  <2> QED BY <1>5, <1>6 DEF Distance
<1> QED
  BY <1>7, <1>8, <1>9

\* Every command that is sent is the permitted value closest to the one that
\* was asked for, for every configuration of the limits.
THEOREM DrivenIsClosest == Spec => DrivenClosest
<1> DEFINE Closest ==
      \A kind \in CommandKinds, v \in Values :
        Command(kind, v) =>
          \A x \in -3 * Unit .. 3 * Unit : Permitted(kind, x) =>
            /\ Permitted(kind, driven'.value \div Scale(kind))
            /\ Distance(driven'.value \div Scale(kind), v) <= Distance(x, v)
<1>1. IInv => Closest
  <2> SUFFICES ASSUME IInv, NEW kind \in CommandKinds, NEW v \in Values, Command(kind, v),
                      NEW x \in -3 * Unit .. 3 * Unit, Permitted(kind, x)
               PROVE  /\ Permitted(kind, driven'.value \div Scale(kind))
                      /\ Distance(driven'.value \div Scale(kind), v) <= Distance(x, v)
    OBVIOUS
  <2>1. v \in Int /\ x \in Int
    BY CommandAssumption DEF CommandAssumption
  <2>2. /\ Clip(kind, v) \in Int
        /\ Permitted(kind, Clip(kind, v))
        /\ Distance(Clip(kind, v), v) <= Distance(x, v)
    BY <2>1, ClipIsClosest, CommandAssumption DEF IInv, TypeOK
  <2>3. driven'.value \div Scale(kind) = Clip(kind, v)
    BY <2>2, ScaleIsUndone DEF Command
  <2> QED
    BY <2>2, <2>3
<1> HIDE DEF Closest
<1>2. Spec => [][Closest]_vars
  BY SpecIInv, <1>1, PTL
<1> QED
  BY <1>2 DEF DrivenClosest, Closest
=============================================================================
