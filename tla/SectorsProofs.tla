---------------------------- MODULE SectorsProofs ----------------------------
(***************************************************************************)
(* Type correctness of Sectors, and that the state machine follows every   *)
(* released or closed overtaking sector, for every number of sectors the   *)
(* handler can tell apart and every order of changes and events.           *)
(***************************************************************************)
EXTENDS Sectors, SequenceTheorems, TLAPS

FlagEvent == [sector : Indices, ot_flag : BOOLEAN]
ScaledLine == [flags : [Indices -> BOOLEAN], speed : Speed]

\* What the three nodes hold, with the queues that TypeOK leaves open.
Params ==
  /\ {scaling, limit, sectors} \subseteq Scalings
  /\ flags \in [Indices -> BOOLEAN]
  /\ changes \in 0..MaxChanges
Tuner ==
  /\ {og, scaled} \subseteq Speed \union {None}
  /\ shared \in BOOLEAN
  /\ tunerEvents \in 0..changes
Line ==
  /\ line \in [phase : {"waiting", "looping", "dead"}, scaled : Speed \union {None},
               og : BOOLEAN, sp : BOOLEAN, need : BOOLEAN,
               flags : [Indices -> BOOLEAN], wpnts : ScaledLine \union {None}]
  /\ lineWpnts \in Seq(Speed) /\ Len(lineWpnts) <= Depth
Machine ==
  /\ ot \in [phase : {"asking", "answered", "ready"}, flags : [Indices -> BOOLEAN],
             events : Seq(FlagEvent)]
  /\ heard \subseteq Indices
TypeInv == Params /\ Tuner /\ Line /\ Machine

-----------------------------------------------------------------------------
\* Types.

\* A capped sum of halvings is a speed.
LEMMA CappedSpeed ==
  ASSUME NEW h \in Nat
  PROVE  Capped(h) \in Speed
BY SectorsAssumption DEF Capped, Speed

USE DEF paramVars

\* A scaling or its limit is a scaling.
LEMMA ClippedScaling == Params => Clipped \in Scalings
BY DEF Params, Clipped

LEMMA InitType == Init => TypeInv
<1> SUFFICES ASSUME Init PROVE TypeInv
  OBVIOUS
<1>1. Params
  BY SectorsAssumption DEF Init, Params
<1>2. Tuner
  <2>1. og = None /\ scaled = None /\ shared \in BOOLEAN
    BY DEF Init
  <2>2. tunerEvents \in 0..changes
    BY DEF Init
  <2> QED
    BY <2>1, <2>2 DEF Tuner
<1>3. Line
  BY <1>1, SectorsAssumption DEF Init, Line, Params
<1>4. Machine
  BY <1>1 DEF Init, Machine, Params
<1> QED
  BY <1>1, <1>2, <1>3, <1>4 DEF TypeInv

\* A change of a parameter by the operator.
LEMMA ChangeType ==
  ASSUME TypeInv,
         (\E k \in Scalings : SetScaling(k) \/ SetGlobalLimit(k))
           \/ (\E i \in Indices : SetOtFlag(i))
  PROVE  TypeInv'
<1> USE DEF TypeInv
<1>1. ASSUME NEW k \in Scalings, SetScaling(k) \/ SetGlobalLimit(k)
      PROVE  TypeInv'
  <2>1. /\ changes \in Nat /\ changes < MaxChanges /\ changes' = changes + 1
        /\ tunerEvents' = tunerEvents + 1
    BY <1>1 DEF Params, SetScaling, SetGlobalLimit, Change, TellTunerChange
  <2>2. Params'
    BY <1>1, <2>1, SectorsAssumption DEF Params, SetScaling, SetGlobalLimit, TellTunerChange
  <2>3. Tuner'
    BY <1>1, <2>1 DEF Tuner, SetScaling, SetGlobalLimit, TellTunerChange
  <2>4. Line' /\ Machine'
    BY <1>1 DEF Line, Machine, SetScaling, SetGlobalLimit, TellTunerChange
  <2> QED
    BY <2>2, <2>3, <2>4
<1>2. ASSUME NEW i \in Indices, SetOtFlag(i)
      PROVE  TypeInv'
  <2>1. flags' \in [Indices -> BOOLEAN] /\ flags'[i] \in BOOLEAN
    BY <1>2 DEF Params, SetOtFlag
  <2>2. Params'
    <3>1. changes \in Nat /\ changes < MaxChanges /\ changes' = changes + 1
      BY <1>2 DEF Params, SetOtFlag, Change
    <3>2. changes' \in 0..MaxChanges
      BY <3>1, SectorsAssumption
    <3>3. {scaling, limit, sectors}' \subseteq Scalings
      BY <1>2 DEF Params, SetOtFlag, tunerVars
    <3> QED
      BY <2>1, <3>2, <3>3 DEF Params
  <2>3. Tuner'
    BY <1>2, SectorsAssumption DEF Tuner, Params, SetOtFlag, Change, tunerVars
  <2>4. Line'
    BY <1>2 DEF Line, SetOtFlag
  <2>5. Machine'
    <3> DEFINE e == [sector |-> i, ot_flag |-> flags'[i]]
    <3>1. e \in FlagEvent
      BY <2>1 DEF FlagEvent
    <3> HIDE DEF e
    <3>2. Append(ot.events, e) \in Seq(FlagEvent)
      BY <3>1 DEF Machine
    <3>3. ot' = ot \/ ot' = [ot EXCEPT !.events = Append(ot.events, e)]
      BY <1>2 DEF SetOtFlag, e
    <3>4. heard' \subseteq Indices
      BY <1>2 DEF SetOtFlag, Machine
    <3> QED
      BY <3>2, <3>3, <3>4 DEF Machine
  <2> QED
    BY <2>2, <2>3, <2>4, <2>5
<1> QED
  BY <1>1, <1>2

\* A step of the sector_tuner.
LEMMA TunerType ==
  ASSUME TypeInv, TunerDynParamCb \/ GlobalWaypointsCb \/ TunerTimer
  PROVE  TypeInv'
<1> USE DEF TypeInv
<1>1. CASE TunerDynParamCb
  <2>1. sectors' \in Scalings
    BY <1>1, ClippedScaling DEF TunerDynParamCb
  <2>2. tunerEvents' \in 0..changes
    BY <1>1, SectorsAssumption DEF TunerDynParamCb, Tuner, Params
  <2> QED
    BY <1>1, <2>1, <2>2 DEF TunerDynParamCb, Params, Tuner, Line, Machine, lineVars
<1>2. CASE GlobalWaypointsCb
  <2>1. 0 \in Speed
    BY SectorsAssumption DEF Speed
  <2>2. Tuner'
    BY <1>2, <2>1 DEF GlobalWaypointsCb, Tuner
  <2> QED
    BY <1>2, <2>2 DEF GlobalWaypointsCb, Params, Line, Machine, lineVars
<1>3. CASE TunerTimer
  <2> DEFINE v == Capped(og + sectors)
             alias == shared \/ scaled = None
             sent == Append(lineWpnts, v)
  <2>1. v \in Speed
    <3>1. og \in Speed
      BY <1>3 DEF TunerTimer, Tuner
    <3>2. og \in Nat /\ sectors \in Nat
      <4>1. og \in Nat
        BY <3>1 DEF Speed
      <4>2. sectors \in Nat
        BY SectorsAssumption DEF Params
      <4> QED
        BY <4>1, <4>2
    <3>3. og + sectors \in Nat
      BY <3>2
    <3> QED
      BY <3>3, CappedSpeed
  <2>2. /\ scaled' = v /\ shared' = alias
        /\ og' = (IF alias THEN v ELSE og)
        /\ lineWpnts' = (IF Len(sent) > Depth THEN Tail(sent) ELSE sent)
        /\ UNCHANGED <<paramVars, sectors, tunerEvents, line, ot, heard>>
    BY <1>3 DEF TunerTimer
  <2> HIDE DEF v
  <2>3. sent \in Seq(Speed) /\ Len(sent) = Len(lineWpnts) + 1
    BY <2>1 DEF Line
  <2>4. lineWpnts' \in Seq(Speed) /\ Len(lineWpnts') <= Depth
    <3> HIDE DEF sent
    <3>1. CASE Len(sent) > Depth
      <4>1. sent # <<>> /\ lineWpnts' = Tail(sent)
        BY <3>1, <2>2, <2>3, SectorsAssumption
      <4> QED
        BY <4>1, <2>3, SectorsAssumption DEF Line
    <3>2. CASE ~(Len(sent) > Depth)
      BY <3>2, <2>2, <2>3, SectorsAssumption
    <3> QED
      BY <3>1, <3>2
  <2>5. Tuner'
    BY <2>1, <2>2 DEF Tuner
  <2>6. Params' /\ Machine'
    BY <2>2 DEF Params, Machine
  <2>7. Line'
    BY <2>2, <2>4 DEF Line
  <2> QED
    BY <2>5, <2>6, <2>7
<1> QED
  BY <1>1, <1>2, <1>3

\* A step of the ot_interpolator.
LEMMA LineType ==
  ASSUME TypeInv,
         LineOgCb \/ LineSpCb \/ LineWpntsCb \/ LineDynParamCb \/ LineWait \/ LineLoop
  PROVE  TypeInv'
<1> USE DEF TypeInv
<1>1. Params' /\ Tuner' /\ Machine'
  BY DEF LineOgCb, LineSpCb, LineWpntsCb, LineDynParamCb, LineWait, LineLoop, LineStep,
         Params, Tuner, Machine, tunerVars
<1>2. CASE LineOgCb
  BY <1>1, <1>2 DEF LineOgCb, Line
<1>3. CASE LineSpCb
  BY <1>1, <1>3 DEF LineSpCb, Line
<1>4. CASE LineWpntsCb
  <2>1. lineWpnts \in Seq(Speed) /\ lineWpnts # <<>> /\ Len(lineWpnts) <= Depth
    BY <1>4 DEF LineWpntsCb, Line
  <2>2. /\ Head(lineWpnts) \in Speed /\ Tail(lineWpnts) \in Seq(Speed)
        /\ Len(Tail(lineWpnts)) = Len(lineWpnts) - 1
    BY <2>1, HeadTailProperties
  <2>3. Len(lineWpnts) \in Nat
    BY <2>1
  <2>4. lineWpnts' \in Seq(Speed) /\ Len(lineWpnts') <= Depth
    <3>1. lineWpnts' = Tail(lineWpnts)
      BY <1>4 DEF LineWpntsCb
    <3> QED
      BY <2>1, <2>2, <2>3, <3>1, SectorsAssumption
  <2>5. line' \in [phase : {"waiting", "looping", "dead"}, scaled : Speed \union {None},
                   og : BOOLEAN, sp : BOOLEAN, need : BOOLEAN,
                   flags : [Indices -> BOOLEAN], wpnts : ScaledLine \union {None}]
    BY <1>4, <2>2 DEF LineWpntsCb, Line
  <2> QED
    BY <1>1, <2>4, <2>5 DEF Line
<1>5. CASE LineDynParamCb
  BY <1>1, <1>5 DEF LineDynParamCb, Line, Params
<1>6. CASE LineWait
  BY <1>1, <1>6 DEF LineWait, Line
<1>7. CASE LineLoop
  <2> DEFINE due == line.need /\ line.scaled # None
             new == IF due THEN [flags |-> line.flags, speed |-> line.scaled] ELSE line.wpnts
  <2>1. new \in ScaledLine \union {None}
    BY DEF Line, ScaledLine
  <2>2. (line.need /\ ~due) \in BOOLEAN
    OBVIOUS
  <2>3. /\ line' = [line EXCEPT !.wpnts = new, !.need = line.need /\ ~due,
                                !.phase = IF new = None THEN "dead" ELSE line.phase]
        /\ lineWpnts' = lineWpnts
    BY <1>7 DEF LineLoop, Line
  <2> HIDE DEF new, due
  <2> QED
    BY <1>1, <2>1, <2>2, <2>3 DEF Line
<1> QED
  BY <1>2, <1>3, <1>4, <1>5, <1>6, <1>7

\* A step of the state machine.
LEMMA MachineType ==
  ASSUME TypeInv, GetParameters \/ InitOtParams \/ OtFlagCb
  PROVE  TypeInv'
<1> USE DEF TypeInv
<1>1. Params' /\ Tuner' /\ Line' /\ heard' = heard
  BY DEF GetParameters, InitOtParams, OtFlagCb, OtStep, Params, Tuner, Line, tunerVars, lineVars
<1>2. CASE GetParameters
  BY <1>1, <1>2 DEF GetParameters, Machine, Params
<1>3. CASE InitOtParams
  BY <1>1, <1>3 DEF InitOtParams, Machine
<1>4. CASE OtFlagCb
  <2> DEFINE e == Head(ot.events)
  <2>1. e \in FlagEvent /\ Tail(ot.events) \in Seq(FlagEvent)
    BY <1>4 DEF OtFlagCb, Machine
  <2>2. ot' = [ot EXCEPT !.flags = [ot.flags EXCEPT ![e.sector % 10] = e.ot_flag],
                         !.events = Tail(ot.events)]
    BY <1>4 DEF OtFlagCb, Machine
  <2> HIDE DEF e
  <2>3. [ot.flags EXCEPT ![e.sector % 10] = e.ot_flag] \in [Indices -> BOOLEAN]
    BY <2>1 DEF Machine, FlagEvent
  <2> QED
    BY <1>1, <2>1, <2>2, <2>3 DEF Machine
<1> QED
  BY <1>2, <1>3, <1>4

LEMMA NextType == TypeInv /\ [Next]_vars => TypeInv'
<1> SUFFICES ASSUME TypeInv, [Next]_vars PROVE TypeInv'
  OBVIOUS
<1>1. CASE Next
  BY <1>1, ChangeType, TunerType, LineType, MachineType DEF Next
<1>2. CASE UNCHANGED vars
  BY <1>2 DEF vars, tunerVars, lineVars, TypeInv, Params, Tuner, Line, Machine
<1> QED
  BY <1>1, <1>2

LEMMA TypeInvAlways == Spec => []TypeInv
BY InitType, NextType, PTL DEF Spec

TunedType == tuned \in BOOLEAN

LEMMA TunedAlways == Spec => []TunedType
<1>1. Init => TunedType
  BY DEF Init, TunedType
<1>2. TunedType /\ [Next]_vars => TunedType'
  BY DEF TunedType, Next, vars, SetScaling, SetGlobalLimit, TellTunerChange, SetOtFlag,
         TunerDynParamCb, GlobalWaypointsCb, TunerTimer, LineOgCb, LineSpCb, LineWpntsCb,
         LineDynParamCb, LineWait, LineLoop, LineStep, GetParameters, InitOtParams,
         OtFlagCb, OtStep
<1> QED
  BY <1>1, <1>2, PTL DEF Spec

\* Every variable of the three nodes keeps its type: the speeds the
\* sector_tuner sends on are speeds also after its first messages alias, and
\* what the ot_interpolator publishes is a line or None.
THEOREM TypeCorrect == Spec => []TypeOK
<1>1. TypeInv /\ TunedType => TypeOK
  <2> SUFFICES ASSUME TypeInv, TunedType PROVE TypeOK
    OBVIOUS
  <2>1. tunerEvents \in 0..MaxChanges
    BY SectorsAssumption DEF TypeInv, Tuner, Params
  <2>2. {line.og, line.sp, line.need} \subseteq BOOLEAN
    BY DEF TypeInv, Line
  <2>3. /\ line.phase \in {"waiting", "looping", "dead"}
        /\ line.scaled \in Speed \union {None}
        /\ line.flags \in [Indices -> BOOLEAN]
        /\ line.wpnts \in ScaledLine \union {None}
    BY DEF TypeInv, Line
  <2> QED
    BY <2>1, <2>2, <2>3 DEF TypeInv, Params, Tuner, Line, Machine, ScaledLine, TunedType, TypeOK
<1> QED
  BY <1>1, TypeInvAlways, TunedAlways, PTL

-----------------------------------------------------------------------------
(* What the state machine knows of the flags.                              *)

\* The events under way about a sector, and the last of them.
Pending(i) == {k \in 1..Len(ot.events) : ot.events[k].sector = i}
Last(i, k) == k \in Pending(i) /\ \A j \in Pending(i) : j <= k

\* Before the registration nothing is under way.  After it a flag that has
\* changed is either known or told by the last event about it.
NothingYet == ot.phase # "ready" => heard = {} /\ ot.events = <<>>
Known == \A i \in heard : Pending(i) = {} => ot.flags[i] = flags[i]
Told == \A i \in Indices, k \in 1..Len(ot.events) :
          Last(i, k) => ot.events[k].ot_flag = flags[i]
FlagInv == TypeInv /\ NothingYet /\ Known /\ Told

LEMMA InitFlag == Init => FlagInv
BY InitType DEF Init, FlagInv, NothingYet, Known, Told

\* A flag is changed: its event is the last one about it.
LEMMA SetFlagInv ==
  ASSUME FlagInv, NEW i \in Indices, SetOtFlag(i)
  PROVE  NothingYet' /\ Known' /\ Told'
<1>1. /\ ot \in [phase : {"asking", "answered", "ready"}, flags : [Indices -> BOOLEAN],
                 events : Seq(FlagEvent)]
      /\ heard \subseteq Indices
      /\ flags \in [Indices -> BOOLEAN]
  BY DEF FlagInv, TypeInv, Machine, Params
<1>2. flags' = [flags EXCEPT ![i] = ~flags[i]]
  BY DEF SetOtFlag
<1>3. CASE ot.phase # "ready"
  <2>1. ot' = ot /\ heard' = heard /\ heard = {} /\ ot.events = <<>>
    BY <1>3 DEF SetOtFlag, FlagInv, NothingYet
  <2> QED
    BY <2>1 DEF NothingYet, Known, Told
<1>4. CASE ot.phase = "ready"
  <2> DEFINE n == Len(ot.events)
             e == [sector |-> i, ot_flag |-> flags'[i]]
  <2>1. ot' = [ot EXCEPT !.events = Append(ot.events, e)] /\ heard' = heard \union {i}
    BY <1>4 DEF SetOtFlag
  <2>2. e.sector = i /\ e.ot_flag = flags'[i]
    OBVIOUS
  <2> HIDE DEF e
  <2>3. /\ ot'.phase = ot.phase /\ ot'.flags = ot.flags
        /\ ot'.events = Append(ot.events, e)
    BY <1>1, <2>1
  <2>4. n \in Nat /\ Len(ot'.events) = n + 1 /\ ot'.events[n + 1] = e
        /\ \A k \in 1..n : ot'.events[k] = ot.events[k]
    <3>1. ot.events \in Seq(FlagEvent) /\ e \in FlagEvent
      <4>1. flags'[i] \in BOOLEAN
        BY <1>1, <1>2
      <4>2. e \in FlagEvent
        BY <4>1 DEF FlagEvent, e
      <4> QED
        BY <1>1, <4>2
    <3>2. n \in Nat
      BY <3>1
    <3>3. /\ Len(Append(ot.events, e)) = n + 1 /\ Append(ot.events, e)[n + 1] = e
          /\ \A k \in 1..n : Append(ot.events, e)[k] = ot.events[k]
      BY <3>1, AppendProperties
    <3> QED
      BY <2>3, <3>2, <3>3
  <2> HIDE DEF n
  <2>5. ASSUME NEW j \in Indices, j # i
        PROVE  Pending(j)' = Pending(j) /\ flags'[j] = flags[j]
    <3>1. \A k : k \in 1..Len(ot'.events) /\ ot'.events[k].sector = j
                 <=> k \in 1..Len(ot.events) /\ ot.events[k].sector = j
      <4>1. ASSUME NEW k
            PROVE  k \in 1..n + 1 /\ ot'.events[k].sector = j
                   <=> k \in 1..n /\ ot.events[k].sector = j
        <5>1. k \in 1..n + 1 <=> k \in 1..n \/ k = n + 1
          BY <2>4
        <5>2. ~ (n + 1 \in 1..n)
          BY <2>4
        <5>3. ot'.events[n + 1].sector # j
          BY <2>2, <2>4, <2>5
        <5>4. k \in 1..n => ot'.events[k] = ot.events[k]
          BY <2>4
        <5> QED
          BY <5>1, <5>2, <5>3, <5>4
      <4> QED
        BY <2>4, <4>1 DEF n
    <3> QED
      BY <1>1, <1>2, <2>5, <3>1 DEF Pending
  <2>6. n + 1 \in Pending(i)' /\ \A k \in Pending(i)' : k <= n + 1
    BY <2>2, <2>4 DEF Pending
  <2>7. NothingYet'
    BY <1>4, <2>3 DEF NothingYet
  <2>8. Known'
    <3> SUFFICES ASSUME NEW j \in heard', Pending(j)' = {}
                 PROVE  ot'.flags[j] = flags'[j]
      BY DEF Known
    <3>1. j # i
      BY <2>6
    <3>2. j \in heard /\ j \in Indices
      BY <3>1, <2>1, <1>1
    <3> QED
      BY <3>1, <3>2, <2>3, <2>5 DEF FlagInv, Known
  <2>9. Told'
    <3> SUFFICES ASSUME NEW j \in Indices, NEW k \in 1..Len(ot'.events), Last(j, k)'
                 PROVE  ot'.events[k].ot_flag = flags'[j]
      BY DEF Told
    <3>0. k \in Pending(j)' /\ \A l \in Pending(j)' : l <= k
      BY DEF Last
    <3>1. CASE j = i
      <4>1. k = n + 1
        BY <3>0, <3>1, <2>4, <2>6
      <4> QED
        BY <4>1, <3>1, <2>2, <2>4
    <3>2. CASE j # i
      <4>1. Last(j, k)
        BY <3>0, <3>2, <2>5 DEF Last
      <4>2. k \in 1..n
        BY <4>1 DEF Last, Pending, n
      <4>3. ot.events[k].ot_flag = flags[j]
        BY <4>1, <4>2 DEF FlagInv, Told, n
      <4> QED
        BY <4>2, <4>3, <3>2, <2>4, <2>5
    <3> QED
      BY <3>1, <3>2
  <2> QED
    BY <2>7, <2>8, <2>9
<1> QED
  BY <1>3, <1>4

\* An event is taken over: the name of one of ten sectors is one digit.
LEMMA FlagCbInv ==
  ASSUME FlagInv, NSectors <= 10, OtFlagCb
  PROVE  NothingYet' /\ Known' /\ Told'
<1> DEFINE e == Head(ot.events)
           rest == Tail(ot.events)
           n == Len(ot.events)
<1>1. /\ ot \in [phase : {"asking", "answered", "ready"}, flags : [Indices -> BOOLEAN],
                 events : Seq(FlagEvent)]
      /\ heard \subseteq Indices
      /\ flags \in [Indices -> BOOLEAN]
  BY DEF FlagInv, TypeInv, Machine, Params
<1>2. /\ ot.events # <<>>
      /\ ot' = [ot EXCEPT !.flags = [ot.flags EXCEPT ![e.sector % 10] = e.ot_flag],
                          !.events = rest]
      /\ flags' = flags /\ heard' = heard
  BY <1>1 DEF OtFlagCb, OtStep
<1>3. n \in Nat \ {0} /\ e = ot.events[1] /\ e \in FlagEvent
      /\ Len(rest) = n - 1 /\ \A k \in 1..n - 1 : rest[k] = ot.events[k + 1]
  BY <1>1, <1>2
<1>4. e.sector \in Indices /\ e.sector % 10 = e.sector
  <2>1. e.sector \in Indices
    BY <1>3 DEF FlagEvent
  <2>2. e.sector \in 0..9
    BY <2>1, SectorsAssumption DEF Indices
  <2> QED
    BY <2>1, <2>2
<1> HIDE DEF e, rest, n
<1>5. /\ ot'.phase = ot.phase /\ ot'.events = rest
      /\ ot'.flags = [ot.flags EXCEPT ![e.sector] = e.ot_flag]
  BY <1>1, <1>2, <1>4
<1>6. \A i \in Indices : \A k : k \in Pending(i)' <=> k \in 1..n - 1 /\ k + 1 \in Pending(i)
  <2>1. \A i \in Indices : \A k : k \in Pending(i)' <=> k \in 1..n - 1 /\ rest[k].sector = i
    BY <1>3, <1>5 DEF Pending
  <2>2. \A i \in Indices : \A k \in 1..n - 1 :
          k + 1 \in Pending(i) <=> ot.events[k + 1].sector = i
    BY <1>3 DEF Pending, n
  <2>3. \A k \in 1..n - 1 : rest[k] = ot.events[k + 1]
    BY <1>3
  <2> QED
    BY <2>1, <2>2, <2>3
<1>7. NothingYet'
  BY <1>2, <1>5 DEF FlagInv, NothingYet
<1>8. Known'
  <2> SUFFICES ASSUME NEW i \in heard', Pending(i)' = {}
               PROVE  ot'.flags[i] = flags'[i]
    BY DEF Known
  <2>0. i \in heard /\ i \in Indices
    BY <1>1, <1>2
  <2>1. \A k \in Pending(i) : k = 1
    <3> SUFFICES ASSUME NEW k \in Pending(i), k # 1 PROVE FALSE
      OBVIOUS
    <3>1. k \in 2..n
      BY <1>3 DEF Pending, n
    <3>2. k - 1 \in 1..n - 1 /\ (k - 1) + 1 = k
      BY <3>1, <1>3
    <3>3. k - 1 \in Pending(i)'
      BY <3>2, <1>6, <2>0
    <3> QED
      BY <3>3
  <2>2. CASE e.sector = i
    <3>1. Last(i, 1) /\ 1 \in 1..Len(ot.events)
      <4>1. 1 \in Pending(i)
        BY <2>2, <1>3 DEF Pending, n
      <4> QED
        BY <4>1, <2>1 DEF Last, Pending
    <3>2. e.ot_flag = flags[i]
      BY <3>1, <1>3, <2>0 DEF FlagInv, Told
    <3> QED
      BY <3>2, <2>2, <2>0, <1>1, <1>2, <1>5
  <2>3. CASE e.sector # i
    <3>1. Pending(i) = {}
      <4>1. 1 \notin Pending(i)
        BY <2>3, <1>3 DEF Pending
      <4> QED
        BY <4>1, <2>1
    <3> QED
      BY <3>1, <2>3, <2>0, <1>1, <1>2, <1>4, <1>5 DEF FlagInv, Known
  <2> QED
    BY <2>2, <2>3
<1>9. Told'
  <2> SUFFICES ASSUME NEW i \in Indices, NEW k \in 1..Len(ot'.events), Last(i, k)'
               PROVE  ot'.events[k].ot_flag = flags'[i]
    BY DEF Told
  <2>0. k \in Pending(i)' /\ \A j \in Pending(i)' : j <= k
    BY DEF Last
  <2>1. k \in 1..n - 1 /\ k + 1 \in Pending(i)
    BY <2>0, <1>6
  <2>2. \A j \in Pending(i) : j <= k + 1
    <3> SUFFICES ASSUME NEW j \in Pending(i), j > k + 1 PROVE FALSE
      BY <1>3, <2>1 DEF Pending, n
    <3>1. j \in 2..n
      BY <1>3, <2>1 DEF Pending, n
    <3>2. j - 1 \in 1..n - 1 /\ (j - 1) + 1 = j /\ j - 1 > k
      BY <3>1, <1>3, <2>1
    <3>3. j - 1 \in Pending(i)'
      BY <3>2, <1>6
    <3> QED
      BY <3>2, <3>3, <2>0, <2>1, <1>3
  <2>3. Last(i, k + 1) /\ k + 1 \in 1..Len(ot.events)
    BY <2>1, <2>2 DEF Last, Pending
  <2>4. ot.events[k + 1].ot_flag = flags[i]
    BY <2>3 DEF FlagInv, Told
  <2> QED
    BY <2>1, <2>4, <1>2, <1>3, <1>5
<1> QED
  BY <1>7, <1>8, <1>9

LEMMA NextFlag ==
  ASSUME NSectors <= 10
  PROVE  FlagInv /\ [Next]_vars => FlagInv'
<1> SUFFICES ASSUME FlagInv, [Next]_vars PROVE NothingYet' /\ Known' /\ Told'
  BY NextType DEF FlagInv
<1>1. CASE \E i \in Indices : SetOtFlag(i)
  BY <1>1, SetFlagInv
<1>2. CASE OtFlagCb
  BY <1>2, FlagCbInv
<1>3. CASE GetParameters
  <2>1. ot'.phase # "ready" /\ ot'.events = ot.events /\ heard' = heard /\ ot.phase # "ready"
    BY <1>3 DEF GetParameters, OtStep, FlagInv, TypeInv, Machine
  <2>2. heard = {} /\ ot.events = <<>>
    BY <2>1 DEF FlagInv, NothingYet
  <2> QED
    BY <2>1, <2>2 DEF NothingYet, Known, Told
<1>4. CASE InitOtParams
  <2>1. ot'.phase = "ready" /\ ot'.events = ot.events /\ heard' = heard /\ ot.phase # "ready"
    BY <1>4 DEF InitOtParams, OtStep, FlagInv, TypeInv, Machine
  <2>2. heard = {} /\ ot.events = <<>>
    BY <2>1 DEF FlagInv, NothingYet
  <2> QED
    BY <2>1, <2>2 DEF NothingYet, Known, Told
<1>5. CASE UNCHANGED <<flags, ot, heard>>
  BY <1>5 DEF FlagInv, NothingYet, Known, Told, Last, Pending
<1>6. UNCHANGED <<flags, ot, heard>> \/ (\E i \in Indices : SetOtFlag(i))
        \/ OtFlagCb \/ GetParameters \/ InitOtParams
  BY DEF Next, vars, SetScaling, SetGlobalLimit, TellTunerChange, TunerDynParamCb,
         GlobalWaypointsCb, TunerTimer, LineOgCb, LineSpCb, LineWpntsCb, LineDynParamCb,
         LineWait, LineLoop, LineStep
<1> QED
  BY <1>1, <1>2, <1>3, <1>4, <1>5, <1>6

\* With no event under way the state machine's flag of every sector that has
\* changed since the registration is the operator's, in every order of the
\* changes and of the events, for up to ten sectors.
THEOREM FlagsFollowAlways ==
  ASSUME NSectors <= 10
  PROVE  Spec => []FlagsFollow
<1>1. Init => FlagInv
  BY InitFlag
<1>2. FlagInv /\ [Next]_vars => FlagInv'
  BY NextFlag
<1>3. FlagInv => FlagsFollow
  BY DEF FlagInv, Known, Pending, FlagsFollow
<1> QED
  BY <1>1, <1>2, <1>3, PTL DEF Spec

-----------------------------------------------------------------------------
(* What the ot_interpolator publishes.                                     *)

\* No change of a flag is among the events under way.
NoFlagUnderWay == \A k \in DOMAIN lineEvents : lineEvents[k] # "ot_interpolator"

\* The flags are known once their events have been handled, and a line that
\* need not be made anew was made for the flags that are known.
FlagsRead == NoFlagUnderWay => line.flags = flags
LineMade == ~line.need => line.wpnts.flags = line.flags
LineInv ==
  /\ TypeInv
  /\ lineEvents \in Seq({"sector_tuner", "ot_interpolator"})
  /\ FlagsRead /\ LineMade

LEMMA InitLine == Init => LineInv
<1> SUFFICES ASSUME Init PROVE LineInv
  OBVIOUS
<1>1. lineEvents = <<>> /\ line.flags = flags /\ line.need = TRUE
  BY DEF Init
<1>2. lineEvents \in Seq({"sector_tuner", "ot_interpolator"})
  BY <1>1, EmptySeq
<1> QED
  BY <1>1, <1>2, InitType DEF LineInv, FlagsRead, LineMade

\* A change is told: the event that is sent is the last one under way.
LEMMA ToldLine ==
  ASSUME LineInv, line' = line, NEW owner \in {"sector_tuner", "ot_interpolator"},
         lineEvents' = Append(lineEvents, owner),
         owner = "sector_tuner" => flags' = flags
  PROVE  /\ lineEvents' \in Seq({"sector_tuner", "ot_interpolator"})
         /\ FlagsRead' /\ LineMade'
<1> DEFINE n == Len(lineEvents)
<1>1. lineEvents \in Seq({"sector_tuner", "ot_interpolator"})
  BY DEF LineInv
<1>2. /\ lineEvents' \in Seq({"sector_tuner", "ot_interpolator"})
      /\ n \in Nat /\ Len(lineEvents') = n + 1 /\ lineEvents'[n + 1] = owner
      /\ \A k \in 1..n : lineEvents'[k] = lineEvents[k]
  BY <1>1, AppendProperties, LenProperties
<1>3. DOMAIN lineEvents = 1..n /\ DOMAIN lineEvents' = 1..n + 1
  BY <1>1, <1>2, LenProperties
<1> HIDE DEF n
<1>4. n + 1 \in DOMAIN lineEvents' /\ \A k \in 1..n : k \in DOMAIN lineEvents'
  BY <1>2, <1>3
<1>5. FlagsRead'
  <2> SUFFICES ASSUME NoFlagUnderWay' PROVE line'.flags = flags'
    BY DEF FlagsRead
  <2>1. owner = "sector_tuner"
    BY <1>2, <1>4 DEF NoFlagUnderWay
  <2>2. NoFlagUnderWay
    BY <1>2, <1>3, <1>4 DEF NoFlagUnderWay
  <2> QED
    BY <2>1, <2>2 DEF LineInv, FlagsRead
<1> QED
  BY <1>2, <1>5 DEF LineInv, LineMade

\* An event is handled: of the sector_tuner's the flags are not read, and the
\* line is made anew after both.
LEMMA HandledLine ==
  ASSUME LineInv, LineDynParamCb
  PROVE  /\ lineEvents' \in Seq({"sector_tuner", "ot_interpolator"})
         /\ FlagsRead' /\ LineMade'
<1> DEFINE n == Len(lineEvents)
<1>1. /\ lineEvents \in Seq({"sector_tuner", "ot_interpolator"})
      /\ lineEvents # <<>> /\ lineEvents' = Tail(lineEvents) /\ flags' = flags
  BY DEF LineInv, LineDynParamCb, LineStep
<1>2. /\ lineEvents' \in Seq({"sector_tuner", "ot_interpolator"})
      /\ Len(lineEvents') = n - 1 /\ Head(lineEvents) = lineEvents[1]
      /\ \A k \in 1..n - 1 : lineEvents'[k] = lineEvents[k + 1]
  BY <1>1, HeadTailProperties
<1>3. /\ n \in Nat
      /\ DOMAIN lineEvents = 1..n /\ DOMAIN lineEvents' = 1..n - 1
  BY <1>1, <1>2, LenProperties
<1> HIDE DEF n
<1>4. line'.need = TRUE
  BY DEF LineInv, TypeInv, Line, LineDynParamCb
<1>5. CASE Head(lineEvents) = "sector_tuner"
  <2>1. line'.flags = line.flags
    BY <1>5 DEF LineInv, TypeInv, Line, LineDynParamCb
  <2>2. ASSUME NoFlagUnderWay' PROVE NoFlagUnderWay
    <3> SUFFICES ASSUME NEW k \in 1..n PROVE lineEvents[k] # "ot_interpolator"
      BY <1>3 DEF NoFlagUnderWay
    <3>1. CASE k = 1
      BY <3>1, <1>2, <1>5
    <3>2. CASE k # 1
      <4>1. k - 1 \in 1..n - 1 /\ (k - 1) + 1 = k
        BY <3>2, <1>3
      <4>2. lineEvents'[k - 1] = lineEvents[k]
        BY <4>1, <1>2
      <4> QED
        BY <4>1, <4>2, <1>3, <2>2 DEF NoFlagUnderWay
    <3> QED
      BY <3>1, <3>2
  <2> QED
    BY <1>1, <1>2, <1>4, <2>1, <2>2 DEF LineInv, FlagsRead, LineMade
<1>6. CASE Head(lineEvents) # "sector_tuner"
  <2>1. line'.flags = flags
    BY <1>6 DEF LineInv, TypeInv, Line, LineDynParamCb
  <2> QED
    BY <1>1, <1>2, <1>4, <2>1 DEF FlagsRead, LineMade
<1> QED
  BY <1>5, <1>6

\* A line that is made is made for the flags that are known.
LEMMA LoopLine ==
  ASSUME LineInv, LineLoop
  PROVE  line'.flags = line.flags /\ LineMade'
<1> DEFINE due == line.need /\ line.scaled # None
           made == [flags |-> line.flags, speed |-> line.scaled]
           new == IF due THEN made ELSE line.wpnts
<1>1. line \in [phase : {"waiting", "looping", "dead"}, scaled : Speed \union {None},
                og : BOOLEAN, sp : BOOLEAN, need : BOOLEAN,
                flags : [Indices -> BOOLEAN], wpnts : ScaledLine \union {None}]
  BY DEF LineInv, TypeInv, Line
<1>2. line' = [line EXCEPT !.wpnts = new, !.need = line.need /\ ~due,
                           !.phase = IF new = None THEN "dead" ELSE line.phase]
  BY <1>1 DEF LineLoop
<1>3. made.flags = line.flags
  OBVIOUS
<1> HIDE DEF made, new
<1>4. line'.flags = line.flags /\ line'.wpnts = new /\ line'.need = (line.need /\ ~due)
  BY <1>1, <1>2
<1>5. CASE due
  BY <1>3, <1>4, <1>5 DEF LineMade, new
<1>6. CASE ~due
  BY <1>4, <1>6 DEF LineMade, LineInv, new
<1> QED
  BY <1>4, <1>5, <1>6

LEMMA NextLine == LineInv /\ [Next]_vars => LineInv'
<1> SUFFICES ASSUME LineInv, [Next]_vars
             PROVE  /\ lineEvents' \in Seq({"sector_tuner", "ot_interpolator"})
                    /\ FlagsRead' /\ LineMade'
  BY NextType DEF LineInv
<1>1. CASE \E k \in Scalings : SetScaling(k) \/ SetGlobalLimit(k)
  <2>1. /\ line' = line /\ flags' = flags
        /\ lineEvents' = Append(lineEvents, "sector_tuner")
    BY <1>1 DEF SetScaling, SetGlobalLimit, TellTunerChange
  <2> QED
    BY <2>1, ToldLine
<1>2. CASE \E i \in Indices : SetOtFlag(i)
  <2>1. line' = line /\ lineEvents' = Append(lineEvents, "ot_interpolator")
    BY <1>2 DEF SetOtFlag
  <2> QED
    BY <2>1, ToldLine
<1>3. CASE LineDynParamCb
  BY <1>3, HandledLine
<1>4. CASE LineLoop
  BY <1>4, LoopLine DEF LineLoop, LineStep, LineInv, FlagsRead, NoFlagUnderWay
<1>5. CASE LineOgCb \/ LineSpCb \/ LineWpntsCb \/ LineWait
  <2>1. /\ line'.flags = line.flags /\ line'.need = line.need /\ line'.wpnts = line.wpnts
        /\ lineEvents' = lineEvents /\ flags' = flags
    BY <1>5 DEF LineOgCb, LineSpCb, LineWpntsCb, LineWait, LineStep, LineInv, TypeInv, Line
  <2> QED
    BY <2>1 DEF LineInv, FlagsRead, NoFlagUnderWay, LineMade
<1>6. CASE UNCHANGED <<flags, line, lineEvents>>
  BY <1>6 DEF LineInv, FlagsRead, NoFlagUnderWay, LineMade
<1>7. \/ \E k \in Scalings : SetScaling(k) \/ SetGlobalLimit(k)
      \/ \E i \in Indices : SetOtFlag(i)
      \/ LineDynParamCb \/ LineLoop
      \/ LineOgCb \/ LineSpCb \/ LineWpntsCb \/ LineWait
      \/ UNCHANGED <<flags, line, lineEvents>>
  BY DEF Next, vars, lineVars, TunerDynParamCb, GlobalWaypointsCb, TunerTimer,
         GetParameters, InitOtParams, OtFlagCb, OtStep
<1> QED
  BY <1>1, <1>2, <1>3, <1>4, <1>5, <1>6, <1>7

\* No change of a flag is forgotten: with no event of its own under way and no
\* new line due, the ot_interpolator's line is made for the flags as they are,
\* in every order of the two nodes' events, of the waypoints and of its timer.
THEOREM LineFollowsAlways == Spec => []LineFollows
<1>1. LineInv => LineFollows
  BY DEF LineInv, FlagsRead, NoFlagUnderWay, LineMade, LineFollows
<1> QED
  BY <1>1, InitLine, NextLine, PTL DEF Spec

-----------------------------------------------------------------------------
(* What the sector_tuner publishes.                                        *)

\* Before the first change no event is under way and the sector_tuner works
\* with the scaling of its start; with no event under way it works with the
\* one in force; and a message that has one name only has not been written to.
SpeedKnown ==
  /\ ~tuned => tunerEvents = 0 /\ sectors = scaling
  /\ tunerEvents = 0 => sectors = InForce
Unwritten == ~shared => og \in {None, 0}
SpeedInv == TypeInv /\ SpeedKnown /\ Unwritten

LEMMA InitSpeed == Init => SpeedInv
<1> SUFFICES ASSUME Init PROVE SpeedInv
  OBVIOUS
<1>1. sectors = scaling /\ tuned = FALSE /\ og = None /\ tunerEvents = 0
  BY DEF Init
<1> QED
  BY <1>1, InitType DEF SpeedInv, SpeedKnown, Unwritten, InForce

LEMMA NextSpeed == SpeedInv /\ [Next]_vars => SpeedInv'
<1> SUFFICES ASSUME SpeedInv, [Next]_vars
             PROVE  SpeedKnown' /\ Unwritten'
  BY NextType DEF SpeedInv
<1>1. CASE \E k \in Scalings : SetScaling(k) \/ SetGlobalLimit(k)
  <2>1. tunerEvents \in Nat /\ tunerEvents' = tunerEvents + 1
    BY <1>1, SectorsAssumption
       DEF SetScaling, SetGlobalLimit, TellTunerChange, SpeedInv, TypeInv, Tuner
  <2>2. tunerEvents' # 0
    BY <2>1
  <2>3. shared' = shared /\ og' = og /\ tuned' = TRUE
    BY <1>1 DEF SetScaling, SetGlobalLimit, TellTunerChange
  <2> QED
    BY <2>2, <2>3 DEF SpeedInv, SpeedKnown, Unwritten
<1>2. CASE TunerDynParamCb
  <2>1. sectors' = Clipped /\ scaling' = scaling /\ limit' = limit
        /\ shared' = shared /\ og' = og /\ tuned' = tuned /\ tunerEvents # 0
    BY <1>2, SectorsAssumption DEF TunerDynParamCb, SpeedInv, TypeInv, Tuner
  <2>2. tuned
    BY <2>1 DEF SpeedInv, SpeedKnown
  <2> QED
    BY <2>1, <2>2 DEF SpeedInv, SpeedKnown, Unwritten, InForce, Clipped
<1>3. CASE GlobalWaypointsCb
  <2>1. og' = 0 /\ UNCHANGED <<scaling, limit, tuned, sectors, tunerEvents>>
    BY <1>3 DEF GlobalWaypointsCb
  <2> QED
    BY <2>1 DEF SpeedInv, SpeedKnown, Unwritten, InForce, Clipped
<1>4. CASE TunerTimer
  <2>1. /\ ~shared' => ~shared /\ og' = og
        /\ UNCHANGED <<scaling, limit, tuned, sectors, tunerEvents>>
    BY <1>4 DEF TunerTimer
  <2> QED
    BY <2>1 DEF SpeedInv, SpeedKnown, Unwritten, InForce, Clipped
<1>5. CASE UNCHANGED <<scaling, limit, tuned, sectors, tunerEvents, shared, og>>
  BY <1>5 DEF SpeedInv, SpeedKnown, Unwritten, InForce, Clipped
<1>6. \/ \E k \in Scalings : SetScaling(k) \/ SetGlobalLimit(k)
      \/ TunerDynParamCb \/ GlobalWaypointsCb \/ TunerTimer
      \/ UNCHANGED <<scaling, limit, tuned, sectors, tunerEvents, shared, og>>
  BY DEF Next, vars, tunerVars, SetOtFlag, LineOgCb, LineSpCb, LineWpntsCb, LineDynParamCb,
         LineWait, LineLoop, LineStep, GetParameters, InitOtParams, OtFlagCb, OtStep
<1> QED
  BY <1>1, <1>2, <1>3, <1>4, <1>5, <1>6

\* A tick after the names have come apart.
LEMMA ApartTick ==
  ASSUME SpeedInv, scaled # None, ~shared, TunerTimer
  PROVE  /\ ~shared'
         /\ tunerEvents = 0 => scaled' = Capped(InForce)
<1>1. og # None /\ shared' = (shared \/ scaled = None) /\ scaled' = Capped(og + sectors)
  BY DEF TunerTimer
<1>2. og = 0
  BY <1>1 DEF SpeedInv, Unwritten
<1>3. sectors \in Nat
  BY SectorsAssumption DEF SpeedInv, TypeInv, Params
<1>4. og + sectors = sectors
  BY <1>2, <1>3
<1>5. scaled' = Capped(sectors)
  BY <1>1, <1>4
<1> QED
  BY <1>1, <1>5 DEF SpeedInv, SpeedKnown

\* Once a second message has come, glb_wpnts_og and glb_wpnts_scaled never
\* name the same message again, and every new speed that is published with no
\* event under way is the one in force, scaled once, for every scaling and
\* limit the nodes start with or are given.
THEOREM ScaledOnceApartAlways == Spec => ScaledOnceApart
<1>1. SpeedInv /\ [Next]_vars
        => [scaled # None /\ ~shared =>
              /\ ~shared'
              /\ scaled' # scaled /\ tunerEvents = 0 => scaled' = Capped(InForce)]_vars
  <2> SUFFICES ASSUME SpeedInv, [Next]_vars, scaled # None, ~shared
               PROVE  /\ ~shared'
                      /\ scaled' # scaled /\ tunerEvents = 0 => scaled' = Capped(InForce)
    OBVIOUS
  <2>1. CASE TunerTimer
    BY <2>1, ApartTick
  <2>2. CASE GlobalWaypointsCb
    BY <2>2 DEF GlobalWaypointsCb
  <2>3. CASE UNCHANGED <<shared, scaled>>
    BY <2>3
  <2>4. TunerTimer \/ GlobalWaypointsCb \/ UNCHANGED <<shared, scaled>>
    BY DEF Next, vars, tunerVars, SetScaling, SetGlobalLimit, TellTunerChange, SetOtFlag,
           TunerDynParamCb, LineOgCb, LineSpCb, LineWpntsCb, LineDynParamCb,
           LineWait, LineLoop, LineStep, GetParameters, InitOtParams, OtFlagCb, OtStep
  <2> QED
    BY <2>1, <2>2, <2>3, <2>4
<1> QED
  BY <1>1, InitSpeed, NextSpeed, PTL DEF Spec, ScaledOnceApart
=============================================================================
