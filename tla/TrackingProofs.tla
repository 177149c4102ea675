---------------------------- MODULE TrackingProofs ----------------------------
(***************************************************************************)
(* What holds of the tracker for every track, every set of thresholds and  *)
(* every sequence of detections.  The loop over the tracks is a recursive  *)
(* function over sets of outcomes: TurnsInduct is its induction, and each  *)
(* property gives it an invariant of the turns.                            *)
(***************************************************************************)
EXTENDS Tracking, Induction, FiniteSetTheorems, SequenceTheorems

Stations == {ms \in Seq(Cells) : Len(ms) \in 1..3}

\* A track as the loop makes it: it has at least one measurement.
Tracks == [id : Nat \ {0}, meas_s : Stations, mean : Cells, nb : 0..NbCap,
           ttl : 0..Ttl, flag : {"unknown", "static", "dynamic"},
           front : BOOLEAN, visible : BOOLEAN]

Opponents == [init : BOOLEAN, id : Nat, s : Cells, ttl : 0..OppTtl, sure : BOOLEAN]

\* Where the loop stands between two tracks.
Outcomes == [kept : Seq(Tracks), left : Seq(Cells), opp : Opponents]

Distinct(trks) == \A i, j \in DOMAIN trks : trks[i].id = trks[j].id => i = j

TypeInv ==
  /\ path \in BOOLEAN
  /\ car_s \in Cells \union {None}
  /\ meas \in Detections \union {<<>>}
  /\ tracked \in Seq(Tracks)
  /\ Distinct(tracked)
  /\ opponent \in Opponents
  /\ params \in [{"noMemoryMode", "publish_static"} -> BOOLEAN]

LEMMA CellsAreInts == Cells \subseteq Int /\ 0 \in Cells
  BY TrackingAssumption DEF Cells

LEMMA MeasIs == TypeInv => meas \in Seq(Cells)
<1>1. <<>> \in Seq(Cells)
  OBVIOUS
<1>2. Detections \subseteq Seq(Cells)
  BY TrackingAssumption DEF Cells
<1> QED
  BY <1>1, <1>2 DEF TypeInv

\* What a track of a sequence of tracks is made of.
LEMMA TracksAre ==
  ASSUME NEW trks \in Seq(Tracks), NEW i \in DOMAIN trks
  PROVE  /\ i \in 1..Len(trks) /\ trks[i] \in Tracks
         /\ trks[i].ttl \in 0..Ttl /\ trks[i].nb \in 0..NbCap
         /\ trks[i].meas_s \in Stations /\ Last(trks[i].meas_s) \in Cells
<1>1. i \in 1..Len(trks) /\ trks[i] \in Tracks
  OBVIOUS
<1>2. trks[i].meas_s \in Stations /\ trks[i].ttl \in 0..Ttl /\ trks[i].nb \in 0..NbCap
  BY <1>1 DEF Tracks
<1>3. \A q \in Stations : Last(q) \in Cells
  <2> TAKE q \in Stations
  <2>1. q \in Seq(Cells) /\ Len(q) \in 1..3
    BY DEF Stations
  <2>2. q[Len(q)] \in Cells
    <3>1. \A n \in 1..3 : n \in 1..n
      OBVIOUS
    <3>2. Len(q) \in 1..Len(q)
      BY <2>1, <3>1, Zenon
    <3> QED
      BY <2>1, <3>2, ElementOfSeq
  <2> QED
    BY <2>2 DEF Last
<1> QED
  BY <1>1, <1>2, <1>3

LEMMA WrapIsCell == \A s \in Int : Wrap(s) \in Cells
  BY TrackingAssumption DEF Wrap, Cells

LEMMA BetweenAreCells == \A a, b \in Int : Between(a, b) \subseteq Cells
<1> SUFFICES ASSUME NEW a \in Int, NEW b \in Int, NEW x \in Between(a, b)
             PROVE  x \in Cells
  OBVIOUS
<1>1. PICK k \in 0..Abs(Residual(b - a)) :
         x = Wrap(a + (IF Residual(b - a) < 0 THEN -k ELSE k))
  BY DEF Between
<1>2. Residual(b - a) \in Int
  BY TrackingAssumption DEF Residual
<1>3. k \in Int
  BY <1>1, <1>2 DEF Abs
<1> QED
  BY <1>1, <1>3, WrapIsCell

LEMMA ConstantTypes ==
  /\ Ttl \in Nat /\ OppTtl \in Nat \ {0} /\ NbCap \in Nat \ {0} /\ MinMeas \in Nat
  /\ MaxDist \in Nat /\ Aggro * MaxDist \in Nat /\ MaxDist <= Aggro * MaxDist
<1>1. /\ Ttl \in Nat /\ OppTtl \in Nat \ {0} /\ NbCap \in Nat \ {0} /\ MinMeas \in Nat
      /\ MaxDist \in Nat \ {0} /\ Aggro \in Nat \ {0}
  BY TrackingAssumption DEF NbCap
<1>2. Aggro * MaxDist = (Aggro - 1) * MaxDist + MaxDist
  BY <1>1
<1>3. (Aggro - 1) * MaxDist \in Nat
  BY <1>1
<1> QED
  BY <1>1, <1>2, <1>3

-----------------------------------------------------------------------------
(* Matching.                                                               *)

\* The closest candidate exists: the search finds one if there is one.
LEMMA ClosestIs ==
  ASSUME NEW maxd \in Int, NEW s \in Int, NEW cands \in Seq(Cells)
  PROVE  LET i == ClosestWithin(maxd, s, cands)
         IN  IF \E k \in DOMAIN cands : Abs(s - cands[k]) < maxd
             THEN i \in DOMAIN cands /\ Abs(s - cands[i]) < maxd
             ELSE i = 0
<1> DEFINE near == {i \in DOMAIN cands : Abs(s - cands[i]) < maxd}
           closer(i, j) == LET a == Abs(s - cands[i]) b == Abs(s - cands[j])
                           IN a < b \/ (a = b /\ i <= j)
<1>1. CASE near = {}
  BY <1>1 DEF ClosestWithin
<1>2. CASE near # {}
  <2> DEFINE dists == {Abs(s - cands[i]) : i \in near}
  <2>0. \A i \in near : i \in Nat /\ Abs(s - cands[i]) \in Nat
    <3> SUFFICES ASSUME NEW i \in near PROVE i \in Nat /\ Abs(s - cands[i]) \in Nat
      OBVIOUS
    <3>1. i \in 1..Len(cands)
      OBVIOUS
    <3>2. i \in Nat /\ cands[i] \in Cells
      BY <3>1
    <3>3. cands[i] \in Int
      BY <3>2, CellsAreInts
    <3> QED
      BY <3>2, <3>3 DEF Abs
  <2>1. PICK d \in dists : \A e \in dists : d <= e
    <3>1. dists \subseteq Nat /\ dists # {}
      BY <1>2, <2>0
    <3> HIDE DEF dists
    <3> QED
      BY <3>1, Least
  <2> DEFINE firsts == {i \in near : Abs(s - cands[i]) = d}
  <2>2. PICK i \in firsts : \A j \in firsts : i <= j
    <3>1. firsts \subseteq Nat /\ firsts # {}
      BY <2>0
    <3> HIDE DEF firsts
    <3> QED
      BY <3>1, Least
  <2>3. i \in near /\ \A j \in near : closer(i, j)
    <3> SUFFICES ASSUME NEW j \in near PROVE closer(i, j)
      OBVIOUS
    <3>1. d <= Abs(s - cands[j]) /\ Abs(s - cands[i]) = d /\ Abs(s - cands[j]) \in Nat /\ d \in Nat
      BY <2>0, <2>1
    <3>2. Abs(s - cands[j]) = d => i <= j
      BY <2>2
    <3> HIDE DEF near
    <3> QED
      BY <3>1, <3>2
  <2>4. ClosestWithin(maxd, s, cands) \in near
    <3> HIDE DEF closer
    <3>1. ClosestWithin(maxd, s, cands) = CHOOSE k \in near : \A j \in near : closer(k, j)
      BY <1>2 DEF ClosestWithin, closer
    <3> HIDE DEF near
    <3> QED
      BY <2>3, <3>1
  <2> QED
    BY <1>2, <2>4
<1> QED
  BY <1>1, <1>2

LEMMA VerifyIs ==
  ASSUME NEW t \in Tracks, NEW cands \in Seq(Cells), NEW opp \in Opponents
  PROVE  VerifyPosition(t, cands, opp) \in DOMAIN cands \union {0}
<1>1. t.mean \in Int /\ opp.s \in Int
  BY CellsAreInts DEF Tracks, Opponents
<1>2. MaxDist \in Int /\ Aggro * MaxDist \in Int
  BY ConstantTypes
<1>3. \A maxd, s \in Int : ClosestWithin(maxd, s, cands) \in DOMAIN cands \union {0}
  BY ClosestIs
<1> QED
  BY <1>1, <1>2, <1>3 DEF VerifyPosition

-----------------------------------------------------------------------------
(* One turn of the loop.                                                   *)

\* What feeding a track makes of it.
IsFed(t, s, u) ==
  /\ u \in Tracks /\ u.id = t.id /\ Last(u.meas_s) = s
  /\ u.ttl = Ttl /\ u.visible /\ u.front

\* The last three of the measurements, with the new one.
LEMMA LastThree ==
  ASSUME NEW q \in Seq(Cells), Len(q) \in 1..3, NEW s \in Cells
  PROVE  LET ms == Append(q, s)
             ss == IF Len(ms) > 3 THEN Tail(ms) ELSE ms
         IN  ss \in Stations /\ Last(ss) = s
<1>1. PICK ms : ms = Append(q, s)
  OBVIOUS
<1>2. ms \in Seq(Cells) /\ Len(ms) = Len(q) + 1 /\ ms[Len(ms)] = s
  BY <1>1
<1>3. CASE Len(q) = 3
  <2>1. Len(ms) = 4
    BY <1>2, <1>3
  <2> DEFINE tl == Tail(ms)
  <2>2. ms # <<>>
    BY <1>2, <2>1, EmptySeq
  <2>3. /\ tl \in Seq(Cells) /\ Len(tl) = Len(ms) - 1
        /\ \A i \in 1 .. Len(tl) : tl[i] = ms[i + 1]
    BY <1>2, <2>2, HeadTailProperties
  <2>4. Append(q, s) = ms /\ tl = Tail(ms)
    BY <1>1
  <2> HIDE DEF tl
  <2>5. Len(tl) = 3 /\ tl[3] = ms[4]
    BY <2>1, <2>3
  <2>6. tl \in Stations /\ Last(tl) = s
    BY <1>2, <2>1, <2>3, <2>5 DEF Stations, Last
  <2>7. Len(ms) > 3
    BY <2>1
  <2>8. Len(Append(q, s)) > 3 /\ Tail(Append(q, s)) = tl
    BY <2>4, <2>7, Zenon
  <2> QED
    BY <2>6, <2>8, Zenon
<1>4. CASE Len(q) \in 1..2
  BY <1>1, <1>2, <1>4 DEF Stations, Last
<1> QED
  BY <1>3, <1>4

LEMMA UpdatedIs ==
  ASSUME NEW t \in Tracks, NEW s \in Cells, NEW u \in Updated(t, s)
  PROVE  IsFed(t, s, u)
<1> DEFINE ms == Append(t.meas_s, s)
           ss == IF Len(ms) > 3 THEN Tail(ms) ELSE ms
           nb == IF t.nb < NbCap THEN t.nb + 1 ELSE NbCap
           means == IF t.nb = 0 THEN {s} ELSE Between(t.mean, s)
           flags == IF nb > MinMeas THEN {"static", "dynamic"} ELSE {"unknown"}
           new(mean, flag) == [id |-> t.id, meas_s |-> ss, mean |-> mean, nb |-> nb,
                               ttl |-> Ttl, flag |-> flag, front |-> TRUE,
                               visible |-> TRUE]
<1>1. PICK mean \in means, flag \in flags : u = new(mean, flag)
  <2>1. Updated(t, s) = {new(mean, flag) : mean \in means, flag \in flags}
    BY DEF Updated
  <2> HIDE DEF means, flags, new
  <2> QED
    BY <2>1
<1>2. t.meas_s \in Seq(Cells) /\ Len(t.meas_s) \in 1..3 /\ t.nb \in 0..NbCap /\ t.mean \in Cells
  BY DEF Tracks, Stations
<1>3. ss \in Stations /\ Last(ss) = s
  BY <1>2, LastThree
<1>4. mean \in Cells
  <2>1. t.mean \in Int /\ s \in Int
    BY <1>2, CellsAreInts
  <2> QED
    BY <1>1, <2>1, BetweenAreCells
<1>5. nb \in 0..NbCap
  BY <1>2, ConstantTypes
<1>6. Ttl \in 0..Ttl
  BY ConstantTypes
<1>7. flag \in {"unknown", "static", "dynamic"}
  OBVIOUS
<1> HIDE DEF ss, nb, means
<1>8. u \in Tracks
  BY <1>1, <1>3, <1>4, <1>5, <1>6, <1>7 DEF Tracks
<1>9. u.id = t.id /\ u.meas_s = ss /\ u.ttl = Ttl /\ u.visible = TRUE /\ u.front = TRUE
  BY <1>1 DEF Tracks
<1> QED
  BY <1>3, <1>8, <1>9 DEF IsFed

LEMMA FedIs ==
  ASSUME NEW u \in Tracks, NEW opp \in Opponents, NEW o \in Fed(u, opp)
  PROVE  o \in Opponents
<1> DEFINE s == Last(u.meas_s)
           refreshed(x) == [init |-> TRUE, id |-> u.id, s |-> x, ttl |-> OppTtl, sure |-> TRUE]
<1>1. s \in Cells /\ u.id \in Nat /\ opp.s \in Cells
  <2>1. u.meas_s \in Stations
    BY DEF Tracks
  <2>2. u.meas_s \in Seq(Cells) /\ Len(u.meas_s) \in 1..3
    BY <2>1 DEF Stations
  <2>3. s \in Cells
    <3>1. Len(u.meas_s) \in 1..Len(u.meas_s)
      BY <2>2
    <3> QED
      BY <2>2, <3>1, ElementOfSeq DEF Last
  <2> QED
    BY <2>3 DEF Tracks, Opponents
<1>2. \A x \in Cells : refreshed(x) \in Opponents
  BY <1>1, ConstantTypes DEF Opponents
<1>3. NoOpponent \in Opponents
  BY CellsAreInts, ConstantTypes DEF NoOpponent, Opponents
<1>4. o = opp \/ o = NoOpponent \/ \E x \in {s} \union Between(opp.s, s) : o = refreshed(x)
  BY DEF Fed
<1>5. Between(opp.s, s) \subseteq Cells
  BY <1>1, CellsAreInts, BetweenAreCells
<1> HIDE DEF s, refreshed
<1> QED
  BY <1>1, <1>2, <1>3, <1>4, <1>5

\* What an unseen turn makes of a track: it is older, or only remembered.
IsAged(t, u) ==
  /\ u \in Tracks /\ u.id = t.id /\ t.ttl > 0
  /\ u.ttl = t.ttl - 1 \/ (~params.noMemoryMode /\ ~u.visible)

LEMMA AgedIs ==
  ASSUME TypeInv, NEW t \in Tracks, t.ttl > 0, NEW fov \in BOOLEAN
  PROVE  IsAged(t, Aged(t, fov))
<1> DEFINE front == IF t.flag = "unknown" THEN t.front ELSE InFront(Last(t.meas_s))
           near  == Wrap(Last(t.meas_s) - car_s) < Deletion
           kept  == t.flag = "static" /\ ~params.noMemoryMode /\ ~(near /\ fov)
           ttl   == IF kept THEN t.ttl ELSE t.ttl - 1
           visible == IF t.flag # "static" \/ params.noMemoryMode THEN t.visible ELSE ~kept
<1>1. Aged(t, fov) = [t EXCEPT !.front = front, !.ttl = ttl, !.visible = visible]
  BY DEF Aged
<1>2. front \in BOOLEAN
  BY DEF Tracks, InFront
<1>3. visible \in BOOLEAN
  BY DEF Tracks
<1>4. ttl \in 0..Ttl
  BY ConstantTypes DEF Tracks
<1>5. ttl = t.ttl - 1 \/ (~params.noMemoryMode /\ visible = FALSE)
  OBVIOUS
<1> HIDE DEF front, ttl, visible
<1> QED
  BY <1>1, <1>2, <1>3, <1>4, <1>5 DEF IsAged, Tracks

LEMMA RemovedIs ==
  ASSUME NEW q \in Seq(Cells), NEW i \in DOMAIN q
  PROVE  /\ RemoveAt(q, i) \in Seq(Cells)
         /\ Len(RemoveAt(q, i)) = Len(q) - 1
         /\ \A k \in 1..Len(q) - 1 : RemoveAt(q, i)[k] = q[IF k < i THEN k ELSE k + 1]
<1> DEFINE a == SubSeq(q, 1, i - 1)
           b == SubSeq(q, i + 1, Len(q))
<1>1. i \in 1..Len(q) /\ Len(q) \in Nat /\ \A k \in 1..Len(q) : q[k] \in Cells
  OBVIOUS
<1>2. /\ a \in Seq(Cells) /\ Len(a) = i - 1
      /\ \A k \in 1..i - 1 : a[k] = q[k]
  <2>1. 1 \in Int /\ i - 1 \in Int /\ \A k \in 1..i - 1 : q[k] \in Cells
    BY <1>1
  <2>2. /\ a \in Seq(Cells) /\ Len(a) = (IF 1 <= i - 1 THEN i - 1 - 1 + 1 ELSE 0)
        /\ \A k \in 1..i - 1 - 1 + 1 : a[k] = q[1 + k - 1]
    BY <2>1, SubSeqProperties
  <2> HIDE DEF a
  <2> QED
    BY <1>1, <2>2
<1>3. /\ b \in Seq(Cells) /\ Len(b) = Len(q) - i
      /\ \A k \in 1..Len(q) - i : b[k] = q[i + k]
  <2>1. i + 1 \in Int /\ Len(q) \in Int /\ \A k \in i + 1..Len(q) : q[k] \in Cells
    BY <1>1
  <2>2. /\ b \in Seq(Cells)
        /\ Len(b) = (IF i + 1 <= Len(q) THEN Len(q) - (i + 1) + 1 ELSE 0)
        /\ \A k \in 1..Len(q) - (i + 1) + 1 : b[k] = q[i + 1 + k - 1]
    BY <2>1, SubSeqProperties
  <2> HIDE DEF b
  <2> QED
    BY <1>1, <2>2
<1>4. RemoveAt(q, i) = a \o b
  BY DEF RemoveAt
<1> HIDE DEF a, b
<1>5. /\ a \o b \in Seq(Cells) /\ Len(a \o b) = Len(q) - 1
      /\ \A k \in 1..Len(a) + Len(b) : (a \o b)[k] = IF k <= Len(a) THEN a[k] ELSE b[k - Len(a)]
  <2>1. a \in Seq(Cells) /\ b \in Seq(Cells)
    BY <1>2, <1>3
  <2>2. /\ a \o b \in Seq(Cells) /\ Len(a \o b) = Len(a) + Len(b)
        /\ \A k \in 1..Len(a) + Len(b) : (a \o b)[k] = IF k <= Len(a) THEN a[k] ELSE b[k - Len(a)]
    BY <2>1, ConcatProperties
  <2>3. Len(a) + Len(b) = Len(q) - 1
    BY <1>1, <1>2, <1>3
  <2> QED
    BY <2>2, <2>3
<1>6. \A k \in 1..Len(q) - 1 : (a \o b)[k] = q[IF k < i THEN k ELSE k + 1]
  <2> TAKE k \in 1..Len(q) - 1
  <2>0. k \in 1..Len(a) + Len(b) /\ Len(a) = i - 1
    <3>1. Len(a) = i - 1 /\ Len(b) = Len(q) - i
      BY <1>2, <1>3
    <3>2. Len(a) + Len(b) = Len(q) - 1
      BY <1>1, <3>1
    <3> QED
      BY <3>1, <3>2
  <2>1. CASE k < i
    <3>1. k \in 1..i - 1 /\ k <= Len(a)
      BY <1>1, <2>0, <2>1
    <3>2. (a \o b)[k] = a[k]
      BY <1>5, <2>0, <3>1
    <3> QED
      BY <1>2, <2>1, <3>1, <3>2
  <2>2. CASE ~ (k < i)
    <3>1. k - (i - 1) \in 1..Len(q) - i /\ ~ (k <= Len(a))
      <4>1. i \in Int /\ Len(q) \in Int /\ k \in Int /\ k <= Len(q) - 1
        BY <1>1
      <4>2. i <= k
        BY <2>2, <4>1
      <4>3. Len(a) = i - 1
        BY <2>0
      <4>4. ~ (k <= i - 1) /\ k - (i - 1) >= 1 /\ k - (i - 1) <= Len(q) - i
        BY <4>1, <4>2
      <4> QED
        BY <4>1, <4>3, <4>4
    <3>2. (a \o b)[k] = b[k - (i - 1)]
      BY <1>5, <2>0, <3>1
    <3>3. b[k - (i - 1)] = q[i + (k - (i - 1))]
      BY <1>3, <3>1
    <3> QED
      BY <1>1, <2>2, <3>2, <3>3
  <2> QED
    BY <2>1, <2>2
<1> QED
  BY <1>4, <1>5, <1>6

\* The three ways a turn ends.
Feeds(acc, t, b) ==
  \E i \in DOMAIN acc.left : \E u \in Tracks :
    /\ i = VerifyPosition(t, acc.left, acc.opp) /\ IsFed(t, acc.left[i], u)
    /\ b.kept = Append(acc.kept, u) /\ b.left = RemoveAt(acc.left, i)
Drops(acc, t, b) ==
  VerifyPosition(t, acc.left, acc.opp) = 0 /\ t.ttl = 0 /\ b = acc
Ages(acc, t, b) ==
  /\ VerifyPosition(t, acc.left, acc.opp) = 0
  /\ \E u \in Tracks : IsAged(t, u) /\ b.kept = Append(acc.kept, u)
  /\ b.left = acc.left /\ b.opp = acc.opp

LEMMA TurnIs ==
  ASSUME TypeInv, NEW acc \in Outcomes, NEW t \in Tracks, NEW b \in TrackTurn(acc, t)
  PROVE  b \in Outcomes /\ (Feeds(acc, t, b) \/ Drops(acc, t, b) \/ Ages(acc, t, b))
<1> DEFINE i == VerifyPosition(t, acc.left, acc.opp)
<1>1. /\ acc.kept \in Seq(Tracks) /\ acc.left \in Seq(Cells) /\ acc.opp \in Opponents
      /\ t.ttl \in Nat
  BY ConstantTypes DEF Outcomes, Tracks
<1>2. i \in DOMAIN acc.left \union {0}
  BY <1>1, VerifyIs
<1>3. CASE i # 0
  <2> DEFINE out(u, o) == [kept |-> Append(acc.kept, u), left |-> RemoveAt(acc.left, i), opp |-> o]
  <2>1. PICK u \in Updated(t, acc.left[i]) : \E o \in Fed(u, acc.opp) : b = out(u, o)
    <3>1. TrackTurn(acc, t) =
            UNION {{out(u, o) : o \in Fed(u, acc.opp)} : u \in Updated(t, acc.left[i])}
      BY <1>3 DEF TrackTurn
    <3> HIDE DEF i, out
    <3> QED
      BY <3>1
  <2>2. PICK o \in Fed(u, acc.opp) : b = out(u, o)
    BY <2>1
  <2> HIDE DEF i
  <2>3. i \in DOMAIN acc.left /\ acc.left[i] \in Cells
    BY <1>1, <1>2, <1>3
  <2>4. IsFed(t, acc.left[i], u) /\ u \in Tracks
    BY <2>3, UpdatedIs DEF IsFed
  <2>5. o \in Opponents
    BY <1>1, <2>4, FedIs
  <2>6. RemoveAt(acc.left, i) \in Seq(Cells) /\ Append(acc.kept, u) \in Seq(Tracks)
    BY <1>1, <2>3, <2>4, RemovedIs
  <2>7. b \in Outcomes
    BY <2>2, <2>5, <2>6 DEF Outcomes
  <2>8. b.kept = Append(acc.kept, u) /\ b.left = RemoveAt(acc.left, i)
    BY <2>2
  <2> QED
    BY <2>3, <2>4, <2>7, <2>8 DEF Feeds, i
<1>4. CASE i = 0 /\ t.ttl <= 0
  <2>1. b = acc /\ t.ttl = 0
    BY <1>1, <1>4 DEF TrackTurn
  <2> QED
    BY <1>4, <2>1 DEF Drops
<1>5. CASE i = 0 /\ ~ (t.ttl <= 0)
  <2>1. PICK fov \in BOOLEAN : b = [acc EXCEPT !.kept = Append(@, Aged(t, fov))]
    BY <1>5 DEF TrackTurn
  <2>2. IsAged(t, Aged(t, fov)) /\ Aged(t, fov) \in Tracks
    BY <1>1, <1>5, AgedIs DEF IsAged
  <2>3. Append(acc.kept, Aged(t, fov)) \in Seq(Tracks)
    BY <1>1, <2>2
  <2>4. b.kept = Append(acc.kept, Aged(t, fov)) /\ b.left = acc.left /\ b.opp = acc.opp
    BY <2>1 DEF Outcomes
  <2>5. b \in Outcomes
    BY <2>1, <2>3 DEF Outcomes
  <2> QED
    BY <1>5, <2>2, <2>4, <2>5 DEF Ages
<1> QED
  BY <1>3, <1>4, <1>5

-----------------------------------------------------------------------------
(* The two loops.                                                          *)

Start(opp) == [kept |-> <<>>, left |-> meas, opp |-> opp]

\* What holds before the first track and goes over from each turn to the next
\* holds after the last one.
LEMMA TurnsInduct ==
  ASSUME TypeInv, NEW opp \in Opponents, NEW G,
         <<0, Start(opp)>> \in G,
         \A i \in DOMAIN tracked : \A acc \in Outcomes : <<i - 1, acc>> \in G =>
           \A b \in TrackTurn(acc, tracked[i]) : <<i, b>> \in G
  PROVE  \A r \in Turns(opp) : r \in Outcomes /\ <<Len(tracked), r>> \in G
<1> DEFINE n == Len(tracked)
           S == SUBSET Outcomes
           Turn(i, X) == UNION {TrackTurn(acc, tracked[i]) : acc \in X}
           step == [p \in Nat \X S |-> IF p[1] \in 1..n THEN Turn(p[1], p[2]) ELSE {}]
           start == {Start(opp)}
           Eq(f) == f = [i \in 0..n |->
                           IF i = 0 THEN start
                           ELSE UNION {TrackTurn(acc, tracked[i]) : acc \in f[i - 1]}]
           turns == CHOOSE f : Eq(f)
<1>1. n \in Nat /\ tracked \in Seq(Tracks) /\ \A i \in 1..n : tracked[i] \in Tracks
  BY DEF TypeInv
<1>2. start \in S
  <2>1. meas \in Seq(Cells)
    BY MeasIs
  <2> QED
    BY <2>1 DEF Start, Outcomes
<1>3. \A i \in 1..n : \A X \in S : Turn(i, X) \in S
  <2> SUFFICES ASSUME NEW i \in 1..n, NEW X \in S, NEW acc \in X,
                      NEW b \in TrackTurn(acc, tracked[i])
               PROVE  b \in Outcomes
    OBVIOUS
  <2>1. acc \in Outcomes /\ tracked[i] \in Tracks
    BY <1>1
  <2> QED
    BY <2>1, TurnIs
<1>4. step \in [Nat \X S -> S]
  <2> HIDE DEF Turn
  <2>1. {} \in S
    OBVIOUS
  <2> HIDE DEF S
  <2> QED
    BY <1>3, <2>1
<1>5. PICK f : Iterates(f, n, S, start, step)
  <2> HIDE DEF step, start, S, n
  <2> QED
    BY <1>1, <1>2, <1>4, Recursion
<1>6. f \in [0..n -> S] /\ f[0] = start /\ \A i \in 1..n : f[i] = Turn(i, f[i - 1])
  <2> HIDE DEF Turn, S, start
  <2>1. f \in [0..n -> S] /\ f[0] = start /\ \A i \in 1..n : f[i] = step[<<i, f[i - 1]>>]
    <3> HIDE DEF step
    <3> QED
      BY <1>5 DEF Iterates
  <2>2. \A i \in 1..n : step[<<i, f[i - 1]>>] = Turn(i, f[i - 1])
    <3> TAKE i \in 1..n
    <3>1. i \in Nat /\ i - 1 \in 0..n
      BY <1>1
    <3>2. <<i, f[i - 1]>> \in Nat \X S
      BY <2>1, <3>1
    <3> QED
      BY <3>2
  <2> HIDE DEF step
  <2> QED
    BY <2>1, <2>2
<1>7. Eq(f)
  <2> HIDE DEF S, start
  <2>1. \A i \in 0..n : i = 0 \/ i \in 1..n
    BY <1>1
  <2> QED
    BY <1>6, <2>1
<1>8. Eq(turns)
  <2> HIDE DEF Eq
  <2> QED
    BY <1>7
<1>9. Turns(opp) = turns[n]
  BY DEF Turns, Start
<1> DEFINE Good(k) == \A r \in turns[k] : r \in Outcomes /\ <<k, r>> \in G
           T == {k \in Nat : k <= n => Good(k)}
<1> HIDE DEF turns
<1>10. 0 \in T
  <2>1. turns[0] = start
    BY <1>1, <1>8
  <2>2. Start(opp) \in Outcomes
    BY <1>2
  <2> QED
    BY <2>1, <2>2
<1>11. ASSUME NEW k \in Nat, k \in T PROVE k + 1 \in T
  <2> SUFFICES ASSUME k + 1 <= n, NEW b \in turns[k + 1]
               PROVE  b \in Outcomes /\ <<k + 1, b>> \in G
    OBVIOUS
  <2>1. k + 1 \in 1..n /\ k + 1 # 0 /\ (k + 1) - 1 = k /\ k + 1 \in 0..n /\ k <= n
    BY <1>1
  <2>2. Good(k)
    BY <1>11, <2>1
  <2> HIDE DEF n
  <2>3. turns[k + 1] = UNION {TrackTurn(acc, tracked[k + 1]) : acc \in turns[k]}
    BY <1>8, <2>1
  <2>4. PICK acc \in turns[k] : b \in TrackTurn(acc, tracked[k + 1])
    BY <2>3
  <2>5. acc \in Outcomes /\ <<k, acc>> \in G
    BY <2>2
  <2>6. k + 1 \in DOMAIN tracked /\ tracked[k + 1] \in Tracks
    BY <1>1, <2>1 DEF n
  <2>7. <<k + 1, b>> \in G
    BY <2>1, <2>4, <2>5, <2>6
  <2> QED
    BY <2>4, <2>5, <2>6, <2>7, TurnIs
<1>12. Nat \subseteq T
  <2> HIDE DEF T
  <2> QED
    BY <1>10, <1>11, Induct
<1>13. Good(n)
  <2> HIDE DEF Good
  <2> QED
    BY <1>1, <1>12
<1> QED
  BY <1>9, <1>13

LEMMA StartIs ==
  ASSUME TypeInv, NEW opp \in Opponents
  PROVE  /\ Start(opp) \in Outcomes
         /\ Start(opp).kept = <<>> /\ Start(opp).left = meas /\ Start(opp).opp = opp
  BY MeasIs DEF Start, Outcomes

LEMMA TurnsAre ==
  ASSUME TypeInv, NEW opp \in Opponents, NEW r \in Turns(opp)
  PROVE  r \in Outcomes
<1> DEFINE G == Nat \X Outcomes
<1>1. <<0, Start(opp)>> \in G
  BY StartIs
<1>2. \A i \in DOMAIN tracked : \A acc \in Outcomes : <<i - 1, acc>> \in G =>
        \A b \in TrackTurn(acc, tracked[i]) : <<i, b>> \in G
  <2>1. \A i \in DOMAIN tracked : i \in Nat /\ tracked[i] \in Tracks
    BY DEF TypeInv
  <2> QED
    BY <2>1, TurnIs
<1> HIDE DEF G
<1> QED
  BY <1>1, <1>2, TurnsInduct

\* Of more numbers than there are tracks one is no track's and not the
\* opponent's.
LEMMA FreshIs ==
  ASSUME NEW trks \in Seq(Tracks), NEW opp \in Opponents
  PROVE  /\ Fresh(trks, opp) \in Nat \ {0}
         /\ \A k \in DOMAIN trks : trks[k].id # Fresh(trks, opp)
<1> DEFINE n == Len(trks)
           Free(i) == (\A k \in DOMAIN trks : trks[k].id # i) /\ ~(opp.init /\ opp.id = i)
<1>1. n \in Nat
  OBVIOUS
<1>2. \E i \in 1..n + 2 : Free(i)
  <2> SUFFICES ASSUME \A i \in 1..n + 2 : ~Free(i) PROVE FALSE
    OBVIOUS
  <2> DEFINE g == [i \in 1..n + 2 |->
                     IF \E k \in 1..n : trks[k].id = i
                     THEN CHOOSE k \in 1..n : trks[k].id = i ELSE 0]
  <2>1. g \in [1..n + 2 -> 0..n]
    OBVIOUS
  <2>2. IsFiniteSet(1..n + 2) /\ Cardinality(1..n + 2) = n + 2
    <3>1. 1 \in Int /\ n + 2 \in Int /\ ~ (1 > n + 2) /\ (n + 2) - 1 + 1 = n + 2
      BY <1>1
    <3> QED
      BY <3>1, FS_Interval
  <2>3. IsFiniteSet(0..n) /\ Cardinality(0..n) = n + 1
    <3>1. 0 \in Int /\ n \in Int /\ ~ (0 > n) /\ n - 0 + 1 = n + 1
      BY <1>1
    <3> QED
      BY <3>1, FS_Interval
  <2> DEFINE A == 1..n + 2
             B == 0..n
  <2>4. PICK x \in A, y \in A : x # y /\ g[x] = g[y]
    <3>1. IsFiniteSet(A) /\ IsFiniteSet(B) /\ Cardinality(B) < Cardinality(A)
      BY <1>1, <2>2, <2>3
    <3>2. g \in [A -> B]
      BY <2>1
    <3> HIDE DEF g, A, B
    <3> QED
      BY <3>1, <3>2, FS_PigeonHole
  <2>5. \A i \in 1..n + 2 : IF g[i] = 0 THEN opp.id = i ELSE trks[g[i]].id = i
    <3> TAKE i \in 1..n + 2
    <3>1. CASE \E k \in 1..n : trks[k].id = i
      <4>1. g[i] \in 1..n /\ trks[g[i]].id = i
        BY <3>1
      <4> QED
        BY <1>1, <4>1
    <3>2. CASE ~ \E k \in 1..n : trks[k].id = i
      <4>1. g[i] = 0
        BY <3>2
      <4>2. ~Free(i)
        OBVIOUS
      <4>3. DOMAIN trks = 1..n
        OBVIOUS
      <4> QED
        BY <3>2, <4>1, <4>2, <4>3
    <3> QED
      BY <3>1, <3>2
  <2> HIDE DEF g
  <2> QED
    BY <2>4, <2>5
<1>3. Fresh(trks, opp) \in 1..n + 2 /\ Free(Fresh(trks, opp))
  <2>1. Fresh(trks, opp) = CHOOSE i \in 1..n + 2 : Free(i)
    BY DEF Fresh
  <2> HIDE DEF Free, n
  <2> QED
    BY <1>2, <2>1
<1> QED
  BY <1>1, <1>3

LEMMA NewTrackIs ==
  ASSUME NEW i \in Nat \ {0}, NEW s \in Cells
  PROVE  IsFed([id |-> i], s, NewTrack(i, s)) /\ NewTrack(i, s).nb = 0
<1>1. <<s>> \in Stations /\ Last(<<s>>) = s
  BY DEF Stations, Last
<1>2. 0 \in 0..NbCap /\ Ttl \in 0..Ttl
  BY ConstantTypes
<1>3. NewTrack(i, s) \in Tracks
  BY <1>1, <1>2 DEF NewTrack, Tracks
<1> QED
  BY <1>1, <1>3 DEF NewTrack, IsFed

LEMMA NewTracksInduct ==
  ASSUME NEW kept \in Seq(Tracks), NEW left \in Seq(Cells), NEW opp \in Opponents, NEW G,
         <<0, kept>> \in G,
         \A k \in DOMAIN left : \A trks \in Seq(Tracks) : <<k - 1, trks>> \in G =>
           \A i \in Nat \ {0} : (\A j \in DOMAIN trks : trks[j].id # i) =>
             <<k, Append(trks, NewTrack(i, left[k]))>> \in G
  PROVE  /\ WithNewTracks(kept, left, opp) \in Seq(Tracks)
         /\ <<Len(left), WithNewTracks(kept, left, opp)>> \in G
<1> DEFINE n == Len(left)
           S == Seq(Tracks)
           More(k, x) == Append(x, NewTrack(Fresh(x, opp), left[k]))
           step == [p \in Nat \X S |-> IF p[1] \in 1..n THEN More(p[1], p[2]) ELSE p[2]]
           Eq(f) == f = [k \in 0..n |->
                           IF k = 0 THEN kept
                           ELSE Append(f[k - 1], NewTrack(Fresh(f[k - 1], opp), left[k]))]
           trks == CHOOSE f : Eq(f)
<1>1. n \in Nat /\ \A k \in 1..n : left[k] \in Cells
  OBVIOUS
<1>2. \A k \in 1..n : \A x \in S : More(k, x) \in S
  <2> SUFFICES ASSUME NEW k \in 1..n, NEW x \in S PROVE More(k, x) \in S
    OBVIOUS
  <2>1. NewTrack(Fresh(x, opp), left[k]) \in Tracks
    BY <1>1, FreshIs, NewTrackIs DEF IsFed
  <2> QED
    BY <2>1
<1>3. step \in [Nat \X S -> S]
  <2> HIDE DEF S, More
  <2> QED
    BY <1>2
<1>4. PICK f : Iterates(f, n, S, kept, step)
  <2>1. kept \in S
    OBVIOUS
  <2> HIDE DEF step, S, n
  <2> QED
    BY <1>1, <1>3, <2>1, Recursion
<1>5. f \in [0..n -> S] /\ f[0] = kept /\ \A k \in 1..n : f[k] = More(k, f[k - 1])
  <2> HIDE DEF More, S
  <2>1. f \in [0..n -> S] /\ f[0] = kept /\ \A k \in 1..n : f[k] = step[<<k, f[k - 1]>>]
    <3> HIDE DEF step
    <3> QED
      BY <1>4 DEF Iterates
  <2>2. \A k \in 1..n : step[<<k, f[k - 1]>>] = More(k, f[k - 1])
    <3> TAKE k \in 1..n
    <3>1. k \in Nat /\ k - 1 \in 0..n
      BY <1>1
    <3>2. <<k, f[k - 1]>> \in Nat \X S
      BY <2>1, <3>1
    <3> QED
      BY <3>2
  <2> HIDE DEF step
  <2> QED
    BY <2>1, <2>2
<1>6. Eq(f)
  <2> HIDE DEF S
  <2>1. \A k \in 0..n : k = 0 \/ k \in 1..n
    BY <1>1
  <2> QED
    BY <1>5, <2>1
<1>7. Eq(trks)
  <2> HIDE DEF Eq
  <2> QED
    BY <1>6
<1>8. WithNewTracks(kept, left, opp) = trks[n]
  BY DEF WithNewTracks
<1> DEFINE Good(k) == trks[k] \in S /\ <<k, trks[k]>> \in G
           T == {k \in Nat : k <= n => Good(k)}
<1> HIDE DEF trks
<1>9. 0 \in T
  <2>1. trks[0] = kept
    BY <1>1, <1>7
  <2> QED
    BY <2>1
<1>10. ASSUME NEW k \in Nat, k \in T PROVE k + 1 \in T
  <2> SUFFICES ASSUME k + 1 <= n PROVE Good(k + 1)
    OBVIOUS
  <2>1. k + 1 \in 1..n /\ k + 1 # 0 /\ (k + 1) - 1 = k /\ k + 1 \in 0..n /\ k <= n
    BY <1>1
  <2>2. Good(k)
    BY <1>10, <2>1
  <2> DEFINE i == Fresh(trks[k], opp)
  <2>3. i \in Nat \ {0} /\ \A j \in DOMAIN trks[k] : trks[k][j].id # i
    BY <2>2, FreshIs
  <2>4. k + 1 \in DOMAIN left
    BY <2>1
  <2>5. trks[k + 1] = Append(trks[k], NewTrack(i, left[k + 1]))
    <3> HIDE DEF n
    <3> QED
      BY <1>7, <2>1
  <2> HIDE DEF i
  <2>6. <<k + 1, trks[k + 1]>> \in G
    BY <2>1, <2>2, <2>3, <2>4, <2>5
  <2>7. NewTrack(i, left[k + 1]) \in Tracks
    BY <1>1, <2>1, <2>3, NewTrackIs DEF IsFed
  <2> QED
    BY <2>2, <2>5, <2>6, <2>7
<1>11. Nat \subseteq T
  <2> HIDE DEF T
  <2> QED
    BY <1>9, <1>10, Induct
<1>12. Good(n)
  <2> HIDE DEF Good
  <2> QED
    BY <1>1, <1>11
<1> QED
  BY <1>8, <1>12

\* Where nothing is left no track is started.
LEMMA NothingNew ==
  ASSUME NEW kept \in Seq(Tracks), NEW opp \in Opponents
  PROVE  WithNewTracks(kept, <<>>, opp) = kept
<1> DEFINE N == {<<0, kept>>}
           w == WithNewTracks(kept, <<>>, opp)
<1>1. <<Len(<<>>), w>> \in N
  <2>1. <<0, kept>> \in N /\ <<>> \in Seq(Cells) /\ DOMAIN <<>> = {}
    OBVIOUS
  <2> HIDE DEF N
  <2> QED
    BY <2>1, NewTracksInduct
<1> HIDE DEF w
<1>2. w = kept
  BY <1>1
<1> QED
  BY <1>2 DEF w

-----------------------------------------------------------------------------
(* Type correctness.                                                       *)

LEMMA PredictedIs ==
  ASSUME TypeInv, NEW opp \in Predicted(opponent)
  PROVE  opp \in Opponents /\ opp.init = opponent.init /\ opp.ttl = opponent.ttl
<1>1. opponent \in Opponents
  BY DEF TypeInv
<1>2. CASE ~opponent.init
  BY <1>1, <1>2 DEF Predicted
<1>3. CASE opponent.init
  <2>1. PICK v \in Drift : \E sure \in {FALSE, opponent.sure} :
           opp = [opponent EXCEPT !.s = Wrap(@ + v), !.sure = sure]
    BY <1>3, Zenon DEF Predicted
  <2>2. opponent.s \in Int /\ v \in Int
    BY <1>1, CellsAreInts, TrackingAssumption DEF Opponents
  <2>3. Wrap(opponent.s + v) \in Cells
    <3>1. opponent.s + v \in Int
      BY <2>2
    <3> QED
      BY <3>1, WrapIsCell
  <2> QED
    BY <1>1, <2>1, <2>3 DEF Opponents
<1> QED
  BY <1>2, <1>3

LEMMA AgedOpponentIs ==
  ASSUME NEW opp \in Opponents
  PROVE  /\ OpponentAged(opp) \in Opponents
         /\ OpponentAged(opp).init =>
              opp.init /\ OpponentAged(opp).ttl = opp.ttl - 1 /\ opp.ttl \in 1..OppTtl
<1>1. NoOpponent \in Opponents /\ ~NoOpponent.init
  BY CellsAreInts, ConstantTypes DEF NoOpponent, Opponents
<1>2. opp.ttl \in 0..OppTtl /\ OppTtl \in Nat
  BY ConstantTypes DEF Opponents
<1>3. CASE ~opp.init \/ opp.ttl <= 0
  BY <1>1, <1>3 DEF OpponentAged
<1>4. CASE opp.init /\ ~ (opp.ttl <= 0)
  <2>1. OpponentAged(opp) = [opp EXCEPT !.ttl = opp.ttl - 1]
    BY <1>4 DEF OpponentAged
  <2>2. opp.ttl \in 1..OppTtl /\ opp.ttl - 1 \in 0..OppTtl
    BY <1>2, <1>4
  <2> QED
    BY <1>4, <2>1, <2>2 DEF Opponents
<1> QED
  BY <1>3, <1>4

\* A tick: the opponent opp was predicted, r is how the turns ended.
Ticks(opp, r) ==
  /\ opp \in Predicted(opponent) /\ r \in Turns(opp)
  /\ tracked' = WithNewTracks(r.kept, r.left, OpponentAged(r.opp))
  /\ opponent' = OpponentAged(r.opp)
  /\ obstacles' = Obstacles(tracked', opponent')
  /\ raw' = RawObstacles(tracked')

LEMMA LoopTicks == Loop => \E opp, r : Ticks(opp, r)
<1> SUFFICES ASSUME Loop PROVE \E opp, r : Ticks(opp, r)
  OBVIOUS
<1>1. PICK opp \in Predicted(opponent) : \E u \in UpdateTracking(opp) :
         /\ tracked' = u.tracks /\ opponent' = u.opp
         /\ obstacles' = Obstacles(u.tracks, u.opp) /\ raw' = RawObstacles(u.tracks)
  BY DEF Loop
<1>2. PICK u \in UpdateTracking(opp) :
         /\ tracked' = u.tracks /\ opponent' = u.opp
         /\ obstacles' = Obstacles(u.tracks, u.opp) /\ raw' = RawObstacles(u.tracks)
  BY <1>1
<1>3. PICK r \in Turns(opp) :
         u = [tracks |-> WithNewTracks(r.kept, r.left, OpponentAged(r.opp)),
              opp |-> OpponentAged(r.opp)]
  BY DEF UpdateTracking
<1>4. Ticks(opp, r)
  BY <1>2, <1>3 DEF Ticks
<1> QED
  BY <1>4

\* One more track with an identifier of its own.
LEMMA DistinctAppend ==
  ASSUME NEW trks \in Seq(Tracks), NEW u \in Tracks, Distinct(trks),
         \A k \in DOMAIN trks : trks[k].id # u.id
  PROVE  Distinct(Append(trks, u))
<1>1. /\ DOMAIN trks = 1..Len(trks) /\ Len(trks) \in Nat
      /\ DOMAIN Append(trks, u) = 1..Len(trks) + 1
      /\ \A k \in 1..Len(trks) : Append(trks, u)[k] = trks[k]
      /\ Append(trks, u)[Len(trks) + 1] = u
  OBVIOUS
<1>2. PICK n : n = Len(trks)
  OBVIOUS
<1>3. PICK q : q = Append(trks, u)
  OBVIOUS
<1>4. \A k \in 1..n + 1 : k \in 1..n \/ k = n + 1
  BY <1>1, <1>2
<1>5. \A i, j \in 1..n + 1 : q[i].id = q[j].id => i = j
  <2> SUFFICES ASSUME NEW i \in 1..n + 1, NEW j \in 1..n + 1, q[i].id = q[j].id
               PROVE  i = j
    OBVIOUS
  <2>1. CASE i \in 1..n /\ j \in 1..n
    BY <1>1, <1>2, <1>3, <2>1 DEF Distinct
  <2>2. CASE i \in 1..n /\ j = n + 1
    BY <1>1, <1>2, <1>3, <2>2
  <2>3. CASE i = n + 1 /\ j \in 1..n
    BY <1>1, <1>2, <1>3, <2>3
  <2> QED
    BY <1>4, <2>1, <2>2, <2>3
<1> QED
  BY <1>1, <1>2, <1>3, <1>5 DEF Distinct

\* The tracks that a tick leaves differ in their identifiers.
LEMMA TickDistinct ==
  ASSUME TypeInv, NEW opp, NEW r, Ticks(opp, r)
  PROVE  tracked' \in Seq(Tracks) /\ Distinct(tracked') /\ opponent' \in Opponents
<1>1. opp \in Opponents
  BY PredictedIs DEF Ticks
<1> DEFINE G == {p \in Nat \X Outcomes :
                   /\ Distinct(p[2].kept)
                   /\ \A k \in DOMAIN p[2].kept : \E j \in DOMAIN tracked :
                        j <= p[1] /\ p[2].kept[k].id = tracked[j].id}
<1>2. tracked \in Seq(Tracks) /\ Distinct(tracked)
  BY DEF TypeInv
<1>3. <<0, Start(opp)>> \in G
  <2>1. Start(opp) \in Outcomes /\ Start(opp).kept = <<>>
    BY <1>1, StartIs
  <2> QED
    BY <2>1 DEF Distinct
<1>4. ASSUME NEW i \in DOMAIN tracked, NEW acc \in Outcomes, <<i - 1, acc>> \in G,
             NEW b \in TrackTurn(acc, tracked[i])
      PROVE  <<i, b>> \in G
  <2>1. i \in 1..Len(tracked) /\ i \in Nat /\ tracked[i] \in Tracks /\ acc.kept \in Seq(Tracks)
    BY <1>2 DEF Outcomes
  <2>2. /\ b \in Outcomes
        /\ Feeds(acc, tracked[i], b) \/ Drops(acc, tracked[i], b) \/ Ages(acc, tracked[i], b)
    BY <2>1, TurnIs
  <2>3. /\ Distinct(acc.kept)
        /\ \A k \in DOMAIN acc.kept : \E j \in DOMAIN tracked :
             j <= i - 1 /\ acc.kept[k].id = tracked[j].id
    BY <1>4
  <2>4. CASE \E u \in Tracks : u.id = tracked[i].id /\ b.kept = Append(acc.kept, u)
    <3>1. PICK u \in Tracks : u.id = tracked[i].id /\ b.kept = Append(acc.kept, u)
      BY <2>4
    <3>2. \A j \in DOMAIN tracked : j <= i - 1 => tracked[j].id # u.id
      BY <1>2, <2>1, <3>1 DEF Distinct
    <3>3. Distinct(b.kept)
      BY <2>1, <2>3, <3>1, <3>2, DistinctAppend
    <3>4. \A k \in DOMAIN b.kept : b.kept[k] = u \/ (k \in DOMAIN acc.kept /\ b.kept[k] = acc.kept[k])
      BY <2>1, <3>1
    <3>5. \A j \in DOMAIN tracked : j <= i - 1 => j <= i
      BY <2>1
    <3>6. i <= i
      BY <2>1
    <3>7. \A k \in DOMAIN b.kept : \E j \in DOMAIN tracked :
             j <= i /\ b.kept[k].id = tracked[j].id
      BY <2>3, <3>1, <3>4, <3>5, <3>6
    <3> QED
      BY <2>1, <2>2, <3>3, <3>7
  <2>5. CASE b = acc
    <3>1. \A j \in DOMAIN tracked : j <= i - 1 => j <= i
      BY <2>1
    <3> QED
      BY <2>1, <2>3, <2>5, <3>1
  <2> QED
    BY <2>2, <2>4, <2>5 DEF Feeds, Drops, Ages, IsFed, IsAged
<1>5. r \in Outcomes /\ <<Len(tracked), r>> \in G
  <2> HIDE DEF G
  <2> QED
    BY <1>1, <1>3, <1>4, TurnsInduct DEF Ticks
<1>6. r.kept \in Seq(Tracks) /\ r.left \in Seq(Cells) /\ Distinct(r.kept)
  BY <1>5 DEF Outcomes
<1>7. OpponentAged(r.opp) \in Opponents
  BY <1>5, AgedOpponentIs DEF Outcomes
<1> DEFINE N == {p \in Nat \X Seq(Tracks) : Distinct(p[2])}
<1>8. <<0, r.kept>> \in N
  BY <1>6
<1>9. ASSUME NEW k \in DOMAIN r.left, NEW trks \in Seq(Tracks), <<k - 1, trks>> \in N,
             NEW i \in Nat \ {0}, \A j \in DOMAIN trks : trks[j].id # i
      PROVE  <<k, Append(trks, NewTrack(i, r.left[k]))>> \in N
  <2> DEFINE u == NewTrack(i, r.left[k])
  <2>1. k \in Nat /\ r.left[k] \in Cells
    BY <1>6
  <2>2. u \in Tracks /\ u.id = i
    BY <2>1, NewTrackIs DEF IsFed, NewTrack
  <2> HIDE DEF u
  <2>3. Distinct(Append(trks, u))
    BY <1>9, <2>2, DistinctAppend
  <2>4. Append(trks, u) \in Seq(Tracks)
    BY <2>2
  <2>5. <<k, Append(trks, u)>> \in N
    BY <2>1, <2>3, <2>4
  <2> QED
    BY <2>5 DEF u
<1>10. /\ tracked' \in Seq(Tracks)
       /\ <<Len(r.left), tracked'>> \in N
  <2> HIDE DEF N
  <2> QED
    BY <1>6, <1>7, <1>8, <1>9, NewTracksInduct DEF Ticks
<1> QED
  BY <1>7, <1>10 DEF Ticks

LEMMA TypeInit == Init => TypeInv
<1> SUFFICES ASSUME Init PROVE TypeInv
  OBVIOUS
<1>1. NoOpponent \in Opponents
  BY CellsAreInts, ConstantTypes DEF NoOpponent, Opponents
<1>2. <<>> \in Seq(Tracks) /\ Distinct(<<>>)
  BY DEF Distinct
<1>3. params \in [{"noMemoryMode", "publish_static"} -> BOOLEAN]
  BY DEF Init
<1> QED
  BY <1>1, <1>2, <1>3 DEF Init, TypeInv

LEMMA TypeStep == TypeInv /\ [Next]_vars => TypeInv'
<1> SUFFICES ASSUME TypeInv, [Next]_vars PROVE TypeInv'
  OBVIOUS
<1>1. ASSUME NEW m \in Detections, ObstacleCallback(m) PROVE TypeInv'
  BY <1>1 DEF ObstacleCallback, TypeInv, Distinct
<1>2. ASSUME PathCallback PROVE TypeInv'
  BY <1>2 DEF PathCallback, TypeInv, Distinct
<1>3. ASSUME NEW s \in Poses, CarStateFrenetCB(s) PROVE TypeInv'
  <2>1. s \in Cells
    BY TrackingAssumption DEF Cells
  <2> QED
    BY <1>3, <2>1 DEF CarStateFrenetCB, TypeInv, Distinct
<1>4. ASSUME NEW p \in Switches, SetParameter(p) PROVE TypeInv'
  <2>1. p \in {"noMemoryMode", "publish_static"}
    BY TrackingAssumption
  <2> QED
    BY <1>4, <2>1 DEF SetParameter, TypeInv, Distinct
<1>5. ASSUME Loop PROVE TypeInv'
  <2>1. PICK opp, r : Ticks(opp, r)
    BY <1>5, LoopTicks
  <2>2. tracked' \in Seq(Tracks) /\ Distinct(tracked') /\ opponent' \in Opponents
    BY <2>1, TickDistinct
  <2> QED
    BY <1>5, <2>2 DEF Loop, TypeInv, Distinct
<1>6. ASSUME UNCHANGED vars PROVE TypeInv'
  BY <1>6 DEF vars, TypeInv, Distinct
<1> QED
  BY <1>1, <1>2, <1>3, <1>4, <1>5, <1>6 DEF Next

LEMMA TypeInvAlways == Spec => []TypeInv
  BY TypeInit, TypeStep, PTL DEF Spec

\* The state of the tracker is well formed and no two tracks share an
\* identifier, which each new track draws from those that are free.
THEOREM TypeCorrect == Spec => []TypeOK
<1>1. TypeInv => TypeOK
  <2> SUFFICES ASSUME TypeInv PROVE TypeOK
    OBVIOUS
  <2>1. Stations \subseteq BoundedSeq(Cells, 3)
    <3> SUFFICES ASSUME NEW q \in Stations PROVE q \in UNION {[1..m -> Cells] : m \in 0..3}
      BY DEF BoundedSeq, SeqOf
    <3>1. q \in [1..Len(q) -> Cells] /\ Len(q) \in 0..3
      BY DEF Stations
    <3> QED
      BY <3>1
  <2>2. \A i \in DOMAIN tracked : tracked[i] \in Track
    <3> SUFFICES ASSUME NEW i \in DOMAIN tracked PROVE tracked[i] \in Track
      OBVIOUS
    <3>1. tracked[i] \in Tracks
      BY DEF TypeInv
    <3> QED
      BY <2>1, <3>1 DEF Tracks, Track
  <2> QED
    BY <2>2 DEF TypeInv, TypeOK, Opponents, Distinct
<1> QED
  BY <1>1, TypeInvAlways, PTL

-----------------------------------------------------------------------------
(* Forgetting.                                                             *)

\* What is left of the time to live pays for the quiet ticks still to come.
QuietInv ==
  /\ quiet \in Nat
  /\ \A i \in DOMAIN tracked : tracked[i].ttl + quiet <= Ttl
  /\ opponent.init => opponent.ttl + 1 + quiet <= OppTtl
  /\ tracked = <<>> => raw = {}
  /\ tracked = <<>> /\ ~opponent.init => obstacles = {}

LEMMA NothingToReport ==
  /\ RawObstacles(<<>>) = {}
  /\ \A opp : ~opp.init => Obstacles(<<>>, opp) = {}
<1>1. Reportable(<<>>) = {}
  BY DEF Reportable
<1> QED
  BY <1>1 DEF RawObstacles, Obstacles

\* A quiet tick ages every track it keeps and starts none.
LEMMA QuietTick ==
  ASSUME TypeInv, NEW opp, NEW r, Ticks(opp, r), meas = <<>>, params.noMemoryMode,
         NEW q \in Nat, \A i \in DOMAIN tracked : tracked[i].ttl + q <= Ttl
  PROVE  /\ \A i \in DOMAIN tracked' : tracked'[i].ttl + q + 1 <= Ttl
         /\ r.opp = opp
<1> DEFINE Old(trks) == \A i \in DOMAIN trks : trks[i].ttl + q + 1 <= Ttl
           G == {p \in Nat \X Outcomes :
                   p[2].left = <<>> /\ p[2].opp = opp /\ Old(p[2].kept)}
<1>0. opp \in Opponents /\ tracked \in Seq(Tracks)
  BY PredictedIs DEF Ticks, TypeInv
<1>1. <<0, Start(opp)>> \in G
  <2>1. /\ Start(opp) \in Outcomes
        /\ Start(opp).kept = <<>> /\ Start(opp).left = <<>> /\ Start(opp).opp = opp
    BY <1>0, StartIs
  <2> QED
    BY <2>1
<1>2. ASSUME NEW i \in DOMAIN tracked, NEW acc \in Outcomes, <<i - 1, acc>> \in G,
             NEW b \in TrackTurn(acc, tracked[i])
      PROVE  <<i, b>> \in G
  <2> DEFINE t == tracked[i]
  <2>1. /\ i \in Nat /\ t \in Tracks /\ acc.kept \in Seq(Tracks)
        /\ acc.left = <<>> /\ acc.opp = opp /\ Old(acc.kept)
    <3>1. i \in 1..Len(tracked) /\ Len(tracked) \in Nat
      BY <1>0, <1>2
    <3>2. t \in Tracks
      BY <1>0, <3>1, ElementOfSeq
    <3>3. acc.kept \in Seq(Tracks)
      BY <1>2 DEF Outcomes
    <3> HIDE DEF Old
    <3>4. acc.left = <<>> /\ acc.opp = opp /\ Old(acc.kept)
      BY <1>2
    <3> QED
      BY <3>1, <3>2, <3>3, <3>4
  <2>2. t.ttl + q <= Ttl /\ t.ttl \in Nat /\ Ttl \in Nat
    BY <2>1, ConstantTypes DEF Tracks
  <2> HIDE DEF t
  <2>3. b \in Outcomes /\ (Feeds(acc, t, b) \/ Drops(acc, t, b) \/ Ages(acc, t, b))
    BY <2>1, TurnIs DEF t
  <2>4. ~Feeds(acc, t, b)
    BY <2>1 DEF Feeds
  <2>5. CASE Drops(acc, t, b)
    BY <2>1, <2>5 DEF Drops
  <2>6. CASE Ages(acc, t, b)
    <3>1. PICK u \in Tracks : IsAged(t, u) /\ b.kept = Append(acc.kept, u)
      BY <2>6 DEF Ages
    <3>2. u.ttl = t.ttl - 1
      BY <3>1 DEF IsAged
    <3>3. u.ttl + q + 1 <= Ttl
      BY <2>2, <3>2
    <3>4. Old(b.kept)
      <4>1. \A k \in DOMAIN b.kept :
               b.kept[k] = u \/ (k \in DOMAIN acc.kept /\ b.kept[k] = acc.kept[k])
        BY <2>1, <3>1
      <4> QED
        BY <2>1, <3>3, <4>1
    <3> QED
      BY <2>1, <2>3, <2>6, <3>4 DEF Ages
  <2> QED
    BY <2>3, <2>4, <2>5, <2>6
<1>3. r \in Outcomes /\ <<Len(tracked), r>> \in G
  <2> HIDE DEF G
  <2> QED
    BY <1>0, <1>1, <1>2, TurnsInduct DEF Ticks
<1>4. /\ r.left = <<>> /\ r.opp = opp /\ Old(r.kept)
      /\ r.kept \in Seq(Tracks) /\ r.left \in Seq(Cells)
  BY <1>3 DEF Outcomes
<1>5. OpponentAged(r.opp) \in Opponents
  BY <1>0, <1>4, AgedOpponentIs
<1>6. tracked' = r.kept
  BY <1>4, <1>5, NothingNew DEF Ticks
<1> QED
  BY <1>4, <1>6

LEMMA QuietInit == Init => QuietInv
  BY ConstantTypes DEF Init, QuietInv, NoOpponent

LEMMA QuietStep == TypeInv /\ TypeInv' /\ QuietInv /\ [Next]_vars => QuietInv'
<1> SUFFICES ASSUME TypeInv, TypeInv', QuietInv, [Next]_vars PROVE QuietInv'
  OBVIOUS
<1>1. ASSUME UNCHANGED <<tracked, opponent, obstacles, raw, quiet>> PROVE QuietInv'
  BY <1>1 DEF QuietInv
<1>2. ASSUME Loop PROVE QuietInv'
  <2>1. PICK opp, r : Ticks(opp, r)
    BY <1>2, LoopTicks
  <2>2. /\ tracked' \in Seq(Tracks) /\ opponent' \in Opponents
        /\ \A i \in DOMAIN tracked' : tracked'[i].ttl \in 0..Ttl
    <3>1. tracked' \in Seq(Tracks) /\ opponent' \in Opponents
      BY DEF TypeInv
    <3> QED
      BY <3>1, TracksAre
  <2>3. quiet' = QuietAfter /\ quiet \in Nat /\ Ttl \in Nat /\ OppTtl \in Nat
    BY <1>2, ConstantTypes DEF Loop, QuietInv
  <2>4. tracked' = <<>> => raw' = {}
    BY <2>1, NothingToReport DEF Ticks
  <2>5. tracked' = <<>> /\ ~opponent'.init => obstacles' = {}
    BY <2>1, NothingToReport DEF Ticks
  <2>6. opp \in Opponents /\ opp.init = opponent.init /\ opp.ttl = opponent.ttl
    BY <2>1, PredictedIs DEF Ticks
  <2>7. CASE meas # <<>> \/ ~params.noMemoryMode
    <3>1. quiet' = 0
      BY <2>3, <2>7 DEF QuietAfter
    <3>2. \A i \in DOMAIN tracked' : tracked'[i].ttl + 0 <= Ttl
      BY <2>2, <2>3
    <3>3. opponent'.init => opponent'.ttl + 1 + 0 <= OppTtl
      <4>1. r.opp \in Opponents
        BY <2>1, <2>6, TurnsAre DEF Ticks, Outcomes
      <4>2. opponent'.init => opponent'.ttl = r.opp.ttl - 1 /\ r.opp.ttl \in 1..OppTtl
        BY <2>1, <4>1, AgedOpponentIs DEF Ticks
      <4> QED
        BY <2>3, <4>2
    <3> QED
      BY <2>4, <2>5, <3>1, <3>2, <3>3 DEF QuietInv
  <2>8. CASE meas = <<>> /\ params.noMemoryMode
    <3>1. quiet' \in Nat /\ quiet' <= quiet + 1
      BY <2>3, <2>8 DEF QuietAfter
    <3>2. \A i \in DOMAIN tracked : tracked[i].ttl + quiet <= Ttl
      BY DEF QuietInv
    <3>3. /\ \A i \in DOMAIN tracked' : tracked'[i].ttl + quiet + 1 <= Ttl
          /\ r.opp = opp
      BY <2>1, <2>3, <2>8, <3>2, QuietTick
    <3>4. \A i \in DOMAIN tracked' : tracked'[i].ttl + quiet' <= Ttl
      BY <2>2, <2>3, <3>1, <3>3
    <3>5. opponent'.init => opponent'.ttl + 1 + quiet' <= OppTtl
      <4>1. opponent'.init => opp.init /\ opponent'.ttl = opp.ttl - 1 /\ opp.ttl \in 1..OppTtl
        BY <2>1, <2>6, <3>3, AgedOpponentIs DEF Ticks
      <4>2. opponent.init => opponent.ttl + 1 + quiet <= OppTtl
        BY DEF QuietInv
      <4> QED
        BY <2>3, <2>6, <3>1, <4>1, <4>2
    <3> QED
      BY <2>4, <2>5, <3>1, <3>4, <3>5 DEF QuietInv
  <2> QED
    BY <2>7, <2>8
<1>3. ASSUME ~Loop PROVE UNCHANGED <<tracked, opponent, obstacles, raw, quiet>>
  BY <1>3 DEF Next, ObstacleCallback, PathCallback, CarStateFrenetCB, SetParameter, vars
<1> QED
  BY <1>1, <1>2, <1>3

\* Without memory and without detections every track is forgotten after
\* sd_ttl ticks and the opponent after its own time to live, whatever the
\* tracks were taken for: each turn of updateTracking takes one from the time
\* to live, and nothing else gives any.
THEOREM ForgottenInTimeAlways == Spec => []ForgottenInTime
<1>1. TypeInv /\ QuietInv => ForgottenInTime
  <2> SUFFICES ASSUME TypeInv, QuietInv PROVE ForgottenInTime
    OBVIOUS
  <2>1. /\ tracked \in Seq(Tracks) /\ opponent \in Opponents
        /\ \A i \in DOMAIN tracked : tracked[i].ttl \in Nat
        /\ quiet \in Nat /\ Ttl \in Nat /\ OppTtl \in Nat
    <3>1. tracked \in Seq(Tracks) /\ opponent \in Opponents
      BY DEF TypeInv
    <3>2. \A i \in DOMAIN tracked : tracked[i].ttl \in 0..Ttl
      BY <3>1, TracksAre
    <3> QED
      BY <3>1, <3>2, ConstantTypes DEF QuietInv
  <2>2. quiet > Ttl => tracked = <<>>
    <3> SUFFICES ASSUME quiet > Ttl, tracked # <<>> PROVE FALSE
      OBVIOUS
    <3>1. 1 \in DOMAIN tracked
      BY <2>1
    <3> QED
      BY <2>1, <3>1 DEF QuietInv
  <2>3. quiet >= OppTtl => ~opponent.init
    <3>1. opponent.ttl \in Nat
      BY <2>1 DEF Opponents
    <3> QED
      BY <2>1, <3>1 DEF QuietInv
  <2> QED
    BY <2>2, <2>3 DEF QuietInv, ForgottenInTime
<1>2. TypeInv /\ QuietInv /\ [Next]_vars => TypeInv' /\ QuietInv'
  BY TypeStep, QuietStep
<1> QED
  BY TypeInit, QuietInit, <1>1, <1>2, PTL DEF Spec

-----------------------------------------------------------------------------
(* Each detection feeds one track.                                         *)

\* Where a sequence of detections has the station s.
At(q, s) == {i \in DOMAIN q : q[i] = s}

LEMMA CountsAre ==
  /\ \A q \in Seq(Cells) : \A s : IsFiniteSet(At(q, s)) /\ Cardinality(At(q, s)) \in Nat
  /\ \A q \in Seq(Tracks) : \A s : IsFiniteSet(FedAt(q, s)) /\ Cardinality(FedAt(q, s)) \in Nat
<1>1. \A n \in Nat : \A S \in SUBSET (1..n) : IsFiniteSet(S) /\ Cardinality(S) \in Nat
  <2> SUFFICES ASSUME NEW n \in Nat, NEW S \in SUBSET (1..n)
               PROVE  IsFiniteSet(S) /\ Cardinality(S) \in Nat
    OBVIOUS
  <2>1. IsFiniteSet(1..n)
    <3>1. 1 \in Int /\ n \in Int
      OBVIOUS
    <3> QED
      BY <3>1, FS_Interval
  <2>2. IsFiniteSet(S)
    BY <2>1, FS_Subset
  <2> QED
    BY <2>2, FS_CardinalityType
<1>2. \A q \in Seq(Cells) : \A s : Len(q) \in Nat /\ At(q, s) \in SUBSET (1..Len(q))
  BY DEF At
<1>3. \A q \in Seq(Tracks) : \A s : Len(q) \in Nat /\ FedAt(q, s) \in SUBSET (1..Len(q))
  BY DEF FedAt
<1> QED
  BY <1>1, <1>2, <1>3

IsFedAt(u, s) == u.ttl = Ttl /\ u.visible /\ Last(u.meas_s) = s

\* A track more counts where it was fed.
LEMMA FedAppend ==
  ASSUME NEW trks \in Seq(Tracks), NEW u \in Tracks, NEW s
  PROVE  Cardinality(FedAt(Append(trks, u), s)) =
           Cardinality(FedAt(trks, s)) + (IF IsFedAt(u, s) THEN 1 ELSE 0)
<1> DEFINE n == Len(trks)
           q == Append(trks, u)
           A == FedAt(trks, s)
<1>1. /\ n \in Nat /\ DOMAIN trks = 1..n /\ DOMAIN q = 1..n + 1
      /\ \A k \in 1..n : q[k] = trks[k]
      /\ q[n + 1] = u
  OBVIOUS
<1>2. IsFiniteSet(A) /\ Cardinality(A) \in Nat
  BY CountsAre
<1>3. n + 1 \notin A
  BY <1>1 DEF FedAt
<1> HIDE DEF n, q
<1>4. \A k \in 1..n + 1 : k \in 1..n \/ k = n + 1
  BY <1>1
<1>5. n + 1 \in 1..n + 1 /\ 1..n \subseteq 1..n + 1
  BY <1>1
<1>6. CASE IsFedAt(u, s)
  <2>1. FedAt(q, s) = A \union {n + 1}
    BY <1>1, <1>4, <1>5, <1>6 DEF FedAt, IsFedAt
  <2>2. Cardinality(A \union {n + 1}) = Cardinality(A) + 1
    <3> HIDE DEF A
    <3> QED
      BY <1>2, <1>3, FS_AddElement
  <2> QED
    BY <1>6, <2>1, <2>2 DEF q
<1>7. CASE ~IsFedAt(u, s)
  <2>1. FedAt(q, s) = A
    BY <1>1, <1>4, <1>5, <1>7 DEF FedAt, IsFedAt
  <2> QED
    BY <1>2, <1>7, <2>1 DEF q
<1> QED
  BY <1>6, <1>7

\* A detection less counts where it was.
LEMMA CountRemoved ==
  ASSUME NEW q \in Seq(Cells), NEW i \in DOMAIN q, NEW s
  PROVE  Cardinality(At(q, s)) =
           Cardinality(At(RemoveAt(q, i), s)) + (IF q[i] = s THEN 1 ELSE 0)
<1> DEFINE n == Len(q)
           p == RemoveAt(q, i)
           A == At(q, s) \ {i}
           B == At(p, s)
           f == [k \in A |-> IF k < i THEN k ELSE k - 1]
           g(k) == IF k < i THEN k ELSE k + 1
<1>1. /\ n \in Nat /\ i \in 1..n /\ DOMAIN q = 1..n /\ DOMAIN p = 1..n - 1
      /\ \A k \in 1..n - 1 : p[k] = q[g(k)]
  BY RemovedIs
<1> HIDE DEF n, p
<1>2. f \in [A -> B]
  <2> SUFFICES ASSUME NEW k \in A PROVE (IF k < i THEN k ELSE k - 1) \in B
    OBVIOUS
  <2>1. k \in 1..n /\ q[k] = s /\ k # i
    BY <1>1 DEF At
  <2>2. CASE k < i
    <3>1. k \in 1..n - 1 /\ g(k) = k
      BY <1>1, <2>1, <2>2
    <3> QED
      BY <1>1, <2>1, <2>2, <3>1 DEF At
  <2>3. CASE ~ (k < i)
    <3>1. k - 1 \in 1..n - 1 /\ g(k - 1) = k
      BY <1>1, <2>1, <2>3
    <3> QED
      BY <1>1, <2>1, <2>3, <3>1 DEF At
  <2> QED
    BY <2>2, <2>3
<1>3. \A k, l \in A : f[k] = f[l] => k = l
  <2> SUFFICES ASSUME NEW k \in A, NEW l \in A, f[k] = f[l] PROVE k = l
    OBVIOUS
  <2>1. k \in 1..n /\ l \in 1..n /\ k # i /\ l # i
    BY <1>1 DEF At
  <2>2. (IF k < i THEN k ELSE k - 1) = (IF l < i THEN l ELSE l - 1)
    OBVIOUS
  <2> HIDE DEF A, f
  <2> QED
    BY <1>1, <2>1, <2>2
<1>4. \A b \in B : \E k \in A : f[k] = b
  <2> SUFFICES ASSUME NEW b \in B PROVE g(b) \in A /\ f[g(b)] = b
    OBVIOUS
  <2>1. b \in 1..n - 1 /\ p[b] = s
    BY <1>1 DEF At
  <2>2. g(b) \in 1..n /\ g(b) # i /\ (IF g(b) < i THEN g(b) ELSE g(b) - 1) = b
    BY <1>1, <2>1
  <2>3. q[g(b)] = s
    BY <1>1, <2>1
  <2> HIDE DEF g
  <2>4. g(b) \in A
    BY <1>1, <2>2, <2>3 DEF At
  <2> QED
    BY <2>2, <2>4
<1>5. IsFiniteSet(At(q, s)) /\ Cardinality(At(q, s)) \in Nat
  BY CountsAre
<1>6. IsFiniteSet(A) /\ Cardinality(A) = (IF i \in At(q, s) THEN Cardinality(At(q, s)) - 1
                                         ELSE Cardinality(At(q, s)))
  BY <1>5, FS_RemoveElement
<1>7. Cardinality(B) = Cardinality(A)
  <2>1. ExistsBijection(A, B)
    <3> HIDE DEF f, A, B
    <3> QED
      BY <1>2, <1>3, <1>4
         DEF ExistsBijection, Bijection, Injection, Surjection, IsInjective
  <2> HIDE DEF A, B
  <2> QED
    BY <1>6, <2>1, FS_Bijection
<1>8. i \in At(q, s) <=> q[i] = s
  BY <1>1 DEF At
<1> HIDE DEF A, B
<1>9. Cardinality(At(p, s)) = Cardinality(A)
  BY <1>7 DEF B
<1> QED
  BY <1>5, <1>6, <1>8, <1>9 DEF p

\* Only the timer leaves the inputs as they are.
LEMMA TickedIsLoop == [Next]_vars /\ Ticked => Loop \/ UNCHANGED vars
  BY DEF Next, Ticked, ObstacleCallback, PathCallback, CarStateFrenetCB, SetParameter, vars

\* Over the loop a detection is either left or has fed a track, and no track
\* that was not fed looks as if it had been.
LEMMA TurnsUseOnce ==
  ASSUME TypeInv, NEW opp \in Opponents, NEW r \in Turns(opp)
  PROVE  \A s \in Cells :
           Cardinality(FedAt(r.kept, s)) + Cardinality(At(r.left, s)) = Cardinality(At(meas, s))
<1> DEFINE Once(acc) == \A s \in Cells :
             Cardinality(FedAt(acc.kept, s)) + Cardinality(At(acc.left, s)) = Cardinality(At(meas, s))
           G == {p \in Nat \X Outcomes : Once(p[2])}
<1>1. <<0, Start(opp)>> \in G
  <2>1. \A s : Cardinality(FedAt(<<>>, s)) = 0
    <3>1. \A s : FedAt(<<>>, s) = {}
      BY DEF FedAt
    <3> QED
      BY <3>1, FS_EmptySet
  <2>2. \A s : Cardinality(At(meas, s)) \in Nat
    BY MeasIs, CountsAre
  <2>3. Once(Start(opp))
    BY <2>1, <2>2, StartIs
  <2> HIDE DEF Once
  <2> QED
    BY <2>3, StartIs
<1>2. ASSUME NEW i \in DOMAIN tracked, NEW acc \in Outcomes, <<i - 1, acc>> \in G,
             NEW b \in TrackTurn(acc, tracked[i])
      PROVE  <<i, b>> \in G
  <2> DEFINE t == tracked[i]
  <2>1. /\ i \in Nat /\ t \in Tracks /\ acc.kept \in Seq(Tracks) /\ acc.left \in Seq(Cells)
        /\ Once(acc)
    BY <1>2 DEF Outcomes, TypeInv
  <2>2. t.ttl \in 0..Ttl /\ Ttl \in Nat
    BY <2>1, ConstantTypes DEF Tracks
  <2> HIDE DEF t
  <2>3. b \in Outcomes /\ (Feeds(acc, t, b) \/ Drops(acc, t, b) \/ Ages(acc, t, b))
    BY <2>1, TurnIs DEF t
  <2>4. CASE Feeds(acc, t, b)
    <3>1. PICK k \in DOMAIN acc.left, u \in Tracks :
             /\ IsFed(t, acc.left[k], u)
             /\ b.kept = Append(acc.kept, u) /\ b.left = RemoveAt(acc.left, k)
      BY <2>4 DEF Feeds
    <3>2. ASSUME NEW s \in Cells
          PROVE  Cardinality(FedAt(b.kept, s)) + Cardinality(At(b.left, s)) = Cardinality(At(meas, s))
      <4> DEFINE one == IF acc.left[k] = s THEN 1 ELSE 0
      <4>1. Cardinality(FedAt(b.kept, s)) = Cardinality(FedAt(acc.kept, s)) + one
        <5>1. IsFedAt(u, s) <=> acc.left[k] = s
          BY <3>1 DEF IsFed, IsFedAt
        <5> QED
          BY <2>1, <3>1, <5>1, FedAppend
      <4>2. Cardinality(At(acc.left, s)) = Cardinality(At(b.left, s)) + one
        BY <2>1, <3>1, CountRemoved
      <4>3. /\ Cardinality(FedAt(acc.kept, s)) \in Nat /\ Cardinality(At(acc.left, s)) \in Nat
            /\ Cardinality(At(b.left, s)) \in Nat /\ one \in Nat
        BY <2>1, <2>3, CountsAre DEF Outcomes
      <4> HIDE DEF one
      <4> QED
        BY <2>1, <4>1, <4>2, <4>3
    <3> HIDE DEF Once
    <3>3. Once(b)
      BY <3>2 DEF Once
    <3> QED
      BY <2>1, <2>3, <3>3
  <2>5. CASE Drops(acc, t, b)
    <3> HIDE DEF Once
    <3> QED
      BY <2>1, <2>3, <2>5 DEF Drops
  <2>6. CASE Ages(acc, t, b)
    <3>1. PICK u \in Tracks : IsAged(t, u) /\ b.kept = Append(acc.kept, u)
      BY <2>6 DEF Ages
    <3>2. \A s : ~IsFedAt(u, s)
      BY <2>2, <3>1 DEF IsAged, IsFedAt
    <3>3. \A s \in Cells : Cardinality(FedAt(b.kept, s)) = Cardinality(FedAt(acc.kept, s)) + 0
      BY <2>1, <3>1, <3>2, FedAppend
    <3>4. \A s : Cardinality(FedAt(acc.kept, s)) \in Nat
      BY <2>1, CountsAre
    <3>5. Once(b)
      BY <2>1, <2>6, <3>3, <3>4 DEF Ages
    <3> HIDE DEF Once
    <3> QED
      BY <2>1, <2>3, <3>5
  <2> QED
    BY <2>3, <2>4, <2>5, <2>6
<1>3. <<Len(tracked), r>> \in G
  <2> HIDE DEF G
  <2> QED
    BY <1>1, <1>2, TurnsInduct
<1> QED
  BY <1>3

\* Every detection that is left starts one track.
LEMMA NewTracksUseOnce ==
  ASSUME NEW kept \in Seq(Tracks), NEW left \in Seq(Cells), NEW opp \in Opponents
  PROVE  \A s \in Cells :
           Cardinality(FedAt(WithNewTracks(kept, left, opp), s)) =
             Cardinality(FedAt(kept, s)) + Cardinality(At(left, s))
<1> DEFINE Upto(k, s) == {j \in 1..k : left[j] = s}
           Fits(k, trks) == \A s \in Cells :
             Cardinality(FedAt(trks, s)) = Cardinality(FedAt(kept, s)) + Cardinality(Upto(k, s))
           N == {p \in Nat \X Seq(Tracks) : Fits(p[1], p[2])}
<1>1. \A s : Cardinality(FedAt(kept, s)) \in Nat
  BY CountsAre
<1>2. <<0, kept>> \in N
  <2>1. \A s : Upto(0, s) = {}
    OBVIOUS
  <2>2. \A s : Cardinality(Upto(0, s)) = 0
    BY <2>1, FS_EmptySet
  <2> HIDE DEF Upto
  <2>3. Fits(0, kept)
    BY <1>1, <2>2
  <2> HIDE DEF Fits
  <2> QED
    BY <2>3
<1>3. ASSUME NEW k \in DOMAIN left, NEW trks \in Seq(Tracks), <<k - 1, trks>> \in N,
             NEW i \in Nat \ {0}, \A j \in DOMAIN trks : trks[j].id # i
      PROVE  <<k, Append(trks, NewTrack(i, left[k]))>> \in N
  <2> DEFINE u == NewTrack(i, left[k])
  <2>1. k \in Nat /\ k \in 1..Len(left) /\ left[k] \in Cells
    OBVIOUS
  <2>2. u \in Tracks /\ \A s : IsFedAt(u, s) <=> left[k] = s
    BY <2>1, NewTrackIs DEF IsFed, IsFedAt
  <2>3. Fits(k - 1, trks)
    BY <1>3
  <2> HIDE DEF u
  <2>4. ASSUME NEW s \in Cells
        PROVE  Cardinality(FedAt(Append(trks, u), s)) =
                 Cardinality(FedAt(kept, s)) + Cardinality(Upto(k, s))
    <3> DEFINE one == IF left[k] = s THEN 1 ELSE 0
    <3>1. Cardinality(FedAt(Append(trks, u), s)) = Cardinality(FedAt(trks, s)) + one
      BY <2>2, FedAppend
    <3>2. /\ Cardinality(Upto(k, s)) = Cardinality(Upto(k - 1, s)) + one
          /\ Cardinality(Upto(k - 1, s)) \in Nat
      <4>1. IsFiniteSet(Upto(k - 1, s)) /\ Cardinality(Upto(k - 1, s)) \in Nat
        <5>1. IsFiniteSet(1..k - 1)
          <6>1. 1 \in Int /\ k - 1 \in Int
            BY <2>1
          <6> QED
            BY <6>1, FS_Interval
        <5>2. Upto(k - 1, s) \in SUBSET (1..k - 1)
          OBVIOUS
        <5> HIDE DEF Upto
        <5>3. IsFiniteSet(Upto(k - 1, s))
          BY <5>1, <5>2, FS_Subset
        <5> QED
          BY <5>3, FS_CardinalityType
      <4>2. Upto(k, s) = IF left[k] = s THEN Upto(k - 1, s) \union {k} ELSE Upto(k - 1, s)
        <5>1. \A j : j \in 1..k <=> j \in 1..k - 1 \/ j = k
          BY <2>1
        <5> QED
          BY <5>1
      <4>3. k \notin Upto(k - 1, s)
        BY <2>1
      <4> HIDE DEF Upto
      <4>4. Cardinality(Upto(k - 1, s) \union {k}) = Cardinality(Upto(k - 1, s)) + 1
        BY <4>1, <4>3, FS_AddElement
      <4> QED
        BY <4>1, <4>2, <4>4
    <3>3. Cardinality(FedAt(trks, s)) = Cardinality(FedAt(kept, s)) + Cardinality(Upto(k - 1, s))
      BY <2>3
    <3>4. one \in Nat
      OBVIOUS
    <3> HIDE DEF Upto, one
    <3> QED
      BY <1>1, <3>1, <3>2, <3>3, <3>4
  <2> HIDE DEF Upto
  <2>5. Fits(k, Append(trks, u))
    BY <2>4
  <2>6. Append(trks, u) \in Seq(Tracks)
    BY <2>2
  <2> HIDE DEF Fits
  <2>7. <<k, Append(trks, u)>> \in N
    BY <2>1, <2>5, <2>6
  <2> QED
    BY <2>7 DEF u
<1>4. <<Len(left), WithNewTracks(kept, left, opp)>> \in N
  <2> HIDE DEF N
  <2> QED
    BY <1>2, <1>3, NewTracksInduct
<1>5. Fits(Len(left), WithNewTracks(kept, left, opp))
  <2> HIDE DEF Fits
  <2> QED
    BY <1>4
<1>6. \A s : Upto(Len(left), s) = At(left, s)
  BY DEF At
<1> HIDE DEF Upto
<1> QED
  BY <1>5, <1>6

\* updateTracking uses every measurement for exactly one track, whichever way
\* the filter draws the tracks and however often an array is matched.
THEOREM EachDetectionOnceAlways == Spec => EachDetectionOnce
<1> DEFINE Once == \A s \in Cells :
             Cardinality(FedAt(tracked', s)) = Cardinality({i \in DOMAIN meas : meas[i] = s})
<1>1. ASSUME TypeInv, Loop PROVE Once
  <2>1. PICK opp, r : Ticks(opp, r)
    BY <1>1, LoopTicks
  <2>2. opp \in Opponents /\ r \in Turns(opp)
    BY <1>1, <2>1, PredictedIs DEF Ticks
  <2>3. r.kept \in Seq(Tracks) /\ r.left \in Seq(Cells) /\ r.opp \in Opponents
    BY <1>1, <2>2, TurnsAre DEF Outcomes
  <2>4. OpponentAged(r.opp) \in Opponents
    BY <2>3, AgedOpponentIs
  <2>5. \A s \in Cells : Cardinality(FedAt(tracked', s)) =
                            Cardinality(FedAt(r.kept, s)) + Cardinality(At(r.left, s))
    BY <2>1, <2>3, <2>4, NewTracksUseOnce DEF Ticks
  <2>6. \A s \in Cells : Cardinality(FedAt(tracked', s)) = Cardinality(At(meas, s))
    BY <1>1, <2>2, <2>5, TurnsUseOnce
  <2> QED
    BY <2>6 DEF At
<1>2. TypeInv /\ [Next]_vars => [Ticked => Once]_vars
  <2> HIDE DEF Once
  <2> QED
    BY <1>1, TickedIsLoop
<1>3. TypeInv /\ [Next]_vars =>
        [Ticked => \A s \in Cells :
           Cardinality(FedAt(tracked', s)) = Cardinality({i \in DOMAIN meas : meas[i] = s})]_vars
  BY <1>2
<1> QED
  BY <1>3, TypeInvAlways, PTL DEF Spec, EachDetectionOnce

-----------------------------------------------------------------------------
(* What was fed is reported.                                               *)

\* A track that was fed or started by the last tick is not behind the car.
FedInFront(trks) ==
  \A k \in DOMAIN trks : trks[k].ttl = Ttl /\ trks[k].visible => trks[k].front

LEMMA TurnsBringFront ==
  ASSUME TypeInv, NEW opp \in Opponents, NEW r \in Turns(opp)
  PROVE  FedInFront(r.kept)
<1> DEFINE G == {p \in Nat \X Outcomes : FedInFront(p[2].kept)}
<1>1. <<0, Start(opp)>> \in G
  <2>1. FedInFront(<<>>)
    BY DEF FedInFront
  <2> QED
    BY <2>1, StartIs
<1>2. ASSUME NEW i \in DOMAIN tracked, NEW acc \in Outcomes, <<i - 1, acc>> \in G,
             NEW b \in TrackTurn(acc, tracked[i])
      PROVE  <<i, b>> \in G
  <2> DEFINE t == tracked[i]
  <2>1. /\ i \in Nat /\ t \in Tracks /\ acc.kept \in Seq(Tracks)
        /\ FedInFront(acc.kept)
    BY <1>2 DEF Outcomes, TypeInv
  <2>2. t.ttl \in 0..Ttl /\ Ttl \in Nat
    BY <2>1, ConstantTypes DEF Tracks
  <2> HIDE DEF t
  <2>3. b \in Outcomes /\ (Feeds(acc, t, b) \/ Drops(acc, t, b) \/ Ages(acc, t, b))
    BY <2>1, TurnIs DEF t
  <2>4. CASE b = acc
    BY <2>1, <2>3, <2>4
  <2>5. ASSUME NEW u \in Tracks, b.kept = Append(acc.kept, u),
               u.ttl = Ttl /\ u.visible => u.front
        PROVE  <<i, b>> \in G
    <3>1. \A k \in DOMAIN b.kept :
             b.kept[k] = u \/ (k \in DOMAIN acc.kept /\ b.kept[k] = acc.kept[k])
      BY <2>1, <2>5
    <3>2. FedInFront(b.kept)
      BY <2>1, <2>5, <3>1 DEF FedInFront
    <3> QED
      BY <2>1, <2>3, <3>2
  <2>6. CASE Feeds(acc, t, b)
    BY <2>5, <2>6 DEF Feeds, IsFed
  <2>7. CASE Ages(acc, t, b)
    <3>1. PICK u \in Tracks : IsAged(t, u) /\ b.kept = Append(acc.kept, u)
      BY <2>7 DEF Ages
    <3>2. ~ (u.ttl = Ttl /\ u.visible)
      BY <2>2, <3>1 DEF IsAged
    <3> QED
      BY <2>5, <3>1, <3>2
  <2> QED
    BY <2>3, <2>4, <2>6, <2>7 DEF Drops
<1>3. <<Len(tracked), r>> \in G
  <2> HIDE DEF G
  <2> QED
    BY <1>1, <1>2, TurnsInduct
<1> QED
  BY <1>3

LEMMA NewTracksAreInFront ==
  ASSUME NEW kept \in Seq(Tracks), NEW left \in Seq(Cells), NEW opp \in Opponents,
         FedInFront(kept)
  PROVE  FedInFront(WithNewTracks(kept, left, opp))
<1> DEFINE N == {p \in Nat \X Seq(Tracks) : FedInFront(p[2])}
<1>1. <<0, kept>> \in N
  OBVIOUS
<1>2. ASSUME NEW k \in DOMAIN left, NEW trks \in Seq(Tracks), <<k - 1, trks>> \in N,
             NEW i \in Nat \ {0}, \A j \in DOMAIN trks : trks[j].id # i
      PROVE  <<k, Append(trks, NewTrack(i, left[k]))>> \in N
  <2> DEFINE u == NewTrack(i, left[k])
             q == Append(trks, u)
  <2>1. k \in Nat /\ left[k] \in Cells
    OBVIOUS
  <2>2. u \in Tracks /\ u.front
    BY <2>1, NewTrackIs DEF IsFed
  <2>3. FedInFront(trks)
    BY <1>2
  <2> HIDE DEF u
  <2>4. q \in Seq(Tracks) /\ \A j \in DOMAIN q : q[j] = u \/ (j \in DOMAIN trks /\ q[j] = trks[j])
    BY <2>2
  <2> HIDE DEF q
  <2>5. FedInFront(q)
    BY <2>2, <2>3, <2>4 DEF FedInFront
  <2>6. <<k, q>> \in N
    BY <2>1, <2>4, <2>5
  <2> QED
    BY <2>6 DEF q, u
<1>3. <<Len(left), WithNewTracks(kept, left, opp)>> \in N
  <2> HIDE DEF N
  <2> QED
    BY <1>1, <1>2, NewTracksInduct
<1> QED
  BY <1>3

\* A track seen often enough and seen by the last tick is in one of the two
\* messages, also if an unseen tick had marked it as behind the car or hidden.
THEOREM ConfirmedReportedAlways == Spec => ConfirmedReported
<1> DEFINE Reported == \A s \in Cells : \A i \in FedAt(tracked', s) :
             tracked'[i].nb > Confirm => \E m \in obstacles' \union raw' : m.id = tracked'[i].id
<1>1. ASSUME TypeInv, Loop, params.publish_static PROVE Reported
  <2>1. PICK opp, r : Ticks(opp, r)
    BY <1>1, LoopTicks
  <2>2. opp \in Opponents /\ r \in Turns(opp)
    BY <1>1, <2>1, PredictedIs DEF Ticks
  <2>3. r.kept \in Seq(Tracks) /\ r.left \in Seq(Cells) /\ r.opp \in Opponents
    BY <1>1, <2>2, TurnsAre DEF Outcomes
  <2>4. OpponentAged(r.opp) \in Opponents
    BY <2>3, AgedOpponentIs
  <2>5. FedInFront(tracked')
    BY <1>1, <2>1, <2>2, <2>3, <2>4, TurnsBringFront, NewTracksAreInFront DEF Ticks
  <2> SUFFICES ASSUME NEW s \in Cells, NEW i \in FedAt(tracked', s), tracked'[i].nb > Confirm
               PROVE  \E m \in obstacles' \union raw' : m.id = tracked'[i].id
    OBVIOUS
  <2> DEFINE t == tracked'[i]
  <2>6. i \in DOMAIN tracked' /\ t.front
    BY <2>5 DEF FedAt, FedInFront
  <2>7. t \in Reportable(tracked')
    BY <2>6 DEF Reportable
  <2>8. Report(t).id = t.id
    BY DEF Report
  <2> HIDE DEF t
  <2>9. CASE t.flag = "dynamic"
    <3>1. Report(t) \in RawObstacles(tracked')
      BY <2>7, <2>9 DEF RawObstacles
    <3> QED
      BY <2>1, <2>8, <3>1 DEF Ticks, t
  <2>10. CASE t.flag # "dynamic"
    <3>1. Report(t) \in Obstacles(tracked', opponent')
      BY <1>1, <2>7, <2>10 DEF Obstacles
    <3> QED
      BY <2>1, <2>8, <3>1 DEF Ticks, t
  <2> QED
    BY <2>9, <2>10
<1>2. TypeInv /\ [Next]_vars => [Ticked /\ params.publish_static => Reported]_vars
  <2> HIDE DEF Reported
  <2> QED
    BY <1>1, TickedIsLoop
<1> QED
  BY <1>2, TypeInvAlways, PTL DEF Spec, ConfirmedReported

-----------------------------------------------------------------------------
(* A lone obstacle keeps its track.                                        *)

\* A detection near the track's own mean is found, wherever the search around
\* the opponent ends.
LEMMA NearIsFound ==
  ASSUME NEW t \in Tracks, NEW cands \in Seq(Cells), NEW opp \in Opponents,
         NEW k \in DOMAIN cands, Abs(t.mean - cands[k]) < MaxDist
  PROVE  VerifyPosition(t, cands, opp) \in DOMAIN cands
<1> DEFINE wide == Aggro * MaxDist
<1>1. t.mean \in Int /\ opp.s \in Int /\ cands[k] \in Int
  <2>1. cands[k] \in Cells
    OBVIOUS
  <2> QED
    BY <2>1, CellsAreInts DEF Tracks, Opponents
<1>2. MaxDist \in Int /\ wide \in Int /\ MaxDist <= wide
  BY ConstantTypes
<1> HIDE DEF wide
<1>3. Abs(t.mean - cands[k]) < wide
  <2>1. Abs(t.mean - cands[k]) \in Int
    BY <1>1 DEF Abs
  <2> QED
    BY <1>2, <2>1
<1>4. /\ ClosestWithin(MaxDist, t.mean, cands) \in DOMAIN cands
      /\ ClosestWithin(wide, t.mean, cands) \in DOMAIN cands
  BY <1>1, <1>2, <1>3, ClosestIs
<1>5. ClosestWithin(wide, opp.s, cands) \in DOMAIN cands \union {0}
  BY <1>1, <1>2, ClosestIs
<1>6. 0 \notin DOMAIN cands
  OBVIOUS
<1> QED
  BY <1>4, <1>5, <1>6 DEF VerifyPosition, wide

\* One track and one detection near its mean: the track is fed and none is
\* started, whatever the track was taken for and wherever the filter is.
THEOREM LoneTrackKeptAlways == Spec => LoneTrackKept
<1> DEFINE Lone == Len(tracked) = 1 /\ Len(meas) = 1
           Near == Abs(tracked[1].mean - meas[1]) < MaxDist
           Kept == Len(tracked') = 1 /\ tracked'[1].id = tracked[1].id
<1>1. ASSUME TypeInv, Loop, Lone, Near PROVE Kept
  <2>1. PICK opp, r : Ticks(opp, r)
    BY <1>1, LoopTicks
  <2>2. opp \in Opponents /\ r \in Turns(opp)
    BY <1>1, <2>1, PredictedIs DEF Ticks
  <2> DEFINE t == tracked[1]
             Done(acc) == acc.left = <<>> /\ Len(acc.kept) = 1 /\ acc.kept[1].id = t.id
             G == {p \in Nat \X Outcomes :
                     IF p[1] = 0 THEN p[2] = Start(opp) ELSE Done(p[2])}
  <2>3. /\ meas \in Seq(Cells) /\ DOMAIN meas = {1}
        /\ t \in Tracks /\ DOMAIN tracked = {1}
    <3>1. meas \in Seq(Cells) /\ tracked \in Seq(Tracks)
      BY <1>1, MeasIs DEF TypeInv
    <3>2. 1..1 = {1}
      OBVIOUS
    <3>3. DOMAIN meas = {1} /\ DOMAIN tracked = {1}
      BY <1>1, <3>1, <3>2
    <3> QED
      BY <3>1, <3>3
  <2>4. <<0, Start(opp)>> \in G
    BY <1>1, <2>2, StartIs
  <2>5. ASSUME NEW b \in TrackTurn(Start(opp), t) PROVE <<1, b>> \in G
    <3> DEFINE acc == Start(opp)
    <3>1. acc \in Outcomes /\ acc.kept = <<>> /\ acc.left = meas /\ acc.opp = opp
      BY <1>1, <2>2, StartIs
    <3>2. VerifyPosition(t, acc.left, acc.opp) = 1
      BY <1>1, <2>2, <2>3, <3>1, NearIsFound
    <3> HIDE DEF acc, t
    <3>3. b \in Outcomes /\ Feeds(acc, t, b)
      BY <1>1, <2>3, <2>5, <3>1, <3>2, TurnIs DEF Drops, Ages, acc
    <3>4. PICK i \in DOMAIN meas, u \in Tracks :
             u.id = t.id /\ b.kept = Append(<<>>, u) /\ b.left = RemoveAt(meas, i)
      BY <3>1, <3>3 DEF Feeds, IsFed
    <3>5. b.left = <<>>
      <4>1. RemoveAt(meas, i) \in Seq(Cells) /\ Len(RemoveAt(meas, i)) = 0
        BY <1>1, <2>3, RemovedIs
      <4> QED
        BY <3>4, <4>1
    <3>6. Len(b.kept) = 1 /\ b.kept[1] = u
      BY <3>4
    <3>7. Done(b)
      BY <3>4, <3>5, <3>6
    <3> HIDE DEF Done
    <3> QED
      BY <3>3, <3>7
  <2>6. ASSUME NEW i \in DOMAIN tracked, NEW acc \in Outcomes, <<i - 1, acc>> \in G,
               NEW b \in TrackTurn(acc, tracked[i])
        PROVE  <<i, b>> \in G
    <3>1. i = 1 /\ i - 1 = 0
      BY <2>3
    <3>2. acc = Start(opp)
      BY <2>6, <3>1
    <3> HIDE DEF G
    <3> QED
      BY <2>5, <2>6, <3>1, <3>2
  <2>7. r \in Outcomes /\ <<Len(tracked), r>> \in G
    <3> HIDE DEF G
    <3> QED
      BY <1>1, <2>2, <2>4, <2>6, TurnsInduct
  <2>8. Done(r)
    BY <1>1, <2>7
  <2>9. r.kept \in Seq(Tracks) /\ OpponentAged(r.opp) \in Opponents
    BY <2>7, AgedOpponentIs DEF Outcomes
  <2>10. tracked' = r.kept
    BY <2>1, <2>8, <2>9, NothingNew DEF Ticks
  <2> QED
    BY <2>8, <2>10
<1>2. TypeInv /\ [Next]_vars => [Ticked /\ Lone => (Near => Kept)]_vars
  <2> HIDE DEF Lone, Near, Kept
  <2> QED
    BY <1>1, TickedIsLoop
<1>3. TypeInv /\ [Next]_vars =>
        [Ticked /\ Len(tracked) = 1 /\ Len(meas) = 1 =>
           (Abs(tracked[1].mean - meas[1]) < MaxDist =>
              Len(tracked') = 1 /\ tracked'[1].id = tracked[1].id)]_vars
  BY <1>2
<1> QED
  BY <1>3, TypeInvAlways, PTL DEF Spec, LoneTrackKept
=============================================================================
