-------------------------- MODULE AckermannMuxProofs --------------------------
(***************************************************************************)
(* Type correctness of the multiplexer and who wins, for every             *)
(* configuration of sources and locks and every start of the clock.  The   *)
(* loops over the locks and the sources are recursive functions; what they *)
(* compute is found by induction over the configuration.                   *)
(***************************************************************************)
EXTENDS AckermannMux, Induction

\* TypeOK says nothing of the functions' domains; a step needs them.
Domains ==
  /\ velocity_age \in [Inputs -> Nat]
  /\ lock_age \in [LockIds -> Nat]

TypeInv == TypeOK /\ Domains

LEMMA Timeouts ==
  /\ \A v \in Inputs : Velocities[v].timeout \in Nat
  /\ \A l \in LockIds : Locks[l].timeout \in Nat
<1>1. ASSUME NEW hs \in Seq([timeout : Nat, priority : Int]), NEW h \in DOMAIN hs
      PROVE  hs[h].timeout \in Nat
  <2> DEFINE Handle == [timeout : Nat, priority : Int]
  <2>1. hs \in Seq(Handle)
    BY <1>1
  <2> HIDE DEF Handle
  <2>2. hs[h] \in Handle
    BY <1>1, <2>1
  <2> QED
    BY <2>2 DEF Handle
<1> QED
  BY <1>1, HandleAssumption DEF Inputs, LockIds

LEMMA CappedInRange ==
  ASSUME NEW h, h.timeout \in Nat, NEW age \in Nat
  PROVE  CappedAge(h, age) \in 0 .. h.timeout + 1
BY DEF CappedAge

LEMMA InitType == Init => TypeInv
<1> SUFFICES ASSUME Init PROVE TypeInv
  OBVIOUS
<1>1. \A v \in Inputs : velocity_age[v] \in 0 .. Velocities[v].timeout + 1
  BY Timeouts, CappedInRange, HandleAssumption DEF Init
<1>2. \A l \in LockIds : lock_age[l] \in 0 .. Locks[l].timeout + 1
  BY Timeouts, CappedInRange, HandleAssumption DEF Init
<1>3. Domains
  <2>1. \A v \in Inputs : velocity_age[v] \in Nat
    BY <1>1, Timeouts
  <2>2. \A l \in LockIds : lock_age[l] \in Nat
    BY <1>2, Timeouts
  <2> QED
    BY <2>1, <2>2 DEF Init, Domains
<1>4. lock_data \in [LockIds -> BOOLEAN]
  BY DEF Init
<1>5. cmd \in [from : Inputs, drive : Commands] \cup {NoCommand}
  BY DEF Init
<1> QED
  BY <1>1, <1>2, <1>3, <1>4, <1>5 DEF TypeInv, TypeOK

LEMMA VelocityType ==
  ASSUME TypeInv, NEW v \in Inputs, NEW drive \in Commands, VelocityCallback(v, drive)
  PROVE  TypeInv'
<1>1. velocity_age' = [velocity_age EXCEPT ![v] = 0] /\ lock_age' = lock_age
      /\ lock_data' = lock_data
  BY DEF VelocityCallback
<1>2. velocity_age' \in [Inputs -> Nat] /\ lock_age' \in [LockIds -> Nat]
  BY <1>1 DEF TypeInv, Domains
<1>3. \A w \in Inputs : velocity_age'[w] \in 0 .. Velocities[w].timeout + 1
  BY <1>1, Timeouts DEF TypeInv, TypeOK, Domains
<1>4. \A l \in LockIds : lock_age'[l] \in 0 .. Locks[l].timeout + 1
  BY <1>1 DEF TypeInv, TypeOK
<1>5. cmd' \in [from : Inputs, drive : Commands] \cup {NoCommand}
  <2>1. cmd' = cmd \/ cmd' = [from |-> v, drive |-> drive]
    BY DEF VelocityCallback
  <2> QED
    BY <2>1 DEF TypeInv, TypeOK
<1>6. lock_data' \in [LockIds -> BOOLEAN]
  BY <1>1 DEF TypeInv, TypeOK
<1> QED
  BY <1>2, <1>3, <1>4, <1>5, <1>6 DEF TypeInv, TypeOK, Domains

LEMMA LockType ==
  ASSUME TypeInv, NEW l \in LockIds, NEW data \in BOOLEAN, LockCallback(l, data)
  PROVE  TypeInv'
<1>1. lock_age' = [lock_age EXCEPT ![l] = 0] /\ velocity_age' = velocity_age
      /\ lock_data' = [lock_data EXCEPT ![l] = data] /\ cmd' = cmd
  BY DEF LockCallback
<1>2. velocity_age' \in [Inputs -> Nat] /\ lock_age' \in [LockIds -> Nat]
  BY <1>1 DEF TypeInv, Domains
<1>3. \A v \in Inputs : velocity_age'[v] \in 0 .. Velocities[v].timeout + 1
  BY <1>1 DEF TypeInv, TypeOK
<1>4. \A k \in LockIds : lock_age'[k] \in 0 .. Locks[k].timeout + 1
  BY <1>1, Timeouts DEF TypeInv, TypeOK, Domains
<1>5. lock_data' \in [LockIds -> BOOLEAN]
  BY <1>1 DEF TypeInv, TypeOK
<1>6. cmd' \in [from : Inputs, drive : Commands] \cup {NoCommand}
  BY <1>1 DEF TypeInv, TypeOK
<1> QED
  BY <1>2, <1>3, <1>4, <1>5, <1>6 DEF TypeInv, TypeOK, Domains

LEMMA ElapseType ==
  ASSUME TypeInv, Elapse
  PROVE  TypeInv'
<1>1. /\ velocity_age' = [v \in Inputs |-> CappedAge(Velocities[v], velocity_age[v] + 1)]
      /\ lock_age' = [l \in LockIds |-> CappedAge(Locks[l], lock_age[l] + 1)]
      /\ lock_data' = lock_data /\ cmd' = cmd
  BY DEF Elapse
<1>2. \A v \in Inputs : velocity_age'[v] \in 0 .. Velocities[v].timeout + 1
  BY <1>1, Timeouts, CappedInRange DEF TypeInv, Domains
<1>3. \A l \in LockIds : lock_age'[l] \in 0 .. Locks[l].timeout + 1
  BY <1>1, Timeouts, CappedInRange DEF TypeInv, Domains
<1>4. velocity_age' \in [Inputs -> Nat] /\ lock_age' \in [LockIds -> Nat]
  <2>1. \A v \in Inputs : velocity_age'[v] \in Nat
    BY <1>2, Timeouts
  <2>2. \A l \in LockIds : lock_age'[l] \in Nat
    BY <1>3, Timeouts
  <2> QED
    BY <1>1, <2>1, <2>2
<1>5. lock_data' \in [LockIds -> BOOLEAN]
      /\ cmd' \in [from : Inputs, drive : Commands] \cup {NoCommand}
  BY <1>1 DEF TypeInv, TypeOK
<1> QED
  BY <1>2, <1>3, <1>4, <1>5 DEF TypeInv, TypeOK, Domains

-----------------------------------------------------------------------------
\* The loops.

LEMMA PriorityType ==
  /\ \A v \in Inputs : Priority(Velocities[v]) \in Nat
  /\ \A l \in LockIds : Priority(Locks[l]) \in Nat
<1>1. ASSUME NEW hs \in Seq([timeout : Nat, priority : Int]), NEW h \in DOMAIN hs
      PROVE  Priority(hs[h]) \in Nat
  <2> DEFINE Handle == [timeout : Nat, priority : Int]
  <2>1. hs \in Seq(Handle)
    BY <1>1
  <2> HIDE DEF Handle
  <2>2. hs[h] \in Handle
    BY <1>1, <2>1
  <2>3. hs[h].priority \in Int
    BY <2>2 DEF Handle
  <2> QED
    BY <2>3 DEF Priority
<1> QED
  BY <1>1, HandleAssumption DEF Inputs, LockIds

LEMMA Indices ==
  /\ Inputs = 1 .. Len(Velocities) /\ Len(Velocities) \in Nat
  /\ LockIds = 1 .. Len(Locks) /\ Len(Locks) \in Nat
BY HandleAssumption DEF HandleAssumption, Inputs, LockIds

\* The first loop finds the highest priority of an engaged lock.
LEMMA LockPriorityIs ==
  /\ GetLockPriority \in Nat
  /\ \A l \in LockIds : Engaged(l) => Priority(Locks[l]) <= GetLockPriority
  /\ GetLockPriority # 0 =>
       \E l \in LockIds : Engaged(l) /\ Priority(Locks[l]) = GetLockPriority
<1> DEFINE n == Len(Locks)
           step == [p \in Nat \X Nat |->
                      IF p[1] \in LockIds /\ Engaged(p[1]) /\ p[2] < Priority(Locks[p[1]])
                      THEN Priority(Locks[p[1]]) ELSE p[2]]
           Eq(f) == f = [l \in 0 .. n |->
                           IF l = 0 THEN 0
                           ELSE IF IsLocked(l, lock_age, lock_data) /\ f[l - 1] < Priority(Locks[l])
                           THEN Priority(Locks[l]) ELSE f[l - 1]]
           best == CHOOSE f : Eq(f)
<1>1. step \in [Nat \X Nat -> Nat]
  BY PriorityType
<1>2. PICK f : Iterates(f, n, Nat, 0, step)
  <2>1. n \in Nat
    BY Indices
  <2> HIDE DEF step, n
  <2> QED
    BY <1>1, <2>1, Recursion
<1>3. \A l \in LockIds : Engaged(l) <=> IsLocked(l, lock_age, lock_data)
  BY DEF Engaged, IsLocked, HasExpired
<1>4. \A l \in 1 .. n : step[<<l, f[l - 1]>>] =
        IF IsLocked(l, lock_age, lock_data) /\ f[l - 1] < Priority(Locks[l])
        THEN Priority(Locks[l]) ELSE f[l - 1]
  <2> SUFFICES ASSUME NEW l \in 1 .. n
               PROVE  step[<<l, f[l - 1]>>] =
                        IF IsLocked(l, lock_age, lock_data) /\ f[l - 1] < Priority(Locks[l])
                        THEN Priority(Locks[l]) ELSE f[l - 1]
    OBVIOUS
  <2>1. l \in Nat /\ l \in LockIds /\ f[l - 1] \in Nat
    BY <1>2, Indices DEF Iterates
  <2>2. Engaged(l) <=> IsLocked(l, lock_age, lock_data)
    BY <1>3, <2>1
  <2>3. step[<<l, f[l - 1]>>] =
          IF l \in LockIds /\ Engaged(l) /\ f[l - 1] < Priority(Locks[l])
          THEN Priority(Locks[l]) ELSE f[l - 1]
    BY <2>1
  <2> QED
    BY <2>1, <2>2, <2>3, Zenon
<1>5. Eq(f)
  <2> HIDE DEF step
  <2>1. f \in [0 .. n -> Nat] /\ f[0] = 0 /\ \A l \in 1 .. n : f[l] = step[<<l, f[l - 1]>>]
    BY <1>2 DEF Iterates
  <2>2. \A l \in 0 .. n : l = 0 \/ l \in 1 .. n
    BY Indices
  <2> QED
    BY <1>4, <2>1, <2>2
<1>6. Eq(best)
  <2> HIDE DEF Eq
  <2> QED
    BY <1>5
<1>7. GetLockPriority = best[n]
  BY DEF GetLockPriority
<1> DEFINE Found(k) ==
      /\ best[k] \in Nat
      /\ \A l \in 1 .. k : Engaged(l) => Priority(Locks[l]) <= best[k]
      /\ best[k] # 0 => \E l \in 1 .. k : Engaged(l) /\ Priority(Locks[l]) = best[k]
           T == {k \in Nat : k <= n => Found(k)}
<1> HIDE DEF best
<1>8. 0 \in T
  BY <1>6, Indices
<1>9. ASSUME NEW k \in Nat, k \in T PROVE k + 1 \in T
  <2> SUFFICES ASSUME k + 1 <= n PROVE Found(k + 1)
    OBVIOUS
  <2>1. Found(k) /\ k + 1 \in LockIds /\ k + 1 \in 1 .. n
    BY <1>9, Indices
  <2>2. Priority(Locks[k + 1]) \in Nat
    BY <2>1, PriorityType
  <2>3. best[k + 1] = IF Engaged(k + 1) /\ best[k] < Priority(Locks[k + 1])
                      THEN Priority(Locks[k + 1]) ELSE best[k]
    BY <1>3, <1>6, <2>1
  <2>4. \A l \in 1 .. k + 1 : l \in 1 .. k \/ l = k + 1
    OBVIOUS
  <2>5. \A l \in 1 .. k : Priority(Locks[l]) \in Nat
    BY <2>1, PriorityType, Indices
  <2>6. CASE Engaged(k + 1) /\ best[k] < Priority(Locks[k + 1])
    <3>1. best[k + 1] = Priority(Locks[k + 1])
      BY <2>3, <2>6
    <3> QED
      BY <2>1, <2>2, <2>4, <2>5, <2>6, <3>1
  <2>7. CASE ~ (Engaged(k + 1) /\ best[k] < Priority(Locks[k + 1]))
    <3>1. best[k + 1] = best[k]
      BY <2>3, <2>7
    <3> QED
      BY <2>1, <2>2, <2>4, <2>5, <2>7, <3>1
  <2> QED
    BY <2>6, <2>7
<1>10. n \in T
  <2> HIDE DEF T
  <2> QED
    BY <1>8, <1>9, Induct, Indices
<1> QED
  BY <1>7, <1>10, Indices

\* A source is held back when its priority is below that one.
LEMMA HeldBackIs ==
  \A v \in Inputs : HeldBack(v) <=> Priority(Velocities[v]) < GetLockPriority
<1> TAKE v \in Inputs
<1>1. Priority(Velocities[v]) \in Nat /\ \A l \in LockIds : Priority(Locks[l]) \in Nat
  BY PriorityType
<1> QED
  BY <1>1, LockPriorityIs DEF HeldBack

\* The second loop finds an unmasked source that no other unmasked source
\* outranks, and finds none only when no unmasked source has a priority.
LEMMA WinnerIs ==
  ASSUME NEW age
  PROVE  /\ Winner(age) \in Inputs \cup {0}
         /\ Winner(age) # 0 => ~IsMasked(Winner(age), age, GetLockPriority)
         /\ \A v \in Inputs : ~IsMasked(v, age, GetLockPriority) =>
              IF Winner(age) = 0 THEN Priority(Velocities[v]) = 0
              ELSE v # Winner(age) => Outranks(Winner(age), v)
<1> DEFINE n == Len(Velocities)
           S == [priority : Nat, input : 0 .. n]
           Open(v) == ~IsMasked(v, age, GetLockPriority)
           step == [p \in Nat \X S |->
                      IF p[1] \in Inputs /\ Open(p[1]) /\ p[2].priority < Priority(Velocities[p[1]])
                      THEN [priority |-> Priority(Velocities[p[1]]), input |-> p[1]] ELSE p[2]]
           none == [priority |-> 0, input |-> 0]
           Eq(f) == f = [v \in 0 .. n |->
                           IF v = 0 THEN none
                           ELSE IF /\ ~IsMasked(v, age, GetLockPriority)
                                   /\ f[v - 1].priority < Priority(Velocities[v])
                           THEN [priority |-> Priority(Velocities[v]), input |-> v] ELSE f[v - 1]]
           best == CHOOSE f : Eq(f)
<1> HIDE DEF Open
<1>1. step \in [Nat \X S -> S]
  BY PriorityType, Indices
<1>2. none \in S
  BY Indices
<1>3. PICK f : Iterates(f, n, S, none, step)
  <2>1. n \in Nat
    BY Indices
  <2> HIDE DEF step, none, S, n
  <2> QED
    BY <1>1, <1>2, <2>1, Recursion
<1>4. \A v \in 1 .. n : step[<<v, f[v - 1]>>] =
        IF Open(v) /\ f[v - 1].priority < Priority(Velocities[v])
        THEN [priority |-> Priority(Velocities[v]), input |-> v] ELSE f[v - 1]
  <2> TAKE v \in 1 .. n
  <2>1. v \in Nat /\ v - 1 \in 0 .. n /\ v \in Inputs
    BY Indices
  <2>2. <<v, f[v - 1]>> \in Nat \X S
    <3> HIDE DEF S, n
    <3> QED
      BY <1>3, <2>1 DEF Iterates
  <2> HIDE DEF S
  <2> QED
    BY <2>1, <2>2
<1>5. Eq(f)
  <2> HIDE DEF step, S
  <2>1. f \in [0 .. n -> S] /\ f[0] = none /\ \A v \in 1 .. n : f[v] = step[<<v, f[v - 1]>>]
    BY <1>3 DEF Iterates
  <2>2. \A v \in 0 .. n : v = 0 \/ v \in 1 .. n
    BY Indices
  <2> HIDE DEF none
  <2> QED
    BY <1>4, <2>1, <2>2 DEF Open
<1>6. Eq(best)
  <2> HIDE DEF Eq
  <2> QED
    BY <1>5
<1>7. Winner(age) = best[n].input
  BY DEF Winner
<1> DEFINE Found(k) ==
      /\ best[k] \in S
      /\ best[k].input = 0 => best[k].priority = 0
      /\ best[k].input # 0 => /\ best[k].input \in 1 .. k
                              /\ Open(best[k].input)
                              /\ best[k].priority = Priority(Velocities[best[k].input])
      /\ \A v \in 1 .. k : Open(v) =>
           \/ Priority(Velocities[v]) < best[k].priority
           \/ Priority(Velocities[v]) = best[k].priority /\ best[k].input <= v
           T == {k \in Nat : k <= n => Found(k)}
<1> HIDE DEF best
<1>8. 0 \in T
  <2>1. best[0] = none
    BY <1>6, Indices
  <2> QED
    BY <2>1, Indices
<1>9. ASSUME NEW k \in Nat, k \in T PROVE k + 1 \in T
  <2> SUFFICES ASSUME k + 1 <= n PROVE Found(k + 1)
    OBVIOUS
  <2>1. Found(k) /\ k + 1 \in Inputs /\ k + 1 \in 1 .. n
    BY <1>9, Indices
  <2>2. Priority(Velocities[k + 1]) \in Nat
    BY <2>1, PriorityType
  <2>3. best[k + 1] = IF Open(k + 1) /\ best[k].priority < Priority(Velocities[k + 1])
                      THEN [priority |-> Priority(Velocities[k + 1]), input |-> k + 1]
                      ELSE best[k]
    <3>1. k + 1 \in 0 .. n /\ k + 1 # 0 /\ (k + 1) - 1 = k
      BY <2>1, Indices
    <3> HIDE DEF n, S, none
    <3> QED
      BY <1>6, <3>1 DEF Open
  <2>4. \A v \in 1 .. k + 1 : v \in 1 .. k \/ v = k + 1
    OBVIOUS
  <2>5. CASE Open(k + 1) /\ best[k].priority < Priority(Velocities[k + 1])
    <3>1. /\ best[k + 1].priority = Priority(Velocities[k + 1])
          /\ best[k + 1].input = k + 1 /\ best[k + 1] \in S
      BY <2>1, <2>2, <2>3, <2>5
    <3>2. \A v \in 1 .. k : Priority(Velocities[v]) \in Nat
      BY <2>1, PriorityType, Indices
    <3>3. best[k].priority \in Nat
      BY <2>1
    <3>4. \A v \in 1 .. k : Open(v) => Priority(Velocities[v]) <= best[k].priority
      BY <2>1, <3>2, <3>3
    <3>5. \A v \in 1 .. k : Open(v) => Priority(Velocities[v]) < Priority(Velocities[k + 1])
      <4> HIDE DEF S, Open
      <4> QED
        BY <2>2, <2>5, <3>2, <3>3, <3>4
    <3>6. \A v \in 1 .. k + 1 : Open(v) =>
            \/ Priority(Velocities[v]) < best[k + 1].priority
            \/ Priority(Velocities[v]) = best[k + 1].priority /\ best[k + 1].input <= v
      <4> HIDE DEF S, Open
      <4> QED
        BY <2>4, <3>1, <3>5
    <3> HIDE DEF S
    <3> QED
      BY <2>1, <2>5, <3>1, <3>6
  <2>6. CASE ~ (Open(k + 1) /\ best[k].priority < Priority(Velocities[k + 1]))
    <3>1. best[k + 1] = best[k]
      BY <2>3, <2>6
    <3>2. best[k].priority \in Nat /\ best[k].input \in Nat /\ best[k].input <= k
      BY <2>1
    <3> QED
      BY <2>1, <2>2, <2>4, <2>6, <3>1, <3>2
  <2> QED
    BY <2>5, <2>6
<1>10. n \in T
  <2> HIDE DEF T
  <2> QED
    BY <1>8, <1>9, Induct, Indices
<1>11. Found(n)
  BY <1>10, Indices
<1>12. \A v \in Inputs : Priority(Velocities[v]) \in Nat /\ v \in 1 .. n
  BY PriorityType, Indices
<1> HIDE DEF Found
<1>13. /\ best[n].input \in Inputs \cup {0}
       /\ best[n].input # 0 => Open(best[n].input)
  BY <1>11, Indices DEF Found
<1>14. ASSUME NEW v \in Inputs, Open(v), best[n].input = 0
       PROVE  Priority(Velocities[v]) = 0
  BY <1>11, <1>12, <1>14 DEF Found
<1>15. ASSUME NEW v \in Inputs, Open(v), best[n].input # 0, v # best[n].input
       PROVE  Outranks(best[n].input, v)
  BY <1>11, <1>12, <1>15 DEF Found, Outranks
<1> QED
  BY <1>7, <1>13, <1>14, <1>15 DEF Open

-----------------------------------------------------------------------------
\* Just before the winner is sought the arriving message has been stamped: its
\* source is not silent, and the others are as they were.
LEMMA MaskedAtArrival ==
  ASSUME TypeInv, NEW v \in Inputs, NEW drive \in Commands, VelocityCallback(v, drive)
  PROVE  /\ IsMasked(v, velocity_age', GetLockPriority) <=> HeldBack(v)
         /\ \A w \in Inputs \ {v} :
              IsMasked(w, velocity_age', GetLockPriority) <=> Silent(w) \/ HeldBack(w)
<1>1. velocity_age'[v] = 0 /\ \A w \in Inputs \ {v} : velocity_age'[w] = velocity_age[w]
  BY DEF VelocityCallback, TypeInv, Domains
<1>2. Velocities[v].timeout \in Nat
  BY Timeouts
<1>3. ~HasExpired(Velocities[v], velocity_age'[v])
  BY <1>1, <1>2 DEF HasExpired
<1>4. \A w \in Inputs \ {v} : HasExpired(Velocities[w], velocity_age'[w]) <=> Silent(w)
  BY <1>1 DEF HasExpired, Silent
<1> QED
  BY <1>3, <1>4, HeldBackIs DEF IsMasked

LEMMA TypeInvAlways == Spec => []TypeInv
<1>1. TypeInv /\ [Next]_vars => TypeInv'
  <2> SUFFICES ASSUME TypeInv, [Next]_vars PROVE TypeInv'
    OBVIOUS
  <2>1. CASE \E v \in Inputs, drive \in Commands : VelocityCallback(v, drive)
    BY <2>1, VelocityType
  <2>2. CASE \E l \in LockIds, data \in BOOLEAN : LockCallback(l, data)
    BY <2>2, LockType
  <2>3. CASE Elapse
    BY <2>3, ElapseType
  <2>4. CASE UNCHANGED vars
    BY <2>4 DEF vars, TypeInv, TypeOK, Domains
  <2> QED
    BY <2>1, <2>2, <2>3, <2>4 DEF Next
<1> QED
  BY InitType, <1>1, PTL DEF Spec

\* Ages stay within their timeouts, and what is published comes from a source.
THEOREM TypeCorrect == Spec => []TypeOK
<1>1. TypeInv => TypeOK
  BY DEF TypeInv
<1> QED
  BY TypeInvAlways, <1>1, PTL

\* A command is passed on only past every engaged lock above it and past every
\* competing source that outranks it, however many of them are configured.
THEOREM NoOverride == Spec => NeverOverridden
<1> DEFINE Rightful ==
      \A v \in Inputs, drive \in Commands :
        VelocityCallback(v, drive) /\ cmd' # cmd =>
          /\ ~HeldBack(v)
          /\ \A w \in Inputs \ {v} : Outranks(w, v) => Silent(w) \/ HeldBack(w)
<1>1. TypeInv => Rightful
  <2> SUFFICES ASSUME TypeInv, NEW v \in Inputs, NEW drive \in Commands,
                      VelocityCallback(v, drive), cmd' # cmd
               PROVE  /\ ~HeldBack(v)
                      /\ \A w \in Inputs \ {v} : Outranks(w, v) => Silent(w) \/ HeldBack(w)
    OBVIOUS
  <2>1. Winner(velocity_age') = v
    BY DEF VelocityCallback
  <2>2. v \in Nat \ {0}
    BY Indices
  <2>3. ~IsMasked(v, velocity_age', GetLockPriority)
    BY <2>1, <2>2, WinnerIs
  <2>4. ASSUME NEW w \in Inputs \ {v}, Outranks(w, v) PROVE Silent(w) \/ HeldBack(w)
    <3>1. Priority(Velocities[v]) \in Nat /\ Priority(Velocities[w]) \in Nat /\ w \in Nat
      BY PriorityType, Indices
    <3>2. ~Outranks(v, w)
      BY <2>2, <2>4, <3>1 DEF Outranks
    <3>3. IsMasked(w, velocity_age', GetLockPriority)
      BY <2>1, <2>2, <3>2, WinnerIs
    <3> QED
      BY <3>3, MaskedAtArrival
  <2> QED
    BY <2>3, <2>4, MaskedAtArrival
<1> HIDE DEF Rightful
<1>2. Spec => [][Rightful]_vars
  BY TypeInvAlways, <1>1, PTL
<1> QED
  BY <1>2 DEF NeverOverridden, Rightful

\* A command that no lock and no competing source stands above is passed on.
THEOREM NoSwallowing == Spec => NeverSwallowed
<1> DEFINE Heard ==
      \A v \in Inputs, drive \in Commands :
        /\ VelocityCallback(v, drive)
        /\ ~HeldBack(v) /\ Priority(Velocities[v]) > 0
        /\ \A w \in Inputs \ {v} : Outranks(w, v) => Silent(w) \/ HeldBack(w)
        => cmd' = [from |-> v, drive |-> drive]
<1>1. TypeInv => Heard
  <2> SUFFICES ASSUME TypeInv, NEW v \in Inputs, NEW drive \in Commands,
                      VelocityCallback(v, drive), ~HeldBack(v), Priority(Velocities[v]) > 0,
                      \A w \in Inputs \ {v} : Outranks(w, v) => Silent(w) \/ HeldBack(w)
               PROVE  cmd' = [from |-> v, drive |-> drive]
    OBVIOUS
  <2> DEFINE w == Winner(velocity_age')
  <2>1. ~IsMasked(v, velocity_age', GetLockPriority)
    BY MaskedAtArrival
  <2>2. w # 0
    BY <2>1, PriorityType, WinnerIs
  <2>3. w \in Inputs /\ ~IsMasked(w, velocity_age', GetLockPriority)
    BY <2>2, WinnerIs
  <2>4. ASSUME w # v PROVE FALSE
    <3>1. Outranks(w, v)
      BY <2>1, <2>2, <2>4, WinnerIs
    <3>2. Silent(w) \/ HeldBack(w)
      BY <2>3, <2>4, <3>1
    <3> QED
      BY <2>3, <2>4, <3>2, MaskedAtArrival
  <2> QED
    BY <2>4 DEF VelocityCallback
<1> HIDE DEF Heard
<1>2. Spec => [][Heard]_vars
  BY TypeInvAlways, <1>1, PTL
<1> QED
  BY <1>2 DEF NeverSwallowed, Heard
=============================================================================
