------------------------ MODULE FractionalWheel_proofs ------------------------
(***************************************************************************)
(* The timing wheel with delays that are not whole, for every number of    *)
(* slots, timers, delays and instants: which timers a fraction keeps from  *)
(* firing, which it makes fire again, and when.                            *)
(***************************************************************************)
EXTENDS FractionalWheel, DataLemmas

LEMMA SlotsType == Slots \in Nat \ {0}
  BY WheelAssumption

LEMMA Bounds == MaxTimers \in Nat /\ MaxDelay \in Nat /\ MaxNow \in Nat
  BY WheelAssumption

-----------------------------------------------------------------------------
(* Instants *)

(* When the overflow list is looked through at the end of revolution k,    *)
(* the timers come near whose turn is not later.                           *)
LEMMA TurnComes ==
    ASSUME now \in Int, NEW k \in Int, now + 1 = Slots * k, NEW d \in Int
    PROVE  Near(d) <=> (d + 2) \div (2 * Slots) <= k
<1> DEFINE m == 2 * Slots
<1>1. m \in Nat \ {0} /\ Slots * k \in Int /\ m * k = 2 * (Slots * k)
  BY SlotsType
<1>2. (d + 2) \div m <= k <=> d + 2 < m * k + m
  <2> HIDE DEF m
  <2> QED BY <1>1, DivAtMost
<1> QED BY <1>1, <1>2, SlotsType DEF Near

(* The turn of a timer that goes to overflow is still to come. *)
LEMMA TurnIsLater ==
    ASSUME now \in Int, NEW d \in Int, ~ Near(d)
    PROVE  (d + 2) \div (2 * Slots) > (now + 1) \div Slots
<1> DEFINE m == 2 * Slots  k == (now + 1) \div Slots
<1>1. k \in Int /\ now + 1 >= Slots * k /\ Slots * k \in Int
  BY SlotsType, ModType
<1>2. m \in Nat \ {0} /\ m * k = 2 * (Slots * k)
  BY <1>1, SlotsType
<1>3. (d + 2) \div m \in Int
  BY <1>2, ModType
<1>4. (d + 2) \div m <= k <=> d + 2 < m * k + m
  <2> HIDE DEF m, k
  <2> QED BY <1>1, <1>2, DivAtMost
<1>5. d + 2 >= m * k + m
  <2>1. d >= 2 * now + 2 * Slots
    BY SlotsType DEF Near
  <2> HIDE DEF k
  <2> QED BY <1>1, <1>2, <2>1, SlotsType
<1> HIDE DEF m, k
<1>6. (d + 2) \div m > k
  BY <1>1, <1>2, <1>3, <1>4, <1>5
<1> QED BY <1>6 DEF m, k

-----------------------------------------------------------------------------
(* The data of a timer *)

LEMMA Types ==
    ASSUME TypeOK
    PROVE  /\ now \in Nat
           /\ Len(deadline) \in Nat /\ Scheduled = 1..Len(deadline)
           /\ Scheduled \subseteq Timers
           /\ \A t \in Scheduled : deadline[t] \in Nat /\ delay[t] \in Nat
           /\ \A t \in Timers : visits[t] \in Seq(0..MaxNow) /\ Len(visits[t]) \in Nat
                                /\ DOMAIN visits[t] = 1..Len(visits[t])
           /\ \A t \in Timers : visits[t] = <<>> <=> Len(visits[t]) = 0
<1>1. now \in Nat
  BY Bounds DEF TypeOK
<1>2. /\ Len(deadline) \in Nat /\ Scheduled = 1..Len(deadline) /\ Len(deadline) <= MaxTimers
      /\ \A t \in Scheduled : deadline[t] \in 0..(2 * MaxNow + MaxDelay)
  BY LenProperties, ElementOfSeq DEF TypeOK, Scheduled
<1>3. \A t \in Scheduled : delay[t] \in 0..MaxDelay
  <2>1. delay \in Seq(0..MaxDelay) /\ Len(delay) = Len(deadline)
    BY DEF TypeOK
  <2> QED BY <1>2, <2>1, LenProperties, ElementOfSeq
<1>4. Scheduled \subseteq Timers
  BY <1>2, Bounds DEF Timers
<1>5. \A t \in Timers : visits[t] \in Seq(0..MaxNow)
  BY DEF TypeOK
<1>6. \A t \in Timers : Len(visits[t]) \in Nat /\ DOMAIN visits[t] = 1..Len(visits[t])
  BY <1>5, LenProperties
<1>7. \A t \in Timers : visits[t] = <<>> <=> Len(visits[t]) = 0
  BY <1>5, EmptySeq
<1> QED BY <1>1, <1>2, <1>3, <1>4, <1>5, <1>6, <1>7, Bounds

LEMMA TimersFinite == IsFiniteSet(Timers) /\ Cardinality(Timers) = MaxTimers
  BY Bounds, FS_Interval DEF Timers

(* When a whole timer is due, and that it is in its slot then. *)
LEMMA Due ==
    ASSUME TypeOK, NEW t \in Scheduled
    PROVE  /\ Revolution(t) \in Int /\ Bucket(deadline[t]) \in 0..(Slots - 1)
           /\ deadline[t] \div 2 \in Nat
           /\ Bucket(deadline[t]) = (deadline[t] \div 2) % Slots
           /\ Whole(deadline[t]) => deadline[t] = 2 * (deadline[t] \div 2)
           /\ DueAt(t) \in Nat /\ DueAt(t) % Slots = Bucket(deadline[t])
           /\ DueAt(t) >= deadline[t] \div 2
<1>1. deadline[t] \in Nat
  BY Types
<1> DEFINE d == deadline[t]  h == d \div 2
<1>2. h \in Nat /\ d = 2 * h + (d % 2)
  BY <1>1
<1>3. h % Slots \in 0..(Slots - 1) /\ (h + Slots) % Slots = h % Slots
  <2>1. h \in Int
    BY <1>2
  <2> HIDE DEF h
  <2>2. h % Slots \in 0..(Slots - 1)
    BY <2>1, SlotsType, ModType
  <2>3. (h + Slots) % Slots = h % Slots
    BY <2>1, SlotsType, ModAddOne
  <2> QED BY <2>2, <2>3
<1>4. Revolution(t) \in Int
  <2>1. 2 * Slots \in Nat \ {0} /\ d + 2 \in Int
    BY <1>1, SlotsType
  <2> QED BY <2>1, ModType DEF Revolution
<1>5. Whole(d) => d = 2 * h
  BY <1>1, <1>2 DEF Whole
<1>6. DueAt(t) = h \/ DueAt(t) = h + Slots
  BY <1>2, SlotsType DEF DueAt
<1> HIDE DEF h
<1>7. DueAt(t) \in Nat /\ DueAt(t) % Slots = h % Slots /\ DueAt(t) >= h
  BY <1>2, <1>3, <1>6, SlotsType
<1> QED BY <1>2, <1>3, <1>4, <1>5, <1>7 DEF h, Bucket

(* A timer from the overflow list is due in the revolution after its turn. *)
LEMMA DueAfterTurn ==
    ASSUME TypeOK, NEW t \in Scheduled, ~ Fractional(t), Far(t)
    PROVE  DueAt(t) \in (Slots * Revolution(t))..(Slots * Revolution(t) + Slots - 1)
<1> DEFINE h == deadline[t] \div 2  q == Revolution(t)  a == Slots * q
           m == 2 * Slots
<1>1. h \in Nat /\ deadline[t] = 2 * h /\ q \in Int /\ a \in Int
  BY Due, SlotsType DEF Fractional
<1>2. m \in Nat \ {0} /\ m * q = 2 * a /\ q = (2 * h + 2) \div m
  BY <1>1, SlotsType DEF Revolution
<1>3. 2 * h + 2 < m * q + m /\ 2 * h + 2 >= m * q
  <2>1. 2 * h + 2 = m * ((2 * h + 2) \div m) + ((2 * h + 2) % m)
        /\ (2 * h + 2) % m \in 0..(m - 1)
    <3> HIDE DEF h, m
    <3> QED BY <1>1, <1>2, ModType
  <2> HIDE DEF h, m, q
  <2> QED BY <1>1, <1>2, <2>1
<1>4. h \in (a - 1)..(a + Slots - 2)
  <2> HIDE DEF h, a, q
  <2> QED BY <1>1, <1>2, <1>3, SlotsType DEF m
<1>5. h % Slots = Slots - 1 <=> h = a - 1
  <2>1. CASE h = a - 1
    <3>1. a - 1 = Slots * (q - 1) + (Slots - 1)
      BY <1>1, SlotsType, Multiples
    <3>2. (Slots * (q - 1) + (Slots - 1)) % Slots = Slots - 1
      <4> HIDE DEF q
      <4> QED BY <1>1, SlotsType, ModUnique
    <3> QED BY <2>1, <3>1, <3>2
  <2>2. CASE h # a - 1
    <3> DEFINE r == h - a
    <3>1. r \in 0..(Slots - 2) /\ h = a + r
      <4> HIDE DEF h, a
      <4> QED BY <1>1, <1>4, <2>2, SlotsType
    <3>2. r \in 0..(Slots - 1)
      BY <3>1, SlotsType
    <3>3. (Slots * q + r) % Slots = r
      <4> HIDE DEF q, r
      <4> QED BY <1>1, <3>2, SlotsType, ModUnique
    <3> HIDE DEF r, h, q
    <3> QED BY <2>2, <3>1, <3>3, SlotsType
  <2> QED BY <2>1, <2>2
<1>6. delay[t] # 0
  BY Types, SlotsType DEF Far
<1>7. DueAt(t) = h + IF h % Slots = Slots - 1 THEN Slots ELSE 0
  BY <1>6 DEF DueAt, Bucket, Far
<1> HIDE DEF h, a, q
<1>8. DueAt(t) \in a..(a + Slots - 1)
  BY <1>1, <1>4, <1>5, <1>7, SlotsType
<1> QED BY <1>8 DEF a, q

(* If it is in its bucket when the overflow list has been looked through   *)
(* at the end of revolution k, its next visit is that of this revolution.  *)
LEMMA VisitAfterRehoming ==
    ASSUME TypeOK, NEW t \in Scheduled, ~ Fractional(t), Far(t),
           NEW k \in Int, now + 1 = Slots * k
    PROVE  BucketTime(Slots, deadline[t] \div 2, now)
               = DueAt(t) + (k - Revolution(t)) * Slots
<1> DEFINE q == Revolution(t)  v == DueAt(t) + (k - q) * Slots  s == Bucket(deadline[t])
<1>1. q \in Int /\ now \in Nat /\ DueAt(t) \in Nat /\ s \in 0..(Slots - 1)
      /\ DueAt(t) % Slots = s /\ s = (deadline[t] \div 2) % Slots
  BY Due, Types
<1>2. DueAt(t) \in (Slots * q)..(Slots * q + Slots - 1)
  BY DueAfterTurn
<1> HIDE DEF q, s
<1>3. (k - q) * Slots = Slots * (k - q) /\ Slots * (k - q) = Slots * k - Slots * q
      /\ Slots * k \in Int /\ Slots * q \in Int
  BY <1>1, SlotsType, Multiples
<1>4. v \in (now + 1)..(now + Slots)
  BY <1>1, <1>2, <1>3, SlotsType
<1>5. v % Slots = s
  <2>1. k - q \in Int /\ DueAt(t) \in Int
    BY <1>1
  <2>2. (DueAt(t) + Slots * (k - q)) % Slots = DueAt(t) % Slots
    BY <2>1, SlotsType, ModAdd
  <2> QED BY <1>1, <1>3, <2>2
<1> HIDE DEF v
<1>6. NextVisit(Slots, s, now) = v
  BY <1>1, <1>4, <1>5, SlotsType, NextVisitOf
<1> QED BY <1>1, <1>6 DEF BucketTime, v, q

-----------------------------------------------------------------------------
(* Steps that schedule nothing *)

LEMMA RehomingsType ==
    ASSUME TypeOK
    PROVE  /\ Rehomings \in Int
           /\ pc = "fired" /\ RevolutionEnds => now + 1 = Slots * (Rehomings + 1)
           /\ pc = "fired" /\ RevolutionEnds => (now + 1) \div Slots = Rehomings + 1
           /\ ~ (pc = "fired" /\ RevolutionEnds) => Rehomings = (now + 1) \div Slots
<1>1. now \in Nat
  BY Types
<1>2. now \div Slots \in Int /\ (now + 1) \div Slots \in Int
  BY <1>1, SlotsType, ModType
<1>3. CASE pc = "fired" /\ RevolutionEnds
  <2>1. Rehomings = now \div Slots /\ now % Slots = Slots - 1
    BY <1>3 DEF Rehomings, RevolutionEnds
  <2>2. (now + 1) \div Slots = (now \div Slots) + 1 /\ now + 1 = Slots * ((now \div Slots) + 1)
    <3>1. now \in Int
      BY <1>1
    <3> QED BY <2>1, <3>1, SlotsType, DivNext
  <2> QED BY <1>2, <1>3, <2>1, <2>2
<1>4. CASE ~ (pc = "fired" /\ RevolutionEnds)
  BY <1>2, <1>4 DEF Rehomings
<1> QED BY <1>3, <1>4

LEMMA SameTimers ==
    ASSUME UNCHANGED <<deadline, delay>>
    PROVE  /\ Scheduled' = Scheduled
           /\ \A t : /\ Revolution(t)' = Revolution(t) /\ DueAt(t)' = DueAt(t)
                     /\ Fractional(t)' <=> Fractional(t)
                     /\ Far(t)' <=> Far(t)
                     /\ Blocked(t)' <=> Blocked(t)
                     /\ Stuck(t)' <=> Stuck(t)
                     /\ Fires(t)' <=> Fires(t)
<1>1. Scheduled' = Scheduled
  BY DEF Scheduled
<1>2. \A t : /\ Revolution(t)' = Revolution(t)
             /\ Fractional(t)' <=> Fractional(t)
             /\ Far(t)' <=> Far(t)
  BY DEF Revolution, Fractional, Far
<1>3. \A t : DueAt(t)' = DueAt(t)
  BY DEF DueAt, Far
<1>4. \A t : /\ Blocked(t)' <=> Blocked(t)
             /\ Stuck(t)' <=> Stuck(t)
  BY <1>1, <1>2 DEF Blocked, Stuck
<1> QED BY <1>1, <1>2, <1>3, <1>4 DEF Fires

(* Steps between which the lists and the clock stay what they are. *)
LEMMA KeepsIInv ==
    ASSUME IInv, UNCHANGED <<now, buckets, overflow, size, deadline, delay, visits>>,
           pc' \in {"idle", "loop", "fired"}, to' \in 0..MaxNow, Rehomings' = Rehomings
    PROVE  IInv'
<1>1. /\ TypeOK /\ FractionsAreFar /\ InOverflow /\ InBuckets /\ Visited /\ OnTheirWay
      /\ Counted
  BY DEF IInv
<1> USE SameTimers
<1>2. TypeOK'
  BY <1>1 DEF TypeOK
<1>3. FractionsAreFar' /\ Counted'
  BY <1>1 DEF FractionsAreFar, Counted
<1>4. \A t : Waits(t)' <=> Waits(t)
  BY DEF Waits
<1>5. InOverflow'
  BY <1>1, <1>4 DEF InOverflow
<1>6. InBuckets'
  BY <1>1, <1>4 DEF InBuckets, Bucket
<1>7. Visited'
  BY <1>1, <1>4 DEF Visited
<1>8. OnTheirWay'
  <2>1. OnWheel' = OnWheel
    BY DEF OnWheel
  <2>2. \A t : Progress(t)' <=> Progress(t)
    BY <2>1 DEF Progress
  <2> QED BY <1>1, <1>4, <2>2 DEF OnTheirWay
<1> QED BY <1>2, <1>3, <1>5, <1>6, <1>7, <1>8 DEF IInv

LEMMA AdvanceIInv ==
    ASSUME IInv, NEW n \in 0..MaxNow, Advance(n)
    PROVE  IInv'
<1>1. Rehomings' = Rehomings
  BY DEF Advance, Rehomings, RevolutionEnds
<1> QED BY <1>1, KeepsIInv DEF Advance

LEMMA AdvanceReturnsIInv ==
    ASSUME IInv, AdvanceReturns
    PROVE  IInv'
<1>1. Rehomings' = Rehomings
  BY DEF AdvanceReturns, Rehomings, RevolutionEnds
<1>2. 0 \in 0..MaxNow
  BY Bounds
<1> QED BY <1>1, <1>2, KeepsIInv DEF AdvanceReturns

-----------------------------------------------------------------------------
(* The end of a revolution *)

(* The timers of a list are re-homed that come near: they fire, have no    *)
(* near fraction in front of them, and include all of this kind and all    *)
(* whose turn it is.                                                       *)
LEMMA RehomeIInv ==
    ASSUME IInv, pc = "fired", RevolutionEnds,
           UNCHANGED <<now, size, deadline, delay, visits>>,
           pc' \in {"idle", "loop"}, to' \in 0..MaxNow,
           NEW list \in Seq(Timers), IsInjective(list), ToSet(list) \subseteq ToSet(overflow),
           buckets' = Rehomed(list), overflow' \in Seq(Timers), InOverflow',
           \A t \in ToSet(list) : Near(deadline[t]) =>
               /\ Fires(t)
               /\ \A u \in Scheduled : u < t /\ Fractional(u) =>
                      Revolution(u) > Rehomings + 1,
           \A t \in ToSet(overflow) :
               /\ Near(deadline[t]) /\ Fires(t)
               /\ \/ Waits(t)
                  \/ \A u \in Scheduled : u < t /\ Fractional(u) =>
                         Revolution(u) > Rehomings + 1
               => t \in ToSet(list)
    PROVE  IInv'
<1>1. /\ TypeOK /\ FractionsAreFar /\ InOverflow /\ InBuckets /\ Visited /\ OnTheirWay
      /\ Counted
  BY DEF IInv
<1> DEFINE k == Rehomings + 1
           Pushed == {t \in ToSet(list) : Near(deadline[t])}
           In(s) == {t \in Scheduled : Near(deadline[t]) /\ Bucket(deadline[t]) = s}
<1> USE SameTimers
<1>2. /\ now \in Nat /\ Rehomings \in Int /\ k \in Int /\ now + 1 = Slots * k
      /\ k = Rehomings + 1
  BY <1>1, Types, RehomingsType
<1>3. Rehomings' = k
  <2>1. (now + 1) \div Slots = k
    BY <1>1, RehomingsType
  <2>2. pc' # "fired" /\ now' = now
    OBVIOUS
  <2>3. Rehomings' = (now + 1) \div Slots
    BY <2>2 DEF Rehomings
  <2> QED BY <2>1, <2>3
<1> HIDE DEF k
<1>4. \A t \in Scheduled :
         /\ deadline[t] \in Nat /\ Revolution(t) \in Int /\ DueAt(t) \in Nat
         /\ Near(deadline[t]) <=> Revolution(t) <= k
  <2> TAKE t \in Scheduled
  <2>1. deadline[t] \in Nat /\ Revolution(t) \in Int /\ DueAt(t) \in Nat
    BY <1>1, Types, Due
  <2>2. Near(deadline[t]) <=> (deadline[t] + 2) \div (2 * Slots) <= k
    <3>1. now \in Int /\ deadline[t] \in Int
      BY <1>2, <2>1
    <3> QED BY <1>2, <3>1, TurnComes
  <2> QED BY <2>1, <2>2 DEF Revolution
<1>5. \A t : Waits(t)' <=> Far(t) /\ Revolution(t) > k
  BY <1>3 DEF Waits
<1>6. \A t \in ToSet(overflow) : t \in Scheduled /\ Far(t) /\ (Waits(t) \/ Stuck(t))
  BY <1>1 DEF InOverflow, Waits, Stuck
<1>7. \A t \in Scheduled : Waits(t) \/ Stuck(t) => t \in ToSet(overflow)
  BY <1>1 DEF InOverflow
<1>8. /\ Scheduled \subseteq Timers
      /\ \A t \in Timers : visits[t] = <<>> <=> Len(visits[t]) = 0
      /\ \A t \in Timers : Len(visits[t]) \in Nat
  BY <1>1, Types
<1>9. ASSUME NEW t \in Pushed
      PROVE  /\ t \in Scheduled /\ Far(t) /\ Fires(t) /\ ~ Fractional(t)
             /\ t \notin OnWheel
             /\ Len(visits[t]) = k - Revolution(t)
             /\ ~ Stuck(t) => Len(visits[t]) = 0
             /\ BucketTime(Slots, deadline[t] \div 2, now) = DueAt(t) + Len(visits[t]) * Slots
  <2>1. /\ t \in Scheduled /\ Far(t) /\ Fires(t) /\ ~ Fractional(t)
        /\ Waits(t) \/ Stuck(t)
        /\ Revolution(t) <= k
        /\ \A u \in Scheduled : u < t /\ Fractional(u) => Revolution(u) > k
        /\ t \in Timers
    BY <1>2, <1>4, <1>6, <1>8 DEF Fires
  <2>2. ASSUME Waits(t)
        PROVE  t \notin OnWheel /\ Len(visits[t]) = k - Revolution(t)
    <3>1. t \notin OnWheel
      BY <1>1, <2>2 DEF InBuckets, OnWheel
    <3>2. Len(visits[t]) = 0
      BY <1>1, <1>8, <2>1, <2>2 DEF Visited
    <3>3. Revolution(t) = k
      BY <1>2, <1>4, <2>1, <2>2 DEF Waits
    <3> QED BY <1>2, <3>1, <3>2, <3>3
  <2>3. ASSUME ~ Waits(t)
        PROVE  t \notin OnWheel /\ Len(visits[t]) = k - Revolution(t)
    <3>1. Stuck(t) /\ Progress(t) /\ Revolution(t) <= Rehomings
      BY <1>1, <1>2, <1>4, <2>1, <2>3 DEF OnTheirWay, Waits
    <3>2. \A u \in Scheduled : u < t /\ Fractional(u) => Revolution(u) > Rehomings
      BY <1>2, <1>4, <2>1
    <3>3. Len(visits[t]) + (IF t \in OnWheel THEN 1 ELSE 0) = Rehomings - Revolution(t) + 1
      BY <3>1, <3>2 DEF Progress
    <3>4. t \notin OnWheel
      <4> SUFFICES ASSUME t \in OnWheel PROVE FALSE
        OBVIOUS
      <4> DEFINE q == Revolution(t)  n == Rehomings
                 b == BucketTime(Slots, deadline[t] \div 2, now)
      <4>1. Len(visits[t]) = n - q /\ q \in Int /\ n \in Int
        BY <1>2, <1>4, <1>8, <2>1, <3>3
      <4>2. b = DueAt(t) + Len(visits[t]) * Slots
        BY <3>1 DEF Progress
      <4>3. DueAt(t) \in (Slots * q)..(Slots * q + Slots - 1)
        BY <1>1, <2>1, DueAfterTurn
      <4>4. b > now
        <5>1. deadline[t] \div 2 \in Int /\ now \in Int
          BY <1>1, <1>2, <2>1, Due
        <5> QED BY <5>1, SlotsType, InTheFuture
      <4>5. now + 1 = Slots * (n + 1)
        BY <1>2
      <4> HIDE DEF q, n, b
      <4>6. /\ (n - q) * Slots = Slots * (n - q) /\ Slots * (n - q) = Slots * n - Slots * q
            /\ Slots * (n + 1) = Slots * n + Slots
            /\ Slots * n \in Int /\ Slots * q \in Int
        BY <4>1, SlotsType, Multiples
      <4>7. b = DueAt(t) + (Slots * n - Slots * q)
        BY <4>1, <4>2, <4>6
      <4> QED BY <1>2, <1>4, <2>1, <4>3, <4>4, <4>5, <4>6, <4>7, SlotsType
    <3> QED BY <1>2, <1>4, <1>8, <2>1, <3>1, <3>3, <3>4
  <2>4. Len(visits[t]) = k - Revolution(t) /\ t \notin OnWheel /\ (~ Stuck(t) => Len(visits[t]) = 0)
    <3>1. ~ Stuck(t) => Len(visits[t]) = 0
      BY <1>1, <1>8, <2>1 DEF Visited
    <3> QED BY <2>2, <2>3, <3>1
  <2>5. BucketTime(Slots, deadline[t] \div 2, now) = DueAt(t) + (k - Revolution(t)) * Slots
    BY <1>1, <1>2, <2>1, VisitAfterRehoming
  <2> QED BY <2>1, <2>4, <2>5
<1>10. ASSUME NEW s \in 0..(Slots - 1)
       PROVE  /\ buckets[s] \in Seq(Timers) /\ buckets'[s] \in Seq(Timers)
              /\ ToSet(buckets'[s]) = ToSet(buckets[s]) \cup (Pushed \cap In(s))
              /\ IsInjective(buckets'[s])
  <2> DEFINE b == buckets[s]  r == Only(list, In(s))
  <2>1. b \in Seq(Timers) /\ IsInjective(b)
    BY <1>1 DEF TypeOK, InBuckets
  <2>2. buckets'[s] = b \o r
    BY DEF Rehomed
  <2>3. r \in Seq(Timers) /\ ToSet(r) = ToSet(list) \cap In(s) /\ IsInjective(r)
    <3> HIDE DEF In
    <3> QED BY OnlyFacts
  <2>4. ToSet(r) = Pushed \cap In(s)
    BY <2>3
  <2>5. ToSet(b) \cap ToSet(r) = {}
    BY <1>9, <2>4 DEF OnWheel
  <2> HIDE DEF r, Pushed, In
  <2>6. b \o r \in Seq(Timers) /\ ToSet(b \o r) = ToSet(b) \cup ToSet(r) /\ IsInjective(b \o r)
    BY <2>1, <2>3, <2>5, ListConcat
  <2> QED BY <2>1, <2>2, <2>4, <2>6
<1>11. TypeOK'
  <2>1. buckets' \in [0..(Slots - 1) -> Seq(Timers)]
    <3>1. \A s \in 0..(Slots - 1) : buckets'[s] \in Seq(Timers)
      BY <1>10
    <3>2. buckets' = [s \in 0..(Slots - 1) |-> buckets'[s]]
      BY DEF Rehomed
    <3> QED BY <3>1, <3>2
  <2> QED BY <1>1, <2>1 DEF TypeOK
<1>12. FractionsAreFar' /\ Counted'
  BY <1>1 DEF FractionsAreFar, Counted
<1>13. InBuckets'
  <2> SUFFICES ASSUME NEW s \in 0..(Slots - 1), NEW t \in ToSet(buckets'[s])
               PROVE  /\ t \in Scheduled /\ Fires(t) /\ ~ Waits(t)'
                      /\ Bucket(deadline[t]) = s /\ deadline[t] < 2 * (now + Slots)
    BY <1>10 DEF InBuckets, Bucket
  <2>1. CASE t \in ToSet(buckets[s])
    <3>1. /\ t \in Scheduled /\ Fires(t) /\ ~ Waits(t)
          /\ Bucket(deadline[t]) = s /\ deadline[t] < 2 * (now + Slots)
      BY <1>1, <2>1 DEF InBuckets
    <3>2. ~ Waits(t)'
      BY <1>2, <1>4, <1>5, <3>1 DEF Waits
    <3> QED BY <3>1, <3>2
  <2>2. CASE t \in Pushed \cap In(s)
    <3>1. t \in Scheduled /\ Fires(t) /\ Near(deadline[t]) /\ Bucket(deadline[t]) = s
      BY <1>9, <2>2
    <3>2. ~ Waits(t)'
      BY <1>2, <1>4, <1>5, <3>1
    <3>3. deadline[t] < 2 * (now + Slots)
      BY <1>2, <1>4, <3>1, SlotsType DEF Near
    <3> QED BY <3>1, <3>2, <3>3
  <2> QED BY <1>10, <2>1, <2>2
<1>14. Visited'
  <2>1. \A t \in Scheduled : ~ Waits(t) => ~ Waits(t)'
    BY <1>2, <1>4, <1>5 DEF Waits
  <2> QED BY <1>1, <2>1 DEF Visited
<1>15. OnWheel' = OnWheel \cup Pushed
  <2>1. OnWheel' = UNION {ToSet(buckets'[s]) : s \in 0..(Slots - 1)}
    BY DEF OnWheel
  <2>2. ASSUME NEW t \in Pushed PROVE \E s \in 0..(Slots - 1) : t \in In(s)
    <3>1. t \in Scheduled /\ Bucket(deadline[t]) \in 0..(Slots - 1)
      BY <1>1, <1>9, Due
    <3> QED BY <3>1
  <2> HIDE DEF Pushed, In
  <2>3. ASSUME NEW t \in OnWheel' PROVE t \in OnWheel \cup Pushed
    <3>1. PICK s \in 0..(Slots - 1) : t \in ToSet(buckets'[s])
      BY <2>1
    <3> QED BY <1>10, <3>1 DEF OnWheel
  <2>4. ASSUME NEW t \in OnWheel PROVE t \in OnWheel'
    <3>1. PICK s \in 0..(Slots - 1) : t \in ToSet(buckets[s])
      BY DEF OnWheel
    <3> QED BY <1>10, <2>1, <3>1
  <2>5. ASSUME NEW t \in Pushed PROVE t \in OnWheel'
    <3>1. PICK s \in 0..(Slots - 1) : t \in In(s)
      BY <2>2
    <3> QED BY <1>10, <2>1, <3>1
  <2> QED BY <2>3, <2>4, <2>5
<1>16. OnTheirWay'
  <2> SUFFICES ASSUME NEW t \in Scheduled, Fires(t), ~ Waits(t)'
               PROVE  Progress(t)'
    BY DEF OnTheirWay
  <2> DEFINE n == Len(visits[t]) + IF t \in OnWheel' THEN 1 ELSE 0
  <2>0. SUFFICES /\ n > 0
                 /\ t \in OnWheel' => BucketTime(Slots, deadline[t] \div 2, now)
                                         = DueAt(t) + Len(visits[t]) * Slots
                 /\ ~ Stuck(t) => n = 1
                 /\ Stuck(t) /\ (\A u \in Scheduled : u < t /\ Fractional(u) => Revolution(u) > k)
                       => n = k - Revolution(t) + 1
    BY <1>3 DEF Progress
  <2>1. t \in Timers /\ Len(visits[t]) \in Nat
    BY <1>8
  <2>2. CASE t \in Pushed
    <3>1. n = Len(visits[t]) + 1
      BY <1>15, <2>2
    <3> HIDE DEF n
    <3> QED BY <1>2, <1>4, <1>9, <2>1, <2>2, <3>1
  <2>3. CASE t \notin Pushed
    <3>1. Far(t) => Near(deadline[t])
      BY <1>2, <1>4, <1>5
    <3>2. ~ Waits(t)
      BY <1>7, <2>3, <3>1 DEF Waits
    <3>3. Progress(t)
      BY <1>1, <3>2 DEF OnTheirWay
    <3>5. ~ (Stuck(t) /\ \A u \in Scheduled : u < t /\ Fractional(u) => Revolution(u) > k)
      BY <1>2, <1>7, <2>3, <3>1 DEF Stuck
    <3>4. t \in OnWheel' <=> t \in OnWheel
      BY <1>15, <2>3
    <3> QED BY <3>3, <3>4, <3>5 DEF Progress
  <2> QED BY <2>2, <2>3
<1> QED BY <1>11, <1>12, <1>13, <1>14, <1>16 DEF IInv

LEMMA NearAtTurn ==
    ASSUME TypeOK, pc = "fired", RevolutionEnds, NEW t \in Scheduled
    PROVE  /\ Near(deadline[t]) <=> Revolution(t) <= Rehomings + 1
           /\ Revolution(t) \in Int /\ Rehomings \in Int
<1>1. now \in Int /\ deadline[t] \in Int
  BY Types
<1>2. Rehomings + 1 \in Int /\ now + 1 = Slots * (Rehomings + 1) /\ Rehomings \in Int
  BY RehomingsType
<1>3. Near(deadline[t]) <=> (deadline[t] + 2) \div (2 * Slots) <= Rehomings + 1
  <2> DEFINE k == Rehomings + 1
  <2>1. k \in Int /\ now + 1 = Slots * k
    BY <1>2
  <2> HIDE DEF k
  <2>2. Near(deadline[t]) <=> (deadline[t] + 2) \div (2 * Slots) <= k
    BY <1>1, <2>1, TurnComes
  <2> QED BY <2>2 DEF k
<1> QED BY <1>2, <1>3, Due DEF Revolution

LEMMA OverflowFacts ==
    ASSUME TypeOK, FractionsAreFar, InOverflow
    PROVE  /\ overflow \in Seq(Timers) /\ Len(overflow) \in Nat
           /\ DOMAIN overflow = 1..Len(overflow)
           /\ IsInjective(overflow)
           /\ \A i \in 1..Len(overflow) : overflow[i] \in ToSet(overflow)
           /\ \A t \in ToSet(overflow) : \E i \in 1..Len(overflow) : overflow[i] = t
           /\ \A t \in ToSet(overflow) : t \in Scheduled /\ Far(t) /\ t \in Int
           /\ \A t \in Scheduled : Fractional(t) => t \in ToSet(overflow)
<1>1. overflow \in Seq(Timers)
  BY DEF TypeOK
<1>2. /\ Len(overflow) \in Nat /\ DOMAIN overflow = 1..Len(overflow)
      /\ \A i \in 1..Len(overflow) : overflow[i] \in Timers
  BY <1>1, LenProperties, ElementOfSeq
<1>3. \A t \in Timers : t \in Int
  BY Bounds DEF Timers
<1>4. IsInjective(overflow)
  BY <1>2, <1>3 DEF InOverflow, IsInjective
<1>5. /\ \A i \in 1..Len(overflow) : overflow[i] \in ToSet(overflow)
      /\ \A t \in ToSet(overflow) : \E i \in 1..Len(overflow) : overflow[i] = t
  BY <1>2 DEF ToSet
<1>6. \A t \in ToSet(overflow) : t \in Scheduled /\ Far(t)
  BY DEF InOverflow, Waits, Stuck
<1>7. \A t \in Scheduled : Fractional(t) => t \in ToSet(overflow)
  <2> SUFFICES ASSUME NEW t \in Scheduled, Fractional(t) PROVE t \in ToSet(overflow)
    OBVIOUS
  <2>1. Revolution(t) \in Int
    BY Due
  <2>2. Stuck(t)
    BY <2>1 DEF FractionsAreFar, Stuck
  <2> QED BY <2>2 DEF InOverflow
<1> QED BY <1>1, <1>2, <1>3, <1>4, <1>5, <1>6, <1>7, Types

LEMMA EndTickIInv ==
    ASSUME IInv, EndTick
    PROVE  IInv'
<1>1. /\ TypeOK /\ FractionsAreFar /\ InOverflow /\ pc = "fired" /\ pc' = "loop"
      /\ UNCHANGED <<now, size, deadline, delay, to, visits>>
      /\ to' \in 0..MaxNow
  BY DEF IInv, EndTick, TypeOK
<1>2. CASE ~ RevolutionEnds
  <2>1. UNCHANGED <<buckets, overflow>>
    BY <1>2 DEF EndTick
  <2>2. Rehomings' = Rehomings
    BY <1>1, <1>2 DEF Rehomings
  <2> QED BY <1>1, <2>1, <2>2, KeepsIInv
<1>3. CASE RevolutionEnds
  <2> USE SameTimers
  <2> DEFINE S == {t \in Scheduled : ~ Near(deadline[t])}
  <2>1. Stumbles = {} /\ buckets' = Rehomed(overflow) /\ overflow' = Only(overflow, S)
    BY <1>3 DEF EndTick
  <2>2. \A t \in Scheduled : Near(deadline[t]) <=> Revolution(t) <= Rehomings + 1
    BY <1>1, <1>3, NearAtTurn
  <2>3. \A t \in Scheduled : Revolution(t) \in Int /\ Rehomings \in Int
    BY <1>1, <1>3, NearAtTurn
  <2>4. /\ overflow \in Seq(Timers) /\ Len(overflow) \in Nat
        /\ DOMAIN overflow = 1..Len(overflow)
        /\ IsInjective(overflow)
        /\ \A t \in ToSet(overflow) : \E i \in 1..Len(overflow) : overflow[i] = t
        /\ \A t \in ToSet(overflow) : t \in Scheduled /\ Far(t) /\ t \in Int
        /\ \A t \in Scheduled : Fractional(t) => t \in ToSet(overflow)
    BY <1>1, OverflowFacts
  <2>5. \A u \in Scheduled : Fractional(u) => Revolution(u) > Rehomings + 1
    <3> SUFFICES ASSUME NEW u \in Scheduled, Fractional(u), Near(deadline[u]) PROVE FALSE
      BY <2>2, <2>3
    <3>1. PICK i \in 1..Len(overflow) : overflow[i] = u
      BY <2>4
    <3> QED BY <2>1, <2>4, <3>1 DEF Stumbles, Fractional
  <2>6. \A t \in ToSet(overflow) : Near(deadline[t]) =>
            /\ Fires(t)
            /\ \A u \in Scheduled : u < t /\ Fractional(u) => Revolution(u) > Rehomings + 1
    <3> SUFFICES ASSUME NEW t \in ToSet(overflow), Near(deadline[t])
                 PROVE  Fires(t)
      BY <2>5
    <3>1. t \in Scheduled /\ Revolution(t) <= Rehomings + 1
      BY <2>2, <2>4
    <3>2. ~ Fractional(t) /\ \A u \in Scheduled : Fractional(u) => Revolution(u) > Revolution(t)
      BY <2>3, <2>5, <3>1
    <3>3. ~ Blocked(t)
      <4> SUFFICES ASSUME NEW u \in Scheduled, Fractional(u), Revolution(u) <= Revolution(t)
                   PROVE  FALSE
        BY DEF Blocked
      <4> QED BY <2>3, <3>1, <3>2
    <3> QED BY <3>2, <3>3 DEF Fires
  <2>7. /\ overflow' \in Seq(Timers) /\ ToSet(overflow') = ToSet(overflow) \cap S
        /\ \A i, j \in DOMAIN overflow' : i < j => overflow'[i] < overflow'[j]
    <3> HIDE DEF S
    <3>1. overflow' \in Seq(Timers) /\ ToSet(overflow') = ToSet(overflow) \cap S
      BY <2>1, <2>4, OnlyFacts
    <3>2. overflow \in Seq(Int)
      <4>1. \A i \in 1..Len(overflow) : overflow[i] \in Int
        BY <2>4 DEF ToSet
      <4> QED BY <2>4, <4>1
    <3>3. \A i, j \in DOMAIN overflow : i < j => overflow[i] < overflow[j]
      BY <1>1 DEF InOverflow
    <3> QED BY <2>1, <3>1, <3>2, <3>3, OnlyOrder
  <2>8. Rehomings' = Rehomings + 1
    <3>1. (now + 1) \div Slots = Rehomings + 1
      BY <1>1, <1>3, RehomingsType
    <3> QED BY <1>1, <3>1 DEF Rehomings
  <2>9. InOverflow'
    <3>1. \A t \in Scheduled : Waits(t)' <=> Far(t) /\ Revolution(t) > Rehomings + 1
      BY <1>1, <2>8 DEF Waits
    <3>2. ASSUME NEW t \in Scheduled
          PROVE  t \in ToSet(overflow') <=> Waits(t)' \/ Stuck(t)
      <4>1. Stuck(t) => Far(t) /\ Revolution(t) > Rehomings + 1
        BY <2>3, <2>5 DEF Stuck
      <4>2. Far(t) /\ Revolution(t) > Rehomings + 1 => Waits(t)
        BY <2>3 DEF Waits
      <4>3. t \in ToSet(overflow) <=> Waits(t) \/ Stuck(t)
        BY <1>1 DEF InOverflow
      <4> QED BY <2>2, <2>3, <2>4, <2>7, <3>1, <4>1, <4>2, <4>3
    <3>3. ToSet(overflow)' = ToSet(overflow')
      OBVIOUS
    <3>4. ToSet(overflow') = {t \in Scheduled : Waits(t)' \/ Stuck(t)}
      BY <2>7, <3>2
    <3> HIDE DEF S
    <3> QED BY <1>1, <2>7, <3>4 DEF InOverflow
  <2> HIDE DEF S
  <2> QED BY <1>1, <1>3, <2>1, <2>4, <2>6, <2>7, <2>9, RehomeIInv
<1> QED BY <1>2, <1>3

LEMMA ThrowsIInv ==
    ASSUME IInv, Throws
    PROVE  IInv'
<1>1. /\ TypeOK /\ FractionsAreFar /\ InOverflow /\ pc = "fired" /\ RevolutionEnds
      /\ pc' = "idle" /\ to' = 0 /\ Stumbles # {}
      /\ UNCHANGED <<now, overflow, size, deadline, delay, visits>>
      /\ to' \in 0..MaxNow
  BY Bounds DEF IInv, Throws
<1> USE SameTimers
<1> DEFINE f == FirstStumble  v == overflow[f]  list == SubSeq(overflow, 1, f - 1)
<1>2. buckets' = Rehomed(list)
  BY DEF Throws
<1>3. \A t \in Scheduled : Near(deadline[t]) <=> Revolution(t) <= Rehomings + 1
  BY <1>1, NearAtTurn
<1>4. \A t \in Scheduled : Revolution(t) \in Int /\ Rehomings \in Int
  BY <1>1, NearAtTurn
<1>5. /\ overflow \in Seq(Timers) /\ Len(overflow) \in Nat
      /\ DOMAIN overflow = 1..Len(overflow)
      /\ IsInjective(overflow)
      /\ \A i \in 1..Len(overflow) : overflow[i] \in ToSet(overflow)
      /\ \A t \in ToSet(overflow) : \E i \in 1..Len(overflow) : overflow[i] = t
      /\ \A t \in ToSet(overflow) : t \in Scheduled /\ Far(t) /\ t \in Int
      /\ \A t \in Scheduled : Fractional(t) => t \in ToSet(overflow)
  BY <1>1, OverflowFacts
<1>6. f \in Stumbles /\ \A j \in Stumbles : f <= j
  <2>1. Stumbles \subseteq Nat
    BY <1>5 DEF Stumbles
  <2>2. \E i \in Stumbles : \A j \in Stumbles : i <= j
    BY <1>1, <2>1, Least
  <2> QED BY <2>2 DEF FirstStumble
<1>7. f \in 1..Len(overflow) /\ Near(deadline[v]) /\ Fractional(v) /\ v \in Scheduled
  BY <1>5, <1>6 DEF Stumbles, Fractional
<1> HIDE DEF f
<1>8. /\ list \in Seq(Timers) /\ Len(list) = f - 1 /\ DOMAIN list = 1..(f - 1)
      /\ \A i \in 1..(f - 1) : list[i] = overflow[i] /\ i \in 1..Len(overflow)
  <2>1. \A i \in 1..(f - 1) : i \in 1..Len(overflow)
    BY <1>5, <1>7
  <2>2. 1 \in 1..(Len(overflow) + 1) /\ f - 1 \in 0..Len(overflow)
    BY <1>5, <1>7
  <2>3. list \in Seq(Timers) /\ Len(list) = f - 1 /\ \A i \in 1..(f - 1) : list[i] = overflow[i]
    BY <1>5, <1>7, <2>2, SubSeqProperties
  <2> QED BY <2>1, <2>3, LenProperties
<1> HIDE DEF list
<1>9. IsInjective(list)
  BY <1>5, <1>8 DEF IsInjective
<1>10. ToSet(list) = {overflow[i] : i \in 1..(f - 1)}
  BY <1>8 DEF ToSet
<1>11. \A i, j \in 1..Len(overflow) : overflow[i] < overflow[j] => i < j
  <2> SUFFICES ASSUME NEW i \in 1..Len(overflow), NEW j \in 1..Len(overflow),
                      overflow[i] < overflow[j], ~ i < j
               PROVE  FALSE
    OBVIOUS
  <2>1. overflow[i] \in Int /\ overflow[j] \in Int
    BY <1>5
  <2>2. j < i \/ j = i
    BY <1>5
  <2>3. j < i => overflow[j] < overflow[i]
    BY <1>1, <1>5 DEF InOverflow
  <2> QED BY <2>1, <2>2, <2>3
(* A fraction is stumbled over at its position, not before. *)
<1>12. ASSUME NEW u \in Scheduled, Fractional(u), Revolution(u) <= Rehomings + 1,
              NEW j \in 1..Len(overflow), overflow[j] = u
       PROVE  f <= j
  BY <1>3, <1>5, <1>6, <1>12 DEF Stumbles, Fractional
<1>13. \A t \in ToSet(list) : Near(deadline[t]) =>
           /\ Fires(t)
           /\ \A u \in Scheduled : u < t /\ Fractional(u) => Revolution(u) > Rehomings + 1
  <2> SUFFICES ASSUME NEW i \in 1..(f - 1), Near(deadline[overflow[i]])
               PROVE  /\ Fires(overflow[i])
                      /\ \A u \in Scheduled : u < overflow[i] /\ Fractional(u) =>
                             Revolution(u) > Rehomings + 1
    BY <1>10
  <2> DEFINE t == overflow[i]
  <2>1. i \in 1..Len(overflow) /\ t \in Scheduled /\ t \in Int /\ i < f
    BY <1>5, <1>7, <1>8
  <2>2. Revolution(t) <= Rehomings + 1
    BY <1>3, <2>1
  <2>3. ~ Fractional(t)
    BY <1>7, <1>12, <2>1, <2>2
  <2>4. ASSUME NEW u \in Scheduled, u < t, Fractional(u)
        PROVE  Revolution(u) > Rehomings + 1
    <3> SUFFICES ASSUME Revolution(u) <= Rehomings + 1 PROVE FALSE
      BY <1>4
    <3>1. PICK j \in 1..Len(overflow) : overflow[j] = u
      BY <1>5, <2>4
    <3>2. j < i
      BY <1>11, <2>1, <2>4, <3>1
    <3>3. f <= j
      BY <1>12, <2>4, <3>1
    <3> QED BY <1>7, <2>1, <3>2, <3>3
  <2>5. ~ Blocked(t)
    <3> SUFFICES ASSUME NEW u \in Scheduled, u < t, Fractional(u),
                        Revolution(u) <= Revolution(t)
                 PROVE  FALSE
      BY DEF Blocked
    <3> QED BY <1>4, <2>1, <2>2, <2>4
  <2> QED BY <2>3, <2>4, <2>5 DEF Fires
<1>14. ASSUME NEW t \in ToSet(overflow), Near(deadline[t]), Fires(t), t \notin ToSet(list)
       PROVE  /\ ~ Waits(t)
              /\ \E u \in Scheduled : /\ u < t /\ Fractional(u)
                                      /\ Revolution(u) <= Rehomings + 1
  <2>1. PICK i \in 1..Len(overflow) : overflow[i] = t
    BY <1>5
  <2>2. t \in Scheduled /\ Far(t) /\ Revolution(t) <= Rehomings + 1
    BY <1>3, <1>5, <1>14
  <2>3. i \notin 1..(f - 1) /\ i # f
    BY <1>7, <1>10, <1>14, <2>1 DEF Fires
  <2>4. f < i
    BY <1>5, <1>7, <2>1, <2>3
  <2>5. v < t
    BY <1>1, <1>5, <1>7, <2>1, <2>4 DEF InOverflow
  <2>6. Revolution(v) <= Rehomings + 1
    BY <1>3, <1>7
  <2>7. ~ Revolution(v) <= Revolution(t)
    BY <1>7, <1>14, <2>2, <2>5 DEF Fires, Blocked
  <2>8. Revolution(t) <= Rehomings
    BY <1>4, <1>7, <2>2, <2>6, <2>7
  <2>9. ~ Waits(t)
    BY <1>4, <2>2, <2>8 DEF Waits
  <2> QED BY <1>7, <2>5, <2>6, <2>9
<1>15. Rehomings' = Rehomings + 1
  <2>1. (now + 1) \div Slots = Rehomings + 1
    BY <1>1, RehomingsType
  <2> QED BY <1>1, <2>1 DEF Rehomings
<1>16. InOverflow'
  <2>1. ASSUME NEW t \in Scheduled
        PROVE  Waits(t) \/ Stuck(t) <=> Waits(t)' \/ Stuck(t)
    <3>1. Waits(t)' <=> Far(t) /\ Revolution(t) > Rehomings + 1
      BY <1>1, <1>15 DEF Waits
    <3>2. Far(t) /\ Revolution(t) = Rehomings + 1 => Stuck(t)
      BY <1>3, <1>7 DEF Stuck
    <3> QED BY <1>4, <3>1, <3>2 DEF Waits
  <2> QED BY <1>1, <2>1 DEF InOverflow
<1>17. \A t \in ToSet(overflow) :
           /\ Near(deadline[t]) /\ Fires(t)
           /\ \/ Waits(t)
              \/ \A u \in Scheduled : u < t /\ Fractional(u) =>
                     Revolution(u) > Rehomings + 1
           => t \in ToSet(list)
  BY <1>4, <1>14
<1>18. ToSet(list) \subseteq ToSet(overflow)
  BY <1>5, <1>8, <1>10
<1> HIDE DEF v
<1> QED BY <1>1, <1>2, <1>5, <1>8, <1>9, <1>13, <1>16, <1>17, <1>18, RehomeIInv

-----------------------------------------------------------------------------
(* The clock *)

(* Visits are at least a tick apart, so there are no more than instants. *)
LEMMA VisitsBound ==
    ASSUME TypeOK, Visited, NEW t \in Timers
    PROVE  Len(visits[t]) <= now
<1> DEFINE n == Len(visits[t])  d == DueAt(t)
<1>1. n \in Nat /\ DOMAIN visits[t] = 1..n /\ now \in Nat
  BY Types
<1>2. CASE n = 0
  BY <1>1, <1>2
<1>3. CASE n # 0
  <2>1. 1 \in 1..n /\ n \in 1..n
    BY <1>1, <1>3
  <2>2. /\ visits[t][1] = d + (1 - 1) * Slots /\ visits[t][1] \in 1..now
        /\ visits[t][n] = d + (n - 1) * Slots /\ visits[t][n] \in 1..now
    BY <1>1, <2>1 DEF Visited
  <2>3. d \in Nat
    <3>1. t \in Scheduled
      BY <1>3, Types DEF Visited
    <3> QED BY <3>1, Due
  <2> DEFINE k == n - 1
  <2>4. k \in Nat /\ n = k + 1
    BY <1>1, <1>3
  <2> HIDE DEF n, d, k
  <2>5. d >= 1
    BY <2>2, <2>3, SlotsType
  <2>6. d + k * Slots <= now
    BY <1>1, <2>2 DEF k
  <2>7. k * Slots >= k
    BY <2>4, SlotsType
  <2> QED BY <1>1, <2>3, <2>4, <2>5, <2>6, <2>7, SlotsType DEF n
<1> QED BY <1>2, <1>3

LEMMA CountedSize ==
    ASSUME NEW v \in [Timers -> Seq(0..MaxNow)], \A t \in Timers : Len(v[t]) <= MaxNow,
           NEW n \in 0..MaxTimers
    PROVE  /\ SumFunction([t \in Timers |-> Len(v[t])]) \in Int
           /\ n - SumFunction([t \in Timers |-> Len(v[t])]) \in -(MaxTimers * MaxNow)..MaxTimers
<1> DEFINE f == [t \in Timers |-> Len(v[t])]  a == SumFunction(f)
<1>1. f \in [Timers -> 0..MaxNow]
  <2>1. \A t \in Timers : Len(v[t]) \in Nat
    BY LenProperties
  <2> QED BY <2>1, Bounds
<1> HIDE DEF f
<1>2. a \in 0..(MaxTimers * MaxNow)
  BY <1>1, TimersFinite, Bounds, SumBounds
<1> HIDE DEF a
<1>3. MaxTimers * MaxNow \in Nat
  BY Bounds
<1>4. a \in Int /\ n - a \in -(MaxTimers * MaxNow)..MaxTimers
  BY <1>2, <1>3, Bounds
<1> QED BY <1>4 DEF a, f

LEMMA TickIInv ==
    ASSUME IInv, Tick
    PROVE  IInv'
<1>1. /\ TypeOK /\ FractionsAreFar /\ InOverflow /\ InBuckets /\ Visited /\ OnTheirWay
      /\ Counted
  BY DEF IInv
<1> USE SameTimers
<1> DEFINE n == now + 1  s0 == n % Slots  b == buckets[s0]  due == DueBy(b, n)
           Here == ToSet(b)
<1>2. /\ pc = "loop" /\ now < to /\ now' = n /\ pc' = "fired"
      /\ UNCHANGED <<overflow, deadline, delay, to>>
      /\ buckets' = [buckets EXCEPT ![s0] = Keep(b, n)]
      /\ size' = size - Len(due)
      /\ visits' = [t \in Timers |-> IF Contains(due, t) THEN Append(visits[t], n)
                                                       ELSE visits[t]]
  BY DEF Tick
<1>3. /\ now \in Nat /\ n \in Nat /\ n <= MaxNow /\ s0 \in 0..(Slots - 1)
      /\ b \in Seq(Timers) /\ IsInjective(b)
  <2>1. now \in Nat /\ n \in Nat
    BY <1>1, Types
  <2>2. s0 \in 0..(Slots - 1)
    BY <2>1, SlotsType, ModType
  <2>3. to \in 0..MaxNow
    BY <1>1 DEF TypeOK
  <2>4. n <= MaxNow
    BY <1>2, <2>1, <2>3, Bounds
  <2>5. b \in Seq(Timers) /\ IsInjective(b)
    BY <1>1, <2>2 DEF TypeOK, InBuckets
  <2> QED BY <2>1, <2>2, <2>4, <2>5
<1>4. /\ Scheduled \subseteq Timers
      /\ \A t \in Scheduled : deadline[t] \in Nat
      /\ \A t \in Timers : /\ visits[t] \in Seq(0..MaxNow) /\ Len(visits[t]) \in Nat
                           /\ DOMAIN visits[t] = 1..Len(visits[t])
  BY <1>1, Types
(* All timers of the bucket are due. *)
<1>5. ASSUME NEW t \in Here
      PROVE  /\ t \in Scheduled /\ Fires(t) /\ ~ Waits(t) /\ Bucket(deadline[t]) = s0
             /\ deadline[t] <= 2 * n
  <2>1. /\ t \in Scheduled /\ Fires(t) /\ ~ Waits(t) /\ Bucket(deadline[t]) = s0
        /\ deadline[t] < 2 * (now + Slots)
    BY <1>1, <1>3 DEF InBuckets
  <2> DEFINE h == deadline[t] \div 2
  <2>2. h \in Nat /\ deadline[t] = 2 * h /\ h % Slots = s0
    BY <1>1, <2>1, Due DEF Fires, Fractional
  <2> HIDE DEF h
  <2>3. h \in Int /\ n \in Int /\ h % Slots = n % Slots /\ h < n + Slots
    BY <1>3, <2>1, <2>2, SlotsType
  <2>4. h <= n
    <3> HIDE DEF n
    <3> QED BY <2>3, SlotsType, ModNotAfter
  <2> QED BY <1>3, <2>1, <2>2, <2>4
<1>6. due \in Seq(Timers) /\ ToSet(due) = Here /\ IsInjective(due)
  <2> DEFINE S == {t \in Scheduled : deadline[t] <= 2 * n}
  <2>1. due = Only(b, S) /\ Here \subseteq S
    BY <1>5 DEF DueBy
  <2> HIDE DEF S, b, due
  <2>2. Only(b, S) \in Seq(Timers) /\ ToSet(Only(b, S)) = ToSet(b) \cap S
        /\ IsInjective(Only(b, S))
    BY <1>3, OnlyFacts
  <2> QED BY <2>1, <2>2
<1>7. Keep(b, n) = <<>>
  <2> DEFINE S == {t \in Scheduled : deadline[t] > 2 * n}
  <2>1. Keep(b, n) = Only(b, S)
    BY DEF Keep
  <2>2. Here \cap S = {}
    BY <1>3, <1>4, <1>5
  <2> HIDE DEF S, b
  <2>3. Only(b, S) \in Seq(Timers) /\ ToSet(Only(b, S)) = {}
    BY <1>3, <2>2, OnlyFacts
  <2> QED BY <2>1, <2>3, ListType
<1>8. /\ \A s \in 0..(Slots - 1) : buckets'[s] = IF s = s0 THEN <<>> ELSE buckets[s]
      /\ \A t \in Timers : visits'[t] = IF t \in Here THEN Append(visits[t], n) ELSE visits[t]
      /\ visits' = [t \in Timers |-> visits'[t]]
      /\ buckets' \in [0..(Slots - 1) -> Seq(Timers)]
  <2>1. \A t \in Timers : Contains(due, t) <=> t \in Here
    BY <1>6, ListType
  <2>2. buckets \in [0..(Slots - 1) -> Seq(Timers)] /\ <<>> \in Seq(Timers)
    BY <1>1, EmptySeq DEF TypeOK
  <2> HIDE DEF due, Here, n, s0, b
  <2> QED BY <1>2, <1>7, <2>1, <2>2
<1> HIDE DEF due
<1>9. Rehomings' = Rehomings
  <2>1. Rehomings = n \div Slots
    BY <1>2 DEF Rehomings
  <2>2. Rehomings' = (IF s0 = Slots - 1 THEN n ELSE n + 1) \div Slots
    BY <1>2 DEF Rehomings, RevolutionEnds
  <2>3. s0 # Slots - 1 => (n + 1) \div Slots = n \div Slots
    <3>1. n \in Int
      BY <1>3
    <3> HIDE DEF n
    <3> QED BY <3>1, SlotsType, DivNext
  <2> QED BY <2>1, <2>2, <2>3
<1>10. \A t : Waits(t)' <=> Waits(t)
  BY <1>2, <1>9 DEF Waits
<1>11. OnWheel' = OnWheel \ Here
  <2>1. OnWheel' = UNION {ToSet(buckets'[s]) : s \in 0..(Slots - 1)}
    BY DEF OnWheel
  <2>2. \A s \in 0..(Slots - 1) : s # s0 => ToSet(buckets[s]) \cap Here = {}
    <3> SUFFICES ASSUME NEW s \in 0..(Slots - 1), NEW t \in ToSet(buckets[s]), t \in Here
                 PROVE  s = s0
      OBVIOUS
    <3> QED BY <1>1, <1>5 DEF InBuckets
  <2>3. ToSet(<<>>) = {}
    BY ListEmpty
  <2> HIDE DEF s0, n
  <2>4. \A s \in 0..(Slots - 1) : ToSet(buckets'[s]) = ToSet(buckets[s]) \ Here
    BY <1>8, <2>2, <2>3
  <2> HIDE DEF Here
  <2> QED BY <2>1, <2>4 DEF OnWheel
<1>12. Here \subseteq OnWheel
  BY <1>3 DEF OnWheel
<1>13. \A t \in Here : /\ t \in Timers /\ t \in Scheduled
                       /\ n = DueAt(t) + Len(visits[t]) * Slots
  <2> TAKE t \in Here
  <2>1. t \in Scheduled /\ Progress(t) /\ t \in OnWheel /\ Bucket(deadline[t]) = s0
    BY <1>1, <1>5, <1>12 DEF OnTheirWay
  <2>2. BucketTime(Slots, deadline[t] \div 2, now) = DueAt(t) + Len(visits[t]) * Slots
    BY <2>1 DEF Progress
  <2>3. BucketTime(Slots, deadline[t] \div 2, now) = NextVisit(Slots, s0, now)
    BY <2>1 DEF BucketTime, Bucket
  <2>4. NextVisit(Slots, s0, now) = n
    <3>1. now \in Int
      BY <1>3
    <3> QED BY <1>3, <3>1, SlotsType, NextVisitStep
  <2> QED BY <1>4, <2>1, <2>2, <2>3, <2>4
<1>14. ASSUME NEW t \in Timers
       PROVE  /\ visits'[t] \in Seq(0..MaxNow)
              /\ t \in Here => Len(visits'[t]) = Len(visits[t]) + 1
              /\ t \notin Here => Len(visits'[t]) = Len(visits[t])
              /\ DOMAIN visits'[t] = 1..Len(visits'[t])
              /\ \A i \in 1..Len(visits[t]) : visits'[t][i] = visits[t][i]
              /\ t \in Here => visits'[t][Len(visits[t]) + 1] = n
  <2>1. CASE t \in Here
    <3>1. visits'[t] = Append(visits[t], n) /\ n \in 0..MaxNow
      BY <1>3, <1>8, <2>1
    <3> HIDE DEF n
    <3> QED BY <1>4, <2>1, <3>1, AppendProperties, LenProperties
  <2>2. CASE t \notin Here
    BY <1>4, <1>8, <2>2
  <2> QED BY <2>1, <2>2
<1> HIDE DEF Here
<1>15. Visited'
  <2> SUFFICES ASSUME NEW t \in Timers
               PROVE  /\ visits'[t] # <<>> => t \in Scheduled /\ Fires(t) /\ ~ Waits(t)
                      /\ \A i \in DOMAIN visits'[t] :
                            /\ visits'[t][i] = DueAt(t) + (i - 1) * Slots
                            /\ visits'[t][i] \in 1..n
    BY <1>2, <1>10 DEF Visited
  <2>1. visits'[t] # <<>> => t \in Scheduled /\ Fires(t) /\ ~ Waits(t)
    <3>1. CASE t \in Here
      BY <1>5, <3>1
    <3>2. CASE t \notin Here
      BY <1>1, <1>8, <3>2 DEF Visited
    <3> QED BY <3>1, <3>2
  <2>2. ASSUME NEW i \in DOMAIN visits'[t]
        PROVE  /\ visits'[t][i] = DueAt(t) + (i - 1) * Slots
               /\ visits'[t][i] \in 1..n
    <3>1. CASE i \in 1..Len(visits[t])
      <4>1. visits'[t][i] = visits[t][i] /\ i \in DOMAIN visits[t]
        BY <1>4, <1>14, <3>1
      <4>2. visits[t][i] = DueAt(t) + (i - 1) * Slots /\ visits[t][i] \in 1..now
        BY <1>1, <4>1 DEF Visited
      <4> QED BY <1>3, <4>1, <4>2
    <3>2. CASE i \notin 1..Len(visits[t])
      <4>0. /\ t \in Here => Len(visits'[t]) = Len(visits[t]) + 1
            /\ t \notin Here => Len(visits'[t]) = Len(visits[t])
            /\ i \in 1..Len(visits'[t]) /\ Len(visits[t]) \in Nat
        BY <1>4, <1>14
      <4>1. t \in Here /\ i = Len(visits[t]) + 1 /\ visits'[t][i] = n
        <5>1. t \in Here /\ i = Len(visits[t]) + 1
          BY <3>2, <4>0
        <5> QED BY <1>14, <5>1
      <4>2. i - 1 = Len(visits[t]) /\ n \in 1..n
        BY <1>3, <1>4, <4>1
      <4> QED BY <1>13, <4>1, <4>2
    <3> QED BY <3>1, <3>2
  <2> QED BY <2>1, <2>2
<1>16. Counted'
  <2> DEFINE f == [t \in Timers |-> Len(visits[t])]  g == [t \in Timers |-> Len(visits'[t])]
  <2>1. f \in [Timers -> Int]
    BY <1>4
  <2>2. g \in [Timers -> Int]
    BY <1>4, <1>14
  <2>3. \A t \in Timers : g[t] = f[t] + IF t \in Here THEN 1 ELSE 0
    <3> TAKE t \in Timers
    <3>1. g[t] = Len(visits'[t]) /\ f[t] = Len(visits[t]) /\ Len(visits[t]) \in Nat
      BY <1>4
    <3>2. CASE t \in Here
      <4>1. g[t] = f[t] + 1
        BY <1>14, <3>1, <3>2
      <4> QED BY <3>2, <4>1
    <3>3. CASE t \notin Here
      <4>1. g[t] = f[t] + 0
        BY <1>14, <3>1, <3>3
      <4> QED BY <3>3, <4>1
    <3> QED BY <3>2, <3>3
  <2>4. Here \in SUBSET Timers
    BY <1>13
  <2> HIDE DEF f, g
  <2>5. SumFunction(g) = SumFunction(f) + Cardinality(Here)
    BY <2>1, <2>2, <2>3, <2>4, TimersFinite, SumIncrement
  <2>6. Len(due) = Cardinality(Here) /\ Len(due) \in Nat
    BY <1>6, ListLength, LenProperties
  <2>7. size = Len(deadline) - SumFunction(f)
    BY <1>1 DEF Counted, f
  <2>8. SumFunction(f) \in Int /\ Len(deadline) \in Nat
    BY <1>1, <2>1, TimersFinite, SumType, Types
  <2>9. size' = Len(deadline) - SumFunction(g)
    <3> DEFINE x == SumFunction(f)  y == SumFunction(g)
    <3>1. x \in Int /\ y = x + Len(due) /\ size = Len(deadline) - x
      BY <2>5, <2>6, <2>7, <2>8
    <3> HIDE DEF x, y
    <3>2. size' = Len(deadline) - y
      BY <1>2, <2>6, <2>8, <3>1
    <3> QED BY <3>2 DEF y
  <2> QED BY <1>2, <2>9 DEF Counted, g
<1>17. TypeOK'
  <2>1. visits' \in [Timers -> Seq(0..MaxNow)]
    BY <1>8, <1>14
  <2>2. \A t \in Timers : Len(visits'[t]) <= MaxNow
    <3> TAKE t \in Timers
    <3>1. Len(visits[t]) <= now
      BY <1>1, VisitsBound
    <3>2. /\ t \in Here => Len(visits'[t]) = Len(visits[t]) + 1
          /\ t \notin Here => Len(visits'[t]) = Len(visits[t])
          /\ Len(visits[t]) \in Nat
      BY <1>4, <1>14
    <3> QED BY <1>3, <3>1, <3>2, Bounds
  <2>3. Len(deadline) \in 0..MaxTimers
    BY <1>1, Types DEF TypeOK
  <2>4. size' \in -(MaxTimers * MaxNow)..MaxTimers
    <3> DEFINE v == visits'
    <3>1. v \in [Timers -> Seq(0..MaxNow)] /\ (\A t \in Timers : Len(v[t]) <= MaxNow)
          /\ size' = Len(deadline) - SumFunction([t \in Timers |-> Len(v[t])])
      BY <1>2, <1>16, <2>1, <2>2 DEF Counted
    <3> HIDE DEF v
    <3> QED BY <2>3, <3>1, CountedSize
  <2>5. now' \in 0..MaxNow
    BY <1>2, <1>3, Bounds
  <2> QED BY <1>1, <1>2, <1>8, <2>1, <2>4, <2>5 DEF TypeOK
<1>18. FractionsAreFar' /\ InOverflow'
  BY <1>1, <1>2, <1>10 DEF FractionsAreFar, InOverflow
<1>19. InBuckets'
  <2> SUFFICES ASSUME NEW s \in 0..(Slots - 1)
               PROVE  /\ IsInjective(buckets'[s])
                      /\ \A t \in ToSet(buckets'[s]) :
                            /\ t \in Scheduled
                            /\ Fires(t) /\ ~ Waits(t)
                            /\ Bucket(deadline[t]) = s
                            /\ deadline[t] < 2 * (n + Slots)
    BY <1>2, <1>10 DEF InBuckets, Bucket
  <2>1. CASE s = s0
    BY <1>8, <2>1, ListEmpty
  <2>2. CASE s # s0
    <3>1. buckets'[s] = buckets[s]
      BY <1>8, <2>2
    <3>2. IsInjective(buckets[s])
      BY <1>1 DEF InBuckets
    <3>3. ASSUME NEW t \in ToSet(buckets[s])
          PROVE  /\ t \in Scheduled
                 /\ Fires(t) /\ ~ Waits(t)
                 /\ Bucket(deadline[t]) = s
                 /\ deadline[t] < 2 * (n + Slots)
      <4>1. /\ t \in Scheduled
            /\ Fires(t) /\ ~ Waits(t)
            /\ Bucket(deadline[t]) = s
            /\ deadline[t] < 2 * (now + Slots)
        BY <1>1 DEF InBuckets
      <4> QED BY <1>3, <1>4, <4>1, SlotsType
    <3> QED BY <3>1, <3>2, <3>3
  <2> QED BY <2>1, <2>2
<1>20. OnTheirWay'
  <2> SUFFICES ASSUME NEW t \in Scheduled, Fires(t), ~ Waits(t)
               PROVE  Progress(t)'
    BY <1>2, <1>10 DEF OnTheirWay
  <2>1. Progress(t) /\ t \in Timers
    BY <1>1, <1>4 DEF OnTheirWay
  <2>2. Len(visits'[t]) + (IF t \in OnWheel' THEN 1 ELSE 0)
            = Len(visits[t]) + (IF t \in OnWheel THEN 1 ELSE 0)
    <3>1. /\ t \in Here => Len(visits'[t]) = Len(visits[t]) + 1
          /\ t \notin Here => Len(visits'[t]) = Len(visits[t])
          /\ Len(visits[t]) \in Nat
      BY <1>4, <1>14, <2>1
    <3>2. /\ t \in Here => t \in OnWheel /\ t \notin OnWheel'
          /\ t \notin Here => (t \in OnWheel <=> t \in OnWheel')
      BY <1>11, <1>12
    <3> DEFINE x == IF t \in OnWheel THEN 1 ELSE 0
               y == IF t \in OnWheel' THEN 1 ELSE 0
    <3>3. /\ t \in Here => x = 1 /\ y = 0
          /\ t \notin Here => x = y
      BY <3>2
    <3>4. x \in Int
      OBVIOUS
    <3> HIDE DEF x, y
    <3>5. Len(visits'[t]) + y = Len(visits[t]) + x
      BY <3>1, <3>3, <3>4
    <3> QED BY <3>5 DEF x, y
  <2>3. t \in OnWheel' => BucketTime(Slots, deadline[t] \div 2, n)
                             = DueAt(t) + Len(visits'[t]) * Slots
    <3> SUFFICES ASSUME t \in OnWheel, t \notin Here
                 PROVE  BucketTime(Slots, deadline[t] \div 2, n)
                             = DueAt(t) + Len(visits[t]) * Slots
      <4>1. t \in OnWheel' => t \in OnWheel /\ t \notin Here
        BY <1>11
      <4>2. t \notin Here => Len(visits'[t]) = Len(visits[t])
        BY <1>4, <1>14, <2>1
      <4> QED BY <4>1, <4>2
    <3>1. PICK s \in 0..(Slots - 1) : t \in ToSet(buckets[s])
      BY DEF OnWheel
    <3>2. s # s0 /\ Bucket(deadline[t]) = s
      BY <1>1, <3>1 DEF InBuckets, Here
    <3>3. NextVisit(Slots, s, now) = NextVisit(Slots, s, n)
      <4>1. now \in Int
        BY <1>3
      <4> QED BY <3>2, <4>1, SlotsType, NextVisitStep
    <3>4. BucketTime(Slots, deadline[t] \div 2, now) = DueAt(t) + Len(visits[t]) * Slots
      BY <2>1 DEF Progress
    <3> QED BY <3>2, <3>3, <3>4 DEF BucketTime, Bucket
  <2> QED BY <1>2, <1>9, <2>1, <2>2, <2>3 DEF Progress
<1> QED BY <1>15, <1>16, <1>17, <1>18, <1>19, <1>20 DEF IInv

-----------------------------------------------------------------------------
(* schedule *)

(* What the registration of a timer, the n-th, means for it and for those  *)
(* that were scheduled before: it can keep them from leaving the overflow  *)
(* list only if they are still waiting there.                              *)
LEMMA RegistersFacts ==
    ASSUME TypeOK, FractionsAreFar, pc = "idle", Len(deadline) < MaxTimers,
           NEW d \in 0..MaxDelay, Registers(d), UNCHANGED <<now, pc>>,
           Near(2 * now + d) => Whole(2 * now + d),
           NEW n, n = Len(deadline) + 1
    PROVE  /\ n \in Timers /\ n \notin Scheduled /\ Scheduled' = Scheduled \cup {n}
           /\ n \in Nat /\ \A t \in Scheduled : t \in Nat /\ t < n
           /\ deadline' \in Seq(0..(2 * MaxNow + MaxDelay)) /\ Len(deadline') = n
           /\ delay' \in Seq(0..MaxDelay) /\ Len(delay') = n
           /\ deadline'[n] = 2 * now + d /\ delay'[n] = d
           /\ \A t \in Scheduled : deadline'[t] = deadline[t] /\ delay'[t] = delay[t]
           /\ \A t \in Scheduled : /\ Revolution(t)' = Revolution(t)
                                   /\ DueAt(t)' = DueAt(t)
                                   /\ Fires(t)' <=> Fires(t)
                                   /\ Waits(t)' <=> Waits(t)
                                   /\ Fractional(t)' <=> Fractional(t)
                                   /\ Stuck(t) => Stuck(t)'
                                   /\ ~ Waits(t) => (Stuck(t)' <=> Stuck(t))
           /\ Rehomings' = Rehomings
           /\ Far(n)' <=> ~ Near(2 * now + d)
           /\ Fractional(n)' => ~ Near(2 * now + d)
           /\ Waits(n)' <=> Far(n)'
           /\ FractionsAreFar'
<1> DEFINE e == 2 * now + d
<1>1. /\ now \in Nat /\ Len(deadline) \in Nat /\ Scheduled = 1..Len(deadline)
      /\ n \in Nat /\ now \in 0..MaxNow /\ d \in Nat
  BY Types, Bounds DEF TypeOK
<1>2. /\ deadline \in Seq(0..(2 * MaxNow + MaxDelay)) /\ delay \in Seq(0..MaxDelay)
      /\ Len(delay) = Len(deadline) /\ e \in 0..(2 * MaxNow + MaxDelay) /\ e \in Nat
      /\ deadline' = Append(deadline, e) /\ delay' = Append(delay, d)
  BY <1>1, Bounds DEF TypeOK, Registers
<1> HIDE DEF e
<1>3. /\ deadline' \in Seq(0..(2 * MaxNow + MaxDelay)) /\ Len(deadline') = n
      /\ delay' \in Seq(0..MaxDelay) /\ Len(delay') = n
      /\ deadline'[n] = e /\ delay'[n] = d
      /\ \A t \in Scheduled : deadline'[t] = deadline[t] /\ delay'[t] = delay[t]
  BY <1>1, <1>2, AppendProperties
<1>4. n \in Timers /\ n \notin Scheduled /\ \A t \in Scheduled : t \in Nat /\ t < n
  BY <1>1, Bounds DEF Timers
<1>5. Scheduled' = Scheduled \cup {n}
  <2>1. Scheduled' = 1..n
    BY <1>3, LenProperties DEF Scheduled
  <2> QED BY <1>1, <2>1
<1>6. \A t \in Scheduled : /\ Revolution(t)' = Revolution(t)
                           /\ Fractional(t)' <=> Fractional(t)
                           /\ Far(t)' <=> Far(t)
                           /\ DueAt(t)' = DueAt(t)
  BY <1>3 DEF Revolution, Fractional, Far, DueAt
<1>7. \A t \in Scheduled : (Blocked(t)' <=> Blocked(t)) /\ (Fires(t)' <=> Fires(t))
  <2>1. \A t \in Scheduled : Blocked(t)' <=> Blocked(t)
    BY <1>1, <1>4, <1>5, <1>6 DEF Blocked
  <2> QED BY <1>6, <2>1 DEF Fires
<1>8. Rehomings' = Rehomings /\ Rehomings \in Int /\ Rehomings = (now + 1) \div Slots
  <2>1. Rehomings \in Int
    BY RehomingsType
  <2> QED BY <2>1 DEF Rehomings
<1>9. \A t \in Scheduled : Waits(t)' <=> Waits(t)
  BY <1>6, <1>8 DEF Waits
<1>10. Far(n)' <=> ~ Near(e)
  <2>1. Far(n)' <=> d >= 2 * Slots
    BY <1>3 DEF Far
  <2> QED BY <1>1, <2>1, SlotsType DEF Near, e
<1>11. Fractional(n)' => ~ Near(e)
  BY <1>3 DEF Fractional, e
<1>12. Far(n)' => Revolution(n)' > Rehomings
  <2> SUFFICES ASSUME ~ Near(e) PROVE (e + 2) \div (2 * Slots) > (now + 1) \div Slots
    BY <1>3, <1>8, <1>10 DEF Revolution
  <2>1. now \in Int /\ e \in Int
    BY <1>1, <1>2
  <2> QED BY <2>1, TurnIsLater
<1>13. Waits(n)' <=> Far(n)'
  BY <1>8, <1>12 DEF Waits
<1>14. FractionsAreFar'
  BY <1>5, <1>6, <1>10, <1>11 DEF FractionsAreFar
<1>15. ASSUME NEW t \in Scheduled
       PROVE  /\ Stuck(t) => Stuck(t)'
              /\ ~ Waits(t) => (Stuck(t)' <=> Stuck(t))
  <2>1. Stuck(t) => Stuck(t)'
    BY <1>5, <1>6 DEF Stuck
  <2>2. ASSUME ~ Waits(t), Stuck(t)'
        PROVE  Stuck(t)
    <3>1. PICK u \in Scheduled' : Fractional(u)' /\ Revolution(u)' <= Revolution(t)' /\ Far(t)'
      BY <2>2 DEF Stuck
    <3>2. u # n
      <4> SUFFICES ASSUME u = n PROVE FALSE
        OBVIOUS
      <4>1. Revolution(n)' > Rehomings /\ Revolution(n)' <= Revolution(t)
        BY <1>6, <1>10, <1>11, <1>12, <3>1
      <4>2. Revolution(t) <= Rehomings
        BY <1>6, <1>8, <2>2, <3>1, Due DEF Waits
      <4>3. Revolution(n)' \in Int /\ Revolution(t) \in Int
        <5>1. Revolution(n)' = (e + 2) \div (2 * Slots)
          BY <1>3 DEF Revolution
        <5>2. 2 * Slots \in Nat \ {0} /\ e + 2 \in Int
          BY <1>2, SlotsType
        <5> QED BY <5>1, <5>2, ModType, Due
      <4> QED BY <1>8, <4>1, <4>2, <4>3
    <3> QED BY <1>5, <1>6, <3>1, <3>2 DEF Stuck
  <2> QED BY <2>1, <2>2
<1> QED BY <1>1, <1>3, <1>4, <1>5, <1>6, <1>7, <1>8, <1>9, <1>10, <1>11, <1>13, <1>14, <1>15 DEF e

(* The new timer is in its bucket or at the end of the overflow list.      *)
LEMMA ScheduleIInv ==
    ASSUME IInv, NEW d \in 0..MaxDelay, ScheduleNear(d) \/ ScheduleFar(d)
    PROVE  IInv'
<1>1. /\ TypeOK /\ FractionsAreFar /\ InOverflow /\ InBuckets /\ Visited /\ OnTheirWay
      /\ Counted
  BY DEF IInv
<1>n. PICK n : n = Len(deadline) + 1
  OBVIOUS
<1>e. PICK e : e = 2 * now + d
  OBVIOUS
<1>2. /\ pc = "idle" /\ Len(deadline) < MaxTimers /\ Registers(d)
      /\ UNCHANGED <<now, pc, to, visits>>
      /\ Near(e) => Whole(e)
      /\ size' = size + 1
  BY <1>e DEF ScheduleNear, ScheduleFar, Registers
<1>3. /\ Near(e) => /\ buckets' = [buckets EXCEPT ![Bucket(e)] = Append(@, n)]
                    /\ overflow' = overflow
      /\ ~ Near(e) => buckets' = buckets /\ overflow' = Append(overflow, n)
  BY <1>n, <1>e DEF ScheduleNear, ScheduleFar
<1>4. /\ n \in Timers /\ n \notin Scheduled /\ Scheduled' = Scheduled \cup {n}
      /\ n \in Nat /\ \A t \in Scheduled : t \in Nat /\ t < n
      /\ deadline' \in Seq(0..(2 * MaxNow + MaxDelay)) /\ Len(deadline') = n
      /\ delay' \in Seq(0..MaxDelay) /\ Len(delay') = n
      /\ deadline'[n] = e /\ delay'[n] = d
      /\ \A t \in Scheduled : deadline'[t] = deadline[t] /\ delay'[t] = delay[t]
      /\ \A t \in Scheduled : /\ Revolution(t)' = Revolution(t)
                              /\ DueAt(t)' = DueAt(t)
                              /\ Fires(t)' <=> Fires(t)
                              /\ Waits(t)' <=> Waits(t)
                              /\ Fractional(t)' <=> Fractional(t)
                              /\ Stuck(t) => Stuck(t)'
                              /\ ~ Waits(t) => (Stuck(t)' <=> Stuck(t))
      /\ Rehomings' = Rehomings
      /\ Far(n)' <=> ~ Near(e)
      /\ Fractional(n)' => ~ Near(e)
      /\ Waits(n)' <=> Far(n)'
      /\ FractionsAreFar'
  BY <1>1, <1>2, <1>n, <1>e, RegistersFacts
<1>5. /\ now \in Nat /\ now' = now /\ Len(deadline) \in Nat /\ n = Len(deadline) + 1
      /\ Scheduled \subseteq Timers /\ \A t \in Scheduled : deadline[t] \in Nat
      /\ \A t \in Timers : visits[t] = <<>> <=> Len(visits[t]) = 0
      /\ d \in Nat /\ e \in Nat
  BY <1>1, <1>2, <1>n, <1>e, Types, Bounds
<1>6. visits[n] = <<>> /\ Len(visits[n]) = 0
  BY <1>1, <1>4, <1>5 DEF Visited
<1>7. Bucket(e) \in 0..(Slots - 1) /\ Bucket(e) = (e \div 2) % Slots /\ e \div 2 \in Nat
      /\ (Near(e) => e = 2 * (e \div 2))
  <2>1. e \div 2 \in Nat /\ (e % 2 = 0 => e = 2 * (e \div 2))
    BY <1>5
  <2>2. (e \div 2) % Slots \in 0..(Slots - 1)
    <3>1. e \div 2 \in Int
      BY <2>1
    <3> QED BY <3>1, SlotsType, ModType
  <2> QED BY <1>2, <2>1, <2>2 DEF Bucket, Whole
<1>8. /\ \A s \in 0..(Slots - 1) : /\ buckets[s] \in Seq(Timers) /\ IsInjective(buckets[s])
                                   /\ ToSet(buckets[s]) \subseteq Scheduled
      /\ overflow \in Seq(Timers) /\ ToSet(overflow) \subseteq Scheduled
      /\ buckets \in [0..(Slots - 1) -> Seq(Timers)]
  <2>1. buckets \in [0..(Slots - 1) -> Seq(Timers)] /\ overflow \in Seq(Timers)
    BY <1>1 DEF TypeOK
  <2>2. \A s \in 0..(Slots - 1) : IsInjective(buckets[s]) /\ ToSet(buckets[s]) \subseteq Scheduled
    BY <1>1 DEF InBuckets
  <2>3. ToSet(overflow) \subseteq Scheduled
    BY <1>1 DEF InOverflow
  <2> QED BY <2>1, <2>2, <2>3
<1>9. ASSUME NEW s \in 0..(Slots - 1)
      PROVE  /\ buckets'[s] \in Seq(Timers) /\ IsInjective(buckets'[s])
             /\ ToSet(buckets'[s]) = ToSet(buckets[s])
                                         \cup {t \in {n} : Near(e) /\ s = Bucket(e)}
  <2>1. CASE Near(e) /\ s = Bucket(e)
    <3> DEFINE b == buckets[s]
    <3>1. b \in Seq(Timers) /\ IsInjective(b) /\ n \notin ToSet(b) /\ n \in Timers
      BY <1>4, <1>8
    <3>2. buckets'[s] = Append(b, n)
      BY <1>3, <1>8, <2>1
    <3> HIDE DEF b
    <3>3. /\ Append(b, n) \in Seq(Timers) /\ ToSet(Append(b, n)) = ToSet(b) \cup {n}
          /\ IsInjective(Append(b, n))
      BY <3>1, ListAppend
    <3> QED BY <2>1, <3>2, <3>3 DEF b
  <2>2. CASE ~ (Near(e) /\ s = Bucket(e))
    <3>1. buckets'[s] = buckets[s]
      BY <1>3, <1>7, <1>8, <2>2
    <3> QED BY <1>8, <2>2, <3>1
  <2> QED BY <2>1, <2>2
<1>10. /\ overflow' \in Seq(Timers)
       /\ ToSet(overflow') = ToSet(overflow) \cup {t \in {n} : ~ Near(e)}
       /\ \A i, j \in DOMAIN overflow' : i < j => overflow'[i] < overflow'[j]
  <2>1. CASE Near(e)
    BY <1>1, <1>3, <1>8, <2>1 DEF InOverflow
  <2>2. CASE ~ Near(e)
    <3>1. overflow' = Append(overflow, n)
      BY <1>3, <2>2
    <3>2. overflow' \in Seq(Timers) /\ ToSet(overflow') = ToSet(overflow) \cup {n}
      BY <1>4, <1>8, <3>1, ListAppend
    <3>3. /\ Len(overflow) \in Nat /\ DOMAIN overflow = 1..Len(overflow)
          /\ DOMAIN overflow' = 1..(Len(overflow) + 1)
          /\ overflow'[Len(overflow) + 1] = n
          /\ \A i \in 1..Len(overflow) : overflow'[i] = overflow[i]
      BY <1>4, <1>8, <3>1, AppendProperties, LenProperties
    <3>4. \A i \in DOMAIN overflow : overflow[i] < n
      BY <1>4, <1>8, <3>3 DEF ToSet
    <3>5. \A i, j \in DOMAIN overflow' : i < j => overflow'[i] < overflow'[j]
      <4> SUFFICES ASSUME NEW i \in DOMAIN overflow', NEW j \in DOMAIN overflow', i < j
                   PROVE  overflow'[i] < overflow'[j]
        OBVIOUS
      <4>1. i \in DOMAIN overflow /\ (j \in DOMAIN overflow \/ j = Len(overflow) + 1)
        BY <3>3
      <4>2. \A k, l \in DOMAIN overflow : k < l => overflow[k] < overflow[l]
        BY <1>1 DEF InOverflow
      <4> QED BY <3>3, <3>4, <4>1, <4>2
    <3> QED BY <2>2, <3>2, <3>5
  <2> QED BY <2>1, <2>2
<1>11. InOverflow'
  <2>1. ASSUME NEW t \in Scheduled'
        PROVE  t \in ToSet(overflow') <=> Waits(t)' \/ Stuck(t)'
    <3>1. CASE t = n
      <4>1. t \notin ToSet(overflow)
        BY <1>4, <1>8, <3>1
      <4>2. Stuck(t)' => Far(t)'
        BY DEF Stuck
      <4> QED BY <1>4, <1>10, <3>1, <4>1, <4>2
    <3>2. CASE t \in Scheduled
      <4>1. t # n
        BY <1>4, <3>2
      <4>2. t \in ToSet(overflow) <=> Waits(t) \/ Stuck(t)
        BY <1>1, <3>2 DEF InOverflow
      <4> QED BY <1>4, <1>10, <3>2, <4>1, <4>2
    <3> QED BY <1>4, <3>1, <3>2
  <2>2. ToSet(overflow') \subseteq Scheduled'
    BY <1>4, <1>8, <1>10
  <2>3. ToSet(overflow') = {t \in Scheduled' : Waits(t)' \/ Stuck(t)'}
    BY <2>1, <2>2
  <2> QED BY <1>10, <2>3 DEF InOverflow
<1>12. Near(e) => Fires(n)' /\ ~ Waits(n)'
  BY <1>4 DEF Fires, Blocked
<1>13. InBuckets'
  <2> SUFFICES ASSUME NEW s \in 0..(Slots - 1), NEW t \in ToSet(buckets'[s])
               PROVE  /\ t \in Scheduled' /\ Fires(t)' /\ ~ Waits(t)'
                      /\ Bucket(deadline'[t]) = s /\ deadline'[t] < 2 * (now + Slots)
    BY <1>5, <1>9 DEF InBuckets, Bucket
  <2>1. CASE t \in ToSet(buckets[s])
    <3>1. /\ t \in Scheduled /\ Fires(t) /\ ~ Waits(t)
          /\ Bucket(deadline[t]) = s /\ deadline[t] < 2 * (now + Slots)
      BY <1>1, <2>1 DEF InBuckets
    <3> QED BY <1>4, <3>1
  <2>2. CASE t = n /\ Near(e) /\ s = Bucket(e)
    <3>1. e < 2 * (now + Slots)
      BY <1>5, <2>2, SlotsType DEF Near
    <3> QED BY <1>4, <1>12, <2>2, <3>1
  <2> QED BY <1>9, <2>1, <2>2
<1>14. Visited'
  <2> SUFFICES ASSUME NEW t \in Timers
               PROVE  /\ visits[t] # <<>> => t \in Scheduled' /\ Fires(t)' /\ ~ Waits(t)'
                      /\ \A i \in DOMAIN visits[t] : /\ visits[t][i] = DueAt(t)' + (i - 1) * Slots
                                                     /\ visits[t][i] \in 1..now
    BY <1>2 DEF Visited
  <2>1. CASE visits[t] = <<>>
    BY <2>1
  <2>2. CASE visits[t] # <<>>
    <3>1. t \in Scheduled /\ Fires(t) /\ ~ Waits(t)
      BY <1>1, <2>2 DEF Visited
    <3>2. DueAt(t)' = DueAt(t) /\ Fires(t)' /\ ~ Waits(t)' /\ t \in Scheduled'
      BY <1>4, <3>1
    <3> QED BY <1>1, <3>2 DEF Visited
  <2> QED BY <2>1, <2>2
<1>15. OnWheel' = OnWheel \cup {t \in {n} : Near(e)}
  <2>1. OnWheel' = UNION {ToSet(buckets'[s]) : s \in 0..(Slots - 1)}
    BY DEF OnWheel
  <2>2. ASSUME NEW t \in OnWheel' PROVE t \in OnWheel \cup {u \in {n} : Near(e)}
    <3>1. PICK s \in 0..(Slots - 1) : t \in ToSet(buckets'[s])
      BY <2>1
    <3> QED BY <1>9, <3>1 DEF OnWheel
  <2>3. ASSUME NEW t \in OnWheel PROVE t \in OnWheel'
    <3>1. PICK s \in 0..(Slots - 1) : t \in ToSet(buckets[s])
      BY DEF OnWheel
    <3> QED BY <1>9, <2>1, <3>1
  <2>4. Near(e) => n \in OnWheel'
    BY <1>7, <1>9, <2>1
  <2> QED BY <2>2, <2>3, <2>4
<1>16. n \notin OnWheel
  BY <1>4, <1>8 DEF OnWheel
<1>17. OnTheirWay'
  <2> SUFFICES ASSUME NEW t \in Scheduled', Fires(t)', ~ Waits(t)'
               PROVE  Progress(t)'
    BY DEF OnTheirWay
  <2>1. CASE t \in Scheduled
    <3>1. Progress(t) /\ t # n
      BY <1>1, <1>4, <2>1 DEF OnTheirWay
    <3>2. t \in OnWheel' <=> t \in OnWheel
      BY <1>15, <3>1
    <3>3. Stuck(t)' <=> Stuck(t)
      BY <1>4, <2>1
    <3>4. /\ DueAt(t)' = DueAt(t) /\ Revolution(t)' = Revolution(t)
          /\ deadline'[t] = deadline[t] /\ Rehomings' = Rehomings
          /\ \A u \in Scheduled : /\ u \in Scheduled'
                                  /\ Fractional(u)' <=> Fractional(u)
                                  /\ Revolution(u)' = Revolution(u)
      BY <1>4, <2>1
    <3> QED BY <1>2, <3>1, <3>2, <3>3, <3>4 DEF Progress
  <2>2. CASE t = n
    <3>1. Near(e) /\ ~ Far(n)' /\ n \in OnWheel'
      BY <1>4, <1>15, <2>2
    <3>2. ~ Stuck(n)'
      BY <3>1 DEF Stuck
    <3> DEFINE h == e \div 2
    <3>3. DueAt(n)' = h + IF d = 0 THEN Slots ELSE 0
      BY <1>4, <3>1 DEF DueAt
    <3>4. h \in now..(now + Slots - 1) /\ (d = 0 <=> h = now)
      <4>1. e = 2 * h /\ h \in Nat
        BY <1>7, <3>1
      <4>2. e - 2 * now < 2 * Slots
        BY <3>1 DEF Near
      <4> HIDE DEF h
      <4> QED BY <1>5, <1>e, <4>1, <4>2, SlotsType
    <3>5. BucketTime(Slots, h, now) = IF h = now THEN now + Slots ELSE h
      <4>1. now \in Int
        BY <1>5
      <4> HIDE DEF h
      <4> QED BY <3>4, <4>1, SlotsType, ScheduledInRange
    <3> HIDE DEF h
    <3>6. BucketTime(Slots, h, now) = DueAt(n)' + 0 * Slots
      BY <1>5, <3>3, <3>4, <3>5, SlotsType
    <3>7. deadline'[n] \div 2 = h
      BY <1>4 DEF h
    <3> QED BY <1>2, <1>6, <2>2, <3>1, <3>2, <3>6, <3>7 DEF Progress
  <2> QED BY <1>4, <2>1, <2>2
<1>18. Counted'
  <2> DEFINE x == SumFunction([t \in Timers |-> Len(visits[t])])
  <2>1. x \in Int
    <3>1. [t \in Timers |-> Len(visits[t])] \in [Timers -> Int]
      BY <1>1, Types
    <3> QED BY <3>1, TimersFinite, SumType
  <2>2. size = Len(deadline) - x
    BY <1>1 DEF Counted
  <2> HIDE DEF x
  <2>3. size' = Len(deadline') - x
    BY <1>2, <1>4, <1>5, <2>1, <2>2
  <2> QED BY <1>2, <2>3 DEF Counted, x
<1>19. TypeOK'
  <2>1. size' \in -(MaxTimers * MaxNow)..MaxTimers
    <3> DEFINE v == visits  m == Len(deadline')
    <3>1. /\ v \in [Timers -> Seq(0..MaxNow)]
          /\ \A t \in Timers : Len(v[t]) <= MaxNow
          /\ size' = m - SumFunction([t \in Timers |-> Len(v[t])])
      <4>1. now <= MaxNow
        BY <1>1, Bounds DEF TypeOK
      <4>2. \A t \in Timers : Len(v[t]) <= now /\ Len(v[t]) \in Nat
        BY <1>1, Types, VisitsBound
      <4>3. v \in [Timers -> Seq(0..MaxNow)]
        BY <1>1 DEF TypeOK
      <4> QED BY <1>2, <1>5, <1>18, <4>1, <4>2, <4>3, Bounds DEF Counted
    <3>2. m \in 0..MaxTimers
      BY <1>2, <1>4, <1>5, Bounds
    <3> HIDE DEF v, m
    <3> QED BY <3>1, <3>2, CountedSize
  <2>2. buckets' \in [0..(Slots - 1) -> Seq(Timers)]
    <3>1. DOMAIN buckets' = 0..(Slots - 1) /\ buckets' = [s \in DOMAIN buckets' |-> buckets'[s]]
      BY <1>3, <1>8
    <3> QED BY <1>9, <3>1
  <2>3. Len(deadline') <= MaxTimers
    BY <1>2, <1>4, <1>5, Bounds
  <2> QED BY <1>1, <1>2, <1>4, <1>10, <2>1, <2>2, <2>3 DEF TypeOK
<1> QED BY <1>4, <1>11, <1>13, <1>14, <1>17, <1>18, <1>19 DEF IInv

LEMMA StutterIInv ==
    ASSUME IInv, UNCHANGED vars
    PROVE  IInv'
<1>1. Rehomings' = Rehomings
  BY DEF vars, Rehomings, RevolutionEnds
<1> QED BY <1>1, KeepsIInv DEF vars, IInv, TypeOK

LEMMA InitIInv == Init => IInv
<1> SUFFICES ASSUME Init PROVE IInv
  OBVIOUS
<1>1. /\ Scheduled = {} /\ deadline = <<>> /\ Len(deadline) = 0
      /\ overflow = <<>> /\ ToSet(overflow) = {} /\ DOMAIN overflow = {}
      /\ \A s \in 0..(Slots - 1) :
            buckets[s] = <<>> /\ IsInjective(buckets[s]) /\ ToSet(buckets[s]) = {}
      /\ \A t \in Timers : visits[t] = <<>> /\ Len(visits[t]) = 0 /\ DOMAIN visits[t] = {}
  BY ListEmpty DEF Init, Scheduled
<1>2. -(MaxTimers * MaxNow) <= 0 /\ MaxTimers * MaxNow \in Nat
  BY Bounds
<1>3. TypeOK
  <2>1. /\ now = 0 /\ size = 0 /\ deadline = <<>> /\ delay = <<>> /\ pc = "idle" /\ to = 0
        /\ overflow \in Seq(Timers)
        /\ buckets \in [0..(Slots - 1) -> Seq(Timers)]
        /\ visits \in [Timers -> Seq(0..MaxNow)]
    BY DEF Init
  <2>2. 0 \in -(MaxTimers * MaxNow)..MaxTimers
    BY <1>2, Bounds
  <2> QED BY <1>1, <2>1, <2>2, Bounds DEF TypeOK
<1>4. Counted
  <2> DEFINE f == [t \in Timers |-> Len(visits[t])]
  <2>1. f \in [Timers -> Int] /\ \A t \in Timers : f[t] = 0
    BY <1>1
  <2> HIDE DEF f
  <2>2. SumFunction(f) = 0
    BY <2>1, TimersFinite, SumZero
  <2>3. size = 0
    BY DEF Init
  <2> QED BY <1>1, <2>2, <2>3 DEF Counted, f
<1>5. FractionsAreFar /\ OnTheirWay
  BY <1>1 DEF FractionsAreFar, OnTheirWay
<1>6. InOverflow
  BY <1>1 DEF InOverflow
<1>7. InBuckets /\ Visited
  BY <1>1 DEF InBuckets, Visited
<1> QED BY <1>3, <1>4, <1>5, <1>6, <1>7 DEF IInv

-----------------------------------------------------------------------------
(* The theorems *)

(* Whatever fractions are scheduled and however often the loop of tick     *)
(* throws at them, every timer is in the lists that its turn, its place in *)
(* the overflow list and its visits so far put it in, and size is the      *)
(* number of timers less that of the visits.                               *)
THEOREM Invariance == Spec => []IInv
<1>1. ASSUME IInv, [Next]_vars
      PROVE  IInv'
  <2>1. CASE \E d \in 0..MaxDelay : ScheduleNear(d) \/ ScheduleFar(d) \/ ScheduleThrows(d)
    <3>1. PICK d \in 0..MaxDelay : ScheduleNear(d) \/ ScheduleFar(d) \/ ScheduleThrows(d)
      BY <2>1
    <3>2. CASE ScheduleNear(d) \/ ScheduleFar(d)
      BY <1>1, <3>2, ScheduleIInv
    <3>3. CASE ScheduleThrows(d)
      BY <1>1, <3>3, StutterIInv DEF ScheduleThrows
    <3> QED BY <3>1, <3>2, <3>3
  <2>2. CASE \E n \in 0..MaxNow : Advance(n)
    BY <1>1, <2>2, AdvanceIInv
  <2>3. CASE AdvanceReturns
    BY <1>1, <2>3, AdvanceReturnsIInv
  <2>4. CASE Tick
    BY <1>1, <2>4, TickIInv
  <2>5. CASE EndTick
    BY <1>1, <2>5, EndTickIInv
  <2>6. CASE Throws
    BY <1>1, <2>6, ThrowsIInv
  <2>7. CASE UNCHANGED vars
    BY <1>1, <2>7, StutterIInv
  <2> QED BY <1>1, <2>1, <2>2, <2>3, <2>4, <2>5, <2>6, <2>7 DEF Next
<1> QED BY InitIInv, <1>1, PTL DEF Spec

(* The lists hold timers and nothing else, the clock does not pass the     *)
(* instant that advance was given, and size, which timers that fire again  *)
(* make negative, stays within the timers and the instants there are.      *)
THEOREM TypeCorrectness == Spec => []TypeOK
<1>1. IInv => TypeOK
  BY DEF IInv
<1> QED BY <1>1, Invariance, PTL

LEMMA FirstVisitsFollow == IInv => FirstVisits
<1> SUFFICES ASSUME IInv, NEW t \in Scheduled
             PROVE  IF Fractional(t) \/ Blocked(t) THEN visits[t] = <<>>
                    ELSE /\ visits[t] # <<>> => Head(visits[t]) = DueAt(t)
                         /\ pc = "idle" /\ DueAt(t) <= now => visits[t] # <<>>
  BY DEF FirstVisits
<1>1. TypeOK /\ Visited /\ OnTheirWay
  BY DEF IInv
<1>2. /\ t \in Timers /\ now \in Nat /\ DueAt(t) \in Nat /\ Revolution(t) \in Int
      /\ deadline[t] \div 2 \in Int /\ now \in Int
      /\ Len(visits[t]) \in Nat /\ DOMAIN visits[t] = 1..Len(visits[t])
      /\ visits[t] = <<>> <=> Len(visits[t]) = 0
  BY <1>1, Types, Due
<1>3. CASE Fractional(t) \/ Blocked(t)
  BY <1>1, <1>2, <1>3 DEF Visited, Fires
<1>4. CASE Fires(t)
  <2>1. ASSUME visits[t] # <<>>
        PROVE  Head(visits[t]) = DueAt(t)
    <3>1. 1 \in DOMAIN visits[t]
      BY <1>2, <2>1
    <3>2. visits[t][1] = DueAt(t) + (1 - 1) * Slots
      BY <1>1, <1>2, <3>1 DEF Visited
    <3>3. (1 - 1) * Slots = 0 /\ Head(visits[t]) = visits[t][1]
      BY SlotsType
    <3> QED BY <1>2, <3>2, <3>3
  <2>2. ASSUME pc = "idle", DueAt(t) <= now, visits[t] = <<>>
        PROVE  FALSE
    <3>1. CASE Waits(t)
      <4> DEFINE q == Revolution(t)  k == (now + 1) \div Slots
      <4>1. Far(t) /\ q > k
        BY <1>1, <2>2, <3>1, RehomingsType DEF Waits
      <4>2. DueAt(t) \in (Slots * q)..(Slots * q + Slots - 1)
        BY <1>1, <1>4, <4>1, DueAfterTurn DEF Fires
      <4>3. /\ k \in Int /\ now + 1 = Slots * k + ((now + 1) % Slots)
            /\ (now + 1) % Slots \in 0..(Slots - 1)
        <5>1. now + 1 \in Int
          BY <1>2
        <5> QED BY <5>1, SlotsType, ModType
      <4> HIDE DEF q, k
      <4>4. /\ q \in Int /\ k + 1 \in Int /\ Slots * q \in Int /\ Slots * k \in Int
            /\ Slots * (k + 1) <= Slots * q /\ Slots * (k + 1) = Slots * k + Slots
        <5>1. q \in Int /\ k + 1 <= q /\ k + 1 \in Int /\ Slots \in Nat
          BY <1>2, <4>1, <4>3, SlotsType DEF q
        <5>2. Slots * (k + 1) = Slots * k + Slots
          BY <4>3, SlotsType
        <5> QED BY <4>3, <5>1, <5>2, Multiples
      <4> QED BY <1>2, <2>2, <4>2, <4>3, <4>4, SlotsType
    <3>2. CASE ~ Waits(t)
      <4>1. Progress(t) /\ Len(visits[t]) = 0
        BY <1>1, <1>2, <1>4, <2>2, <3>2 DEF OnTheirWay
      <4>2. /\ t \in OnWheel
            /\ BucketTime(Slots, deadline[t] \div 2, now) = DueAt(t) + 0 * Slots
        BY <4>1 DEF Progress
      <4>3. BucketTime(Slots, deadline[t] \div 2, now) > now
        BY <1>2, SlotsType, InTheFuture
      <4>4. 0 * Slots = 0
        BY SlotsType
      <4> QED BY <1>2, <2>2, <4>2, <4>3, <4>4
    <3> QED BY <3>1, <3>2
  <2> QED BY <1>4, <2>1, <2>2 DEF Fires
<1> QED BY <1>3, <1>4 DEF Fires

(* A fraction keeps from firing only itself and the timers behind it in    *)
(* the overflow list whose turn is not before its own: all others are      *)
(* counted out at their deadline, and have been by the time advance is     *)
(* over, whether it returned or threw (the throw of tick's loop).          *)
THEOREM FirstVisitsAreKept == Spec => []FirstVisits
BY Invariance, FirstVisitsFollow, PTL

LEMMA FurtherVisitsFollow == IInv => FurtherVisits
<1> SUFFICES ASSUME IInv, NEW t \in Scheduled
             PROVE  /\ Len(visits[t]) > 1 => Repeated(t)
                    /\ \A i \in DOMAIN visits[t] :
                          visits[t][i] = Head(visits[t]) + (i - 1) * Slots
  BY DEF FurtherVisits
<1>1. TypeOK /\ Visited /\ OnTheirWay
  BY DEF IInv
<1>2. /\ t \in Timers /\ DueAt(t) \in Nat
      /\ Len(visits[t]) \in Nat /\ DOMAIN visits[t] = 1..Len(visits[t])
      /\ visits[t] = <<>> <=> Len(visits[t]) = 0
      /\ \A u \in Scheduled : u \in Nat
  BY <1>1, Types, Due
<1>3. ASSUME Len(visits[t]) > 1
      PROVE  Repeated(t)
  <2>1. Fires(t) /\ ~ Waits(t)
    BY <1>1, <1>2, <1>3 DEF Visited
  <2>2. Progress(t)
    BY <1>1, <2>1 DEF OnTheirWay
  <2>3. Stuck(t)
    <3>1. ~ Stuck(t) => Len(visits[t]) + (IF t \in OnWheel THEN 1 ELSE 0) = 1
      BY <2>2 DEF Progress
    <3> DEFINE x == IF t \in OnWheel THEN 1 ELSE 0
    <3>2. x \in Nat /\ (~ Stuck(t) => Len(visits[t]) + x = 1)
      BY <3>1
    <3> HIDE DEF x
    <3> QED BY <1>2, <1>3, <3>2
  <2>4. PICK u \in Scheduled : Fractional(u) /\ Revolution(u) <= Revolution(t)
    BY <2>3 DEF Stuck
  <2>5. Far(t) /\ ~ (u < t) /\ u # t
    BY <2>1, <2>3, <2>4 DEF Stuck, Fires, Blocked
  <2>6. u > t
    BY <1>2, <2>5
  <2> QED BY <2>4, <2>5, <2>6 DEF Repeated
<1>4. ASSUME NEW i \in DOMAIN visits[t]
      PROVE  visits[t][i] = Head(visits[t]) + (i - 1) * Slots
  <2>1. 1 \in DOMAIN visits[t]
    BY <1>2
  <2>2. visits[t][1] = DueAt(t) + (1 - 1) * Slots /\ visits[t][i] = DueAt(t) + (i - 1) * Slots
    BY <1>1, <1>2, <2>1 DEF Visited
  <2>3. (1 - 1) * Slots = 0 /\ Head(visits[t]) = visits[t][1]
    BY SlotsType
  <2> QED BY <1>2, <2>2, <2>3
<1> QED BY <1>3, <1>4

(* No timer fires twice without a fraction behind it in the overflow list  *)
(* whose turn is not later, and those that do fire at most once in a       *)
(* revolution, from their deadline on without a gap.                       *)
THEOREM FurtherVisitsAreSpaced == Spec => []FurtherVisits
BY Invariance, FurtherVisitsFollow, PTL

(* The timers that are still to fire for the first time. *)
Live == {t \in Scheduled : visits[t] = <<>>}

(* size is the number of live timers as long as none can have fired twice, *)
(* and otherwise is too small rather than too large.                       *)
SizeCountsLive == /\ size <= Cardinality(Live)
                  /\ (\A t \in Scheduled : ~ Repeated(t)) => SizeIsLive

LEMMA SizeFollows == IInv => SizeCountsLive
<1> SUFFICES ASSUME IInv PROVE SizeCountsLive
  OBVIOUS
<1>1. TypeOK /\ Visited /\ Counted /\ FurtherVisits
  BY FurtherVisitsFollow DEF IInv
<1> DEFINE Gone == Scheduled \ Live
           f == [t \in Timers |-> IF t \in Gone THEN Len(visits[t]) - 1 ELSE 0]
           g == [t \in Timers |-> Len(visits[t])]
           a == SumFunction(f)  b == SumFunction(g)
           m == Cardinality(Live)  k == Cardinality(Gone)
<1>2. /\ Len(deadline) \in Nat /\ Scheduled = 1..Len(deadline) /\ Scheduled \subseteq Timers
      /\ \A t \in Timers : Len(visits[t]) \in Nat /\ (visits[t] = <<>> <=> Len(visits[t]) = 0)
      /\ now \in Nat /\ now <= MaxNow
  BY <1>1, Types, Bounds DEF TypeOK
<1>3. /\ \A t \in Timers : t \notin Gone => Len(visits[t]) = 0
      /\ \A t \in Gone : Len(visits[t]) > 0
  BY <1>1, <1>2 DEF Live, Visited
<1>4. \A t \in Timers : Len(visits[t]) <= MaxNow
  <2> TAKE t \in Timers
  <2>1. Len(visits[t]) <= now
    BY <1>1, VisitsBound
  <2> QED BY <1>2, <2>1, Bounds
<1>5. Len(deadline) = m + k /\ m \in Nat /\ k \in Nat
  <2>1. IsFiniteSet(Scheduled) /\ Cardinality(Scheduled) = Len(deadline)
    <3> DEFINE l == Len(deadline)
    <3>1. l \in Nat /\ Scheduled = 1..l
      BY <1>2
    <3> HIDE DEF l
    <3>2. /\ IsFiniteSet(1..l)
          /\ Cardinality(1..l) = IF 1 > l THEN 0 ELSE l - 1 + 1
      BY <3>1, FS_Interval
    <3>3. Cardinality(1..l) = l
      BY <3>1, <3>2
    <3> QED BY <3>1, <3>2, <3>3 DEF l
  <2>2. IsFiniteSet(Live) /\ IsFiniteSet(Gone)
    BY <2>1, FS_Subset DEF Live
  <2>3. Live \cap Gone = {} /\ Live \cup Gone = Scheduled
    BY DEF Live
  <2> HIDE DEF Gone
  <2>4. /\ Cardinality(Live \cup Gone)
              = Cardinality(Live) + Cardinality(Gone) - Cardinality(Live \cap Gone)
        /\ Cardinality(Live \cap Gone) = 0
        /\ m \in Nat /\ k \in Nat
    BY <2>2, <2>3, FS_Union, FS_EmptySet, FS_CardinalityType
  <2> HIDE DEF m, k
  <2>5. m \in Nat /\ k \in Nat
    BY <2>4
  <2>6. Cardinality(Scheduled) = m + k - 0
    BY <2>3, <2>4 DEF m, k
  <2> QED BY <2>1, <2>5, <2>6
<1>6. f \in [Timers -> 0..MaxNow] /\ f \in [Timers -> Int] /\ g \in [Timers -> Int]
  BY <1>2, <1>3, <1>4, Bounds
<1>7. \A t \in Timers : g[t] = f[t] + IF t \in Gone THEN 1 ELSE 0
  BY <1>2, <1>3
<1>8. (\A t \in Scheduled : ~ Repeated(t)) => \A t \in Timers : f[t] = 0
  <2> SUFFICES ASSUME \A t \in Scheduled : ~ Repeated(t), NEW t \in Gone
               PROVE  Len(visits[t]) - 1 = 0
    BY <1>2
  <2>1. t \in Scheduled /\ t \in Timers
    BY <1>2
  <2>2. ~ (Len(visits[t]) > 1)
    BY <1>1, <2>1 DEF FurtherVisits
  <2> DEFINE l == Len(visits[t])
  <2>3. l > 0 /\ l \in Nat /\ ~ (l > 1)
    BY <1>2, <1>3, <2>1, <2>2
  <2> HIDE DEF l
  <2>4. l - 1 = 0
    BY <2>3
  <2> QED BY <2>4 DEF l
<1>9. size = Len(deadline) - b
  BY <1>1 DEF Counted
<1>10. Gone \in SUBSET Timers
  BY <1>2
<1> HIDE DEF Gone, f, g
<1>11. a \in Int /\ a >= 0 /\ b = a + k
  <2>1. a \in Int
    BY <1>6, TimersFinite, SumType
  <2>2. a \in 0..(Cardinality(Timers) * MaxNow)
    BY <1>6, TimersFinite, Bounds, SumBounds
  <2>3. b = a + k
    BY <1>6, <1>7, <1>10, TimersFinite, SumIncrement
  <2> QED BY <2>1, <2>2, <2>3
<1>12. (\A t \in Scheduled : ~ Repeated(t)) => a = 0
  BY <1>6, <1>8, TimersFinite, SumZero
<1> HIDE DEF a, b, m, k
<1>13. size = m - a
  BY <1>5, <1>9, <1>11
<1> QED BY <1>5, <1>11, <1>12, <1>13 DEF SizeCountsLive, SizeIsLive, Live, m

(* The getter size, which the documentation calls the number of live       *)
(* timers, is that number unless a timer of the overflow list has a        *)
(* fraction behind it, and never more than it: the timers that fire again  *)
(* are taken off it once too often.                                        *)
THEOREM SizeIsAtMostLive == Spec => []SizeCountsLive
BY Invariance, SizeFollows, PTL

=============================================================================
