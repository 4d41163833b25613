------------------------- MODULE TimingWheel_proofs -------------------------
(***************************************************************************)
(* The timing wheel for every number of slots, timers, delays, instants    *)
(* and panics: where its timers are, when they fire, and that it           *)
(* implements TimerService.                                                *)
(***************************************************************************)
EXTENDS TimingWheel, DataLemmas

-----------------------------------------------------------------------------
(* Instants *)

LEMMA SlotsType == Slots \in Nat \ {0}
  BY WheelAssumption

LEMMA HomeType ==
    ASSUME NEW d \in Int
    PROVE  Home(d) \in 0..(Slots - 1)
  BY SlotsType, ModType DEF Home

-----------------------------------------------------------------------------
(* Places *)

(* FiringTime, by the place of the timer. *)
FiringTimes ==
    /\ \A t \in ToSet(overflow) :
          FiringTime(t) = OverflowTime(Slots, deadline[t], NextRehoming)
    /\ \A t \in ToSet(todo) :
          FiringTime(t) = IF pc = "rehome" THEN OverflowTime(Slots, deadline[t], now) ELSE now
    /\ \A t \in ToSet(due) : pc # "rehome" => FiringTime(t) = now
    /\ \A t \in OnWheel : FiringTime(t) = BucketTime(Slots, deadline[t], now)

LEMMA FiringTimeByPlace == TypeOK /\ Apart => FiringTimes
<1> SUFFICES ASSUME TypeOK, Apart PROVE FiringTimes
  OBVIOUS
<1>1. overflow \in Seq(Timers) /\ todo \in Seq(Timers) /\ due \in Seq(Timers)
  BY DEF TypeOK
<1>2. /\ \A t : Contains(overflow, t) <=> t \in ToSet(overflow)
      /\ \A t : Contains(todo, t) <=> t \in ToSet(todo)
      /\ \A t : Contains(todo \o due, t) <=> t \in ToSet(todo) \cup ToSet(due)
  BY <1>1, ListType, ListConcat
<1>3. ASSUME NEW t \in ToSet(overflow)
      PROVE  FiringTime(t) = OverflowTime(Slots, deadline[t], NextRehoming)
  <2>1. Contains(overflow, t) /\ ~ Contains(todo, t) /\ ~ Contains(todo \o due, t)
    BY <1>2 DEF Apart
  <2> QED BY <2>1 DEF FiringTime, OverflowTime
<1>4. ASSUME NEW t \in ToSet(todo)
      PROVE  FiringTime(t) = IF pc = "rehome" THEN OverflowTime(Slots, deadline[t], now)
                                              ELSE now
  <2>1. ~ Contains(overflow, t) /\ Contains(todo, t) /\ Contains(todo \o due, t)
    BY <1>2 DEF Apart
  <2> QED BY <2>1 DEF FiringTime, OverflowTime
<1>5. ASSUME NEW t \in ToSet(due), pc # "rehome"
      PROVE  FiringTime(t) = now
  <2>1. ~ Contains(overflow, t) /\ Contains(todo \o due, t)
    BY <1>2 DEF Apart
  <2> QED BY <1>5, <2>1 DEF FiringTime
<1>6. ASSUME NEW t \in OnWheel
      PROVE  FiringTime(t) = BucketTime(Slots, deadline[t], now)
  <2>1. ~ Contains(overflow, t) /\ ~ Contains(todo, t) /\ ~ Contains(todo \o due, t)
    BY <1>2 DEF Apart
  <2> QED BY <2>1 DEF FiringTime, BucketTime
<1> QED BY <1>3, <1>4, <1>5, <1>6 DEF FiringTimes

LEMMA FiringTimeByPlaceNext == (TypeOK /\ Apart => FiringTimes)'
  BY FiringTimeByPlace, PTL

-----------------------------------------------------------------------------
(* What every step needs *)

LEMMA Types ==
    ASSUME TypeOK
    PROVE  /\ Slots \in Nat \ {0} /\ now \in Nat /\ Slot \in 0..(Slots - 1)
           /\ buckets \in [0..(Slots - 1) -> Seq(Timers)]
           /\ overflow \in Seq(Timers) /\ todo \in Seq(Timers) /\ due \in Seq(Timers)
           /\ \A t \in Timers : deadline[t] \in Nat
           /\ NextRehoming \in Int /\ NextRehoming >= now
<1>1. Slots \in Nat \ {0} /\ now \in Nat /\ \A t \in Timers : deadline[t] \in Nat
  BY WheelAssumption DEF TypeOK
<1>2. Slot \in 0..(Slots - 1)
  BY <1>1, ModType DEF Slot
<1>3. NextVisit(Slots, Slots - 1, now) \in (now + 1)..(now + Slots)
  BY <1>1, SlotsType, NextVisitType
<1>4. NextRehoming \in Int /\ NextRehoming >= now
  BY <1>1, <1>3 DEF NextRehoming
<1> QED BY <1>1, <1>2, <1>4 DEF TypeOK

(* At the end of a revolution the overflow list is next re-homed at the end*)
(* of the one that follows.                                                *)
LEMMA NextRevolution ==
    ASSUME TypeOK, RevolutionEnds
    PROVE  NextVisit(Slots, Slots - 1, now) = now + Slots
<1> DEFINE q == Slots - 1  v == now + Slots
<1>1. /\ Slots \in Nat \ {0} /\ now \in Int /\ now \in Nat
      /\ q \in 0..(Slots - 1) /\ now % Slots = q
  BY Types DEF RevolutionEnds, Slot
<1>2. v \in (now + 1)..(now + Slots)
  BY <1>1
<1>3. v % Slots = now % Slots
  BY <1>1, ModAddOne
<1> HIDE DEF q, v
<1>4. NextVisit(Slots, q, now) = v
  BY <1>1, <1>2, <1>3, SlotsType, NextVisitOf
<1> QED BY <1>4 DEF q, v

(* The clock passes no timer: what is in a bucket or in the overflow list  *)
(* will fire later than now.                                               *)
LEMMA NonePassed ==
    ASSUME TypeOK, Apart, NEW t \in Timers, t \in OnWheel \cup ToSet(overflow)
    PROVE  FiringTime(t) \in Int /\ FiringTime(t) > now
<1> DEFINE d == deadline[t]  r == NextRehoming
<1>1. /\ now \in Int /\ d \in Int /\ r \in Int /\ r >= now
  BY Types
<1>2. FiringTime(t) \in {BucketTime(Slots, d, now), OverflowTime(Slots, d, r)}
  BY FiringTimeByPlace DEF FiringTimes
<1> HIDE DEF d, r
<1>3. /\ BucketTime(Slots, d, now) \in Int /\ BucketTime(Slots, d, now) > now
      /\ OverflowTime(Slots, d, r) \in Int /\ OverflowTime(Slots, d, r) > r
  BY <1>1, SlotsType, InTheFuture
<1> QED BY <1>1, <1>2, <1>3

LEMMA TimersFinite ==
    ASSUME NEW S, S \subseteq Timers
    PROVE  IsFiniteSet(S) /\ Cardinality(S) \in 0..MaxTimers
<1>1. MaxTimers \in Nat
  BY WheelAssumption
<1>2. IsFiniteSet(Timers) /\ Cardinality(Timers) = MaxTimers
  BY <1>1, FS_Interval DEF Timers
<1> QED BY <1>1, <1>2, FS_Subset, FS_CardinalityType

LEMMA OnWheelDef ==
    \A t : t \in OnWheel <=> \E s \in 0..(Slots - 1) : t \in ToSet(buckets[s])
  BY DEF OnWheel

LEMMA OnWheelDefNext ==
    \A t : t \in OnWheel' <=> \E s \in 0..(Slots - 1) : t \in ToSet(buckets'[s])
  BY DEF OnWheel

(* A step keeps the instant at which a timer fires. *)
FixedTimes ==
    \A t \in Timers :
        fate[t] = "held" /\ fate'[t] = "held" => FiringTime(t)' = FiringTime(t)

(* The count goes on, or starts anew when advance is called or left. *)
CountKept ==
    \/ UNCHANGED <<fired, before>> /\ (pc = "idle" => pc' = "idle")
    \/ fired' = 0 /\ before' = With("fired")
    \/ fired' = 0 /\ before' = {} /\ pc' = "idle"

LEMMA PunctualKept ==
    ASSUME Partition, FixedTimes, UNCHANGED panics,
           \A t \in Timers : fate'[t] = "held" =>
               fate[t] = "held" /\ deadline'[t] = deadline[t] /\ delay'[t] = delay[t]
    PROVE  Punctual'
<1> SUFFICES ASSUME panics' = 0, NEW t \in Timers, fate'[t] = "held"
             PROVE  FiringTime(t)' = DueAt(t)'
  BY DEF Punctual, With
<1>1. FiringTime(t) = DueAt(t)
  BY DEF Partition, Punctual, With
<1>2. DueAt(t)' = DueAt(t)
  BY DEF DueAt, HeldBack
<1> QED BY <1>1, <1>2 DEF FixedTimes

(* place puts a timer that is on no list into its bucket or at the end of  *)
(* the overflow list.                                                      *)
LEMMA PlaceFacts ==
    ASSUME TypeOK, Apart, NEW t \in Timers, NEW d \in Int,
           t \notin OnWheel, t \notin ToSet(overflow), Place(t, d, overflow)
    PROVE  /\ buckets' \in [0..(Slots - 1) -> Seq(Timers)]
           /\ overflow' \in Seq(Timers) /\ IsInjective(overflow')
           /\ \A s \in 0..(Slots - 1) : IsInjective(buckets'[s])
           /\ \/ /\ InRange(d)
                 /\ OnWheel' = OnWheel \cup {t} /\ overflow' = overflow
                 /\ \A s \in 0..(Slots - 1) : \A u \in ToSet(buckets'[s]) :
                       u \in ToSet(buckets[s]) \/ (u = t /\ s = Home(d))
              \/ /\ ~ InRange(d)
                 /\ ToSet(overflow') = ToSet(overflow) \cup {t}
                 /\ buckets' = buckets /\ OnWheel' = OnWheel
<1>1. /\ buckets \in [0..(Slots - 1) -> Seq(Timers)] /\ overflow \in Seq(Timers)
      /\ Home(d) \in 0..(Slots - 1)
  BY Types, HomeType
<1>2. CASE InRange(d)
  <2> DEFINE h == Home(d)  b == Append(buckets[h], t)
  <2>1. buckets' = [buckets EXCEPT ![h] = b] /\ overflow' = overflow
    BY <1>2 DEF Place
  <2>2. buckets[h] \in Seq(Timers) /\ IsInjective(buckets[h]) /\ t \notin ToSet(buckets[h])
    BY <1>1, OnWheelDef DEF Apart
  <2>3. b \in Seq(Timers) /\ ToSet(b) = ToSet(buckets[h]) \cup {t} /\ IsInjective(b)
    BY <2>2, ListAppend
  <2> HIDE DEF h, b
  <2>4. buckets'[h] = b /\ \A s \in 0..(Slots - 1) : s # h => buckets'[s] = buckets[s]
    BY <1>1, <2>1 DEF h
  <2>5. OnWheel' = OnWheel \cup {t}
    <3>1. \A u : u \in OnWheel' <=> u \in OnWheel \/ u = t
      BY <1>1, <2>3, <2>4, OnWheelDef, OnWheelDefNext DEF h
    <3> QED BY <3>1
  <2>6. buckets' \in [0..(Slots - 1) -> Seq(Timers)]
    BY <1>1, <2>1, <2>3
  <2>7. \A s \in 0..(Slots - 1) : IsInjective(buckets'[s])
    BY <2>3, <2>4 DEF Apart
  <2>8. \A s \in 0..(Slots - 1) : \A u \in ToSet(buckets'[s]) :
           u \in ToSet(buckets[s]) \/ (u = t /\ s = h)
    BY <2>3, <2>4
  <2> QED BY <1>1, <1>2, <2>1, <2>5, <2>6, <2>7, <2>8 DEF Apart, h
<1>3. CASE ~ InRange(d)
  <2>1. buckets' = buckets /\ overflow' = Append(overflow, t)
    BY <1>3 DEF Place
  <2>2. /\ overflow' \in Seq(Timers) /\ IsInjective(overflow')
        /\ ToSet(overflow') = ToSet(overflow) \cup {t}
    BY <1>1, <2>1, ListAppend DEF Apart
  <2>3. OnWheel' = OnWheel
    BY <2>1 DEF OnWheel
  <2> QED BY <1>1, <1>3, <2>1, <2>2, <2>3 DEF Apart
<1> QED BY <1>2, <1>3

-----------------------------------------------------------------------------
(* Scheduling *)

(* The instant at which a new timer will fire: after `now', at its deadline*)
(* or Slots ticks later.                                                   *)
LEMMA ScheduledTime ==
    ASSUME Partition, NEW d \in 0..MaxDelay, pc = "idle", pc' = "idle", now' = now,
           TypeOK', Apart', NEW t \in Timers, NEW e \in Int, e = now + d,
           deadline'[t] = e,
           \/ InRange(e) /\ t \in OnWheel'
           \/ ~ InRange(e) /\ t \in ToSet(overflow')
    PROVE  FiringTime(t)' = e + (IF \/ d = 0
                                    \/ d >= Slots /\ e % Slots = Slots - 1
                                 THEN Slots ELSE 0)
<1>1. now \in Int /\ d \in Nat /\ Slots \in Nat \ {0}
  BY Types, WheelAssumption DEF Partition
<1>2. CASE InRange(e)
  <2>1. d < Slots /\ e \in now..(now + Slots - 1)
    BY <1>1, <1>2 DEF InRange
  <2>2. t \in OnWheel'
    BY <1>2
  <2>3. FiringTime(t)' = BucketTime(Slots, e, now)
    BY <2>2, FiringTimeByPlaceNext DEF FiringTimes
  <2>4. BucketTime(Slots, e, now) = IF e = now THEN now + Slots ELSE e
    <3>1. \A n \in Int : \A i \in n..(n + Slots - 1) :
             BucketTime(Slots, i, n) = IF i = n THEN n + Slots ELSE i
      BY SlotsType, ScheduledInRange
    <3>2. e \in now..(now + Slots - 1)
      BY <2>1
    <3>3. now \in Int
      BY <1>1
    <3> QED BY <3>1, <3>2, <3>3, Zenon
  <2> QED BY <1>1, <2>1, <2>3, <2>4
<1>3. CASE ~ InRange(e)
  <2>1. d >= Slots /\ e >= now + Slots
    BY <1>1, <1>3 DEF InRange
  <2>2. t \in ToSet(overflow')
    BY <1>3
  <2>3. FiringTime(t)' = OverflowTime(Slots, e, NextVisit(Slots, Slots - 1, now))
    BY <2>2, FiringTimeByPlaceNext DEF FiringTimes, NextRehoming
  <2>4. OverflowTime(Slots, e, NextVisit(Slots, Slots - 1, now))
            = e + (IF e % Slots = Slots - 1 THEN Slots ELSE 0)
    BY <1>1, <2>1, SlotsType, ScheduledOutOfRange
  <2> QED BY <1>1, <2>1, <2>3, <2>4
<1> QED BY <1>2, <1>3

LEMMA SchedulePartition ==
    ASSUME Partition, NEW d \in 0..MaxDelay, Schedule(d)
    PROVE  /\ Partition' /\ FixedTimes
           /\ \A u \in Timers : u = count + 1 => FiringTime(u)' = DueAt(u)'
<1> DEFINE t == count + 1  e == now + d
<1>1. /\ pc = "idle" /\ count < MaxTimers /\ count' = t
      /\ deadline' = [deadline EXCEPT ![t] = e]
      /\ Place(t, e, overflow) /\ size' = size + 1
      /\ delay' = [delay EXCEPT ![t] = d] /\ fate' = [fate EXCEPT ![t] = "held"]
      /\ UNCHANGED <<now, cancelled, pc, to, todo, due, fired, before, panics>>
  BY DEF Schedule, local
<1>2. TypeOK /\ Apart
  BY DEF Partition
<1>3. /\ t \in Timers /\ e \in Int /\ now \in Nat /\ d \in Nat /\ Slots \in Nat \ {0}
      /\ todo = <<>> /\ due = <<>> /\ count \in Nat /\ t \in Nat
      /\ e \in 0..(MaxNow + MaxDelay)
  BY <1>1, <1>2, WheelAssumption, SlotsType, Types DEF TypeOK, Timers, Partition, Phases
<1>4. fate[t] = "none" /\ ~ cancelled[t]
  BY <1>3 DEF Partition, Fresh
<1>5. ToSet(todo) = {} /\ ToSet(due) = {}
  BY <1>3, ListEmpty
<1>6. t \notin With("held")
  BY <1>4 DEF With
<1>7. t \notin OnWheel /\ t \notin ToSet(overflow)
  BY <1>2, <1>6 DEF Apart
<1>8. e = now + d
  OBVIOUS
<1> HIDE DEF t, e
<1>9. /\ buckets' \in [0..(Slots - 1) -> Seq(Timers)]
      /\ overflow' \in Seq(Timers) /\ IsInjective(overflow')
      /\ \A s \in 0..(Slots - 1) : IsInjective(buckets'[s])
      /\ \/ /\ InRange(e)
            /\ OnWheel' = OnWheel \cup {t} /\ overflow' = overflow
            /\ \A s \in 0..(Slots - 1) : \A u \in ToSet(buckets'[s]) :
                  u \in ToSet(buckets[s]) \/ (u = t /\ s = Home(e))
         \/ /\ ~ InRange(e)
            /\ ToSet(overflow') = ToSet(overflow) \cup {t}
            /\ buckets' = buckets /\ OnWheel' = OnWheel
  BY <1>1, <1>2, <1>3, <1>7, PlaceFacts
<1>10. /\ deadline'[t] = e /\ delay'[t] = d /\ fate'[t] = "held"
      /\ \A u \in Timers : u # t => /\ deadline'[u] = deadline[u]
                                    /\ delay'[u] = delay[u] /\ fate'[u] = fate[u]
  BY <1>1, <1>2, <1>3 DEF TypeOK
<1>11. With("held")' = With("held") \cup {t}
  BY <1>3, <1>10 DEF With
<1>12. Apart'
  <2>1. With("held") = OnWheel \cup ToSet(overflow)
    BY <1>2, <1>5 DEF Apart
  <2>2. OnWheel \cap ToSet(overflow) = {}
    BY <1>2 DEF Apart
  <2>3. OnWheel' \cup ToSet(overflow') = OnWheel \cup ToSet(overflow) \cup {t}
    BY <1>9
  <2>4. OnWheel' \cap ToSet(overflow') = {}
    BY <1>7, <1>9, <2>2
  <2>5. IsInjective(todo') /\ IsInjective(due') /\ ToSet(todo') = {} /\ ToSet(due') = {}
    BY <1>1, <1>3, ListEmpty
  <2> QED BY <1>9, <1>11, <2>1, <2>3, <2>4, <2>5 DEF Apart
<1>13. SizeAccounted'
  <2> DEFINE A == With("held") \cup With("panicked") \cup With("lost")
             B == (With("held") \cup With("panicked") \cup With("lost"))'
  <2>1. B = A \cup {t} /\ t \notin A
    <3>1. \A u \in Timers : u \in B <=> u \in A \/ u = t
      BY <1>10 DEF With
    <3>2. t \notin A
      BY <1>4 DEF With
    <3> QED BY <1>3, <3>1, <3>2 DEF With
  <2>2. IsFiniteSet(A) /\ size = Cardinality(A)
    BY TimersFinite DEF Partition, SizeAccounted, With
  <2> HIDE DEF A, B
  <2>3. Cardinality(B) = Cardinality(A) + 1
    BY <2>1, <2>2, FS_AddElement
  <2> QED BY <1>1, <2>2, <2>3 DEF SizeAccounted, B
<1>14. TypeOK'
  <2>1. size' \in 0..MaxTimers
    BY <1>13, TimersFinite DEF SizeAccounted, With
  <2>2. fate' \in [Timers -> Fates]
    BY <1>1, <1>2 DEF TypeOK, Fates
  <2>3. delay' \in [Timers -> 0..MaxDelay]
    BY <1>1, <1>2 DEF TypeOK
  <2>4. deadline' \in [Timers -> 0..(MaxNow + MaxDelay)]
    BY <1>1, <1>2, <1>3 DEF TypeOK
  <2>5. count' \in 0..MaxTimers
    BY <1>1, <1>3 DEF t, Timers
  <2> QED BY <1>1, <1>2, <1>9, <2>1, <2>2, <2>3, <2>4, <2>5 DEF TypeOK
<1>15. Phases'
  BY <1>1 DEF Partition, Phases
<1>16. InBuckets'
  <2> SUFFICES ASSUME NEW s \in 0..(Slots - 1), NEW u \in ToSet(buckets'[s])
               PROVE  deadline'[u] % Slots = s /\ deadline'[u] < now' + Slots
    BY DEF InBuckets
  <2>1. CASE u \in ToSet(buckets[s])
    <3>1. u \in OnWheel
      BY <2>1, OnWheelDef
    <3>2. u # t /\ u \in Timers
      BY <1>2, <1>7, <3>1 DEF Apart, With
    <3> QED BY <1>1, <1>10, <2>1, <3>2 DEF Partition, InBuckets
  <2>2. CASE u \notin ToSet(buckets[s])
    <3>1. u = t /\ s = Home(e) /\ InRange(e)
      BY <1>9, <2>2
    <3> QED BY <1>1, <1>3, <1>10, <3>1 DEF Home, InRange
  <2> QED BY <2>1, <2>2
<1>17. Fresh'
  <2> SUFFICES ASSUME NEW u \in Timers
               PROVE  /\ u > count' <=> fate'[u] = "none"
                      /\ fate'[u] = "none" => ~ cancelled'[u]
    BY DEF Fresh
  <2>1. /\ u > count <=> fate[u] = "none"
        /\ fate[u] = "none" => ~ cancelled[u]
    BY DEF Partition, Fresh
  <2>2. u \in Nat
    BY DEF Timers
  <2>3. CASE u = t
    BY <1>1, <1>3, <1>10, <2>3
  <2>4. CASE u # t
    BY <1>1, <1>3, <1>10, <2>1, <2>2, <2>4 DEF t
  <2> QED BY <2>3, <2>4
<1>18. Counted'
  <2>1. With("fired")' = With("fired")
    BY <1>4, <1>10 DEF With
  <2> QED BY <1>1, <2>1 DEF Partition, Counted, FiredAccounted
<1>19. ASSUME NEW u \in Timers, fate[u] = "held"
       PROVE  FiringTime(u)' = FiringTime(u)
  <2>1. u # t /\ u \in With("held")
    BY <1>4, <1>19 DEF With
  <2>2. u \in OnWheel \/ u \in ToSet(overflow)
    BY <1>2, <1>5, <2>1 DEF Apart
  <2>3. deadline'[u] = deadline[u] /\ now' = now /\ NextRehoming' = NextRehoming
    BY <1>1, <1>10, <2>1 DEF NextRehoming, RevolutionEnds, Slot
  <2>4. CASE u \in OnWheel
    <3>1. u \in OnWheel'
      BY <1>9, <2>4
    <3> QED BY <1>2, <1>12, <1>14, <2>3, <2>4, <3>1, FiringTimeByPlace,
               FiringTimeByPlaceNext DEF FiringTimes
  <2>5. CASE u \in ToSet(overflow)
    <3>1. u \in ToSet(overflow')
      BY <1>9, <2>5
    <3> QED BY <1>2, <1>12, <1>14, <2>3, <2>5, <3>1, FiringTimeByPlace,
               FiringTimeByPlaceNext DEF FiringTimes
  <2> QED BY <2>2, <2>4, <2>5
<1>20. FixedTimes
  BY <1>19 DEF FixedTimes
<1>21. ASSUME NEW u \in Timers, u = t
       PROVE  FiringTime(u)' = DueAt(u)'
  <2>1. /\ deadline'[u] = e /\ delay'[u] = d
        /\ \/ InRange(e) /\ u \in OnWheel'
           \/ ~ InRange(e) /\ u \in ToSet(overflow')
    BY <1>9, <1>10, <1>21
  <2>2. FiringTime(u)' = e + (IF \/ d = 0
                                 \/ d >= Slots /\ e % Slots = Slots - 1
                              THEN Slots ELSE 0)
    BY <1>1, <1>3, <1>12, <1>14, <1>8, <2>1, ScheduledTime
  <2> QED BY <2>1, <2>2 DEF DueAt, HeldBack
<1>22. Punctual'
  <2> SUFFICES ASSUME panics' = 0, NEW u \in Timers, fate'[u] = "held"
               PROVE  FiringTime(u)' = DueAt(u)'
    BY DEF Punctual, With
  <2>1. CASE u # t
    <3>1. fate[u] = "held" /\ FiringTime(u)' = FiringTime(u)
      BY <1>10, <1>19, <2>1
    <3>2. DueAt(u)' = DueAt(u)
      BY <1>10, <2>1 DEF DueAt, HeldBack
    <3>3. FiringTime(u) = DueAt(u)
      BY <1>1, <3>1 DEF Partition, Punctual, With
    <3> QED BY <3>1, <3>2, <3>3
  <2> QED BY <1>21, <2>1
<1> QED
  BY <1>12, <1>13, <1>14, <1>15, <1>16, <1>17, <1>18, <1>20, <1>21, <1>22 DEF Partition, t

-----------------------------------------------------------------------------
(* Steps that move timers between the lists, or none *)

(* Every step but a panic keeps Partition if it keeps these parts of it.   *)
LEMMA KeepsPartition ==
    ASSUME Partition, TypeOK', Apart', Phases', InBuckets', FixedTimes,
           UNCHANGED <<size, count, deadline, delay, fate, panics>>,
           \A t \in Timers : fate[t] = "none" => ~ cancelled'[t],
           CountKept
    PROVE  Partition'
<1>1. Fresh'
  BY DEF Partition, Fresh
<1>2. SizeAccounted'
  BY DEF Partition, SizeAccounted, With
<1>3. Counted'
  <2>1. With("fired")' = With("fired")
    BY DEF With
  <2>2. Cardinality(With("fired") \ With("fired")) = 0
    BY FS_EmptySet
  <2> QED BY <2>1, <2>2 DEF Partition, Counted, FiredAccounted, CountKept
<1>4. Punctual'
  BY PunctualKept
<1> QED BY <1>1, <1>2, <1>3, <1>4 DEF Partition

(* ... which one that moves no timer does. *)
LEMMA StaysPartition ==
    ASSUME Partition, TypeOK', Phases',
           UNCHANGED <<now, buckets, overflow, todo, due>>,
           UNCHANGED <<size, count, deadline, delay, fate, panics>>,
           \A t \in Timers : fate[t] = "none" => ~ cancelled'[t],
           CountKept,
           pc \in {"sift", "fire", "callback"} <=> pc' \in {"sift", "fire", "callback"},
           todo = <<>> \/ (pc = "rehome" <=> pc' = "rehome"),
           due = <<>> \/ pc' # "rehome"
    PROVE  Partition' /\ FixedTimes
<1>1. TypeOK /\ Apart /\ InBuckets
  BY DEF Partition
<1>2. Apart'
  BY <1>1 DEF Apart, OnWheel, With
<1>3. InBuckets'
  BY <1>1 DEF InBuckets
<1>4. FixedTimes
  <2> SUFFICES ASSUME NEW t \in Timers, fate[t] = "held"
               PROVE  FiringTime(t)' = FiringTime(t)
    BY DEF FixedTimes
  <2>1. NextRehoming' = NextRehoming
    BY DEF NextRehoming, RevolutionEnds, Slot
  <2>2. OnWheel' = OnWheel
    BY DEF OnWheel
  <2>3. FiringTimes /\ FiringTimes'
    BY <1>1, <1>2, FiringTimeByPlace, FiringTimeByPlaceNext
  <2>4. t \in OnWheel \cup ToSet(overflow) \cup ToSet(todo) \cup ToSet(due)
    BY <1>1 DEF Apart, With
  <2>5. CASE t \in OnWheel
    BY <2>2, <2>3, <2>5 DEF FiringTimes
  <2>6. CASE t \in ToSet(overflow)
    BY <2>1, <2>3, <2>6 DEF FiringTimes
  <2>7. CASE t \in ToSet(todo)
    <3>1. todo # <<>>
      BY <2>7, ListEmpty
    <3> QED BY <2>3, <2>7, <3>1 DEF FiringTimes
  <2>8. CASE t \in ToSet(due)
    <3>1. due # <<>>
      BY <2>8, ListEmpty
    <3>2. pc # "rehome" /\ pc' # "rehome"
      BY <3>1 DEF Partition, Phases
    <3> QED BY <2>3, <2>8, <3>2 DEF FiringTimes
  <2> QED BY <2>4, <2>5, <2>6, <2>7, <2>8
<1>5. Partition'
  BY <1>2, <1>3, <1>4, KeepsPartition
<1> QED BY <1>4, <1>5

LEMMA CancelPartition ==
    ASSUME Partition, NEW t \in Timers, Cancel(t)
    PROVE  Partition' /\ FixedTimes
<1>1. /\ pc = "callback" => t # Head(todo)
      /\ fate[t] = "held"
      /\ cancelled' = [cancelled EXCEPT ![t] = TRUE]
      /\ UNCHANGED <<now, buckets, overflow, todo, due>>
      /\ UNCHANGED <<size, count, deadline, delay, fate, panics>>
      /\ UNCHANGED <<pc, to, fired, before>>
  BY DEF Cancel, local
<1>2. cancelled \in [Timers -> BOOLEAN]
  BY DEF Partition, TypeOK
<1>3. /\ cancelled' \in [Timers -> BOOLEAN]
      /\ \A u \in Timers : u # t => (cancelled'[u] <=> cancelled[u])
  BY <1>1, <1>2
<1>4. TypeOK'
  BY <1>1, <1>3 DEF Partition, TypeOK
<1>5. Phases'
  <2>1. ASSUME pc = "callback" PROVE ~ cancelled'[Head(todo)]
    <3>1. todo \in Seq(Timers) /\ todo # <<>> /\ ~ cancelled[Head(todo)]
      BY <2>1 DEF Partition, Phases, TypeOK
    <3>2. Head(todo) \in Timers
      BY <3>1, HeadTailProperties
    <3> QED BY <1>1, <1>3, <2>1, <3>1, <3>2
  <2> QED BY <1>1, <2>1 DEF Partition, Phases, Slot, RevolutionEnds
<1>6. \A u \in Timers : fate[u] = "none" => ~ cancelled'[u]
  BY <1>1, <1>3 DEF Partition, Fresh
<1>7. due = <<>> \/ pc' # "rehome"
  BY <1>1 DEF Partition, Phases
<1> QED BY <1>1, <1>4, <1>5, <1>6, <1>7, StaysPartition DEF CountKept

LEMMA AdvancePartition ==
    ASSUME Partition, NEW n \in 0..MaxNow, Advance(n)
    PROVE  Partition' /\ FixedTimes
<1>1. /\ pc = "idle" /\ pc' = "tick" /\ to' = n /\ fired' = 0 /\ before' = With("fired")
      /\ UNCHANGED <<now, buckets, overflow, todo, due>>
      /\ UNCHANGED <<size, count, deadline, delay, fate, panics>>
      /\ UNCHANGED cancelled
  BY DEF Advance
<1>2. TypeOK'
  BY <1>1, WheelAssumption DEF Partition, TypeOK, PC, With
<1>3. Phases'
  BY <1>1 DEF Partition, Phases
<1> QED BY <1>1, <1>2, <1>3, StaysPartition DEF Partition, Fresh, CountKept

LEMMA AdvanceReturnsPartition ==
    ASSUME Partition, AdvanceReturns
    PROVE  Partition' /\ FixedTimes
<1>1. /\ pc = "tick" /\ pc' = "idle" /\ to' = 0 /\ fired' = 0 /\ before' = {}
      /\ UNCHANGED <<now, buckets, overflow, todo, due>>
      /\ UNCHANGED <<size, count, deadline, delay, fate, panics>>
      /\ UNCHANGED cancelled
  BY DEF AdvanceReturns
<1>2. TypeOK'
  BY <1>1, WheelAssumption DEF Partition, TypeOK, PC
<1>3. Phases'
  BY <1>1 DEF Partition, Phases
<1> QED BY <1>1, <1>2, <1>3, StaysPartition DEF Partition, Fresh, CountKept

LEMMA FirePartition ==
    ASSUME Partition, Fire
    PROVE  Partition' /\ FixedTimes
<1>1. /\ pc = "fire" /\ pc' = "callback" /\ todo # <<>> /\ ~ cancelled[Head(todo)]
      /\ UNCHANGED <<now, buckets, overflow, todo, due>>
      /\ UNCHANGED <<size, count, deadline, delay, fate, panics>>
      /\ UNCHANGED <<cancelled, to, fired, before>>
  BY DEF Fire
<1>2. TypeOK'
  BY <1>1 DEF Partition, TypeOK, PC
<1>3. Phases'
  BY <1>1 DEF Partition, Phases
<1> QED BY <1>1, <1>2, <1>3, StaysPartition DEF Partition, Fresh, CountKept

LEMMA RehomedPartition ==
    ASSUME Partition, Rehomed
    PROVE  Partition' /\ FixedTimes
<1>1. /\ pc = "rehome" /\ pc' = "tick" /\ todo = <<>>
      /\ UNCHANGED <<now, buckets, overflow, todo, due>>
      /\ UNCHANGED <<size, count, deadline, delay, fate, panics>>
      /\ UNCHANGED <<cancelled, to, fired, before>>
  BY DEF Rehomed
<1>2. TypeOK'
  BY <1>1 DEF Partition, TypeOK, PC
<1>3. Phases'
  BY <1>1 DEF Partition, Phases
<1> QED BY <1>1, <1>2, <1>3, StaysPartition DEF Partition, Fresh, CountKept

(* The clock reaches the bucket that is due.                               *)
LEMMA TickPartition ==
    ASSUME Partition, Tick
    PROVE  Partition' /\ FixedTimes
<1>1. /\ pc = "tick" /\ now < to /\ pc' = "sift"
      /\ UNCHANGED <<overflow, due, to, fired, before, cancelled>>
      /\ UNCHANGED <<size, count, deadline, delay, fate, panics>>
  BY DEF Tick
<1>2. TypeOK /\ Apart /\ InBuckets /\ todo = <<>> /\ due = <<>>
  BY <1>1 DEF Partition, Phases
<1>3. PICK n \in Nat : n = now + 1
  BY <1>2, Types
<1>4. PICK s \in 0..(Slots - 1) : s = n % Slots
  BY <1>2, <1>3, Types, ModType
<1>5. /\ now' = n /\ todo' = buckets[s]
      /\ buckets' = [buckets EXCEPT ![s] = <<>>]
  BY <1>3, <1>4 DEF Tick, TakeBucket
<1>6. /\ now \in Nat /\ Slots \in Nat \ {0} /\ to \in 0..MaxNow /\ MaxNow \in Nat
      /\ buckets \in [0..(Slots - 1) -> Seq(Timers)]
      /\ overflow \in Seq(Timers)
      /\ \A t \in Timers : deadline[t] \in Nat
  BY <1>2, Types, WheelAssumption DEF TypeOK
<1>7. /\ <<>> \in Seq(Timers) /\ ToSet(<<>>) = {} /\ IsInjective(<<>>)
  BY ListEmpty
<1>8. /\ buckets'[s] = <<>>
      /\ \A q \in 0..(Slots - 1) : q # s => buckets'[q] = buckets[q]
  BY <1>5, <1>6
<1>9. \A q \in 0..(Slots - 1) : \A t \in ToSet(buckets[q]) :
         t \in Timers /\ deadline[t] % Slots = q /\ deadline[t] < now + Slots
  BY <1>2, <1>6, ListType DEF InBuckets
<1>10. /\ OnWheel = OnWheel' \cup ToSet(buckets[s])
       /\ OnWheel' \cap ToSet(buckets[s]) = {}
  <2>1. \A t : t \in OnWheel' <=> t \in OnWheel /\ t \notin ToSet(buckets[s])
    BY <1>7, <1>8, <1>9, OnWheelDef, OnWheelDefNext
  <2>2. ToSet(buckets[s]) \subseteq OnWheel
    BY OnWheelDef
  <2> QED BY <2>1, <2>2
<1>11. TypeOK'
  <2>1. n \in 0..MaxNow
    BY <1>1, <1>3, <1>6
  <2>2. buckets' \in [0..(Slots - 1) -> Seq(Timers)] /\ todo' \in Seq(Timers)
    BY <1>5, <1>6, <1>7
  <2> QED BY <1>1, <1>2, <1>5, <2>1, <2>2 DEF TypeOK, PC
<1>12. Apart'
  <2>1. \A q \in 0..(Slots - 1) : IsInjective(buckets'[q])
    BY <1>2, <1>7, <1>8 DEF Apart
  <2>2. IsInjective(todo')
    BY <1>2, <1>5 DEF Apart
  <2>3. With("held")' = With("held")
    BY <1>1 DEF With
  <2>4. /\ OnWheel \cap ToSet(overflow) = {} /\ With("held") = OnWheel \cup ToSet(overflow)
    BY <1>2, <1>7 DEF Apart
  <2>5. /\ ToSet(todo') \cap ToSet(due') = {}
        /\ ToSet(overflow') \cap (ToSet(todo') \cup ToSet(due')) = {}
        /\ OnWheel' \cap (ToSet(overflow') \cup ToSet(todo') \cup ToSet(due')) = {}
        /\ With("held")' = OnWheel' \cup ToSet(overflow') \cup ToSet(todo') \cup ToSet(due')
    BY <1>1, <1>2, <1>5, <1>7, <1>10, <2>3, <2>4
  <2>6. IsInjective(overflow') /\ IsInjective(due')
    BY <1>1, <1>2, <1>7 DEF Apart
  <2> QED BY <2>1, <2>2, <2>5, <2>6 DEF Apart
<1>13. Phases'
  <2>1. Slot' = s
    BY <1>4, <1>5 DEF Slot
  <2>2. ASSUME NEW t \in ToSet(todo') PROVE deadline[t] <= n
    <3>1. /\ deadline[t] \in Int /\ n \in Int /\ deadline[t] % Slots = n % Slots
          /\ deadline[t] < n + Slots
      BY <1>3, <1>4, <1>5, <1>6, <1>9
    <3> DEFINE d == deadline[t]
    <3> HIDE DEF d
    <3> QED BY <1>3, <1>6, <3>1, ModNotAfter DEF d
  <2> QED BY <1>1, <1>5, <1>8, <2>1, <2>2 DEF Phases
<1>14. InBuckets'
  BY <1>1, <1>3, <1>5, <1>6, <1>7, <1>8, <1>9 DEF InBuckets
<1>15. ASSUME NEW t \in Timers, fate[t] = "held"
       PROVE  FiringTime(t)' = FiringTime(t)
  <2>1. FiringTimes /\ FiringTimes'
    BY <1>2, <1>11, <1>12, FiringTimeByPlace, FiringTimeByPlaceNext
  <2>2. \/ t \in OnWheel' \/ t \in ToSet(todo') \/ t \in ToSet(overflow')
    BY <1>1, <1>2, <1>7, <1>12, <1>15 DEF Apart, With
  <2>3. deadline'[t] = deadline[t] /\ deadline[t] \in Int /\ now \in Int
    BY <1>1, <1>6
  <2>4. Home(deadline[t]) \in 0..(Slots - 1)
    BY <2>3, HomeType
  <2> DEFINE d == deadline[t]  h == Home(d)
  <2>5. CASE t \in OnWheel'
    <3>1. PICK q \in 0..(Slots - 1) : t \in ToSet(buckets'[q])
      BY <2>5, OnWheelDefNext
    <3>2. q # s /\ t \in ToSet(buckets[q])
      BY <1>7, <1>8, <3>1
    <3>3. h # n % Slots /\ t \in OnWheel
      BY <1>4, <1>9, <3>2, OnWheelDef DEF Home
    <3>4. NextVisit(Slots, h, now) = NextVisit(Slots, h, n)
      <4> HIDE DEF h
      <4> QED BY <1>3, <2>3, <2>4, <3>3, SlotsType, NextVisitStep DEF h
    <3> QED BY <1>5, <2>1, <2>3, <2>5, <3>3, <3>4 DEF FiringTimes, BucketTime, Home
  <2>6. CASE t \in ToSet(todo')
    <3>1. t \in ToSet(buckets[s]) /\ t \in OnWheel
      BY <1>5, <2>6, OnWheelDef
    <3>2. h = n % Slots
      BY <1>4, <1>9, <3>1 DEF Home
    <3>3. NextVisit(Slots, h, now) = n
      <4> HIDE DEF h
      <4> QED BY <1>3, <2>3, <2>4, <3>2, SlotsType, NextVisitStep DEF h
    <3>4. FiringTime(t) = n
      BY <2>1, <3>1, <3>3 DEF FiringTimes, BucketTime, Home
    <3>5. FiringTime(t)' = n
      BY <1>1, <1>5, <2>1, <2>6 DEF FiringTimes
    <3> QED BY <1>3, <1>6, <3>4, <3>5
  <2>7. CASE t \in ToSet(overflow')
    <3>1. Slots - 1 \in 0..(Slots - 1)
      BY <1>6
    <3>2. NextRehoming = NextVisit(Slots, Slots - 1, now)
      BY <1>1 DEF NextRehoming
    <3>3. NextRehoming' = IF n % Slots = Slots - 1 THEN n ELSE NextVisit(Slots, Slots - 1, n)
      BY <1>1, <1>5 DEF NextRehoming, RevolutionEnds, Slot
    <3>4. NextRehoming' = NextRehoming
      <4> DEFINE q == Slots - 1
      <4>1. q \in 0..(Slots - 1)
        BY <3>1
      <4> HIDE DEF q
      <4>2. IF n % Slots = q THEN NextVisit(Slots, q, now) = n
                             ELSE NextVisit(Slots, q, now) = NextVisit(Slots, q, n)
        BY <1>3, <2>3, <4>1, SlotsType, NextVisitStep
      <4> QED BY <3>2, <3>3, <4>2 DEF q
    <3> QED BY <1>1, <2>1, <2>3, <2>7, <3>4 DEF FiringTimes
  <2> QED BY <2>2, <2>5, <2>6, <2>7
<1>16. FixedTimes
  BY <1>15 DEF FixedTimes
<1>17. Partition'
  BY <1>1, <1>11, <1>12, <1>13, <1>14, <1>16, KeepsPartition DEF Partition, Fresh, CountKept
<1> QED BY <1>16, <1>17

LEMMA SiftPartition ==
    ASSUME Partition, Sift
    PROVE  Partition' /\ FixedTimes
<1>1. /\ pc = "sift" /\ todo # <<>> /\ todo' = Tail(todo)
      /\ UNCHANGED <<now, overflow, pc, to, fired, before, cancelled>>
      /\ UNCHANGED <<size, count, deadline, delay, fate, panics>>
  BY DEF Sift
<1>2. TypeOK /\ Apart /\ InBuckets
  BY DEF Partition
<1>3. /\ todo \in Seq(Timers) /\ due \in Seq(Timers) /\ now \in Nat
      /\ \A u \in Timers : deadline[u] \in Nat
  BY <1>2, Types
<1>4. PICK t : t = Head(todo)
  OBVIOUS
<1>5. /\ t \in Timers /\ t \in ToSet(todo)
      /\ todo' \in Seq(Timers) /\ IsInjective(todo')
      /\ ToSet(todo') = ToSet(todo) \ {t}
  BY <1>1, <1>2, <1>3, <1>4, ListTail DEF Apart
<1>6. deadline[t] <= now
  BY <1>1, <1>5 DEF Partition, Phases
<1>7. due' = Append(due, t) /\ buckets' = buckets
  BY <1>3, <1>4, <1>5, <1>6 DEF Sift
<1>8. t \notin ToSet(due)
  BY <1>2, <1>5 DEF Apart
<1>9. /\ due' \in Seq(Timers) /\ IsInjective(due')
      /\ ToSet(due') = ToSet(due) \cup {t}
  BY <1>2, <1>3, <1>5, <1>7, <1>8, ListAppend DEF Apart
<1>10. TypeOK'
  BY <1>1, <1>2, <1>5, <1>7, <1>9 DEF TypeOK
<1>11. OnWheel' = OnWheel /\ With("held")' = With("held")
  BY <1>1, <1>7 DEF OnWheel, With
<1>12. ToSet(todo') \cup ToSet(due') = ToSet(todo) \cup ToSet(due)
  BY <1>5, <1>9
<1>13. Apart'
  <2>1. ToSet(todo') \cap ToSet(due') = {}
    BY <1>2, <1>5, <1>9 DEF Apart
  <2>2. /\ ToSet(overflow') \cap (ToSet(todo') \cup ToSet(due')) = {}
        /\ OnWheel' \cap (ToSet(overflow') \cup ToSet(todo') \cup ToSet(due')) = {}
        /\ With("held")' = OnWheel' \cup ToSet(overflow') \cup ToSet(todo') \cup ToSet(due')
    BY <1>1, <1>2, <1>11, <1>12 DEF Apart
  <2> QED BY <1>1, <1>2, <1>5, <1>7, <1>9, <2>1, <2>2 DEF Apart
<1>14. Phases'
  BY <1>1, <1>5, <1>7 DEF Partition, Phases, Slot
<1>15. InBuckets'
  BY <1>1, <1>2, <1>7 DEF InBuckets
<1>16. FixedTimes
  <2> SUFFICES ASSUME NEW u \in Timers, fate[u] = "held"
               PROVE  FiringTime(u)' = FiringTime(u)
    BY DEF FixedTimes
  <2>1. FiringTimes /\ FiringTimes'
    BY <1>2, <1>10, <1>13, FiringTimeByPlace, FiringTimeByPlaceNext
  <2>2. NextRehoming' = NextRehoming
    BY <1>1 DEF NextRehoming, RevolutionEnds, Slot
  <2>3. u \in OnWheel \cup ToSet(overflow) \cup (ToSet(todo) \cup ToSet(due))
    BY <1>2 DEF Apart, With
  <2>4. CASE u \in OnWheel
    BY <1>1, <1>11, <2>1, <2>4 DEF FiringTimes
  <2>5. CASE u \in ToSet(overflow)
    BY <1>1, <2>1, <2>2, <2>5 DEF FiringTimes
  <2>6. CASE u \in ToSet(todo) \cup ToSet(due)
    <3>1. FiringTime(u) = now
      BY <1>1, <2>1, <2>6 DEF FiringTimes
    <3>2. FiringTime(u)' = now
      BY <1>1, <1>12, <2>1, <2>6 DEF FiringTimes
    <3> QED BY <3>1, <3>2
  <2> QED BY <2>3, <2>4, <2>5, <2>6
<1>17. Partition'
  BY <1>1, <1>10, <1>13, <1>14, <1>15, <1>16, KeepsPartition DEF Partition, Fresh, CountKept
<1> QED BY <1>16, <1>17

LEMMA SiftedPartition ==
    ASSUME Partition, Sifted
    PROVE  Partition' /\ FixedTimes
<1>1. /\ pc = "sift" /\ pc' = "fire" /\ todo = <<>> /\ todo' = due /\ due' = <<>>
      /\ UNCHANGED <<now, buckets, overflow, to, fired, before, cancelled>>
      /\ UNCHANGED <<size, count, deadline, delay, fate, panics>>
  BY DEF Sifted
<1>2. TypeOK /\ Apart /\ InBuckets
  BY DEF Partition
<1>3. /\ ToSet(todo) = {} /\ ToSet(due') = {} /\ IsInjective(due') /\ due' \in Seq(Timers)
  BY <1>1, ListEmpty
<1>4. OnWheel' = OnWheel /\ With("held")' = With("held")
  BY <1>1 DEF OnWheel, With
<1>5. TypeOK'
  BY <1>1, <1>2, <1>3 DEF TypeOK, PC
<1>6. Apart'
  BY <1>1, <1>2, <1>3, <1>4 DEF Apart
<1>7. Phases'
  BY <1>1 DEF Phases
<1>8. InBuckets'
  BY <1>1, <1>2 DEF InBuckets
<1>9. FixedTimes
  <2> SUFFICES ASSUME NEW u \in Timers, fate[u] = "held"
               PROVE  FiringTime(u)' = FiringTime(u)
    BY DEF FixedTimes
  <2>1. FiringTimes /\ FiringTimes'
    BY <1>2, <1>5, <1>6, FiringTimeByPlace, FiringTimeByPlaceNext
  <2>2. NextRehoming' = NextRehoming
    BY <1>1 DEF NextRehoming, RevolutionEnds, Slot
  <2>3. u \in OnWheel \cup ToSet(overflow) \cup ToSet(due)
    BY <1>2, <1>3 DEF Apart, With
  <2>4. CASE u \in OnWheel
    BY <1>1, <1>4, <2>1, <2>4 DEF FiringTimes
  <2>5. CASE u \in ToSet(overflow)
    BY <1>1, <2>1, <2>2, <2>5 DEF FiringTimes
  <2>6. CASE u \in ToSet(due)
    BY <1>1, <2>1, <2>6 DEF FiringTimes
  <2> QED BY <2>3, <2>4, <2>5, <2>6
<1>10. Partition'
  BY <1>1, <1>5, <1>6, <1>7, <1>8, <1>9, KeepsPartition DEF Partition, Fresh, CountKept
<1> QED BY <1>9, <1>10

LEMMA FiredPartition ==
    ASSUME Partition, Fired
    PROVE  Partition' /\ FixedTimes
<1>1. /\ pc = "fire" /\ todo = <<>>
      /\ UNCHANGED <<now, buckets, to, due, fired, before, cancelled>>
      /\ UNCHANGED <<size, count, deadline, delay, fate, panics>>
  BY DEF Fired
<1>2. TypeOK /\ Apart /\ InBuckets /\ due = <<>>
  BY <1>1 DEF Partition, Phases
<1>3. /\ ToSet(todo) = {} /\ ToSet(due) = {} /\ ToSet(<<>>) = {}
      /\ IsInjective(<<>>) /\ <<>> \in Seq(Timers)
  BY <1>1, <1>2, ListEmpty
<1>4. OnWheel' = OnWheel /\ With("held")' = With("held")
  BY <1>1 DEF OnWheel, With
<1>5. \/ /\ RevolutionEnds /\ todo' = overflow /\ overflow' = <<>> /\ pc' = "rehome"
      \/ /\ ~ RevolutionEnds \/ overflow = <<>>
         /\ pc' = "tick" /\ todo' = todo /\ overflow' = overflow
  BY DEF Fired
<1>6. ToSet(todo') \cup ToSet(overflow') = ToSet(overflow)
  BY <1>3, <1>5
<1>7. TypeOK'
  BY <1>1, <1>2, <1>3, <1>5 DEF TypeOK, PC
<1>8. Apart'
  <2>1. IsInjective(overflow') /\ IsInjective(todo')
    BY <1>2, <1>3, <1>5 DEF Apart
  <2>2. ToSet(overflow') \cap ToSet(todo') = {}
    BY <1>3, <1>5
  <2>3. /\ OnWheel' \cap (ToSet(overflow') \cup ToSet(todo')) = {}
        /\ With("held")' = OnWheel' \cup ToSet(overflow') \cup ToSet(todo')
    BY <1>2, <1>3, <1>4, <1>6 DEF Apart
  <2> QED BY <1>1, <1>2, <1>3, <1>4, <2>1, <2>2, <2>3 DEF Apart
<1>9. Phases'
  <2>1. pc' = "rehome" => RevolutionEnds'
    BY <1>1, <1>5 DEF RevolutionEnds, Slot
  <2> QED BY <1>1, <1>2, <1>5, <2>1 DEF Phases
<1>10. InBuckets'
  BY <1>1, <1>2 DEF InBuckets
<1>11. FixedTimes
  <2> SUFFICES ASSUME NEW u \in Timers, fate[u] = "held"
               PROVE  FiringTime(u)' = FiringTime(u)
    BY DEF FixedTimes
  <2>1. FiringTimes /\ FiringTimes'
    BY <1>2, <1>7, <1>8, FiringTimeByPlace, FiringTimeByPlaceNext
  <2>2. u \in OnWheel \cup ToSet(overflow)
    BY <1>2, <1>3 DEF Apart, With
  <2>3. CASE u \in OnWheel
    BY <1>1, <1>4, <2>1, <2>3 DEF FiringTimes
  <2>4. CASE u \in ToSet(overflow)
    <3>1. FiringTime(u) = OverflowTime(Slots, deadline[u], NextRehoming)
      BY <2>1, <2>4 DEF FiringTimes
    <3>2. overflow # <<>>
      BY <2>4, <1>3
    <3>3. CASE RevolutionEnds
      <4>1. NextRehoming = now
        BY <1>1, <3>3 DEF NextRehoming
      <4>2. pc' = "rehome" /\ u \in ToSet(todo')
        BY <1>5, <2>4, <3>2, <3>3
      <4> QED BY <1>1, <2>1, <3>1, <4>1, <4>2 DEF FiringTimes
    <3>4. CASE ~ RevolutionEnds
      <4>1. pc' = "tick" /\ u \in ToSet(overflow')
        BY <1>5, <2>4, <3>4
      <4>2. NextRehoming' = NextRehoming
        BY <1>1, <3>4, <4>1 DEF NextRehoming
      <4> QED BY <1>1, <2>1, <3>1, <4>1, <4>2 DEF FiringTimes
    <3> QED BY <3>3, <3>4
  <2> QED BY <2>2, <2>3, <2>4
<1>12. Partition'
  BY <1>1, <1>7, <1>8, <1>9, <1>10, <1>11, KeepsPartition DEF Partition, Fresh, CountKept
<1> QED BY <1>11, <1>12

(* A timer of the overflow list is placed anew.                            *)
LEMMA RehomePartition ==
    ASSUME Partition, Rehome
    PROVE  Partition' /\ FixedTimes
<1>1. /\ pc = "rehome" /\ todo # <<>> /\ todo' = Tail(todo)
      /\ UNCHANGED <<now, pc, to, due, fired, before, cancelled>>
      /\ UNCHANGED <<size, count, deadline, delay, fate, panics>>
  BY DEF Rehome
<1>2. TypeOK /\ Apart /\ InBuckets /\ due = <<>> /\ RevolutionEnds
  BY <1>1 DEF Partition, Phases
<1>3. /\ todo \in Seq(Timers) /\ now \in Nat /\ Slots \in Nat \ {0}
      /\ ToSet(due) = {} /\ \A u \in Timers : deadline[u] \in Nat
  BY <1>2, Types, ListEmpty
<1>4. PICK t : t = Head(todo)
  OBVIOUS
<1>5. /\ t \in Timers /\ t \in ToSet(todo)
      /\ todo' \in Seq(Timers) /\ IsInjective(todo')
      /\ ToSet(todo') = ToSet(todo) \ {t}
  BY <1>1, <1>2, <1>3, <1>4, ListTail DEF Apart
<1>6. PICK d \in Int : d = deadline[t]
  BY <1>3, <1>5
<1>7. Place(t, d, overflow)
  BY <1>4, <1>6 DEF Rehome
<1>8. t \notin OnWheel /\ t \notin ToSet(overflow)
  BY <1>2, <1>5 DEF Apart
<1>9. /\ buckets' \in [0..(Slots - 1) -> Seq(Timers)]
      /\ overflow' \in Seq(Timers) /\ IsInjective(overflow')
      /\ \A s \in 0..(Slots - 1) : IsInjective(buckets'[s])
      /\ \/ /\ InRange(d)
            /\ OnWheel' = OnWheel \cup {t} /\ overflow' = overflow
            /\ \A s \in 0..(Slots - 1) : \A u \in ToSet(buckets'[s]) :
                  u \in ToSet(buckets[s]) \/ (u = t /\ s = Home(d))
         \/ /\ ~ InRange(d)
            /\ ToSet(overflow') = ToSet(overflow) \cup {t}
            /\ buckets' = buckets /\ OnWheel' = OnWheel
  BY <1>2, <1>5, <1>7, <1>8, PlaceFacts
<1>10. With("held")' = With("held")
  BY <1>1 DEF With
<1>11. TypeOK'
  BY <1>1, <1>2, <1>5, <1>9 DEF TypeOK
<1>12. Apart'
  <2>1. /\ OnWheel \cap ToSet(overflow) = {} /\ ToSet(overflow) \cap ToSet(todo) = {}
        /\ OnWheel \cap ToSet(todo) = {}
        /\ With("held") = OnWheel \cup ToSet(overflow) \cup ToSet(todo)
    BY <1>2, <1>3 DEF Apart
  <2>2. ToSet(due') = {} /\ IsInjective(due')
    BY <1>1, <1>2, <1>3, ListEmpty
  <2>3. /\ ToSet(overflow') \cap ToSet(todo') = {}
        /\ OnWheel' \cap ToSet(overflow') = {} /\ OnWheel' \cap ToSet(todo') = {}
        /\ With("held")' = OnWheel' \cup ToSet(overflow') \cup ToSet(todo')
    BY <1>5, <1>8, <1>9, <1>10, <2>1
  <2> QED BY <1>5, <1>9, <2>2, <2>3 DEF Apart
<1>13. Phases'
  BY <1>1, <1>2 DEF Phases, RevolutionEnds, Slot
<1>14. InBuckets'
  <2> SUFFICES ASSUME NEW s \in 0..(Slots - 1), NEW u \in ToSet(buckets'[s])
               PROVE  deadline[u] % Slots = s /\ deadline[u] < now + Slots
    BY <1>1 DEF InBuckets
  <2>1. CASE u \in ToSet(buckets[s])
    BY <1>2, <2>1 DEF InBuckets
  <2>2. CASE u \notin ToSet(buckets[s])
    <3>1. u = t /\ s = Home(d) /\ InRange(d)
      BY <1>9, <2>2
    <3> QED BY <1>3, <1>6, <3>1 DEF Home, InRange
  <2> QED BY <2>1, <2>2
<1>15. FixedTimes
  <2> SUFFICES ASSUME NEW u \in Timers, fate[u] = "held"
               PROVE  FiringTime(u)' = FiringTime(u)
    BY DEF FixedTimes
  <2>1. FiringTimes /\ FiringTimes'
    BY <1>2, <1>11, <1>12, FiringTimeByPlace, FiringTimeByPlaceNext
  <2>2. NextRehoming' = NextRehoming /\ NextRehoming = NextVisit(Slots, Slots - 1, now)
    BY <1>1 DEF NextRehoming
  <2>3. u \in OnWheel \cup ToSet(overflow) \cup ToSet(todo)
    BY <1>2, <1>3 DEF Apart, With
  <2>4. CASE u \in OnWheel
    BY <1>1, <1>9, <2>1, <2>4 DEF FiringTimes
  <2>5. CASE u \in ToSet(overflow)
    BY <1>1, <1>9, <2>1, <2>2, <2>5 DEF FiringTimes
  <2>6. CASE u \in ToSet(todo) /\ u # t
    BY <1>1, <1>5, <2>1, <2>6 DEF FiringTimes
  <2>7. CASE u = t
    <3>1. FiringTime(u) = OverflowTime(Slots, d, now)
      BY <1>1, <1>5, <1>6, <2>1, <2>7 DEF FiringTimes
    <3>2. CASE InRange(d)
      <4>1. FiringTime(u)' = BucketTime(Slots, d, now)
        BY <1>1, <1>6, <1>9, <2>1, <2>7, <3>2 DEF FiringTimes
      <4>2. d < now + Slots /\ now \in Int
        BY <1>3, <1>6, <3>2 DEF InRange
      <4>3. OverflowTime(Slots, d, now) = BucketTime(Slots, d, now)
        BY <4>2, SlotsType, Rehoming
      <4> QED BY <3>1, <4>1, <4>3
    <3>3. CASE ~ InRange(d)
      <4>1. FiringTime(u)' = OverflowTime(Slots, d, NextVisit(Slots, Slots - 1, now))
        BY <1>1, <1>6, <1>9, <2>1, <2>2, <2>7, <3>3 DEF FiringTimes
      <4>2. NextVisit(Slots, Slots - 1, now) = now + Slots
        BY <1>2, NextRevolution
      <4>3. d >= now + Slots /\ now \in Int
        BY <1>3, <1>6, <3>3 DEF InRange
      <4>4. OverflowTime(Slots, d, now + Slots) = OverflowTime(Slots, d, now)
        BY <4>3, SlotsType, Rehoming
      <4> QED BY <3>1, <4>1, <4>2, <4>4
    <3> QED BY <3>2, <3>3
  <2> QED BY <2>3, <2>4, <2>5, <2>6, <2>7
<1>16. Partition'
  BY <1>1, <1>11, <1>12, <1>13, <1>14, <1>15, KeepsPartition DEF Partition, Fresh, CountKept
<1> QED BY <1>15, <1>16

-----------------------------------------------------------------------------
(* Steps in which a timer leaves the wheel *)

(* The head of the due timers is fired or dropped.                         *)
LEMMA LeavesPartition ==
    ASSUME Partition, NEW f \in {"fired", "dropped"},
           pc \in {"fire", "callback"}, pc' = "fire", todo # <<>>,
           size' = size - 1, todo' = Tail(todo),
           fired' = fired + (IF f = "fired" THEN 1 ELSE 0),
           fate' = [fate EXCEPT ![Head(todo)] = f],
           UNCHANGED <<now, buckets, overflow, count, deadline, cancelled, to,
                       due, before, delay, panics>>
    PROVE  Partition' /\ FixedTimes
<1>1. TypeOK /\ Apart /\ InBuckets /\ due = <<>> /\ SizeAccounted
  BY DEF Partition, Phases
<1>2. todo \in Seq(Timers) /\ ToSet(due) = {} /\ IsInjective(due)
  BY <1>1, Types, ListEmpty
<1>3. PICK t : t = Head(todo)
  OBVIOUS
<1>4. /\ t \in Timers /\ t \in ToSet(todo)
      /\ todo' \in Seq(Timers) /\ IsInjective(todo')
      /\ ToSet(todo') = ToSet(todo) \ {t}
  BY <1>1, <1>2, <1>3, ListTail DEF Apart
<1>5. fate[t] = "held"
  BY <1>1, <1>4 DEF Apart, With
<1>6. /\ fate'[t] = f /\ fate' \in [Timers -> Fates]
      /\ \A u \in Timers : u # t => fate'[u] = fate[u]
  BY <1>1, <1>3, <1>4 DEF TypeOK, Fates
<1>7. OnWheel' = OnWheel /\ With("held")' = With("held") \ {t}
  <2>1. OnWheel' = OnWheel
    BY DEF OnWheel
  <2>2. f # "held"
    OBVIOUS
  <2>3. With("held")' = With("held") \ {t}
    BY <1>4, <1>6, <2>2 DEF With
  <2> QED BY <2>1, <2>3
<1>8. Apart'
  <2>1. /\ OnWheel \cap ToSet(overflow) = {} /\ ToSet(overflow) \cap ToSet(todo) = {}
        /\ OnWheel \cap ToSet(todo) = {}
        /\ With("held") = OnWheel \cup ToSet(overflow) \cup ToSet(todo)
    BY <1>1, <1>2 DEF Apart
  <2>2. /\ ToSet(overflow') \cap ToSet(todo') = {}
        /\ OnWheel' \cap ToSet(overflow') = {} /\ OnWheel' \cap ToSet(todo') = {}
        /\ With("held")' = OnWheel' \cup ToSet(overflow') \cup ToSet(todo')
    BY <1>4, <1>7, <2>1
  <2>3. ToSet(due') = {} /\ IsInjective(due') /\ IsInjective(overflow')
        /\ \A s \in 0..(Slots - 1) : IsInjective(buckets'[s])
    BY <1>1, <1>2 DEF Apart
  <2> QED BY <1>4, <2>2, <2>3 DEF Apart
<1>9. SizeAccounted'
  <2> DEFINE A == With("held") \cup With("panicked") \cup With("lost")
             B == (With("held") \cup With("panicked") \cup With("lost"))'
  <2>1. B = A \ {t} /\ t \in A
    BY <1>4, <1>5, <1>6 DEF With
  <2>2. IsFiniteSet(A) /\ size = Cardinality(A)
    BY <1>1, TimersFinite DEF SizeAccounted, With
  <2> HIDE DEF A, B
  <2>3. Cardinality(B) = Cardinality(A) - 1
    BY <2>1, <2>2, FS_RemoveElement
  <2> QED BY <2>2, <2>3 DEF SizeAccounted, B
<1>10. Counted'
  <2> DEFINE A == With("fired") \ before  B == (With("fired") \ before)'
  <2>1. /\ IsFiniteSet(A) /\ fired = Cardinality(A) /\ fired \in Nat
        /\ before \subseteq With("fired")
    BY <1>1, TimersFinite DEF Partition, Counted, FiredAccounted, With, TypeOK
  <2>2. CASE f = "fired"
    <3>1. /\ B = A \cup {t} /\ t \notin A
          /\ With("fired")' = With("fired") \cup {t}
      BY <1>4, <1>5, <1>6, <2>1, <2>2 DEF With
    <3> HIDE DEF A, B
    <3>2. Cardinality(B) = Cardinality(A) + 1
      BY <2>1, <3>1, FS_AddElement
    <3>3. fired' = Cardinality(B)
      BY <2>1, <2>2, <3>2
    <3> QED BY <2>1, <3>1, <3>3 DEF B, Counted, FiredAccounted
  <2>3. CASE f = "dropped"
    <3>1. With("fired")' = With("fired")
      BY <1>4, <1>5, <1>6, <2>3 DEF With
    <3>2. fired' = fired
      BY <2>1, <2>3
    <3> QED BY <2>1, <3>1, <3>2 DEF Counted, FiredAccounted
  <2> QED BY <2>2, <2>3
<1>11. TypeOK'
  <2>1. size' \in 0..MaxTimers
    BY <1>9, TimersFinite DEF SizeAccounted, With
  <2>2. fired' \in 0..MaxTimers
    <3>1. Cardinality((With("fired") \ before)') \in 0..MaxTimers
      BY TimersFinite DEF With
    <3> QED BY <1>10, <3>1 DEF Counted, FiredAccounted
  <2> QED BY <1>1, <1>4, <1>6, <2>1, <2>2 DEF TypeOK, PC
<1>12. Phases'
  BY <1>1 DEF Phases
<1>13. InBuckets'
  BY <1>1 DEF InBuckets
<1>14. Fresh'
  BY <1>5, <1>6 DEF Partition, Fresh
<1>15. ASSUME NEW u \in Timers, fate[u] = "held", fate'[u] = "held"
       PROVE  FiringTime(u)' = FiringTime(u)
  <2>1. FiringTimes /\ FiringTimes'
    BY <1>1, <1>8, <1>11, FiringTimeByPlace, FiringTimeByPlaceNext
  <2>2. NextRehoming' = NextRehoming
    BY DEF NextRehoming, RevolutionEnds, Slot
  <2>3. u \in OnWheel \cup ToSet(overflow) \cup ToSet(todo)
    BY <1>1, <1>2, <1>15 DEF Apart, With
  <2>4. CASE u \in OnWheel
    BY <1>7, <2>1, <2>4 DEF FiringTimes
  <2>5. CASE u \in ToSet(overflow)
    BY <2>1, <2>2, <2>5 DEF FiringTimes
  <2>6. CASE u \in ToSet(todo)
    <3>1. u \in ToSet(todo')
      BY <1>4, <1>6, <1>15, <2>6
    <3> QED BY <2>1, <2>6, <3>1 DEF FiringTimes
  <2> QED BY <2>3, <2>4, <2>5, <2>6
<1>16. FixedTimes
  BY <1>15 DEF FixedTimes
<1>17. \A u \in Timers : fate'[u] = "held" => fate[u] = "held"
  BY <1>6
<1>18. Punctual'
  BY <1>16, <1>17, PunctualKept
<1> QED BY <1>8, <1>9, <1>10, <1>11, <1>12, <1>13, <1>14, <1>16, <1>18 DEF Partition

LEMMA DropPartition ==
    ASSUME Partition, Drop
    PROVE  Partition' /\ FixedTimes
<1>1. fired \in Nat
  BY DEF Partition, TypeOK
<1>2. fired' = fired + (IF "dropped" = "fired" THEN 1 ELSE 0)
  BY <1>1 DEF Drop
<1> QED BY <1>2, LeavesPartition DEF Drop

LEMMA CallbackReturnsPartition ==
    ASSUME Partition, CallbackReturns
    PROVE  Partition' /\ FixedTimes
<1>1. todo # <<>>
  BY DEF CallbackReturns, Partition, Phases
<1> QED BY <1>1, LeavesPartition DEF CallbackReturns

(* A panic takes the list of due timers along.                             *)
LEMMA CallbackPanicsPartition ==
    ASSUME Partition, CallbackPanics
    PROVE  Partition'
<1>1. /\ pc = "callback" /\ panics < MaxPanics /\ panics' = panics + 1
      /\ pc' = "idle" /\ to' = 0 /\ todo' = <<>> /\ fired' = 0 /\ before' = {}
      /\ UNCHANGED <<now, buckets, overflow, size, count, deadline, cancelled,
                     due, delay>>
  BY DEF CallbackPanics
<1>2. TypeOK /\ Apart /\ InBuckets /\ due = <<>> /\ SizeAccounted /\ todo # <<>>
  BY <1>1 DEF Partition, Phases
<1>3. /\ todo \in Seq(Timers) /\ ToSet(due) = {} /\ IsInjective(due)
      /\ todo' \in Seq(Timers) /\ ToSet(todo') = {} /\ IsInjective(todo')
  BY <1>1, <1>2, Types, ListEmpty
<1>4. Head(todo) \in ToSet(todo)
  BY <1>2, <1>3, ListTail DEF Apart
<1>5. \A t \in Timers : Contains(todo, t) <=> t \in ToSet(todo)
  BY <1>3, ListType
<1>6. /\ fate' \in [Timers -> Fates]
      /\ \A t \in Timers : t \in ToSet(todo) => fate'[t] \in {"panicked", "lost"}
      /\ \A t \in Timers : t \notin ToSet(todo) => fate'[t] = fate[t]
  BY <1>2, <1>4, <1>5 DEF CallbackPanics, TypeOK, Fates
<1>7. \A t \in ToSet(todo) : t \in Timers /\ fate[t] = "held"
  BY <1>2 DEF Apart, With
<1>8. OnWheel' = OnWheel /\ With("held")' = With("held") \ ToSet(todo)
  <2>1. OnWheel' = OnWheel
    BY <1>1 DEF OnWheel
  <2>2. With("held")' = With("held") \ ToSet(todo)
    BY <1>6 DEF With
  <2> QED BY <2>1, <2>2
<1>9. Apart'
  <2>1. /\ OnWheel \cap ToSet(overflow) = {} /\ ToSet(overflow) \cap ToSet(todo) = {}
        /\ OnWheel \cap ToSet(todo) = {}
        /\ With("held") = OnWheel \cup ToSet(overflow) \cup ToSet(todo)
    BY <1>2, <1>3 DEF Apart
  <2>2. With("held")' = OnWheel \cup ToSet(overflow)
    BY <1>8, <2>1
  <2>3. ToSet(due') = {} /\ IsInjective(due') /\ IsInjective(overflow')
        /\ \A s \in 0..(Slots - 1) : IsInjective(buckets'[s])
    BY <1>1, <1>2, <1>3 DEF Apart
  <2> QED BY <1>1, <1>3, <1>8, <2>1, <2>2, <2>3 DEF Apart
<1>10. SizeAccounted'
  <2>1. With("held")' \cup With("panicked")' \cup With("lost")'
            = With("held") \cup With("panicked") \cup With("lost")
    BY <1>6, <1>7 DEF With
  <2> QED BY <1>1, <1>2, <2>1 DEF SizeAccounted
<1>11. Counted'
  BY <1>1 DEF Counted, FiredAccounted
<1>12. TypeOK'
  BY <1>1, <1>2, <1>3, <1>6, WheelAssumption DEF TypeOK, PC
<1>13. Phases'
  BY <1>1, <1>2 DEF Phases
<1>14. InBuckets'
  BY <1>1, <1>2 DEF InBuckets
<1>15. Fresh'
  BY <1>1, <1>6, <1>7 DEF Partition, Fresh
<1>16. Punctual'
  BY <1>1, <1>2 DEF Punctual, TypeOK
<1> QED BY <1>9, <1>10, <1>11, <1>12, <1>13, <1>14, <1>15, <1>16 DEF Partition

-----------------------------------------------------------------------------
(* Invariance *)

LEMMA InitPartition == Init => Partition
<1> SUFFICES ASSUME Init PROVE Partition
  OBVIOUS
<1>1. /\ now = 0 /\ overflow = <<>> /\ size = 0 /\ count = 0 /\ pc = "idle" /\ to = 0
      /\ todo = <<>> /\ due = <<>> /\ fired = 0 /\ before = {} /\ panics = 0
      /\ buckets = [s \in 0..(Slots - 1) |-> <<>>]
      /\ fate = [t \in Timers |-> "none"]
      /\ deadline = [t \in Timers |-> 0] /\ delay = [t \in Timers |-> 0]
      /\ cancelled = [t \in Timers |-> FALSE]
  BY DEF Init
<1>2. /\ ToSet(<<>>) = {} /\ IsInjective(<<>>) /\ <<>> \in Seq(Timers)
  BY ListEmpty
<1>3. /\ MaxTimers \in Nat /\ MaxDelay \in Nat /\ MaxNow \in Nat /\ MaxPanics \in Nat
      /\ MaxNow + MaxDelay \in Nat
  BY WheelAssumption
<1>4. TypeOK
  <2>1. buckets \in [0..(Slots - 1) -> Seq(Timers)]
    BY <1>1, <1>2
  <2>2. /\ fate \in [Timers -> Fates] /\ cancelled \in [Timers -> BOOLEAN]
        /\ deadline \in [Timers -> 0..(MaxNow + MaxDelay)]
        /\ delay \in [Timers -> 0..MaxDelay]
    BY <1>1, <1>3 DEF Fates
  <2> QED BY <1>1, <1>2, <1>3, <2>1, <2>2 DEF TypeOK, PC
<1>5. OnWheel = {}
  BY <1>1, <1>2, OnWheelDef
<1>6. With("held") = {} /\ With("panicked") = {} /\ With("lost") = {} /\ With("fired") = {}
  BY <1>1 DEF With
<1>7. Apart
  BY <1>1, <1>2, <1>5, <1>6 DEF Apart
<1>8. Phases
  BY <1>1 DEF Phases
<1>9. InBuckets
  BY <1>1, <1>2 DEF InBuckets
<1>10. Fresh
  BY <1>1 DEF Fresh, Timers
<1>11. SizeAccounted
  BY <1>1, <1>6, FS_EmptySet DEF SizeAccounted
<1>12. Counted
  BY <1>1 DEF Counted, FiredAccounted
<1>13. Punctual
  BY <1>6 DEF Punctual
<1> QED BY <1>4, <1>7, <1>8, <1>9, <1>10, <1>11, <1>12, <1>13 DEF Partition

LEMMA StutterPartition ==
    ASSUME Partition, UNCHANGED vars
    PROVE  Partition' /\ FixedTimes
<1>1. /\ UNCHANGED <<now, buckets, overflow, todo, due>>
      /\ UNCHANGED <<size, count, deadline, delay, fate, panics>>
      /\ UNCHANGED <<cancelled, pc, to, fired, before>>
  BY DEF vars, local
<1>2. TypeOK'
  BY <1>1 DEF Partition, TypeOK
<1>3. Phases'
  BY <1>1 DEF Partition, Phases, Slot, RevolutionEnds
<1>4. due = <<>> \/ pc' # "rehome"
  BY <1>1 DEF Partition, Phases
<1> QED BY <1>1, <1>2, <1>3, <1>4, StaysPartition DEF Partition, Fresh, CountKept

(* The lists partition the timers that are still to fire, and the place of *)
(* each tells when it fires.                                               *)
LEMMA PartitionInvariance == Spec => []Partition
<1>1. Partition /\ [Next]_vars => Partition'
  BY SchedulePartition, CancelPartition, AdvancePartition, AdvanceReturnsPartition, TickPartition, SiftPartition,
     SiftedPartition, DropPartition, FirePartition, CallbackReturnsPartition, CallbackPanicsPartition,
     FiredPartition, RehomePartition, RehomedPartition, StutterPartition
  DEF Next, Running
<1> QED BY InitPartition, <1>1, PTL DEF Spec

-----------------------------------------------------------------------------
(* The order of peers on the lists *)

LEMMA QueueEmpty == Queue(<<>>)
  BY DEF Queue

QueuesGrow ==
    \A list \in Seq(Timers), t \in Timers :
        Queue(list) /\ (\A u \in ToSet(list) : Peers(u, t) => u < t)
            => Queue(Append(list, t))

LEMMA QueueAppend ==
    ASSUME NEW list \in Seq(Timers), NEW t \in Timers, Queue(list),
           \A u \in ToSet(list) : Peers(u, t) => u < t
    PROVE  Queue(Append(list, t))
<1> DEFINE p == Append(list, t)  n == Len(list)
<1>1. /\ n \in Nat /\ DOMAIN list = 1..n /\ DOMAIN p = 1..(n + 1)
      /\ \A i \in 1..n : p[i] = list[i] /\ list[i] \in ToSet(list)
      /\ p[n + 1] = t
  BY AppendProperties, LenProperties DEF ToSet
<1> HIDE DEF p, n
<1>2. ASSUME NEW i \in DOMAIN p, NEW j \in DOMAIN p, i < j, Peers(p[i], p[j])
      PROVE  p[i] < p[j]
  <2>1. CASE j = n + 1
    <3>1. i \in 1..n
      BY <1>1, <1>2, <2>1
    <3> QED BY <1>1, <1>2, <2>1, <3>1
  <2>2. CASE j # n + 1
    <3>1. i \in 1..n /\ j \in 1..n
      BY <1>1, <1>2, <2>2
    <3> QED BY <1>1, <1>2, <3>1 DEF Queue
  <2> QED BY <2>1, <2>2
<1> QED BY <1>2 DEF Queue, p

LEMMA QueueAppendNext == QueuesGrow'
<1>1. QueuesGrow
  BY QueueAppend DEF QueuesGrow
<1> QED BY <1>1, PTL

LEMMA QueueTail ==
    ASSUME NEW list \in Seq(Timers), list # <<>>, Queue(list)
    PROVE  /\ Queue(Tail(list))
           /\ \A u \in ToSet(Tail(list)) : Peers(Head(list), u) => Head(list) < u
<1> DEFINE r == Tail(list)  h == Head(list)  n == Len(list)
<1>1. /\ n \in Nat \ {0} /\ DOMAIN list = 1..n /\ DOMAIN r = 1..(n - 1)
      /\ \A i \in 1..(n - 1) : r[i] = list[i + 1]
      /\ h = list[1]
  BY HeadTailProperties, LenProperties, EmptySeq
<1> HIDE DEF r, h, n
<1>2. \A i \in DOMAIN r : i + 1 \in DOMAIN list /\ r[i] = list[i + 1] /\ 1 < i + 1
  BY <1>1
<1>3. \A i, j \in DOMAIN r : i < j => i + 1 < j + 1
  BY <1>1
<1>4. Queue(r)
  BY <1>2, <1>3 DEF Queue
<1>5. \A u \in ToSet(r) : Peers(h, u) => h < u
  BY <1>1, <1>2 DEF Queue, ToSet
<1> QED BY <1>4, <1>5 DEF r, h

(* Steps that change no deadline and no delay change no peers. *)
LEMMA SamePeers ==
    ASSUME UNCHANGED <<deadline, delay>>
    PROVE  /\ \A t, u : Peers(t, u)' <=> Peers(t, u)
           /\ \A list : (Queue(list))' <=> Queue(list)
  BY DEF Peers, Queue

(* Steps that leave the lists alone. *)
LEMMA StaysOrdered ==
    ASSUME Ordered, UNCHANGED <<now, buckets, overflow, todo, due, deadline, delay>>,
           pc = "rehome" <=> pc' = "rehome",
           pc' \in {"sift", "fire", "callback"} => pc \in {"sift", "fire", "callback"}
    PROVE  Ordered'
<1>1. OnWheel' = OnWheel
  BY DEF OnWheel
<1>2. /\ \A s \in 0..(Slots - 1) : Queue(buckets[s])'
      /\ Queue(overflow)' /\ Queue(todo)' /\ Queue(due)'
  BY SamePeers DEF Ordered
<1>3. /\ Ahead(ToSet(due), ToSet(todo))'
      /\ Ahead(OnWheel \cup ToSet(overflow), ToSet(todo))'
              <=> Ahead(OnWheel \cup ToSet(overflow), ToSet(todo))
  BY <1>1, SamePeers DEF Ordered, Ahead
<1>4. pc' # "rehome" =>
         \A t \in OnWheel' \cup ToSet(todo') \cup ToSet(due'), u \in ToSet(overflow') :
             ~ Peers(t, u)'
  BY <1>1, SamePeers DEF Ordered
<1> QED BY <1>2, <1>3, <1>4 DEF Ordered, InRange, Slot, Home

LEMMA ScheduleOrdered ==
    ASSUME IInv, NEW d \in 0..MaxDelay, Schedule(d)
    PROVE  Ordered'
<1>0. PICK t \in Timers : t = count + 1
  <2>1. count + 1 \in Timers
    BY WheelAssumption DEF Schedule, IInv, Partition, TypeOK, Timers
  <2> QED BY <2>1
<1>1. PICK e \in Int : e = now + d
  BY WheelAssumption DEF IInv, Partition, TypeOK
<1>2. /\ pc = "idle" /\ pc' = "idle"
      /\ deadline' = [deadline EXCEPT ![t] = e] /\ delay' = [delay EXCEPT ![t] = d]
      /\ Place(t, e, overflow) /\ UNCHANGED <<now, todo, due>>
  BY <1>0, <1>1 DEF Schedule, local
<1>3. TypeOK /\ Apart /\ InBuckets /\ Fresh /\ Ordered /\ todo = <<>> /\ due = <<>>
  BY <1>2 DEF IInv, Partition, Phases
<1>4. /\ now \in Nat /\ d \in Nat /\ Slots \in Nat \ {0} /\ count \in Nat
      /\ buckets \in [0..(Slots - 1) -> Seq(Timers)] /\ overflow \in Seq(Timers)
      /\ deadline \in [Timers -> 0..(MaxNow + MaxDelay)]
      /\ delay \in [Timers -> 0..MaxDelay]
      /\ \A u \in Timers : deadline[u] \in Nat
  BY <1>3, WheelAssumption, Types DEF TypeOK
<1>5. ToSet(<<>>) = {} /\ Queue(<<>>)
  BY ListEmpty, QueueEmpty
<1>6. \A u \in OnWheel \cup ToSet(overflow) : u \in Timers /\ u < t
  <2> TAKE u \in OnWheel \cup ToSet(overflow)
  <2>1. u \in Timers /\ fate[u] = "held"
    BY <1>3 DEF Apart, With
  <2>2. u \in Nat /\ ~ u > count
    BY <1>3, <2>1 DEF Fresh, Timers
  <2> QED BY <1>0, <1>4, <2>1, <2>2
<1>7. \A s \in 0..(Slots - 1) : \A u \in ToSet(buckets[s]) :
         u \in OnWheel /\ deadline[u] < now + Slots
  BY <1>3, OnWheelDef DEF InBuckets
<1>8. /\ deadline'[t] = e /\ delay'[t] = d
      /\ \A u \in OnWheel \cup ToSet(overflow) :
            deadline'[u] = deadline[u] /\ delay'[u] = delay[u]
  BY <1>2, <1>4, <1>6 DEF Timers
<1>9. \A u, v \in OnWheel \cup ToSet(overflow) : Peers(u, v)' <=> Peers(u, v)
  BY <1>8 DEF Peers
<1>10. ASSUME NEW list \in Seq(Timers), Queue(list),
              ToSet(list) \subseteq OnWheel \cup ToSet(overflow)
       PROVE  Queue(list)' /\ Queue(Append(list, t))'
  <2>1. \A i \in DOMAIN list : list[i] \in ToSet(list)
    BY DEF ToSet
  <2>2. Queue(list)'
    BY <1>9, <1>10, <2>1 DEF Queue
  <2>3. \A u \in ToSet(list) : u < t
    BY <1>6, <1>10
  <2> QED BY <2>2, <2>3, QueueAppendNext DEF QueuesGrow
<1>11. /\ OnWheel \subseteq Timers /\ ToSet(overflow) \subseteq Timers
       /\ \A s \in 0..(Slots - 1) :
             ToSet(buckets[s]) \subseteq OnWheel \cup ToSet(overflow)
  BY <1>6, <1>7
<1>12. ASSUME NEW s \in 0..(Slots - 1), NEW list \in Seq(Timers), list = buckets[s]
       PROVE  Queue(list)' /\ Queue(Append(list, t))'
  BY <1>3, <1>7, <1>10, <1>12 DEF Ordered
<1>13. ASSUME NEW list \in Seq(Timers), list = overflow
       PROVE  Queue(list)' /\ Queue(Append(list, t))'
  BY <1>3, <1>10, <1>13 DEF Ordered
<1>14. /\ t \notin OnWheel /\ t \notin ToSet(overflow)
       /\ ToSet(todo') = {} /\ ToSet(due') = {}
       /\ Queue(todo)' /\ Queue(due)'
  BY <1>0, <1>2, <1>3, <1>4, <1>5, <1>6 DEF Queue
<1>15. \A u \in OnWheel, v \in ToSet(overflow) : ~ Peers(u, v)'
  BY <1>2, <1>3, <1>9 DEF Ordered
<1>16. \A v \in ToSet(overflow) : delay'[v] >= Slots
  BY <1>3, <1>8 DEF Ordered
<1>17. \A u \in OnWheel : deadline'[u] < now + Slots
  BY <1>7, <1>8, OnWheelDef
<1>18. CASE InRange(e)
  <2>1. PICK h \in 0..(Slots - 1) : h = Home(e)
    BY HomeType
  <2>2. buckets' = [buckets EXCEPT ![h] = Append(buckets[h], t)] /\ overflow' = overflow
    BY <1>2, <1>18, <2>1 DEF Place
  <2>3. OnWheel' = OnWheel \cup {t} /\ d < Slots
    BY <1>1, <1>2, <1>3, <1>4, <1>14, <1>18, PlaceFacts DEF InRange
  <2>4. ASSUME NEW s \in 0..(Slots - 1) PROVE Queue(buckets[s])'
    <3>1. PICK list \in Seq(Timers) : list = buckets[s]
      BY <1>4
    <3>2. buckets'[s] = list \/ buckets'[s] = Append(list, t)
      BY <1>4, <2>2, <3>1
    <3> QED BY <1>12, <3>1, <3>2 DEF Queue
  <2>5. Queue(overflow)'
    BY <1>4, <1>13, <2>2 DEF Queue
  <2>6. \A u \in OnWheel', v \in ToSet(overflow') : ~ Peers(u, v)'
    BY <1>4, <1>8, <1>15, <1>16, <2>2, <2>3 DEF Peers
  <2> QED BY <1>2, <1>14, <1>16, <2>2, <2>4, <2>5, <2>6 DEF Ordered, Ahead
<1>19. CASE ~ InRange(e)
  <2>1. buckets' = buckets /\ overflow' = Append(overflow, t)
    BY <1>2, <1>19 DEF Place
  <2>2. /\ OnWheel' = OnWheel /\ ToSet(overflow') = ToSet(overflow) \cup {t}
        /\ d >= Slots /\ e >= now + Slots
    BY <1>1, <1>2, <1>3, <1>4, <1>14, <1>19, PlaceFacts DEF InRange
  <2>3. ASSUME NEW s \in 0..(Slots - 1) PROVE Queue(buckets[s])'
    <3>1. PICK list \in Seq(Timers) : list = buckets[s]
      BY <1>4
    <3> QED BY <1>12, <2>1, <3>1 DEF Queue
  <2>4. Queue(overflow)'
    <3>1. PICK list \in Seq(Timers) : list = overflow
      BY <1>4
    <3> QED BY <1>13, <2>1, <3>1 DEF Queue
  <2>5. \A u \in OnWheel', v \in ToSet(overflow') : ~ Peers(u, v)'
    <3>1. \A u \in OnWheel : ~ Peers(u, t)'
      <4> TAKE u \in OnWheel
      <4>1. u \in Timers /\ deadline'[u] < now + Slots /\ deadline'[u] \in Nat
        BY <1>4, <1>6, <1>8, <1>17
      <4> QED BY <1>4, <1>8, <2>2, <4>1 DEF Peers
    <3> QED BY <1>15, <2>2, <3>1
  <2> QED BY <1>2, <1>8, <1>14, <1>16, <2>2, <2>3, <2>4, <2>5 DEF Ordered, Ahead
<1> QED BY <1>18, <1>19

LEMMA TickOrdered ==
    ASSUME IInv, Tick
    PROVE  Ordered'
<1>1. /\ pc = "tick" /\ pc' = "sift" /\ UNCHANGED <<overflow, due, deadline, delay>>
  BY DEF Tick
<1>2. TypeOK /\ InBuckets /\ Ordered /\ due = <<>>
  BY <1>1 DEF IInv, Partition, Phases
<1>3. PICK n \in Nat : n = now + 1
  BY <1>2, Types
<1>4. PICK s \in 0..(Slots - 1) : s = n % Slots
  BY <1>3, SlotsType, ModType
<1>5. /\ now' = n /\ todo' = buckets[s] /\ Slot' = s
      /\ buckets' = [buckets EXCEPT ![s] = <<>>]
  BY <1>3, <1>4 DEF Tick, TakeBucket, Slot
<1>6. ToSet(<<>>) = {} /\ Queue(<<>>)
  BY ListEmpty, QueueEmpty
<1>7. /\ buckets'[s] = <<>>
      /\ \A q \in 0..(Slots - 1) : q # s => buckets'[q] = buckets[q]
  BY <1>2, <1>5 DEF TypeOK
<1>8. /\ \A q \in 0..(Slots - 1) : Queue(buckets[q])'
      /\ Queue(overflow)' /\ Queue(todo)' /\ Queue(due)'
  <2>1. /\ \A q \in 0..(Slots - 1) : Queue(buckets'[q])
        /\ Queue(overflow') /\ Queue(todo') /\ Queue(due')
    BY <1>1, <1>2, <1>5, <1>6, <1>7 DEF Ordered
  <2> QED BY <1>1, <2>1 DEF Queue, Peers
<1>9. /\ OnWheel' \subseteq OnWheel /\ ToSet(todo') \subseteq OnWheel
      /\ ToSet(due') = {}
  BY <1>1, <1>2, <1>5, <1>6, <1>7, OnWheelDef, OnWheelDefNext
<1>10. \A u \in OnWheel' \cup ToSet(todo') \cup ToSet(due'), v \in ToSet(overflow') :
          ~ Peers(u, v)'
  BY <1>1, <1>2, <1>9, SamePeers DEF Ordered
<1>11. \A u \in ToSet(todo') : Home(deadline[u]) = s
  BY <1>2, <1>5 DEF InBuckets, Home
<1> QED BY <1>1, <1>2, <1>5, <1>7, <1>8, <1>9, <1>10, <1>11 DEF Ordered, Ahead, Home

LEMMA SiftOrdered ==
    ASSUME IInv, Sift
    PROVE  Ordered'
<1>1. /\ pc = "sift" /\ todo # <<>> /\ todo' = Tail(todo)
      /\ UNCHANGED <<now, overflow, pc, deadline, delay>>
  BY DEF Sift
<1>2. TypeOK /\ Apart /\ Ordered /\ Slot' = Slot
  BY <1>1 DEF IInv, Partition, Slot
<1>3. PICK t : t = Head(todo)
  OBVIOUS
<1>4. /\ t \in Timers /\ t \in ToSet(todo) /\ ToSet(todo') = ToSet(todo) \ {t}
      /\ Queue(todo') /\ \A u \in ToSet(todo') : Peers(t, u) => t < u
  BY <1>1, <1>2, <1>3, Types, ListTail, QueueTail DEF Apart, Ordered
<1>5. due' = Append(due, t) /\ buckets' = buckets
  <2>1. deadline[t] <= now /\ now \in Nat /\ deadline[t] \in Nat
    BY <1>1, <1>2, <1>4, Types DEF IInv, Partition, Phases
  <2> QED BY <1>3, <2>1 DEF Sift
<1>6. ToSet(due') = ToSet(due) \cup {t} /\ Queue(due')
  <2>1. \A u \in ToSet(due) : Peers(u, t) => u < t
    BY <1>2, <1>4 DEF Ordered, Ahead
  <2> QED BY <1>2, <1>4, <1>5, <2>1, Types, ListAppend, QueueAppend DEF Ordered
<1>7. /\ \A s \in 0..(Slots - 1) : Queue(buckets[s])'
      /\ Queue(overflow)' /\ Queue(todo)' /\ Queue(due)'
  BY <1>1, <1>2, <1>4, <1>5, <1>6 DEF Ordered, Queue, Peers
<1>8. OnWheel' = OnWheel /\ ToSet(todo') \cup ToSet(due') = ToSet(todo) \cup ToSet(due)
  BY <1>4, <1>5, <1>6 DEF OnWheel
<1>9. \A u \in OnWheel' \cup ToSet(todo') \cup ToSet(due'), v \in ToSet(overflow') :
          ~ Peers(u, v)'
  BY <1>1, <1>2, <1>8, SamePeers DEF Ordered
<1>10. Ahead(ToSet(due), ToSet(todo))'
  BY <1>1, <1>2, <1>4, <1>6, SamePeers DEF Ordered, Ahead
<1>11. \A u \in ToSet(todo') \cup ToSet(due') : Home(deadline[u]) = Slot
  BY <1>1, <1>2, <1>8 DEF Ordered
<1> QED BY <1>1, <1>2, <1>5, <1>7, <1>9, <1>10, <1>11 DEF Ordered, Home

LEMMA SiftedOrdered ==
    ASSUME IInv, Sifted
    PROVE  Ordered'
<1>1. /\ pc = "sift" /\ pc' = "fire" /\ todo = <<>> /\ todo' = due /\ due' = <<>>
      /\ UNCHANGED <<now, buckets, overflow, deadline, delay>>
  BY DEF Sifted
<1>2. Ordered /\ OnWheel' = OnWheel /\ Slot' = Slot /\ ToSet(<<>>) = {} /\ Queue(<<>>)
  BY <1>1, ListEmpty, QueueEmpty DEF IInv, OnWheel, Slot
<1>3. /\ \A s \in 0..(Slots - 1) : Queue(buckets[s])'
      /\ Queue(overflow)' /\ Queue(todo)' /\ Queue(due)'
  BY <1>1, <1>2 DEF Ordered, Queue, Peers
<1>4. \A u \in OnWheel' \cup ToSet(todo') \cup ToSet(due'), v \in ToSet(overflow') :
          ~ Peers(u, v)'
  BY <1>1, <1>2, SamePeers DEF Ordered
<1> QED BY <1>1, <1>2, <1>3, <1>4 DEF Ordered, Ahead, Home

(* A timer leaves, or all that are under way. *)
LEMMA LeavesOrdered ==
    ASSUME IInv, pc \in {"fire", "callback"}, pc' \in {"fire", "idle"},
           todo' = <<>> \/ (todo # <<>> /\ todo' = Tail(todo)),
           UNCHANGED <<now, buckets, overflow, due, deadline, delay>>
    PROVE  Ordered'
<1>1. /\ TypeOK /\ Apart /\ Ordered /\ OnWheel' = OnWheel /\ Slot' = Slot
      /\ ToSet(<<>>) = {} /\ Queue(<<>>)
  BY ListEmpty, QueueEmpty DEF IInv, Partition, OnWheel, Slot
<1>2. ToSet(todo') \subseteq ToSet(todo) /\ Queue(todo')
  <2>1. CASE todo' = <<>>
    BY <1>1, <2>1
  <2>2. CASE todo # <<>> /\ todo' = Tail(todo)
    <3>1. todo \in Seq(Timers) /\ IsInjective(todo) /\ Queue(todo)
      BY <1>1, Types DEF Apart, Ordered
    <3>2. ToSet(Tail(todo)) = ToSet(todo) \ {Head(todo)} /\ Queue(Tail(todo))
      BY <2>2, <3>1, ListTail, QueueTail
    <3> QED BY <2>2, <3>2
  <2> QED BY <2>1, <2>2
<1>3. /\ \A s \in 0..(Slots - 1) : Queue(buckets[s])'
      /\ Queue(overflow)' /\ Queue(todo)' /\ Queue(due)'
  BY <1>1, <1>2 DEF Ordered, Queue, Peers
<1>4. \A u \in OnWheel' \cup ToSet(todo') \cup ToSet(due'), v \in ToSet(overflow') :
          ~ Peers(u, v)'
  BY <1>1, <1>2, SamePeers DEF Ordered
<1>5. Ahead(ToSet(due), ToSet(todo))'
  BY <1>1, <1>2, SamePeers DEF Ordered, Ahead
<1> QED BY <1>1, <1>2, <1>3, <1>4, <1>5 DEF Ordered, Home

LEMMA FiredOrdered ==
    ASSUME IInv, Fired
    PROVE  Ordered'
<1>1. /\ pc = "fire" /\ todo = <<>> /\ pc' \in {"rehome", "tick"}
      /\ UNCHANGED <<now, buckets, due, deadline, delay>>
      /\ \/ todo' = overflow /\ overflow' = <<>>
         \/ pc' = "tick" /\ todo' = todo /\ overflow' = overflow
  BY DEF Fired
<1>2. /\ Ordered /\ due = <<>> /\ OnWheel' = OnWheel
      /\ ToSet(<<>>) = {} /\ Queue(<<>>)
  BY <1>1, ListEmpty, QueueEmpty DEF IInv, Partition, Phases, OnWheel
<1>3. /\ \A s \in 0..(Slots - 1) : Queue(buckets[s])'
      /\ Queue(overflow)' /\ Queue(todo)' /\ Queue(due)'
  BY <1>1, <1>2 DEF Ordered, Queue, Peers
<1>4. /\ \A u \in ToSet(todo') \cup ToSet(overflow') : u \in ToSet(overflow) /\ delay[u] >= Slots
      /\ \A u \in OnWheel, v \in ToSet(overflow) : ~ Peers(u, v)'
  BY <1>1, <1>2, SamePeers DEF Ordered
<1> QED BY <1>1, <1>2, <1>3, <1>4 DEF Ordered, Ahead

LEMMA RehomeOrdered ==
    ASSUME IInv, Rehome
    PROVE  Ordered'
<1>1. /\ pc = "rehome" /\ todo # <<>> /\ todo' = Tail(todo)
      /\ UNCHANGED <<now, pc, due, deadline, delay>>
  BY DEF Rehome
<1>2. TypeOK /\ Apart /\ Ordered /\ due = <<>> /\ ToSet(<<>>) = {}
  BY <1>1, ListEmpty DEF IInv, Partition, Phases
<1>3. PICK t : t = Head(todo)
  OBVIOUS
<1>4. /\ t \in Timers /\ t \in ToSet(todo) /\ ToSet(todo') = ToSet(todo) \ {t}
      /\ Queue(todo') /\ \A u \in ToSet(todo') : Peers(t, u) => t < u
  BY <1>1, <1>2, <1>3, Types, ListTail, QueueTail DEF Apart, Ordered
<1>5. PICK d \in Int : d = deadline[t]
  BY <1>2, <1>4, Types
<1>6. /\ Place(t, d, overflow) /\ t \notin OnWheel /\ t \notin ToSet(overflow)
  BY <1>2, <1>3, <1>4, <1>5 DEF Rehome, Apart
<1>7. \A u \in OnWheel \cup ToSet(overflow) : Peers(u, t) => u < t
  BY <1>1, <1>2, <1>4 DEF Ordered, Ahead
<1>8. /\ OnWheel' \cup ToSet(overflow') = OnWheel \cup ToSet(overflow) \cup {t}
      /\ \A u \in ToSet(overflow') : u \in ToSet(overflow) \/ (u = t /\ ~ InRange(d))
  BY <1>2, <1>4, <1>6, PlaceFacts
<1>9. \A s \in 0..(Slots - 1) : Queue(buckets'[s])
  <2>1. CASE InRange(d)
    <3>1. PICK h \in 0..(Slots - 1) : h = Home(d)
      BY HomeType
    <3>2. buckets' = [buckets EXCEPT ![h] = Append(buckets[h], t)]
      BY <1>6, <2>1, <3>1 DEF Place
    <3>3. buckets \in [0..(Slots - 1) -> Seq(Timers)]
      BY <1>2 DEF TypeOK
    <3>4. Queue(Append(buckets[h], t))
      <4>1. \A u \in ToSet(buckets[h]) : Peers(u, t) => u < t
        BY <1>7, OnWheelDef
      <4> QED BY <1>2, <1>4, <3>3, <4>1, QueueAppend DEF Ordered
    <3> QED BY <1>2, <3>2, <3>3, <3>4 DEF Ordered
  <2>2. CASE ~ InRange(d)
    BY <1>2, <1>6, <2>2 DEF Place, Ordered
  <2> QED BY <2>1, <2>2
<1>10. Queue(overflow')
  <2>1. overflow' = overflow \/ overflow' = Append(overflow, t)
    BY <1>6 DEF Place
  <2> QED BY <1>2, <1>4, <1>7, <2>1, Types, QueueAppend DEF Ordered
<1>11. /\ \A s \in 0..(Slots - 1) : Queue(buckets[s])'
       /\ Queue(overflow)' /\ Queue(todo)' /\ Queue(due)'
  BY <1>1, <1>2, <1>4, <1>9, <1>10 DEF Ordered, Queue, Peers
<1>12. Ahead(OnWheel \cup ToSet(overflow), ToSet(todo))'
  BY <1>1, <1>2, <1>4, <1>8, SamePeers DEF Ordered, Ahead
<1>13. /\ \A u \in ToSet(todo') \cup ToSet(overflow') : delay[u] >= Slots
       /\ \A u \in ToSet(overflow') : ~ InRange(deadline[u])
  BY <1>1, <1>2, <1>4, <1>5, <1>8 DEF Ordered
<1> QED BY <1>1, <1>2, <1>11, <1>12, <1>13 DEF Ordered, Ahead, InRange

(* What is still in the overflow list when re-homing ends is due later     *)
(* than anything on the wheel.                                             *)
LEMMA RehomedOrdered ==
    ASSUME IInv, Rehomed
    PROVE  Ordered'
<1>1. /\ pc = "rehome" /\ pc' = "tick" /\ todo = <<>>
      /\ UNCHANGED <<now, buckets, overflow, todo, due, deadline, delay>>
  BY DEF Rehomed
<1>2. /\ TypeOK /\ Apart /\ InBuckets /\ Ordered /\ due = <<>> /\ OnWheel' = OnWheel
      /\ ToSet(<<>>) = {}
  BY <1>1, ListEmpty DEF IInv, Partition, Phases, OnWheel
<1>3. /\ \A s \in 0..(Slots - 1) : Queue(buckets[s])'
      /\ Queue(overflow)' /\ Queue(todo)' /\ Queue(due)'
  BY <1>1, <1>2, SamePeers DEF Ordered
<1>4. \A u \in OnWheel, v \in ToSet(overflow) : ~ Peers(u, v)
  <2> TAKE u \in OnWheel, v \in ToSet(overflow)
  <2>1. u \in Timers /\ v \in Timers
    BY <1>2 DEF Apart, With
  <2>2. deadline[u] < now + Slots
    BY <1>2, OnWheelDef DEF InBuckets
  <2>3. deadline[v] - now >= Slots
    BY <1>1, <1>2, <2>1, Types DEF Ordered, InRange
  <2>4. deadline[u] \in Nat /\ deadline[v] \in Nat /\ now \in Nat /\ Slots \in Nat
    BY <1>2, <2>1, Types
  <2> QED BY <2>2, <2>3, <2>4 DEF Peers
<1> QED BY <1>1, <1>2, <1>3, <1>4, SamePeers DEF Ordered, Ahead

(* The lists partition the timers that are still to fire, the place of     *)
(* each tells when it fires, and peers keep their order.                   *)
THEOREM Invariance == Spec => []IInv
<1>1. Init => IInv
  <2> SUFFICES ASSUME Init PROVE IInv
    OBVIOUS
  <2>1. /\ buckets = [s \in 0..(Slots - 1) |-> <<>>] /\ overflow = <<>> /\ todo = <<>>
        /\ due = <<>> /\ pc = "idle" /\ ToSet(<<>>) = {} /\ Queue(<<>>)
    BY ListEmpty, QueueEmpty DEF Init
  <2>2. Ordered
    BY <2>1 DEF Ordered, Ahead
  <2> QED BY <2>2, InitPartition DEF IInv
<1>2. ASSUME IInv, Partition', [Next]_vars
      PROVE  Ordered'
  <2>1. Ordered
    BY <1>2 DEF IInv
  <2>2. ASSUME UNCHANGED <<now, buckets, overflow, todo, due, deadline, delay>>,
               pc = "rehome" <=> pc' = "rehome",
               pc' \in {"sift", "fire", "callback"} => pc \in {"sift", "fire", "callback"}
        PROVE  Ordered'
    BY <2>1, <2>2, StaysOrdered
  <2>3. CASE \E d \in 0..MaxDelay : Schedule(d)
    BY <1>2, <2>3, ScheduleOrdered
  <2>4. CASE \E t \in Timers : Cancel(t)
    BY <2>2, <2>4 DEF Cancel, local
  <2>5. CASE \E n \in 0..MaxNow : Advance(n)
    BY <2>2, <2>5 DEF Advance
  <2>6. CASE AdvanceReturns
    BY <2>2, <2>6 DEF AdvanceReturns
  <2>7. CASE Tick
    BY <1>2, <2>7, TickOrdered
  <2>8. CASE Sift
    BY <1>2, <2>8, SiftOrdered
  <2>9. CASE Sifted
    BY <1>2, <2>9, SiftedOrdered
  <2>10. CASE Drop
    BY <1>2, <2>10, LeavesOrdered DEF Drop
  <2>11. CASE Fire
    BY <2>2, <2>11 DEF Fire
  <2>12. CASE CallbackReturns
    <3>1. todo # <<>>
      BY <1>2, <2>12 DEF CallbackReturns, IInv, Partition, Phases
    <3> QED BY <1>2, <2>12, <3>1, LeavesOrdered DEF CallbackReturns
  <2>13. CASE CallbackPanics
    BY <1>2, <2>13, LeavesOrdered DEF CallbackPanics
  <2>14. CASE Fired
    BY <1>2, <2>14, FiredOrdered
  <2>15. CASE Rehome
    BY <1>2, <2>15, RehomeOrdered
  <2>16. CASE Rehomed
    BY <1>2, <2>16, RehomedOrdered
  <2>17. CASE UNCHANGED vars
    BY <2>2, <2>17 DEF vars, local
  <2> QED
    BY <1>2, <2>3, <2>4, <2>5, <2>6, <2>7, <2>8, <2>9, <2>10, <2>11, <2>12, <2>13,
       <2>14, <2>15, <2>16, <2>17 DEF Next, Running
<1>3. IInv => Partition
  BY DEF IInv
<1>4. Partition' /\ Ordered' => IInv'
  BY DEF IInv
<1> QED BY <1>1, <1>2, <1>3, <1>4, PartitionInvariance, PTL DEF Spec

(* Timers with one deadline that took the same path to their bucket have   *)
(* their turn in the order they were scheduled (place, tick).              *)
THEOREM PeersTakeTurns == Spec => InOrder
<1>1. ASSUME IInv, [Next]_vars, NEW t \in Timers, NEW u \in Timers, u < t, Peers(t, u),
             fate[t] = "held", fate'[t] \in {"fired", "dropped", "panicked"}
      PROVE  fate[u] # "held"
  <2>1. /\ TypeOK /\ Apart /\ Phases /\ InBuckets /\ Ordered
        /\ fate \in [Timers -> Fates]
    BY <1>1 DEF IInv, Partition, TypeOK
  <2>2. pc \in {"fire", "callback"} /\ todo # <<>> /\ t = Head(todo)
    <3>1. ASSUME NEW d \in 0..MaxDelay, Schedule(d) PROVE fate'[t] = "held"
      BY <1>1, <2>1, <3>1 DEF Schedule
    <3>2. CASE Drop
      BY <1>1, <2>1, <3>2 DEF Drop
    <3>3. CASE CallbackReturns
      BY <1>1, <2>1, <3>3 DEF CallbackReturns, Phases
    <3>4. CASE CallbackPanics
      BY <1>1, <2>1, <3>4 DEF CallbackPanics, Phases
    <3>5. CASE UNCHANGED fate
      BY <1>1, <3>5
    <3> QED
      BY <1>1, <3>1, <3>2, <3>3, <3>4, <3>5
      DEF Next, Running, Cancel, Advance, AdvanceReturns, Tick, Sift, Sifted, Fire,
          Fired, Rehome, Rehomed, vars
  <2>3. /\ t \in ToSet(todo) /\ ToSet(Tail(todo)) = ToSet(todo) \ {t} /\ ToSet(due) = {}
        /\ \A v \in ToSet(Tail(todo)) : Peers(t, v) => t < v
    BY <2>1, <2>2, Types, ListTail, ListEmpty, QueueTail DEF Apart, Ordered, Phases
  <2> SUFFICES ASSUME fate[u] = "held" PROVE FALSE
    OBVIOUS
  <2>4. u \in OnWheel \cup ToSet(overflow) \cup ToSet(todo)
    BY <2>1, <2>3 DEF Apart, With
  <2>5. CASE u \in ToSet(todo)
    <3>1. t < u /\ t \in Nat /\ u \in Nat
      BY <1>1, <2>3, <2>5 DEF Timers
    <3> QED BY <1>1, <3>1
  <2>6. CASE u \in ToSet(overflow)
    BY <1>1, <2>1, <2>2, <2>3, <2>6 DEF Ordered
  <2>7. CASE u \in OnWheel
    <3>1. PICK s \in 0..(Slots - 1) : u \in ToSet(buckets[s])
      BY <2>7, OnWheelDef
    <3>2. deadline[t] % Slots = s
      BY <1>1, <2>1, <3>1 DEF InBuckets, Peers
    <3>3. s = Slot /\ buckets[s] = <<>>
      BY <2>1, <2>2, <2>3, <3>2 DEF Ordered, Home
    <3> QED BY <3>1, <3>3, ListEmpty
  <2> QED BY <2>4, <2>5, <2>6, <2>7
<1>2. IInv /\ [Next]_vars =>
         [\A t, u \in Timers :
            /\ u < t /\ Peers(t, u)
            /\ fate[t] = "held" /\ fate'[t] \in {"fired", "dropped", "panicked"}
            => fate[u] # "held"]_vars
  BY <1>1
<1> QED BY <1>2, Invariance, PTL DEF Spec, InOrder

(* The variables of the wheel keep their types: size() and the value that  *)
(* advance returns do not leave 0..MaxTimers (size -= 1).                  *)
THEOREM TypeCorrectness == Spec => []TypeOK
<1>1. Partition => TypeOK BY DEF Partition
<1> QED BY <1>1, PartitionInvariance, PTL

(* size() is the number of timers held or lost to a panic, and advance     *)
(* counts those that fired since it was called (schedule, tick, advance).  *)
THEOREM CountersAreAccounted == Spec => []Accounted
<1>1. Partition => Accounted BY DEF Partition, Counted, Accounted
<1> QED BY <1>1, PartitionInvariance, PTL

(* The list `keep' of tick stays empty (schedule's range check).           *)
THEOREM NothingIsKept == Spec => []NothingKept
<1>1. ASSUME Partition
      PROVE  NothingKept
  <2>1. \A s \in 0..(Slots - 1) : \A i \in DOMAIN buckets[s] : buckets[s][i] \in ToSet(buckets[s])
    BY DEF ToSet
  <2>2. \A i \in DOMAIN todo : todo[i] \in ToSet(todo)
    BY DEF ToSet
  <2> QED BY <1>1, <2>1, <2>2 DEF Partition, InBuckets, Phases, NothingKept
<1> QED BY <1>1, PartitionInvariance, PTL

(* Unless a callback panics, every timer fires exactly when its scheduling *)
(* said (schedule, tick and its re-homing).                                *)
THEOREM TimersFireWhenDue == Spec => []FiresWhenDue
<1>1. ASSUME Partition, panics = 0, pc = "callback"
      PROVE  now = DueAt(Head(todo))
  <2>1. TypeOK /\ Apart /\ todo # <<>>
    BY <1>1 DEF Partition, Phases
  <2>2. Head(todo) \in ToSet(todo)
    BY <2>1, Types, ListTail DEF Apart
  <2>3. FiringTime(Head(todo)) = now
    BY <1>1, <2>1, <2>2, FiringTimeByPlace DEF FiringTimes
  <2>4. Head(todo) \in With("held")
    BY <2>1, <2>2 DEF Apart
  <2> QED BY <1>1, <2>3, <2>4 DEF Partition, Punctual
<1>2. ASSUME Partition, panics = 0, pc = "idle", NEW t \in With("held")
      PROVE  now < DueAt(t)
  <2>1. TypeOK /\ Apart /\ ToSet(todo) = {} /\ ToSet(due) = {} /\ t \in Timers
    BY <1>2, ListEmpty DEF Partition, Phases, With
  <2>2. FiringTime(t) \in Int /\ FiringTime(t) > now
    BY <2>1, NonePassed DEF Apart
  <2>3. FiringTime(t) = DueAt(t) /\ now \in Int
    BY <1>2, <2>1, Types DEF Partition, Punctual
  <2> QED BY <2>2, <2>3
<1>3. Partition => FiresWhenDue
  BY <1>1, <1>2 DEF FiresWhenDue
<1> QED BY <1>3, PartitionInvariance, PTL

(* A cancelled timer never fires (the check of cancelled in tick, after    *)
(* every callback before it).                                              *)
THEOREM CancelledDoNotFire == Spec => CancelledNeverFires
<1>1. ASSUME Partition, [Next]_vars, NEW t \in Timers, cancelled[t], fate[t] # "fired"
      PROVE  fate'[t] # "fired"
  <2>1. fate \in [Timers -> Fates]
    BY <1>1 DEF Partition, TypeOK
  <2>2. ASSUME NEW d \in 0..MaxDelay, Schedule(d) PROVE fate'[t] # "fired"
    BY <1>1, <2>1, <2>2 DEF Schedule
  <2>3. CASE Drop
    BY <1>1, <2>1, <2>3 DEF Drop
  <2>4. CASE CallbackReturns
    <3>1. Head(todo) # t
      BY <1>1, <2>4 DEF CallbackReturns, Partition, Phases
    <3> QED BY <1>1, <2>1, <2>4, <3>1 DEF CallbackReturns
  <2>5. CASE CallbackPanics
    BY <1>1, <2>5 DEF CallbackPanics
  <2>6. CASE UNCHANGED fate
    BY <1>1, <2>6
  <2> QED
    BY <1>1, <2>2, <2>3, <2>4, <2>5, <2>6
    DEF Next, Running, Cancel, Advance, AdvanceReturns, Tick, Sift, Sifted, Fire,
        Fired, Rehome, Rehomed, vars
<1>2. Partition /\ [Next]_vars =>
         [\A t \in Timers : cancelled[t] => fate'[t] # "fired" \/ fate[t] = "fired"]_vars
  BY <1>1
<1> QED BY <1>2, PartitionInvariance, PTL DEF Spec, CancelledNeverFires

-----------------------------------------------------------------------------
(* One place *)

LEMMA ListsAre ==
    ASSUME NEW l
    PROVE  l \in Lists <=> \/ \E s \in 0..(Slots - 1) : l = [wheel |-> "bucket", slot |-> s]
                           \/ l = [wheel |-> "overflow"]
                           \/ l = [wheel |-> "todo"]
                           \/ l = [wheel |-> "due"]
  BY DEF Lists

LEMMA ListIs ==
    /\ \A s \in 0..(Slots - 1) : List([wheel |-> "bucket", slot |-> s]) = buckets[s]
    /\ List([wheel |-> "overflow"]) = overflow
    /\ List([wheel |-> "todo"]) = todo
    /\ List([wheel |-> "due"]) = due
  BY DEF List

(* No timer is on two lists, or on one list twice. *)
LEMMA ListsApart ==
    ASSUME Partition
    PROVE  /\ \A l \in Lists : IsInjective(List(l))
           /\ \A l, m \in Lists : l # m => ToSet(List(l)) \cap ToSet(List(m)) = {}
           /\ \A t : t \in With("held") <=> \E l \in Lists : t \in ToSet(List(l))
<1>1. Apart /\ InBuckets
  BY DEF Partition
<1>2. \A l \in Lists : IsInjective(List(l))
  BY <1>1, ListsAre, ListIs DEF Apart
<1>3. ASSUME NEW s \in 0..(Slots - 1), NEW q \in 0..(Slots - 1), s # q
      PROVE  ToSet(buckets[s]) \cap ToSet(buckets[q]) = {}
  BY <1>1, <1>3 DEF InBuckets
<1>4. \A s \in 0..(Slots - 1) : ToSet(buckets[s]) \subseteq OnWheel
  BY OnWheelDef
<1>5. ASSUME NEW l \in Lists, NEW m \in Lists, NEW t,
             t \in ToSet(List(l)), t \in ToSet(List(m))
      PROVE  l = m
  <2>1. CASE t \in OnWheel
    <3>1. t \notin ToSet(overflow) /\ t \notin ToSet(todo) /\ t \notin ToSet(due)
      BY <1>1, <2>1 DEF Apart
    <3>2. PICK s \in 0..(Slots - 1) :
              l = [wheel |-> "bucket", slot |-> s] /\ t \in ToSet(buckets[s])
      BY <1>5, <3>1, ListsAre, ListIs
    <3>3. PICK q \in 0..(Slots - 1) :
              m = [wheel |-> "bucket", slot |-> q] /\ t \in ToSet(buckets[q])
      BY <1>5, <3>1, ListsAre, ListIs
    <3> QED BY <1>3, <3>2, <3>3
  <2>2. CASE t \notin OnWheel
    <3>1. /\ l \in {[wheel |-> "overflow"], [wheel |-> "todo"], [wheel |-> "due"]}
          /\ m \in {[wheel |-> "overflow"], [wheel |-> "todo"], [wheel |-> "due"]}
      BY <1>4, <1>5, <2>2, ListsAre, ListIs
    <3> QED BY <1>1, <1>5, <3>1, ListIs DEF Apart
  <2> QED BY <2>1, <2>2
<1>6. ASSUME NEW t
      PROVE  t \in With("held") <=> \E l \in Lists : t \in ToSet(List(l))
  <2>1. (\E l \in Lists : t \in ToSet(List(l)))
            <=> \/ \E s \in 0..(Slots - 1) : t \in ToSet(buckets[s])
                \/ t \in ToSet(overflow) \/ t \in ToSet(todo) \/ t \in ToSet(due)
    BY ListsAre, ListIs
  <2> QED BY <1>1, <2>1, OnWheelDef DEF Apart
<1> QED BY <1>2, <1>5, <1>6

(* A timer that is still to fire is in exactly one place, and no other one *)
(* is anywhere (the lists that schedule and tick move timers between).     *)
THEOREM TimersAreInOnePlace == Spec => []OnePlace
<1>1. ASSUME Partition, NEW t \in Timers
      PROVE  Cardinality(Places(t)) = IF fate[t] = "held" THEN 1 ELSE 0
  <2>1. \A p : p \in Places(t) <=> \E l \in Lists : \E i \in DOMAIN List(l) :
                                      List(l)[i] = t /\ p = <<l, i>>
    BY DEF Places
  <2>2. \A l \in Lists : t \in ToSet(List(l)) <=> \E i \in DOMAIN List(l) : List(l)[i] = t
    BY DEF ToSet
  <2>3. CASE fate[t] = "held"
    <3>1. PICK l \in Lists : t \in ToSet(List(l))
      BY <1>1, <2>3, ListsApart DEF With
    <3>2. PICK i \in DOMAIN List(l) : List(l)[i] = t
      BY <2>2, <3>1
    <3>3. ASSUME NEW m \in Lists, NEW j \in DOMAIN List(m), List(m)[j] = t
          PROVE  m = l /\ j = i
      <4>1. t \in ToSet(List(m))
        BY <2>2, <3>3
      <4>2. m = l
        BY <1>1, <3>1, <4>1, ListsApart
      <4>3. IsInjective(List(l))
        BY <1>1, ListsApart
      <4> QED BY <3>2, <3>3, <4>2, <4>3 DEF IsInjective
    <3>4. Places(t) = {<<l, i>>}
      BY <2>1, <3>2, <3>3
    <3> QED BY <2>3, <3>4, FS_Singleton
  <2>4. CASE fate[t] # "held"
    <3>1. \A l \in Lists : t \notin ToSet(List(l))
      BY <1>1, <2>4, ListsApart DEF With
    <3>2. Places(t) = {}
      BY <2>1, <2>2, <3>1
    <3> QED BY <2>4, <3>2, FS_EmptySet
  <2> QED BY <2>3, <2>4
<1>2. Partition => OnePlace
  BY <1>1 DEF OnePlace
<1> QED BY <1>2, PartitionInvariance, PTL

-----------------------------------------------------------------------------
(* Implementation of TimerService *)

(* What the service sees of the wheel. *)
At(t) == IF fate[t] = "held" THEN FiringTime(t) ELSE 0
States == [t \in Timers |-> State(t)]
Ats == [t \in Timers |-> At(t)]

StatesByFate ==
    \A t \in Timers :
        /\ State(t) = "new" <=> fate[t] = "none"
        /\ State(t) = "pending" <=> fate[t] = "held" /\ ~ cancelled[t]
        /\ State(t) = "cancelled" <=> fate[t] = "held" /\ cancelled[t]
        /\ State(t) = "failed" <=> fate[t] = "panicked"
        /\ fate[t] \in {"fired", "dropped", "lost"} => State(t) = fate[t]

LEMMA StateByFate == TypeOK => StatesByFate
<1> SUFFICES ASSUME TypeOK, NEW t \in Timers
             PROVE  /\ State(t) = "new" <=> fate[t] = "none"
                    /\ State(t) = "pending" <=> fate[t] = "held" /\ ~ cancelled[t]
                    /\ State(t) = "cancelled" <=> fate[t] = "held" /\ cancelled[t]
                    /\ State(t) = "failed" <=> fate[t] = "panicked"
                    /\ fate[t] \in {"fired", "dropped", "lost"} => State(t) = fate[t]
  BY DEF StatesByFate
<1>1. fate[t] \in {"none", "held", "fired", "dropped", "panicked", "lost"}
  BY DEF TypeOK, Fates
<1>2. CASE fate[t] = "none"     BY <1>2 DEF State
<1>3. CASE fate[t] = "held"     BY <1>3 DEF State
<1>4. CASE fate[t] = "fired"    BY <1>4 DEF State
<1>5. CASE fate[t] = "dropped"  BY <1>5 DEF State
<1>6. CASE fate[t] = "panicked" BY <1>6 DEF State
<1>7. CASE fate[t] = "lost"     BY <1>7 DEF State
<1> QED BY <1>1, <1>2, <1>3, <1>4, <1>5, <1>6, <1>7

LEMMA StateByFateNext == (TypeOK => StatesByFate)'
  BY StateByFate, PTL

(* The live timers of the service are those the wheel holds, and the due   *)
(* ones those that advance has still to visit in this tick.                *)
LEMMA ServiceLive ==
    ASSUME Partition
    PROVE  /\ Service!Live = With("held")
           /\ \A t : t \in Service!Due <=> t \in With("held") /\ FiringTime(t) = now
<1>1. \A t \in Timers : State(t) \in {"pending", "cancelled"} <=> fate[t] = "held"
  BY StateByFate DEF Partition, StatesByFate
<1>2. Service!Live = With("held")
  BY <1>1 DEF Service!Live, With
<1>3. \A t \in With("held") : t \in Timers /\ fate[t] = "held"
  BY DEF With
<1> QED BY <1>2, <1>3 DEF Service!Due

LEMMA ServiceDue ==
    ASSUME Partition, pc \in {"tick", "fire", "callback"}
    PROVE  Service!Due = ToSet(todo)
<1>1. TypeOK /\ Apart /\ ToSet(due) = {}
  BY ListEmpty DEF Partition, Phases
<1>2. \A t \in ToSet(todo) : FiringTime(t) = now
  BY <1>1, FiringTimeByPlace DEF FiringTimes
<1>3. \A t \in With("held") : t \in ToSet(todo) \/ t \in OnWheel \cup ToSet(overflow)
  BY <1>1 DEF Apart
<1>4. \A t \in With("held") : t \in OnWheel \cup ToSet(overflow) => FiringTime(t) # now
  <2> TAKE t \in With("held")
  <2> HAVE t \in OnWheel \cup ToSet(overflow)
  <2>1. FiringTime(t) \in Int /\ FiringTime(t) > now
    BY <1>1, NonePassed DEF With
  <2> QED BY <1>1, <2>1, Types
<1>5. ToSet(todo) \subseteq With("held")
  BY <1>1 DEF Apart
<1> QED BY <1>2, <1>3, <1>4, <1>5, ServiceLive

(* Steps in which no timer is scheduled, cancelled or leaves. *)
LEMMA Unseen ==
    ASSUME FixedTimes, UNCHANGED <<fate, cancelled>>
    PROVE  States' = States /\ Ats' = Ats
<1>1. \A t \in Timers : State(t)' = State(t)
  BY DEF State
<1>2. \A t \in Timers : At(t)' = At(t)
  BY DEF At, FixedTimes
<1> QED BY <1>1, <1>2 DEF States, Ats

LEMMA UnseenSteps ==
    ASSUME States' = States, Ats' = Ats, now' = now
    PROVE  UNCHANGED Service!tvars
  BY DEF States, Ats, At, Service!tvars

LEMMA ScheduleImplements ==
    ASSUME Partition, Partition', NEW d \in 0..MaxDelay, Schedule(d)
    PROVE  Service!TNext
<1>1. PICK t \in Timers : t = count + 1
  <2>1. count + 1 \in Timers
    BY WheelAssumption DEF Schedule, Partition, TypeOK, Timers
  <2> QED BY <2>1
<1>2. /\ fate' = [fate EXCEPT ![t] = "held"] /\ cancelled' = cancelled /\ now' = now
      /\ deadline' = [deadline EXCEPT ![t] = now + d]
      /\ delay' = [delay EXCEPT ![t] = d]
  BY <1>1 DEF Schedule
<1>3. /\ fate \in [Timers -> Fates] /\ now \in Nat /\ d \in Nat /\ Slots \in Nat \ {0}
      /\ deadline'[t] = now + d /\ delay'[t] = d
  BY <1>2, WheelAssumption DEF Partition, TypeOK
<1>4. fate[t] = "none" /\ ~ cancelled[t]
  <2>1. count \in Int
    BY DEF Partition, TypeOK
  <2>2. t > count
    BY <1>1, <2>1
  <2> QED BY <2>2 DEF Partition, Fresh
<1>5. StatesByFate /\ StatesByFate'
  BY StateByFate, StateByFateNext DEF Partition
<1>6. State(t) = "new" /\ State(t)' = "pending"
  BY <1>2, <1>3, <1>4, <1>5 DEF StatesByFate
<1>7. \A u \in Timers : u # t => State(u)' = State(u)
  BY <1>2, <1>3 DEF State
<1>8. States' = [States EXCEPT ![t] = "pending"]
  BY <1>6, <1>7 DEF States
<1> DEFINE late == IF HeldBack(t)' THEN Slots ELSE 0
<1>9. late \in {0, Slots} /\ d + late > 0
  <2>1. d = 0 => HeldBack(t)'
    BY <1>3 DEF HeldBack
  <2> QED BY <1>3, <2>1
<1>10. At(t)' = now + d + late
  <2>1. FiringTime(t)' = DueAt(t)'
    BY <1>1, SchedulePartition
  <2> QED BY <1>2, <1>3, <2>1 DEF At, DueAt
<1>11. \A u \in Timers : u # t => At(u)' = At(u)
  <2>1. FixedTimes
    BY SchedulePartition
  <2> QED BY <1>2, <1>3, <2>1 DEF At, FixedTimes
<1>12. Ats' = [Ats EXCEPT ![t] = now + d + late]
  BY <1>10, <1>11 DEF Ats
<1> HIDE DEF late
<1>13. Service!Schedule(t)
  <2>1. States[t] = "new"
    BY <1>6 DEF States
  <2> QED BY <1>2, <1>8, <1>9, <1>12, <2>1 DEF Service!Schedule, States, Ats, At
<1> QED BY <1>13 DEF Service!TNext

LEMMA CancelImplements ==
    ASSUME Partition, Partition', NEW t \in Timers, Cancel(t)
    PROVE  Service!TNext
<1>1. /\ fate[t] = "held" /\ ~ cancelled[t] /\ cancelled' = [cancelled EXCEPT ![t] = TRUE]
      /\ now' = now /\ fate' = fate
  BY DEF Cancel
<1>2. cancelled'[t] /\ \A u \in Timers : u # t => cancelled'[u] = cancelled[u]
  BY <1>1 DEF Partition, TypeOK
<1>3. StatesByFate /\ StatesByFate'
  BY StateByFate, StateByFateNext DEF Partition
<1>4. State(t) = "pending" /\ State(t)' = "cancelled"
  BY <1>1, <1>2, <1>3 DEF StatesByFate
<1>5. \A u \in Timers : u # t => State(u)' = State(u)
  BY <1>1, <1>2 DEF State
<1>6. States' = [States EXCEPT ![t] = "cancelled"] /\ States[t] = "pending"
  BY <1>4, <1>5 DEF States
<1>7. Ats' = Ats
  <2>1. FixedTimes
    BY CancelPartition
  <2> QED BY <1>1, <2>1 DEF Ats, At, FixedTimes
<1>8. Service!Cancel(t)
  BY <1>1, <1>6, <1>7 DEF Service!Cancel, States, Ats, At
<1> QED BY <1>8 DEF Service!TNext

LEMMA TickImplements ==
    ASSUME Partition, Partition', Tick
    PROVE  Service!TNext
<1>1. pc = "tick" /\ todo = <<>> /\ now' = now + 1 /\ UNCHANGED <<fate, cancelled>>
  BY DEF Tick, Partition, Phases
<1>2. Service!Due = {}
  BY <1>1, ServiceDue, ListEmpty
<1>3. States' = States /\ Ats' = Ats
  BY <1>1, TickPartition, Unseen
<1>4. Service!Pass
  BY <1>1, <1>2, <1>3 DEF Service!Pass, States, Ats, At
<1> QED BY <1>4 DEF Service!TNext

(* A due timer leaves. *)
LEMMA LeavesImplements ==
    ASSUME Partition, Partition', FixedTimes, pc \in {"fire", "callback"}, todo # <<>>,
           NEW f \in {"fired", "dropped"}, f = "fired" <=> ~ cancelled[Head(todo)],
           fate' = [fate EXCEPT ![Head(todo)] = f], UNCHANGED <<now, cancelled>>
    PROVE  Service!TNext
<1>1. PICK t : t = Head(todo)
  OBVIOUS
<1>2. TypeOK /\ Apart
  BY DEF Partition
<1>3. t \in ToSet(todo) /\ t \in Timers /\ fate \in [Timers -> Fates]
  BY <1>1, <1>2, Types, ListTail DEF Apart, TypeOK
<1>4. t \in Service!Due
  BY <1>3, ServiceDue
<1>5. fate[t] = "held"
  BY <1>2, <1>3 DEF Apart, With
<1>6. fate'[t] = f /\ \A u \in Timers : u # t => fate'[u] = fate[u]
  BY <1>1, <1>3
<1>7. StatesByFate /\ StatesByFate'
  BY StateByFate, StateByFateNext DEF Partition
<1>8. State(t) = (IF cancelled[t] THEN "cancelled" ELSE "pending") /\ State(t)' = f
  BY <1>3, <1>5, <1>6, <1>7 DEF StatesByFate
<1>9. \A u \in Timers : u # t => State(u)' = State(u)
  BY <1>6 DEF State
<1>10. States' = [States EXCEPT ![t] = IF @ = "pending" THEN "fired" ELSE "dropped"]
  BY <1>1, <1>3, <1>8, <1>9 DEF States
<1>11. At(t)' = 0 /\ \A u \in Timers : u # t => At(u)' = At(u)
  BY <1>6 DEF At, FixedTimes
<1>12. Ats' = [Ats EXCEPT ![t] = 0]
  BY <1>3, <1>11 DEF Ats
<1>13. Service!Expire(t)
  BY <1>4, <1>10, <1>12 DEF Service!Expire, States, Ats, At
<1> QED BY <1>3, <1>13 DEF Service!TNext

(* The timers of the overflow list that would have come into range are     *)
(* re-homed a revolution later if the callback panics in the last tick of  *)
(* a revolution.                                                           *)
LEMMA PanicTimes ==
    ASSUME Partition, CallbackPanics, NEW t \in Timers, t \in OnWheel \cup ToSet(overflow)
    PROVE  FiringTime(t)' \in {FiringTime(t), FiringTime(t) + Slots}
<1>1. /\ pc = "callback" /\ pc' = "idle"
      /\ UNCHANGED <<now, buckets, overflow, deadline>>
  BY DEF CallbackPanics
<1>2. TypeOK /\ Apart /\ TypeOK' /\ Apart'
  BY CallbackPanicsPartition DEF Partition
<1>3. FiringTimes /\ FiringTimes'
  BY <1>2, FiringTimeByPlace, FiringTimeByPlaceNext
<1>4. now \in Int /\ deadline[t] \in Int /\ OnWheel' = OnWheel
  BY <1>1, <1>2, Types DEF OnWheel
<1>5. CASE t \in OnWheel
  BY <1>1, <1>3, <1>4, <1>5 DEF FiringTimes
<1>6. CASE t \in ToSet(overflow)
  <2>1. /\ FiringTime(t) = OverflowTime(Slots, deadline[t], NextRehoming)
        /\ FiringTime(t)' = OverflowTime(Slots, deadline[t], NextRehoming')
    BY <1>1, <1>3, <1>6 DEF FiringTimes
  <2>2. NextRehoming' = NextVisit(Slots, Slots - 1, now)
    BY <1>1 DEF NextRehoming
  <2>3. CASE RevolutionEnds
    <3>1. NextRehoming = now /\ NextRehoming' = now + Slots
      BY <1>1, <1>2, <2>2, <2>3, NextRevolution DEF NextRehoming
    <3> DEFINE d == deadline[t]
    <3>2. d \in Int /\ Slots \in Nat
      BY <1>4, WheelAssumption
    <3> HIDE DEF d
    <3>3. OverflowTime(Slots, d, now + Slots) \in {OverflowTime(Slots, d, now), OverflowTime(Slots, d, now) + Slots}
      <4>1. d < now + Slots \/ d >= now + Slots
        BY <1>4, <3>2
      <4> QED BY <1>4, <3>2, <4>1, SlotsType, Rehoming
    <3> QED BY <2>1, <3>1, <3>3 DEF d
  <2>4. CASE ~ RevolutionEnds
    <3>1. NextRehoming' = NextRehoming
      BY <2>2, <2>4 DEF NextRehoming
    <3> QED BY <2>1, <3>1
  <2> QED BY <2>3, <2>4
<1> QED BY <1>5, <1>6

LEMMA CallbackPanicsImplements ==
    ASSUME Partition, Partition', CallbackPanics
    PROVE  Service!TNext
<1>1. /\ pc = "callback" /\ now' = now /\ cancelled' = cancelled
      /\ fate' = [t \in Timers |-> IF t = Head(todo) THEN "panicked"
                                    ELSE IF Contains(todo, t) THEN "lost"
                                    ELSE fate[t]]
  BY DEF CallbackPanics
<1>2. /\ TypeOK /\ Apart /\ todo # <<>> /\ ~ cancelled[Head(todo)]
      /\ ToSet(due) = {}
  BY <1>1, ListEmpty DEF Partition, Phases
<1>3. PICK t : t = Head(todo)
  OBVIOUS
<1>4. /\ t \in ToSet(todo) /\ t \in Timers
      /\ \A u : Contains(todo, u) <=> u \in ToSet(todo)
      /\ \A u \in ToSet(todo) : fate[u] = "held"
  BY <1>2, <1>3, Types, ListTail, ListType DEF Apart, With
<1>5. Service!Due = ToSet(todo) /\ Service!Live = With("held")
  BY <1>1, ServiceDue, ServiceLive
<1>6. \A u \in Timers : fate'[u] = IF u = t THEN "panicked"
                                   ELSE IF u \in ToSet(todo) THEN "lost" ELSE fate[u]
  BY <1>1, <1>3, <1>4
<1>7. StatesByFate /\ StatesByFate'
  BY StateByFate, StateByFateNext, <1>2 DEF Partition
<1>8. States' = [u \in Timers |-> IF u = t THEN "failed"
                                  ELSE IF u \in Service!Due THEN "lost" ELSE States[u]]
  <2>1. State(t)' = "failed"
    BY <1>4, <1>6, <1>7 DEF StatesByFate
  <2>2. ASSUME NEW u \in Timers, u # t, u \in ToSet(todo) PROVE State(u)' = "lost"
    BY <1>6, <1>7, <2>2 DEF StatesByFate
  <2>3. ASSUME NEW u \in Timers, u \notin ToSet(todo) PROVE State(u)' = State(u)
    BY <1>1, <1>4, <1>6, <2>3 DEF State
  <2> QED BY <1>5, <2>1, <2>2, <2>3 DEF States
<1> DEFINE postponed == {u \in Service!Live \ Service!Due : At(u)' # At(u)}
<1>9. Ats' = [u \in Timers |-> IF u \in Service!Due THEN 0
                               ELSE IF u \in postponed THEN Ats[u] + Slots
                               ELSE Ats[u]]
  <2>1. ASSUME NEW u \in Timers, u \in ToSet(todo) PROVE At(u)' = 0
    BY <1>6, <2>1 DEF At
  <2>2. ASSUME NEW u \in Timers, u \notin ToSet(todo)
        PROVE  At(u)' = IF u \in postponed THEN At(u) + Slots ELSE At(u)
    <3>1. fate'[u] = fate[u]
      BY <1>4, <1>6, <2>2
    <3>2. CASE fate[u] = "held"
      <4>1. u \in With("held") /\ u \in OnWheel \cup ToSet(overflow)
        BY <1>2, <2>2, <3>2 DEF Apart, With
      <4>2. FiringTime(u)' \in {FiringTime(u), FiringTime(u) + Slots}
        BY <4>1, PanicTimes
      <4>3. At(u)' = FiringTime(u)' /\ At(u) = FiringTime(u)
        BY <3>1, <3>2 DEF At
      <4>4. u \in postponed <=> At(u)' # At(u)
        BY <1>5, <2>2, <4>1
      <4> HIDE DEF postponed
      <4> QED BY <4>2, <4>3, <4>4
    <3>3. CASE fate[u] # "held"
      <4>1. At(u)' = 0 /\ At(u) = 0
        BY <3>1, <3>3 DEF At
      <4> QED BY <4>1
    <3> QED BY <3>2, <3>3
  <2> HIDE DEF postponed
  <2> QED BY <1>5, <2>1, <2>2 DEF Ats
<1>10. t \in Service!Due /\ States[t] = "pending"
  <2>1. State(t) = "pending"
    BY <1>2, <1>3, <1>4, <1>7 DEF StatesByFate
  <2> QED BY <1>4, <1>5, <2>1 DEF States
<1>11. postponed \in SUBSET (Service!Live \ Service!Due)
  OBVIOUS
<1> HIDE DEF postponed
<1>12. Service!Fail(t)
  BY <1>1, <1>8, <1>9, <1>10, <1>11 DEF Service!Fail, States, Ats, At
<1> QED BY <1>4, <1>12 DEF Service!TNext

(* The wheel implements TimerService (all of timing_wheel.rs): a timer is  *)
(* given its instant when it is scheduled, the clock does not pass it, and *)
(* only a panic changes the instant or takes the timer away.               *)
THEOREM Implementation == Spec => TimerSpec
<1>1. Init => Service!TInit
  <2> SUFFICES ASSUME Init PROVE Service!TInit
    OBVIOUS
  <2>1. \A t \in Timers : fate[t] = "none"
    BY DEF Init
  <2>2. StatesByFate
    BY InitPartition, StateByFate DEF Partition
  <2>3. \A t \in Timers : State(t) = "new"
    BY <2>1, <2>2 DEF StatesByFate
  <2> QED BY <2>1, <2>3 DEF Service!TInit, Init
<1>2. ASSUME Partition, Partition', [Next]_vars
      PROVE  [Service!TNext]_Service!tvars
  <2>1. ASSUME FixedTimes, UNCHANGED <<now, fate, cancelled>>
        PROVE  UNCHANGED Service!tvars
    BY <2>1, Unseen, UnseenSteps
  <2>2. CASE \E d \in 0..MaxDelay : Schedule(d)
    BY <1>2, <2>2, ScheduleImplements
  <2>3. CASE \E t \in Timers : Cancel(t)
    BY <1>2, <2>3, CancelImplements
  <2>4. CASE \E n \in 0..MaxNow : Advance(n)
    BY <1>2, <2>1, <2>4, AdvancePartition DEF Advance
  <2>5. CASE AdvanceReturns
    BY <1>2, <2>1, <2>5, AdvanceReturnsPartition DEF AdvanceReturns
  <2>6. CASE Tick
    BY <1>2, <2>6, TickImplements
  <2>7. CASE Sift
    BY <1>2, <2>1, <2>7, SiftPartition DEF Sift
  <2>8. CASE Sifted
    BY <1>2, <2>1, <2>8, SiftedPartition DEF Sifted
  <2>9. CASE Drop
    <3>1. \E f \in {"fired", "dropped"} :
              /\ f = "fired" <=> ~ cancelled[Head(todo)]
              /\ fate' = [fate EXCEPT ![Head(todo)] = f]
      BY <2>9 DEF Drop
    <3> QED BY <1>2, <2>9, <3>1, DropPartition, LeavesImplements DEF Drop
  <2>10. CASE Fire
    BY <1>2, <2>1, <2>10, FirePartition DEF Fire
  <2>11. CASE CallbackReturns
    <3>1. todo # <<>> /\ ~ cancelled[Head(todo)]
      BY <1>2, <2>11 DEF CallbackReturns, Partition, Phases
    <3>2. \E f \in {"fired", "dropped"} :
              /\ f = "fired" <=> ~ cancelled[Head(todo)]
              /\ fate' = [fate EXCEPT ![Head(todo)] = f]
      BY <2>11, <3>1 DEF CallbackReturns
    <3> QED BY <1>2, <2>11, <3>1, <3>2, CallbackReturnsPartition, LeavesImplements
            DEF CallbackReturns
  <2>12. CASE CallbackPanics
    BY <1>2, <2>12, CallbackPanicsImplements
  <2>13. CASE Fired
    BY <1>2, <2>1, <2>13, FiredPartition DEF Fired
  <2>14. CASE Rehome
    BY <1>2, <2>1, <2>14, RehomePartition DEF Rehome
  <2>15. CASE Rehomed
    BY <1>2, <2>1, <2>15, RehomedPartition DEF Rehomed
  <2>16. CASE UNCHANGED vars
    BY <1>2, <2>1, <2>16, StutterPartition DEF vars
  <2> QED
    BY <1>2, <2>2, <2>3, <2>4, <2>5, <2>6, <2>7, <2>8, <2>9, <2>10, <2>11, <2>12,
       <2>13, <2>14, <2>15, <2>16 DEF Next, Running
<1> QED BY <1>1, <1>2, PartitionInvariance, PTL DEF Spec, TimerSpec, Service!TSpec

=============================================================================
