----------------------- MODULE ReentrantWheel_proofs -----------------------
(***************************************************************************)
(* The timing wheel whose callbacks use it, for every number of slots,     *)
(* timers, delays and instants, and every depth of nested calls: where its *)
(* timers are and when they fire.                                          *)
(***************************************************************************)
EXTENDS ReentrantWheel, DataLemmas

LEMMA SlotsType == Slots \in Nat \ {0}
  BY WheelAssumption

-----------------------------------------------------------------------------
(* The stack of calls *)

(* The timers on the lists of the calls around the innermost one. *)
Below == Dues(calls, Len(calls) - 1)

LEMMA CallsLen ==
    ASSUME NEW c \in Seq(Call)
    PROVE  /\ Len(c) \in Nat /\ DOMAIN c = 1..Len(c)
           /\ \A i \in 1..Len(c) : c[i] \in Call
           /\ c # <<>> <=> Len(c) # 0
  BY LenProperties, ElementOfSeq, EmptySeq

LEMMA CallType ==
    ASSUME NEW k \in Call
    PROVE  /\ k.pc \in {"loop", "fire", "callback"} /\ k.due \in Seq(Timers)
           /\ k.slot \in 0..(Slots - 1) /\ k.to \in 0..MaxNow
           /\ ToSet(k.due) \subseteq Timers
<1>1. /\ k.pc \in {"loop", "fire", "callback"} /\ k.due \in Seq(Timers)
      /\ k.slot \in 0..(Slots - 1) /\ k.to \in 0..MaxNow
  BY DEF Call
<1> QED BY <1>1, ListType

(* Only the lists of the first n calls count. *)
LEMMA DuesSame ==
    ASSUME NEW c, NEW e, NEW n \in Int, \A i \in 1..n : e[i] = c[i]
    PROVE  Dues(e, n) = Dues(c, n)
  BY DEF Dues

LEMMA DuesTop ==
    ASSUME NEW c, NEW n \in Nat \ {0}
    PROVE  Dues(c, n) = Dues(c, n - 1) \cup ToSet(c[n].due)
<1>1. 1..n = (1..(n - 1)) \cup {n}
  OBVIOUS
<1> QED BY <1>1 DEF Dues

LEMMA TopFacts ==
    ASSUME TypeOK, Apart, Phases, Running
    PROVE  /\ Len(calls) \in Nat \ {0} /\ Top \in Call /\ Phase(Top)
           /\ Top.due \in Seq(Timers) /\ IsInjective(Top.due)
           /\ ToSet(Top.due) \cap Below = {}
           /\ InCalls = Below \cup ToSet(Top.due)
<1>1. /\ calls \in Seq(Call) /\ Stacked(calls)
  BY DEF TypeOK, Apart
<1>2. /\ Len(calls) \in Nat \ {0} /\ DOMAIN calls = 1..Len(calls)
      /\ Len(calls) \in 1..Len(calls) /\ calls[Len(calls)] \in Call
  BY <1>1, CallsLen DEF Running
<1>3. Top = calls[Len(calls)]
  BY DEF Top, Last
<1>4. InCalls = Below \cup ToSet(Top.due)
  BY <1>2, <1>3, DuesTop DEF InCalls, Below
<1>5. IsInjective(Top.due) /\ ToSet(Top.due) \cap Below = {} /\ Phase(Top)
  BY <1>1, <1>2, <1>3 DEF Stacked, Below, Phases
<1> QED BY <1>2, <1>3, <1>4, <1>5, CallType

(* The innermost call goes on, with a list that shares no timer with those *)
(* below it.                                                               *)
LEMMA SetTopFacts ==
    ASSUME TypeOK, Apart, Phases, Running,
           NEW k \in Call, SetTop(k), Phase(k), IsInjective(k.due),
           ToSet(k.due) \cap Below = {}
    PROVE  /\ calls' \in Seq(Call) /\ Len(calls') = Len(calls)
           /\ Running' /\ Top' = k /\ Phases' /\ Stacked(calls')
           /\ InCalls' = Below \cup ToSet(k.due)
<1> DEFINE n == Len(calls)
<1>1. /\ calls \in Seq(Call) /\ Stacked(calls)
      /\ n \in Nat \ {0} /\ DOMAIN calls = 1..n
  BY CallsLen DEF TypeOK, Apart, Running
<1>2. calls' = [calls EXCEPT ![n] = k]
  BY DEF SetTop
<1>3. calls' \in Seq(Call) /\ Len(calls') = n
  BY <1>1, <1>2, ExceptSeq
<1> HIDE DEF n
<1>4. calls'[n] = k /\ \A i \in 1..(n - 1) : calls'[i] = calls[i]
  BY <1>1, <1>2
<1>5. DOMAIN calls' = 1..n /\ Running' /\ Top' = k
  BY <1>1, <1>3, <1>4, CallsLen DEF Running, Top, Last, n
<1>6. \A i \in 1..n : Dues(calls', i - 1) = Dues(calls, i - 1)
  <2> SUFFICES ASSUME NEW i \in 1..n
               PROVE  Dues(calls', i - 1) = Dues(calls, i - 1)
    OBVIOUS
  <2>1. i - 1 \in Int /\ \A j \in 1..(i - 1) : calls'[j] = calls[j]
    BY <1>1, <1>4
  <2> QED BY <2>1, DuesSame
<1>7. \A i \in 1..n : i = n \/ (i \in 1..(n - 1) /\ calls'[i] = calls[i])
  BY <1>1, <1>4
<1>8. Stacked(calls')
  BY <1>1, <1>4, <1>5, <1>6, <1>7 DEF Stacked, Below, n
<1>9. Phases'
  BY <1>1, <1>4, <1>5, <1>7 DEF Phases
<1>10. InCalls' = Below \cup ToSet(k.due)
  <2>1. Dues(calls', n) = Dues(calls', n - 1) \cup ToSet(calls'[n].due)
    BY <1>1, DuesTop
  <2> QED BY <1>1, <1>3, <1>4, <1>6, <2>1 DEF InCalls, Below, n
<1> QED BY <1>3, <1>5, <1>8, <1>9, <1>10 DEF n

(* The innermost call ends. *)
LEMMA PopFacts ==
    ASSUME TypeOK, Apart, Phases, Running, Pop
    PROVE  /\ calls' \in Seq(Call) /\ Len(calls') = Len(calls) - 1
           /\ Phases' /\ Stacked(calls') /\ InCalls' = Below
<1> DEFINE n == Len(calls)
<1>1. /\ calls \in Seq(Call) /\ Stacked(calls)
      /\ n \in Nat \ {0} /\ DOMAIN calls = 1..n /\ \A i \in 1..n : calls[i] \in Call
  BY CallsLen DEF TypeOK, Apart, Running
<1>2. calls' = SubSeq(calls, 1, n - 1)
  BY DEF Pop, Front
<1>3. /\ calls' \in Seq(Call) /\ Len(calls') = n - 1
      /\ \A i \in 1..(n - 1) : calls'[i] = calls[i]
  <2>1. 1 \in Int /\ n - 1 \in Int /\ \A i \in 1..(n - 1) : calls[i] \in Call
    BY <1>1
  <2> DEFINE m == n - 1
  <2>2. m \in Int /\ m - 1 + 1 = m /\ m >= 0 /\ calls' = SubSeq(calls, 1, m)
    BY <1>1, <1>2
  <2> HIDE DEF m
  <2>3. /\ calls' \in Seq(Call) /\ Len(calls') = (IF 1 <= m THEN m - 1 + 1 ELSE 0)
        /\ \A i \in 1..(m - 1 + 1) : calls'[i] = calls[1 + i - 1]
    BY <2>1, <2>2, SubSeqProperties DEF m
  <2>4. Len(calls') = m /\ \A i \in 1..m : calls'[i] = calls[i]
    BY <2>2, <2>3
  <2> QED BY <2>3, <2>4 DEF m
<1> HIDE DEF n
<1>4. DOMAIN calls' = 1..(n - 1) /\ \A i \in 1..(n - 1) : i \in 1..n
  BY <1>1, <1>3, CallsLen
<1>5. \A i \in 1..n : Dues(calls', i - 1) = Dues(calls, i - 1)
  <2> SUFFICES ASSUME NEW i \in 1..n
               PROVE  Dues(calls', i - 1) = Dues(calls, i - 1)
    OBVIOUS
  <2>1. i - 1 \in Int /\ \A j \in 1..(i - 1) : calls'[j] = calls[j]
    BY <1>1, <1>3
  <2> QED BY <2>1, DuesSame
<1>6. Stacked(calls') /\ Phases'
  BY <1>1, <1>3, <1>4, <1>5 DEF Stacked, Phases
<1>7. InCalls' = Below
  BY <1>1, <1>3, <1>5 DEF InCalls, Below, n
<1> QED BY <1>3, <1>6, <1>7 DEF n

(* advance is called. *)
LEMMA PushFacts ==
    ASSUME TypeOK, Apart, Phases,
           NEW k \in Call, k.pc = "loop", k.due = <<>>, calls' = Append(calls, k)
    PROVE  /\ calls' \in Seq(Call) /\ Len(calls') = Len(calls) + 1
           /\ Running' /\ Top' = k /\ Phases' /\ Stacked(calls')
           /\ InCalls' = InCalls
<1> DEFINE n == Len(calls)
<1>1. /\ calls \in Seq(Call) /\ Stacked(calls) /\ n \in Nat /\ DOMAIN calls = 1..n
  BY CallsLen DEF TypeOK, Apart
<1>2. /\ calls' \in Seq(Call) /\ Len(calls') = n + 1
      /\ \A i \in 1..n : calls'[i] = calls[i]
      /\ calls'[n + 1] = k
  BY <1>1, AppendProperties
<1> HIDE DEF n
<1>3. DOMAIN calls' = 1..(n + 1) /\ Running' /\ Top' = k
  BY <1>1, <1>2, CallsLen DEF Running, Top, Last
<1>4. \A i \in 1..(n + 1) : Dues(calls', i - 1) = Dues(calls, i - 1)
  <2> SUFFICES ASSUME NEW i \in 1..(n + 1)
               PROVE  Dues(calls', i - 1) = Dues(calls, i - 1)
    OBVIOUS
  <2>1. i - 1 \in Int /\ \A j \in 1..(i - 1) : calls'[j] = calls[j]
    BY <1>1, <1>2
  <2> QED BY <2>1, DuesSame
<1>5. \A i \in 1..(n + 1) : i = n + 1 \/ (i \in 1..n /\ calls'[i] = calls[i])
  BY <1>1, <1>2
<1>6. ToSet(k.due) = {} /\ IsInjective(k.due) /\ Phase(k)
  BY ListEmpty DEF Phase
<1>7. Stacked(calls') /\ Phases'
  BY <1>1, <1>2, <1>3, <1>4, <1>5, <1>6 DEF Stacked, Phases
<1>8. InCalls' = InCalls
  <2>1. n + 1 \in Nat \ {0} /\ (n + 1) - 1 = n /\ n + 1 \in 1..(n + 1)
    BY <1>1
  <2>2. Dues(calls', n + 1) = Dues(calls', (n + 1) - 1) \cup ToSet(calls'[n + 1].due)
    BY <2>1, DuesTop
  <2> QED BY <1>2, <1>4, <1>6, <2>1, <2>2 DEF InCalls, n
<1> QED BY <1>2, <1>3, <1>7, <1>8 DEF n

-----------------------------------------------------------------------------
(* The callbacks in progress *)

(* Those of the first n calls of a stack. *)
Starts(stack, n) == {Head(stack[i].due) : i \in {j \in 1..n : stack[j].pc = "callback"}}

LEMMA StartsSame ==
    ASSUME NEW c, NEW e, NEW n \in Int, \A i \in 1..n : e[i] = c[i]
    PROVE  Starts(e, n) = Starts(c, n)
  BY DEF Starts

LEMMA StartsTop ==
    ASSUME NEW c, NEW n \in Nat \ {0}
    PROVE  Starts(c, n) = Starts(c, n - 1)
                              \cup (IF c[n].pc = "callback" THEN {Head(c[n].due)} ELSE {})
<1>1. 1..n = (1..(n - 1)) \cup {n}
  OBVIOUS
<1> QED BY <1>1 DEF Starts

(* The callbacks around the innermost call. *)
Around == Starts(calls, Len(calls) - 1)

LEMMA AroundFacts ==
    ASSUME TypeOK, Apart, Phases, Running
    PROVE  /\ Around \subseteq Below
           /\ InCallback = Around \cup (IF Top.pc = "callback" THEN {Head(Top.due)} ELSE {})
           /\ Top.due # <<>> => /\ Head(Top.due) \in ToSet(Top.due)
                                /\ Head(Top.due) \in Held /\ Head(Top.due) \in Timers
<1> DEFINE n == Len(calls)
<1>1. /\ n \in Nat \ {0} /\ DOMAIN calls = 1..n
      /\ \A i \in 1..n : calls[i] \in Call /\ Phase(calls[i])
  BY CallsLen DEF TypeOK, Running, Phases
<1>2. Top = calls[n]
  BY DEF Top, Last
<1>3. InCallback = Starts(calls, n)
  BY <1>1 DEF InCallback, Starts
<1>4. Around \subseteq Below
  <2>1. ASSUME NEW i \in 1..(n - 1), calls[i].pc = "callback"
        PROVE  Head(calls[i].due) \in ToSet(calls[i].due)
    <3>1. calls[i].due \in Seq(Timers) /\ calls[i].due # <<>> /\ IsInjective(calls[i].due)
      BY <1>1, <2>1, CallType DEF Phase, Apart, Stacked
    <3> QED BY <3>1, ListTail
  <2> QED BY <2>1 DEF Around, Below, Starts, Dues
<1> HIDE DEF n
<1>5. InCallback = Starts(calls, n - 1)
                      \cup (IF calls[n].pc = "callback" THEN {Head(calls[n].due)} ELSE {})
  BY <1>1, <1>3, StartsTop
<1>6. Top.due # <<>> => /\ Head(Top.due) \in ToSet(Top.due) /\ Head(Top.due) \in Timers
                        /\ Head(Top.due) \in Held
  <2>1. Top.due \in Seq(Timers) /\ IsInjective(Top.due) /\ ToSet(Top.due) \subseteq Held
    BY TopFacts DEF Apart
  <2> QED BY <2>1, ListTail
<1> QED BY <1>2, <1>4, <1>5, <1>6 DEF Around, n

(* The timers whose callbacks are in progress are still on the wheel. *)
LEMMA CallbacksHeld ==
    ASSUME TypeOK, Apart, Phases
    PROVE  InCallback \subseteq Held
<1>1. CASE Running
  <2>1. /\ Around \subseteq Below /\ InCalls \subseteq Held
        /\ InCalls = Below \cup ToSet(Top.due)
        /\ Phase(Top)
    BY <1>1, AroundFacts, TopFacts DEF Apart
  <2> QED BY <1>1, <2>1, AroundFacts DEF Phase
<1>2. CASE ~ Running
  BY <1>2 DEF Running, InCallback
<1> QED BY <1>1, <1>2

(* A due timer whose callback was not started has not run. *)
LEMMA HeadStarted ==
    ASSUME Partition, Started, Running, Top.pc = "fire", Top.due # <<>>
    PROVE  Head(Top.due) \in Timers /\ timer[Head(Top.due)].runs = 0
<1>1. TypeOK /\ Apart /\ Phases
  BY DEF Partition
<1>2. ToSet(Top.due) \cap Below = {}
  BY <1>1, TopFacts
<1>3. /\ Around \subseteq Below /\ InCallback = Around
      /\ Head(Top.due) \in ToSet(Top.due)
      /\ Head(Top.due) \in Held /\ Head(Top.due) \in Timers
  BY <1>1, AroundFacts
<1> QED BY <1>2, <1>3 DEF Started

-----------------------------------------------------------------------------
(* What every step needs *)

LEMMA Types ==
    ASSUME TypeOK
    PROVE  /\ now \in Nat /\ MaxNow \in Nat /\ MaxDelay \in Nat
           /\ buckets \in [0..(Slots - 1) -> Seq(Timers)] /\ overflow \in Seq(Timers)
           /\ \A t \in Timers : /\ timer[t].deadline \in Nat /\ timer[t].delay \in Nat
                                /\ timer[t].state \in {"free", "held", "lost"}
           /\ \A t \in Timers : FiringTime(t) \in Int
           /\ Held \subseteq Timers
<1>1. now \in Nat /\ MaxNow \in Nat /\ MaxDelay \in Nat
  BY WheelAssumption DEF TypeOK
<1>2. \A t \in Timers : /\ timer[t].deadline \in Nat /\ timer[t].delay \in Nat
                        /\ timer[t].state \in {"free", "held", "lost"}
  BY <1>1 DEF TypeOK, Timer
<1>3. \A t \in Timers : FiringTime(t) \in Int
  BY <1>2, SlotsType DEF FiringTime
<1> QED BY <1>1, <1>2, <1>3 DEF TypeOK, Held

LEMMA TimersFinite ==
    ASSUME NEW S, S \subseteq Timers
    PROVE  IsFiniteSet(S) /\ Cardinality(S) \in 0..Cardinality(Timers)
<1>1. IsFiniteSet(Timers) /\ Cardinality(Timers) \in Nat
  BY WheelAssumption, FS_CardinalityType
<1>2. IsFiniteSet(S) /\ Cardinality(S) <= Cardinality(Timers)
  BY <1>1, FS_Subset
<1>3. Cardinality(S) \in Nat
  BY <1>2, FS_CardinalityType
<1> QED BY <1>1, <1>2, <1>3

LEMMA OnWheelDef ==
    \A t : t \in OnWheel <=> \E s \in 0..(Slots - 1) : t \in ToSet(buckets[s])
  BY DEF OnWheel

LEMMA OnWheelDefNext ==
    \A t : t \in OnWheel' <=> \E s \in 0..(Slots - 1) : t \in ToSet(buckets'[s])
  BY DEF OnWheel

(* What is known of a timer while its deadline and its state stay. *)
LEMMA TimersSame ==
    ASSUME TypeOK, timer' \in [Timers -> Timer],
           \A u \in Timers : /\ timer'[u].state = timer[u].state
                             /\ timer'[u].deadline = timer[u].deadline
                             /\ timer'[u].delay = timer[u].delay
    PROVE  /\ Held' = Held /\ Known' = Known
           /\ \A u \in Timers : FiringTime(u)' = FiringTime(u)
<1>1. Held' = Held /\ Known' = Known
  BY DEF Held, Known
<1>2. \A u \in Timers : FiringTime(u)' = FiringTime(u)
  BY DEF FiringTime
<1> QED BY <1>1, <1>2

(* A step that moves no timer. *)
LEMMA KeepsPartition ==
    ASSUME Partition, UNCHANGED <<now, buckets, overflow, size, raises>>,
           timer' \in [Timers -> Timer],
           \A u \in Timers : /\ timer'[u].state = timer[u].state
                             /\ timer'[u].deadline = timer[u].deadline
                             /\ timer'[u].delay = timer[u].delay,
           calls' \in Seq(Call), Len(calls') <= MaxDepth, nested' \in BOOLEAN,
           Stacked(calls'), Phases', InCalls' = InCalls,
           ~ nested' /\ raises = 0 =>
               /\ ~ nested /\ Len(calls') <= 1
               /\ Running' /\ Top'.pc # "loop" => Top'.slot = now % Slots
               /\ NextRehoming' = NextRehoming
    PROVE  Partition'
<1>1. TypeOK /\ Apart /\ InBuckets /\ SizeAccounted /\ Timely
  BY DEF Partition
<1>2. TypeOK'
  BY <1>1 DEF TypeOK
<1>3. Held' = Held /\ Known' = Known /\ \A u \in Timers : FiringTime(u)' = FiringTime(u)
  BY <1>1, TimersSame
<1>4. OnWheel' = OnWheel
  BY DEF OnWheel
<1>5. Apart'
  BY <1>1, <1>3, <1>4 DEF Apart
<1>6. OnWheel \subseteq Timers /\ ToSet(overflow) \subseteq Timers /\ InCalls \subseteq Timers
  BY <1>1, Types DEF Apart
<1>7. InBuckets'
  <2>1. \A s \in 0..(Slots - 1) : \A t \in ToSet(buckets[s]) : t \in Timers
    BY <1>6, OnWheelDef
  <2> QED BY <1>1, <2>1 DEF InBuckets
<1>8. SizeAccounted'
  BY <1>1, <1>3 DEF SizeAccounted
<1>9. Timely'
  <2> SUFFICES ASSUME ~ nested', raises' = 0
               PROVE  /\ Len(calls') <= 1
                      /\ Running' /\ Top'.pc # "loop" => Top'.slot = now' % Slots
                      /\ \A t \in OnWheel' :
                            FiringTime(t)' = BucketTime(Slots, timer'[t].deadline, now')
                      /\ \A t \in ToSet(overflow') :
                            FiringTime(t)' = OverflowTime(Slots, timer'[t].deadline, NextRehoming')
                      /\ \A t \in InCalls' : FiringTime(t)' = now'
    BY DEF Timely
  <2>1. /\ ~ nested /\ Len(calls') <= 1 /\ NextRehoming' = NextRehoming
        /\ Running' /\ Top'.pc # "loop" => Top'.slot = now % Slots
    OBVIOUS
  <2>2. /\ \A t \in OnWheel : FiringTime(t) = BucketTime(Slots, timer[t].deadline, now)
        /\ \A t \in ToSet(overflow) :
              FiringTime(t) = OverflowTime(Slots, timer[t].deadline, NextRehoming)
        /\ \A t \in InCalls : FiringTime(t) = now
    BY <1>1, <2>1 DEF Timely
  <2>3. \A t \in Timers : timer'[t].deadline = timer[t].deadline
    OBVIOUS
  <2> QED BY <1>3, <1>4, <1>6, <2>1, <2>2, <2>3
<1> QED BY <1>2, <1>5, <1>7, <1>8, <1>9 DEF Partition

LEMMA CancelPartition ==
    ASSUME Partition, NEW t \in Timers, Cancel(t)
    PROVE  Partition'
<1>1. /\ timer' = [timer EXCEPT ![t].cancelled = TRUE,
                               ![t].stopped = timer[t].runs = 0]
      /\ UNCHANGED <<now, buckets, overflow, size, calls, raises, nested>>
  BY DEF Cancel
<1>2. TypeOK /\ Apart /\ Phases /\ Timely
  BY DEF Partition
<1>3. timer' \in [Timers -> Timer]
  <2> DEFINE r == [timer[t] EXCEPT !.cancelled = TRUE, !.stopped = timer[t].runs = 0]
  <2>1. timer \in [Timers -> Timer] /\ timer' = [timer EXCEPT ![t] = r]
    BY <1>1, <1>2 DEF TypeOK
  <2>2. timer[t] \in Timer
    BY <2>1
  <2>3. r \in Timer
    BY <2>2 DEF Timer
  <2> HIDE DEF r
  <2> QED BY <2>1, <2>3
<1>4. \A u \in Timers : /\ timer'[u].state = timer[u].state
                        /\ timer'[u].deadline = timer[u].deadline
                        /\ timer'[u].delay = timer[u].delay
  BY <1>1, <1>2 DEF TypeOK, Timer
<1>5. /\ calls' \in Seq(Call) /\ Len(calls') <= MaxDepth /\ nested' \in BOOLEAN
      /\ Stacked(calls') /\ Phases' /\ InCalls' = InCalls
  BY <1>1, <1>2 DEF TypeOK, Apart, Phases, InCalls
<1>6. NextRehoming' = NextRehoming /\ Running' = Running /\ Top' = Top
  BY <1>1 DEF NextRehoming, RevolutionEnds, Running, Top
<1> QED BY <1>1, <1>2, <1>3, <1>4, <1>5, <1>6, KeepsPartition DEF Timely

LEMMA AdvancePartition ==
    ASSUME Partition, NEW to \in 0..MaxNow, Advance(to)
    PROVE  Partition'
<1> DEFINE k == [pc |-> "loop", to |-> to, slot |-> 0, due |-> <<>>]
<1>1. /\ Len(calls) < MaxDepth /\ calls' = Append(calls, k)
      /\ nested' = (nested \/ Running)
      /\ UNCHANGED <<now, buckets, overflow, size, timer, raises>>
  BY DEF Advance
<1>2. TypeOK /\ Apart /\ Phases
  BY DEF Partition
<1>3. k \in Call /\ k.pc = "loop" /\ k.due = <<>>
  BY SlotsType DEF Call
<1> HIDE DEF k
<1>4. /\ calls' \in Seq(Call) /\ Len(calls') = Len(calls) + 1
      /\ Running' /\ Top' = k /\ Phases' /\ Stacked(calls')
      /\ InCalls' = InCalls
  BY <1>1, <1>2, <1>3, PushFacts
<1>5. Len(calls) \in Nat /\ (~ Running => Len(calls) = 0)
  BY <1>2, CallsLen DEF TypeOK, Running
<1>6. Len(calls') <= MaxDepth /\ nested' \in BOOLEAN /\ timer' \in [Timers -> Timer]
  BY <1>1, <1>2, <1>4, <1>5, WheelAssumption DEF TypeOK
<1>7. ASSUME ~ nested'
      PROVE  ~ nested /\ Len(calls') <= 1 /\ NextRehoming' = NextRehoming
  <2>1. ~ nested /\ ~ Running
    BY <1>1, <1>2, <1>7 DEF TypeOK
  <2>2. NextRehoming' = NextRehoming
    BY <1>1, <1>3, <1>4, <2>1 DEF NextRehoming
  <2> QED BY <1>4, <1>5, <2>1, <2>2
<1> QED BY <1>1, <1>3, <1>4, <1>6, <1>7, KeepsPartition

LEMMA AdvanceReturnsPartition ==
    ASSUME Partition, AdvanceReturns
    PROVE  Partition'
<1>1. /\ Running /\ Top.pc = "loop" /\ Pop
      /\ UNCHANGED <<now, buckets, overflow, size, timer, raises, nested>>
  BY DEF AdvanceReturns
<1>2. TypeOK /\ Apart /\ Phases /\ Timely
  BY DEF Partition
<1>3. /\ Len(calls) \in Nat \ {0} /\ InCalls = Below \cup ToSet(Top.due) /\ Phase(Top)
  BY <1>1, <1>2, TopFacts
<1>4. /\ calls' \in Seq(Call) /\ Len(calls') = Len(calls) - 1
      /\ Phases' /\ Stacked(calls') /\ InCalls' = Below
  BY <1>1, <1>2, PopFacts
<1>5. InCalls' = InCalls
  BY <1>1, <1>3, <1>4, ListEmpty DEF Phase
<1>6. Len(calls') <= MaxDepth /\ nested' \in BOOLEAN /\ timer' \in [Timers -> Timer]
  BY <1>1, <1>2, <1>3, <1>4, WheelAssumption DEF TypeOK
<1>7. ASSUME ~ nested', raises = 0
      PROVE  ~ nested /\ Len(calls') <= 1 /\ ~ Running' /\ NextRehoming' = NextRehoming
  <2>1. ~ nested /\ Len(calls) <= 1
    BY <1>1, <1>2, <1>7 DEF Timely
  <2>2. ~ Running'
    BY <1>3, <1>4, <2>1, CallsLen DEF Running
  <2>3. NextRehoming' = NextRehoming
    BY <1>1, <2>2 DEF NextRehoming
  <2> QED BY <1>3, <1>4, <2>1, <2>2, <2>3
<1> QED BY <1>1, <1>4, <1>5, <1>6, <1>7, KeepsPartition

LEMMA FirePartition ==
    ASSUME Partition, Started, Fire
    PROVE  Partition'
<1> DEFINE k == [Top EXCEPT !.pc = "callback"]
<1>1. /\ Running /\ Top.pc = "fire" /\ Top.due # <<>> /\ SetTop(k)
      /\ timer' = [timer EXCEPT ![Head(Top.due)].runs = @ + 1]
      /\ UNCHANGED <<now, buckets, overflow, size, raises, nested>>
  BY DEF Fire
<1>2. TypeOK /\ Apart /\ Phases /\ Timely
  BY DEF Partition
<1>3. /\ Len(calls) \in Nat \ {0} /\ Top \in Call
      /\ IsInjective(Top.due) /\ ToSet(Top.due) \cap Below = {}
      /\ InCalls = Below \cup ToSet(Top.due)
  BY <1>1, <1>2, TopFacts
<1>4. k \in Call /\ k.pc = "callback" /\ k.due = Top.due /\ k.slot = Top.slot
  BY <1>3 DEF Call
<1>5. Phase(k)
  BY <1>1, <1>4 DEF Phase
<1> HIDE DEF k
<1>6. /\ calls' \in Seq(Call) /\ Len(calls') = Len(calls)
      /\ Running' /\ Top' = k /\ Phases' /\ Stacked(calls')
      /\ InCalls' = Below \cup ToSet(k.due)
  BY <1>1, <1>2, <1>3, <1>4, <1>5, SetTopFacts
<1>7. InCalls' = InCalls /\ Len(calls') <= MaxDepth /\ nested' \in BOOLEAN
  BY <1>1, <1>2, <1>3, <1>4, <1>6 DEF TypeOK
<1>8. NextRehoming' = NextRehoming
  BY <1>1, <1>4, <1>6 DEF NextRehoming, RevolutionEnds
<1>9. PICK h \in Timers : h = Head(Top.due) /\ timer[h].runs = 0
  BY <1>1, HeadStarted
<1>10. /\ timer' = [timer EXCEPT ![h].runs = 1]
       /\ timer \in [Timers -> Timer]
  BY <1>1, <1>2, <1>9 DEF TypeOK
<1>11. /\ timer' \in [Timers -> Timer]
       /\ \A u \in Timers : /\ timer'[u].state = timer[u].state
                           /\ timer'[u].deadline = timer[u].deadline
                           /\ timer'[u].delay = timer[u].delay
  BY <1>10 DEF Timer
<1> QED BY <1>1, <1>2, <1>4, <1>6, <1>7, <1>8, <1>11, KeepsPartition DEF Timely

-----------------------------------------------------------------------------
(* Scheduling *)

(* At the last slot, the overflow list is next visited a revolution later. *)
LEMMA LastVisit ==
    ASSUME now \in Nat, now % Slots = Slots - 1
    PROVE  NextVisit(Slots, Slots - 1, now) = now + Slots
<1> DEFINE q == Slots - 1  v == now + Slots
<1>1. q \in 0..(Slots - 1) /\ v \in (now + 1)..(now + Slots)
  BY SlotsType
<1>2. v % Slots = now % Slots
  <2>1. Slots \in Nat \ {0} /\ now \in Int
    BY SlotsType
  <2> QED BY <2>1, ModAddOne
<1> HIDE DEF q, v
<1>3. NextVisit(Slots, q, now) = v
  BY <1>1, <1>2, SlotsType, NextVisitOf DEF q
<1> QED BY <1>3 DEF q, v

(* A timer that is on no list is appended to a bucket. *)
LEMMA PlaceFacts ==
    ASSUME TypeOK, Apart, NEW t \in Timers, t \notin OnWheel, NEW h \in 0..(Slots - 1),
           buckets' = [buckets EXCEPT ![h] = Append(@, t)]
    PROVE  /\ buckets' \in [0..(Slots - 1) -> Seq(Timers)]
           /\ \A s \in 0..(Slots - 1) : IsInjective(buckets'[s])
           /\ OnWheel' = OnWheel \cup {t}
           /\ \A s \in 0..(Slots - 1) : \A u \in ToSet(buckets'[s]) :
                 u \in ToSet(buckets[s]) \/ (u = t /\ s = h)
<1> DEFINE b == Append(buckets[h], t)
<1>1. buckets \in [0..(Slots - 1) -> Seq(Timers)]
  BY DEF TypeOK
<1>2. buckets[h] \in Seq(Timers) /\ IsInjective(buckets[h]) /\ t \notin ToSet(buckets[h])
  BY <1>1, OnWheelDef DEF Apart
<1>3. b \in Seq(Timers) /\ ToSet(b) = ToSet(buckets[h]) \cup {t} /\ IsInjective(b)
  BY <1>2, ListAppend
<1>4. buckets' = [buckets EXCEPT ![h] = b]
  OBVIOUS
<1> HIDE DEF b
<1>5. buckets'[h] = b /\ \A s \in 0..(Slots - 1) : s # h => buckets'[s] = buckets[s]
  BY <1>1, <1>4
<1>6. buckets' \in [0..(Slots - 1) -> Seq(Timers)]
  BY <1>1, <1>3, <1>4
<1>7. OnWheel' = OnWheel \cup {t}
  <2>1. \A u : u \in OnWheel' <=> u \in OnWheel \/ u = t
    BY <1>3, <1>5, OnWheelDef, OnWheelDefNext
  <2> QED BY <2>1
<1>8. \A s \in 0..(Slots - 1) : IsInjective(buckets'[s])
  BY <1>3, <1>5 DEF Apart
<1>9. \A s \in 0..(Slots - 1) : \A u \in ToSet(buckets'[s]) :
         u \in ToSet(buckets[s]) \/ (u = t /\ s = h)
  BY <1>3, <1>5
<1> QED BY <1>6, <1>7, <1>8, <1>9

(* A new timer will fire when its place says. *)
LEMMA ScheduledTime ==
    ASSUME TypeOK, NEW d \in 0..MaxDelay, NEW e \in Int, e = now + d
    PROVE  /\ Near(e) => BucketTime(Slots, e, now) = e + (IF d = 0 THEN Slots ELSE 0)
           /\ Near(e) => d < Slots
           /\ ~ Near(e) => d >= Slots /\ d # 0
           /\ ~ Near(e) => OverflowTime(Slots, e, NextVisit(Slots, Slots - 1, now))
                               = e + (IF e % Slots = Slots - 1 THEN Slots ELSE 0)
           /\ ~ Near(e) /\ now % Slots = Slots - 1
                  => OverflowTime(Slots, e, NextVisit(Slots, Slots - 1, now))
                         = OverflowTime(Slots, e, now)
<1>1. now \in Nat /\ now \in Int /\ d \in Nat
  BY Types
<1>2. CASE Near(e)
  <2>1. d < Slots /\ e \in now..(now + Slots - 1)
    BY <1>1, <1>2, SlotsType DEF Near
  <2>2. BucketTime(Slots, e, now) = IF e = now THEN now + Slots ELSE e
    <3>1. \A n \in Int : \A v \in n..(n + Slots - 1) :
             BucketTime(Slots, v, n) = IF v = n THEN n + Slots ELSE v
      BY SlotsType, ScheduledInRange
    <3> QED BY <1>1, <2>1, <3>1
  <2> QED BY <1>1, <1>2, <2>1, <2>2
<1>3. CASE ~ Near(e)
  <2>1. d >= Slots /\ d # 0 /\ e >= now + Slots
    BY <1>1, <1>3, SlotsType DEF Near
  <2>2. OverflowTime(Slots, e, NextVisit(Slots, Slots - 1, now))
            = e + (IF e % Slots = Slots - 1 THEN Slots ELSE 0)
    BY <1>1, <2>1, SlotsType, ScheduledOutOfRange
  <2>3. OverflowTime(Slots, e, now + Slots) = OverflowTime(Slots, e, now)
    BY <1>1, <2>1, SlotsType, Rehoming
  <2> QED BY <1>1, <1>3, <2>1, <2>2, <2>3, LastVisit
<1> QED BY <1>2, <1>3

LEMMA SchedulePartition ==
    ASSUME Partition, NEW t \in Timers, NEW d \in 0..MaxDelay, Schedule(t, d)
    PROVE  Partition'
<1> DEFINE e == now + d
           r == [Free EXCEPT !.state = "held", !.delay = d, !.deadline = e]
<1>1. /\ timer[t].state = "free" /\ timer' = [timer EXCEPT ![t] = r]
      /\ size' = size + 1
      /\ UNCHANGED <<now, calls, raises, nested>>
      /\ \/ /\ Near(e) /\ buckets' = [buckets EXCEPT ![e % Slots] = Append(@, t)]
            /\ overflow' = overflow
         \/ ~ Near(e) /\ overflow' = Append(overflow, t) /\ buckets' = buckets
  BY DEF Schedule
<1>2. TypeOK /\ Apart /\ Phases /\ InBuckets /\ SizeAccounted /\ Timely
  BY DEF Partition
<1>3. now \in 0..MaxNow /\ now \in Nat /\ MaxDelay \in Nat /\ MaxNow \in Nat
      /\ overflow \in Seq(Timers) /\ Held \subseteq Timers
  BY <1>2, Types DEF TypeOK
<1>4. e \in 0..(MaxNow + MaxDelay) /\ e \in Int /\ d \in Nat
  BY <1>3
<1>5. r \in Timer /\ r.state = "held" /\ r.delay = d /\ r.deadline = e
  <2> HIDE DEF e
  <2>1. Free \in Timer
    BY <1>3 DEF Free, Timer
  <2>2. Free.runs = 0 /\ Free.cancelled = FALSE /\ Free.stopped = FALSE
    BY DEF Free
  <2> QED BY <1>4, <2>1, <2>2 DEF Timer
<1> HIDE DEF r
<1>6. /\ timer' \in [Timers -> Timer] /\ timer'[t] = r
      /\ \A u \in Timers : u # t => timer'[u] = timer[u]
  BY <1>1, <1>2, <1>5 DEF TypeOK
<1>7. /\ t \notin Held /\ Held' = Held \cup {t}
      /\ t \notin Known /\ Known' = Known \cup {t}
  BY <1>1, <1>5, <1>6 DEF Held, Known
<1>8. t \notin OnWheel /\ t \notin ToSet(overflow) /\ t \notin InCalls
  BY <1>2, <1>7 DEF Apart
<1>9. /\ InCalls' = InCalls /\ Stacked(calls') /\ Phases'
      /\ NextRehoming' = NextRehoming /\ Running' = Running /\ Top' = Top
  BY <1>1, <1>2 DEF InCalls, Apart, Phases, NextRehoming, RevolutionEnds, Running, Top
<1>10. e % Slots \in 0..(Slots - 1)
  BY <1>4, SlotsType, ModType
<1>11. /\ buckets' \in [0..(Slots - 1) -> Seq(Timers)] /\ overflow' \in Seq(Timers)
       /\ \A s \in 0..(Slots - 1) : IsInjective(buckets'[s])
       /\ IsInjective(overflow')
       /\ \/ /\ Near(e) /\ OnWheel' = OnWheel \cup {t} /\ overflow' = overflow
             /\ \A s \in 0..(Slots - 1) : \A u \in ToSet(buckets'[s]) :
                   u \in ToSet(buckets[s]) \/ (u = t /\ s = e % Slots)
          \/ /\ ~ Near(e) /\ OnWheel' = OnWheel /\ buckets' = buckets
             /\ ToSet(overflow') = ToSet(overflow) \cup {t}
  <2> DEFINE h == e % Slots
  <2>1. CASE Near(e)
    <3>1. buckets' = [buckets EXCEPT ![h] = Append(@, t)] /\ overflow' = overflow
      BY <1>1, <2>1
    <3>2. h \in 0..(Slots - 1)
      BY <1>10
    <3> HIDE DEF h
    <3>3. /\ buckets' \in [0..(Slots - 1) -> Seq(Timers)]
          /\ \A s \in 0..(Slots - 1) : IsInjective(buckets'[s])
          /\ OnWheel' = OnWheel \cup {t}
          /\ \A s \in 0..(Slots - 1) : \A u \in ToSet(buckets'[s]) :
                u \in ToSet(buckets[s]) \/ (u = t /\ s = h)
      BY <1>2, <1>8, <3>1, <3>2, PlaceFacts
    <3> QED BY <1>2, <1>3, <2>1, <3>1, <3>3 DEF Apart, h
  <2>2. CASE ~ Near(e)
    <3>1. overflow' = Append(overflow, t) /\ buckets' = buckets
      BY <1>1, <2>2
    <3>2. /\ overflow' \in Seq(Timers) /\ IsInjective(overflow')
          /\ ToSet(overflow') = ToSet(overflow) \cup {t}
      BY <1>2, <1>3, <1>8, <3>1, ListAppend DEF Apart
    <3>3. OnWheel' = OnWheel
      BY <3>1 DEF OnWheel
    <3> QED BY <1>2, <2>2, <3>1, <3>2, <3>3 DEF Apart, TypeOK
  <2> QED BY <2>1, <2>2
<1> HIDE DEF e
<1>12. Apart'
  <2>1. /\ OnWheel' \cap ToSet(overflow') = {}
        /\ InCalls' \cap (OnWheel' \cup ToSet(overflow')) = {}
        /\ Held' = OnWheel' \cup ToSet(overflow') \cup InCalls'
    BY <1>2, <1>7, <1>8, <1>9, <1>11 DEF Apart
  <2> QED BY <1>9, <1>11, <2>1 DEF Apart
<1>13. SizeAccounted'
  <2>1. IsFiniteSet(Known) /\ size = Cardinality(Known)
    BY <1>2, TimersFinite DEF SizeAccounted, Known
  <2>2. Cardinality(Known') = Cardinality(Known) + 1
    BY <1>7, <2>1, FS_AddElement
  <2> QED BY <1>1, <2>1, <2>2 DEF SizeAccounted
<1>14. TypeOK'
  <2>1. size' \in 0..Cardinality(Timers)
    BY <1>13, TimersFinite DEF SizeAccounted, Known
  <2> QED BY <1>1, <1>2, <1>6, <1>11, <2>1 DEF TypeOK
<1>15. OnWheel \subseteq Timers /\ ToSet(overflow) \subseteq Timers /\ InCalls \subseteq Timers
  BY <1>2, <1>3 DEF Apart
<1>16. InBuckets'
  <2> SUFFICES ASSUME NEW s \in 0..(Slots - 1), NEW u \in ToSet(buckets'[s])
               PROVE  timer'[u].deadline % Slots = s /\ timer'[u].deadline < now + Slots
    BY <1>1 DEF InBuckets
  <2>1. CASE u \in ToSet(buckets[s])
    <3>1. u \in OnWheel /\ u # t /\ u \in Timers
      BY <1>8, <1>15, <2>1, OnWheelDef
    <3> QED BY <1>2, <1>6, <2>1, <3>1 DEF InBuckets
  <2>2. CASE u \notin ToSet(buckets[s])
    <3>1. u = t /\ s = e % Slots /\ Near(e)
      BY <1>11, <2>2
    <3>2. e < now + Slots
      BY <1>3, <1>4, <3>1, SlotsType DEF Near
    <3> QED BY <1>5, <1>6, <3>1, <3>2
  <2> QED BY <2>1, <2>2
<1>17. Timely'
  <2> SUFFICES ASSUME ~ nested, raises = 0
               PROVE  Timely'
    BY <1>1 DEF Timely
  <2>1. /\ Len(calls) <= 1
        /\ Running /\ Top.pc # "loop" => Top.slot = now % Slots
        /\ \A u \in OnWheel : FiringTime(u) = BucketTime(Slots, timer[u].deadline, now)
        /\ \A u \in ToSet(overflow) :
              FiringTime(u) = OverflowTime(Slots, timer[u].deadline, NextRehoming)
        /\ \A u \in InCalls : FiringTime(u) = now
    BY <1>2 DEF Timely
  <2>2. \A u \in Timers : u # t => FiringTime(u)' = FiringTime(u)
    BY <1>6 DEF FiringTime
  <2>3. FiringTime(t)' = e + (IF d = 0 \/ (d >= Slots /\ e % Slots = Slots - 1)
                              THEN Slots ELSE 0)
    BY <1>5, <1>6 DEF FiringTime
  <2>4. e = now + d
    BY DEF e
  <2>5. CASE Near(e)
    <3>1. FiringTime(t)' = BucketTime(Slots, e, now)
      <4>1. BucketTime(Slots, e, now) = e + (IF d = 0 THEN Slots ELSE 0) /\ d < Slots
        BY <1>2, <1>4, <2>4, <2>5, ScheduledTime
      <4> QED BY <1>4, <2>3, <4>1, SlotsType
    <3>2. OnWheel' = OnWheel \cup {t} /\ overflow' = overflow
      BY <1>11, <2>5
    <3>3. \A u \in OnWheel' : FiringTime(u)' = BucketTime(Slots, timer'[u].deadline, now')
      BY <1>1, <1>5, <1>6, <1>8, <1>15, <2>1, <2>2, <3>1, <3>2
    <3>4. \A u \in ToSet(overflow') :
              FiringTime(u)' = OverflowTime(Slots, timer'[u].deadline, NextRehoming')
      BY <1>6, <1>8, <1>9, <1>15, <2>1, <2>2, <3>2
    <3>5. \A u \in InCalls' : FiringTime(u)' = now'
      BY <1>1, <1>8, <1>9, <1>15, <2>1, <2>2
    <3> QED BY <1>1, <1>9, <2>1, <3>3, <3>4, <3>5 DEF Timely
  <2>6. CASE ~ Near(e)
    <3>1. FiringTime(t)' = OverflowTime(Slots, e, NextRehoming)
      <4>1. /\ OverflowTime(Slots, e, NextVisit(Slots, Slots - 1, now))
                   = e + (IF e % Slots = Slots - 1 THEN Slots ELSE 0)
            /\ d >= Slots /\ d # 0
            /\ now % Slots = Slots - 1
                  => OverflowTime(Slots, e, NextVisit(Slots, Slots - 1, now))
                         = OverflowTime(Slots, e, now)
        BY <1>2, <1>4, <2>4, <2>6, ScheduledTime
      <4>2. FiringTime(t)' = OverflowTime(Slots, e, NextVisit(Slots, Slots - 1, now))
        BY <2>3, <4>1
      <4>3. NextRehoming = NextVisit(Slots, Slots - 1, now)
               \/ (NextRehoming = now /\ now % Slots = Slots - 1)
        BY <2>1 DEF NextRehoming, RevolutionEnds
      <4> QED BY <4>1, <4>2, <4>3
    <3>2. OnWheel' = OnWheel /\ ToSet(overflow') = ToSet(overflow) \cup {t}
      BY <1>11, <2>6
    <3>3. \A u \in OnWheel' : FiringTime(u)' = BucketTime(Slots, timer'[u].deadline, now')
      BY <1>1, <1>6, <1>8, <1>15, <2>1, <2>2, <3>2
    <3>4. \A u \in ToSet(overflow') :
              FiringTime(u)' = OverflowTime(Slots, timer'[u].deadline, NextRehoming')
      BY <1>5, <1>6, <1>8, <1>9, <1>15, <2>1, <2>2, <3>1, <3>2
    <3>5. \A u \in InCalls' : FiringTime(u)' = now'
      BY <1>1, <1>8, <1>9, <1>15, <2>1, <2>2
    <3> QED BY <1>1, <1>9, <2>1, <3>3, <3>4, <3>5 DEF Timely
  <2> QED BY <2>5, <2>6
<1> QED BY <1>9, <1>12, <1>13, <1>14, <1>16, <1>17 DEF Partition

-----------------------------------------------------------------------------
(* The loops of _tick *)

(* The bucket of the new time is due as a whole. *)
LEMMA TickPartition ==
    ASSUME Partition, Tick
    PROVE  Partition'
<1> DEFINE n == now + 1  s == n % Slots  b == buckets[s]
           Due == {t \in Timers : timer[t].deadline <= n}
           k == [Top EXCEPT !.pc = "fire", !.slot = s, !.due = Only(b, Due)]
<1>1. /\ Running /\ Top.pc = "loop" /\ now < Top.to /\ now' = n
      /\ UNCHANGED <<overflow, size, timer, raises, nested>>
  BY DEF Tick
<1>2. SetTop(k) /\ buckets' = [buckets EXCEPT ![s] = Only(b, Timers \ Due)]
  BY DEF Tick
<1>3. TypeOK /\ Apart /\ Phases /\ InBuckets /\ SizeAccounted /\ Timely
  BY DEF Partition
<1>4. /\ Len(calls) \in Nat \ {0} /\ Top \in Call /\ Phase(Top)
      /\ InCalls = Below \cup ToSet(Top.due)
  BY <1>1, <1>3, TopFacts
<1>5. InCalls = Below
  BY <1>1, <1>4, ListEmpty DEF Phase
<1>6. /\ now \in Nat /\ n \in Nat /\ now \in Int /\ n \in Int /\ n \in 0..MaxNow
      /\ Slots \in Nat \ {0}
  <2>1. Top.to \in 0..MaxNow
    BY <1>4, CallType
  <2> QED BY <1>1, <1>3, <2>1, Types, SlotsType
<1>7. s \in 0..(Slots - 1)
  BY <1>6, ModType
<1>8. /\ buckets \in [0..(Slots - 1) -> Seq(Timers)] /\ b \in Seq(Timers)
      /\ IsInjective(b) /\ ToSet(b) \subseteq OnWheel
      /\ \A t \in Timers : timer[t].deadline \in Nat
      /\ OnWheel \subseteq Timers /\ ToSet(overflow) \subseteq Timers
      /\ InCalls \subseteq Timers
  <2>1. /\ buckets \in [0..(Slots - 1) -> Seq(Timers)] /\ Held \subseteq Timers
        /\ \A t \in Timers : timer[t].deadline \in Nat
    BY <1>3, Types
  <2> QED BY <1>3, <1>7, <2>1, OnWheelDef DEF Apart
<1>9. ToSet(b) \subseteq Due
  <2> SUFFICES ASSUME NEW t \in ToSet(b)
               PROVE  timer[t].deadline <= n
    BY <1>8
  <2>1. PICK d \in Int : d = timer[t].deadline
    BY <1>8
  <2>2. d % Slots = s /\ d < now + Slots
    BY <1>3, <1>7, <2>1 DEF InBuckets
  <2>3. d < n + Slots
    BY <1>6, <2>1, <2>2
  <2>4. d <= n
    <3> HIDE DEF n
    <3> QED BY <1>6, <2>2, <2>3, ModNotAfter
  <2> QED BY <2>1, <2>4
<1> HIDE DEF Due, s
<1>10. /\ Only(b, Due) \in Seq(Timers) /\ IsInjective(Only(b, Due))
       /\ ToSet(Only(b, Due)) = ToSet(b)
       /\ Only(b, Timers \ Due) \in Seq(Timers) /\ IsInjective(Only(b, Timers \ Due))
       /\ ToSet(Only(b, Timers \ Due)) = {}
  <2>1. b \in Seq(Timers) /\ IsInjective(b)
    BY <1>8
  <2> HIDE DEF b
  <2>2. \A S : /\ Only(b, S) \in Seq(Timers) /\ IsInjective(Only(b, S))
               /\ ToSet(Only(b, S)) = ToSet(b) \cap S
    BY <2>1, OnlyFacts
  <2>3. ToSet(b) \cap Due = ToSet(b) /\ ToSet(b) \cap (Timers \ Due) = {}
    BY <1>9
  <2> QED BY <2>2, <2>3
<1>11. /\ k \in Call /\ Phase(k) /\ k.pc = "fire" /\ k.slot = s /\ k.due = Only(b, Due)
  BY <1>4, <1>7, <1>10 DEF Call, Phase
<1>12. ToSet(b) \cap Below = {}
  BY <1>3, <1>5, <1>8 DEF Apart
<1> HIDE DEF k
<1>13. /\ calls' \in Seq(Call) /\ Len(calls') = Len(calls)
       /\ Running' /\ Top' = k /\ Phases' /\ Stacked(calls')
       /\ InCalls' = InCalls \cup ToSet(b)
  BY <1>1, <1>2, <1>3, <1>5, <1>10, <1>11, <1>12, SetTopFacts
<1>14. /\ ToSet(buckets'[s]) = {} /\ IsInjective(buckets'[s])
       /\ \A r \in 0..(Slots - 1) : r # s => buckets'[r] = buckets[r]
       /\ buckets' \in [0..(Slots - 1) -> Seq(Timers)]
  BY <1>2, <1>7, <1>8, <1>10
<1>15. OnWheel' = OnWheel \ ToSet(b)
  <2>1. ASSUME NEW r \in 0..(Slots - 1), r # s, NEW t \in ToSet(buckets[r])
        PROVE  t \notin ToSet(b)
    BY <1>3, <1>7, <2>1 DEF InBuckets
  <2>2. \A t : t \in OnWheel' <=> t \in OnWheel /\ t \notin ToSet(b)
    BY <1>7, <1>14, <2>1, OnWheelDef, OnWheelDefNext
  <2> QED BY <2>2
<1>16. Held' = Held /\ Known' = Known
  BY <1>1 DEF Held, Known
<1>17. TypeOK'
  BY <1>1, <1>3, <1>6, <1>13, <1>14 DEF TypeOK
<1>18. Apart'
  <2>1. \A r \in 0..(Slots - 1) : IsInjective(buckets'[r])
    BY <1>3, <1>14 DEF Apart
  <2>2. /\ OnWheel' \cap ToSet(overflow') = {}
        /\ InCalls' \cap (OnWheel' \cup ToSet(overflow')) = {}
        /\ Held' = OnWheel' \cup ToSet(overflow') \cup InCalls'
    BY <1>1, <1>3, <1>8, <1>13, <1>15, <1>16 DEF Apart
  <2> QED BY <1>1, <1>3, <1>13, <2>1, <2>2 DEF Apart
<1>19. InBuckets'
  <2> SUFFICES ASSUME NEW r \in 0..(Slots - 1), NEW t \in ToSet(buckets'[r])
               PROVE  timer[t].deadline % Slots = r /\ timer[t].deadline < n + Slots
    BY <1>1 DEF InBuckets
  <2>1. r # s /\ t \in ToSet(buckets[r])
    BY <1>14
  <2>2. t \in Timers
    BY <1>8, <2>1, OnWheelDef
  <2> QED BY <1>3, <1>6, <1>8, <2>1, <2>2 DEF InBuckets
<1>20. SizeAccounted'
  BY <1>1, <1>3, <1>16 DEF SizeAccounted
<1>21. Timely'
  <2> SUFFICES ASSUME ~ nested, raises = 0
               PROVE  Timely'
    BY <1>1 DEF Timely
  <2>1. /\ Len(calls) <= 1
        /\ \A t \in OnWheel : FiringTime(t) = BucketTime(Slots, timer[t].deadline, now)
        /\ \A t \in ToSet(overflow) :
              FiringTime(t) = OverflowTime(Slots, timer[t].deadline, NextRehoming)
    BY <1>3 DEF Timely
  <2>2. InCalls = {}
    <3>1. Len(calls) = 1
      <4>1. Len(calls) \in Nat \ {0} /\ Len(calls) <= 1
        BY <1>4, <2>1
      <4>2. \A c \in Nat \ {0} : c <= 1 => c = 1
        OBVIOUS
      <4> QED BY <4>1, <4>2
    <3> QED BY <1>5, <3>1 DEF Below, Dues
  <2>3. \A t : FiringTime(t)' = FiringTime(t)
    BY <1>1 DEF FiringTime
  <2>4. \A h \in 0..(Slots - 1) :
           /\ s = h => NextVisit(Slots, h, now) = n
           /\ s # h => NextVisit(Slots, h, now) = NextVisit(Slots, h, n)
    <3>1. \A m \in Int : \A h \in 0..(Slots - 1) :
             /\ (m + 1) % Slots = h => NextVisit(Slots, h, m) = m + 1
             /\ (m + 1) % Slots # h => NextVisit(Slots, h, m) = NextVisit(Slots, h, m + 1)
      BY SlotsType, NextVisitStep
    <3> QED BY <1>6, <3>1 DEF s
  <2>5. ASSUME NEW t \in OnWheel
        PROVE  \E r \in 0..(Slots - 1) : t \in ToSet(buckets[r]) /\ timer[t].deadline % Slots = r
    BY <1>3, OnWheelDef DEF InBuckets
  <2>6. ASSUME NEW t \in OnWheel'
        PROVE  FiringTime(t)' = BucketTime(Slots, timer'[t].deadline, now')
    <3>1. t \in OnWheel /\ t \notin ToSet(b)
      BY <1>15, <2>6
    <3>2. PICK r \in 0..(Slots - 1) :
             t \in ToSet(buckets[r]) /\ timer[t].deadline % Slots = r
      BY <2>5, <3>1
    <3>3. s # r
      BY <3>1, <3>2
    <3>4. NextVisit(Slots, r, now) = NextVisit(Slots, r, n)
      BY <2>4, <3>3
    <3> QED BY <1>1, <2>1, <2>3, <3>1, <3>2, <3>4 DEF BucketTime
  <2>7. ASSUME NEW t \in ToSet(b)
        PROVE  FiringTime(t)' = n
    <3>1. timer[t].deadline % Slots = s /\ t \in OnWheel
      BY <1>3, <1>7, <1>8, <2>7 DEF InBuckets
    <3>2. NextVisit(Slots, s, now) = n
      BY <1>7, <2>4
    <3> QED BY <2>1, <2>3, <3>1, <3>2 DEF BucketTime
  <2>8. NextRehoming' = NextRehoming
    <3>1. NextRehoming = NextVisit(Slots, Slots - 1, now)
      BY <1>1 DEF NextRehoming
    <3>2. NextRehoming' = IF s = Slots - 1 THEN n ELSE NextVisit(Slots, Slots - 1, n)
      BY <1>1, <1>11, <1>13 DEF NextRehoming, RevolutionEnds
    <3>3. Slots - 1 \in 0..(Slots - 1)
      BY <1>6
    <3> QED BY <2>4, <3>1, <3>2, <3>3
  <2>9. /\ Len(calls') <= 1 /\ Top'.slot = now' % Slots
    BY <1>1, <1>11, <1>13, <2>1 DEF s
  <2>10. /\ \A t \in ToSet(overflow') :
              FiringTime(t)' = OverflowTime(Slots, timer'[t].deadline, NextRehoming')
         /\ \A t \in InCalls' : FiringTime(t)' = now'
    BY <1>1, <1>13, <2>1, <2>2, <2>3, <2>7, <2>8
  <2> QED BY <2>6, <2>9, <2>10 DEF Timely
<1> QED BY <1>13, <1>17, <1>18, <1>19, <1>20, <1>21 DEF Partition

(* A timer leaves the wheel, fired or cancelled. *)
LEMMA LeavePartition ==
    ASSUME Partition, Leave
    PROVE  Partition'
<1> DEFINE k == [Top EXCEPT !.pc = "fire", !.due = Tail(@)]
<1>1. /\ Running /\ Top.due # <<>> /\ Top.pc # "loop" /\ SetTop(k)
      /\ timer' = [timer EXCEPT ![Head(Top.due)] = Free] /\ size' = size - 1
      /\ UNCHANGED <<now, buckets, overflow, raises, nested>>
  BY DEF Leave
<1>2. TypeOK /\ Apart /\ Phases /\ InBuckets /\ SizeAccounted /\ Timely
  BY DEF Partition
<1>3. /\ Len(calls) \in Nat \ {0} /\ Top \in Call
      /\ Top.due \in Seq(Timers) /\ IsInjective(Top.due)
      /\ ToSet(Top.due) \cap Below = {}
      /\ InCalls = Below \cup ToSet(Top.due)
  BY <1>1, <1>2, TopFacts
<1>4. PICK t : t = Head(Top.due)
  OBVIOUS
<1>5. /\ t \in Timers /\ t \in ToSet(Top.due)
      /\ Tail(Top.due) \in Seq(Timers) /\ IsInjective(Tail(Top.due))
      /\ ToSet(Tail(Top.due)) = ToSet(Top.due) \ {t}
  BY <1>1, <1>3, <1>4, ListTail
<1>6. k \in Call /\ k.pc = "fire" /\ k.due = Tail(Top.due) /\ k.slot = Top.slot /\ Phase(k)
  BY <1>3, <1>5 DEF Call, Phase
<1> HIDE DEF k
<1>7. /\ calls' \in Seq(Call) /\ Len(calls') = Len(calls)
      /\ Running' /\ Top' = k /\ Phases' /\ Stacked(calls')
      /\ InCalls' = Below \cup ToSet(k.due)
  BY <1>1, <1>2, <1>3, <1>5, <1>6, SetTopFacts
<1>8. InCalls' = InCalls \ {t} /\ t \in InCalls
  BY <1>3, <1>5, <1>6, <1>7
<1>9. Free \in Timer /\ Free.state = "free"
  BY Types, <1>2 DEF Free, Timer
<1>10. /\ timer' \in [Timers -> Timer] /\ timer'[t] = Free
       /\ \A u \in Timers : u # t => timer'[u] = timer[u]
  BY <1>1, <1>2, <1>4, <1>5, <1>9 DEF TypeOK
<1>11. /\ t \in Held /\ Held' = Held \ {t}
       /\ t \in Known /\ Known' = Known \ {t}
  <2>1. t \in Held
    BY <1>2, <1>8 DEF Apart
  <2> QED BY <1>5, <1>9, <1>10, <2>1 DEF Held, Known
<1>12. OnWheel' = OnWheel
  BY <1>1 DEF OnWheel
<1>13. t \notin OnWheel /\ t \notin ToSet(overflow)
  BY <1>2, <1>8 DEF Apart
<1>14. OnWheel \subseteq Timers /\ ToSet(overflow) \subseteq Timers /\ InCalls \subseteq Timers
  BY <1>2, Types DEF Apart
<1>15. Apart'
  <2>1. /\ InCalls' \cap (OnWheel' \cup ToSet(overflow')) = {}
        /\ Held' = OnWheel' \cup ToSet(overflow') \cup InCalls'
    BY <1>1, <1>2, <1>8, <1>11, <1>12, <1>13 DEF Apart
  <2> QED BY <1>1, <1>2, <1>7, <1>12, <2>1 DEF Apart
<1>16. SizeAccounted'
  <2>1. IsFiniteSet(Known) /\ size = Cardinality(Known)
    BY <1>2, TimersFinite DEF SizeAccounted, Known
  <2>2. Cardinality(Known') = Cardinality(Known) - 1
    BY <1>11, <2>1, FS_RemoveElement
  <2> QED BY <1>1, <2>1, <2>2 DEF SizeAccounted
<1>17. TypeOK'
  <2>1. size' \in 0..Cardinality(Timers)
    BY <1>16, TimersFinite DEF SizeAccounted, Known
  <2> QED BY <1>1, <1>2, <1>7, <1>10, <2>1 DEF TypeOK
<1>18. InBuckets'
  <2>1. \A s \in 0..(Slots - 1) : \A u \in ToSet(buckets[s]) : u \in Timers /\ u # t
    BY <1>13, <1>14, OnWheelDef
  <2> QED BY <1>1, <1>2, <1>10, <2>1 DEF InBuckets
<1>19. Timely'
  <2> SUFFICES ASSUME ~ nested, raises = 0
               PROVE  Timely'
    BY <1>1 DEF Timely
  <2>1. /\ Len(calls) <= 1
        /\ Running /\ Top.pc # "loop" => Top.slot = now % Slots
        /\ \A u \in OnWheel : FiringTime(u) = BucketTime(Slots, timer[u].deadline, now)
        /\ \A u \in ToSet(overflow) :
              FiringTime(u) = OverflowTime(Slots, timer[u].deadline, NextRehoming)
        /\ \A u \in InCalls : FiringTime(u) = now
    BY <1>2 DEF Timely
  <2>2. \A u \in Timers : u # t => FiringTime(u)' = FiringTime(u)
    BY <1>10 DEF FiringTime
  <2>3. NextRehoming' = NextRehoming
    BY <1>1, <1>6, <1>7 DEF NextRehoming, RevolutionEnds
  <2>4. \A u \in OnWheel' : FiringTime(u)' = BucketTime(Slots, timer'[u].deadline, now')
    BY <1>1, <1>10, <1>12, <1>13, <1>14, <2>1, <2>2
  <2>5. \A u \in ToSet(overflow') :
            FiringTime(u)' = OverflowTime(Slots, timer'[u].deadline, NextRehoming')
    BY <1>1, <1>10, <1>13, <1>14, <2>1, <2>2, <2>3
  <2>6. \A u \in InCalls' : FiringTime(u)' = now'
    BY <1>1, <1>8, <1>14, <2>1, <2>2
  <2>7. Len(calls') <= 1 /\ Top'.slot = now' % Slots
    BY <1>1, <1>6, <1>7, <2>1
  <2> QED BY <2>4, <2>5, <2>6, <2>7 DEF Timely
<1> QED BY <1>7, <1>15, <1>16, <1>17, <1>18, <1>19 DEF Partition

(* The timers on the list of the call that a callback raises out of are    *)
(* lost.                                                                   *)
LEMMA RaisePartition ==
    ASSUME Partition, Raise
    PROVE  Partition'
<1>1. /\ Running /\ raises < MaxRaises /\ raises' = raises + 1 /\ Pop
      /\ timer' = [t \in Timers |-> IF Contains(Top.due, t)
                                    THEN [timer[t] EXCEPT !.state = "lost"]
                                    ELSE timer[t]]
      /\ UNCHANGED <<now, buckets, overflow, size, nested>>
  BY DEF Raise
<1>2. TypeOK /\ Apart /\ Phases /\ InBuckets /\ SizeAccounted
  BY DEF Partition
<1>3. /\ Len(calls) \in Nat \ {0} /\ Top.due \in Seq(Timers)
      /\ ToSet(Top.due) \cap Below = {}
      /\ InCalls = Below \cup ToSet(Top.due)
  BY <1>1, <1>2, TopFacts
<1>4. /\ calls' \in Seq(Call) /\ Len(calls') = Len(calls) - 1
      /\ Phases' /\ Stacked(calls') /\ InCalls' = Below
  BY <1>1, <1>2, PopFacts
<1>5. \A t \in Timers : timer'[t] = IF t \in ToSet(Top.due)
                                    THEN [timer[t] EXCEPT !.state = "lost"]
                                    ELSE timer[t]
  BY <1>1, <1>3, ListType
<1>6. \A t \in Timers : timer[t] \in Timer
  BY <1>2 DEF TypeOK
<1>7. \A t \in Timers :
         /\ timer'[t] \in Timer /\ timer'[t].deadline = timer[t].deadline
         /\ timer'[t].state = IF t \in ToSet(Top.due) THEN "lost" ELSE timer[t].state
  BY <1>5, <1>6 DEF Timer
<1>8. timer' \in [Timers -> Timer]
  BY <1>1, <1>7
<1>9. ToSet(Top.due) \subseteq Held /\ Held \subseteq Timers
  BY <1>2, <1>3, Types DEF Apart
<1>10. Held' = Held \ ToSet(Top.due) /\ Known' = Known
  BY <1>7, <1>9 DEF Held, Known
<1>11. OnWheel' = OnWheel
  BY <1>1 DEF OnWheel
<1>12. Apart'
  <2>1. /\ InCalls' \cap (OnWheel' \cup ToSet(overflow')) = {}
        /\ Held' = OnWheel' \cup ToSet(overflow') \cup InCalls'
    BY <1>1, <1>2, <1>3, <1>4, <1>10, <1>11 DEF Apart
  <2> QED BY <1>1, <1>2, <1>4, <1>11, <2>1 DEF Apart
<1>13. raises \in Nat /\ raises' \in 0..MaxRaises /\ raises' # 0
  BY <1>1, <1>2, WheelAssumption DEF TypeOK
<1>14. TypeOK'
  <2>1. Len(calls') <= MaxDepth
    BY <1>2, <1>3, <1>4, WheelAssumption DEF TypeOK
  <2> QED BY <1>1, <1>2, <1>4, <1>8, <1>13, <2>1 DEF TypeOK
<1>15. InBuckets'
  <2>1. OnWheel \subseteq Timers
    BY <1>2, <1>9 DEF Apart
  <2>2. \A s \in 0..(Slots - 1) : \A u \in ToSet(buckets[s]) : u \in Timers
    BY <2>1, OnWheelDef
  <2> QED BY <1>1, <1>2, <1>7, <2>2 DEF InBuckets
<1>16. SizeAccounted'
  BY <1>1, <1>2, <1>10 DEF SizeAccounted
<1>17. Timely'
  BY <1>13 DEF Timely
<1> QED BY <1>4, <1>12, <1>14, <1>15, <1>16, <1>17 DEF Partition

(* At the end of a revolution, what came into range goes onto the wheel.   *)
LEMMA EndTickPartition ==
    ASSUME Partition, EndTick
    PROVE  Partition'
<1> DEFINE k == [Top EXCEPT !.pc = "loop"]
           Of(s) == {t \in Timers : /\ Near(timer[t].deadline)
                                    /\ timer[t].deadline % Slots = s}
           Rest == {t \in Timers : Far(timer[t].deadline)}
<1>1. /\ Running /\ Top.pc = "fire" /\ Top.due = <<>> /\ SetTop(k)
      /\ UNCHANGED <<now, size, timer, raises, nested>>
      /\ RevolutionEnds =>
            /\ buckets' = [s \in 0..(Slots - 1) |-> buckets[s] \o Only(overflow, Of(s))]
            /\ overflow' = Only(overflow, Rest)
      /\ ~ RevolutionEnds => UNCHANGED <<buckets, overflow>>
  BY DEF EndTick
<1>2. TypeOK /\ Apart /\ Phases /\ InBuckets /\ SizeAccounted /\ Timely
  BY DEF Partition
<1>3. /\ Len(calls) \in Nat \ {0} /\ Top \in Call
      /\ IsInjective(Top.due) /\ ToSet(Top.due) \cap Below = {}
      /\ InCalls = Below \cup ToSet(Top.due)
  BY <1>1, <1>2, TopFacts
<1>4. k \in Call /\ k.pc = "loop" /\ k.due = Top.due
  BY <1>3 DEF Call
<1>5. Phase(k)
  BY <1>1, <1>4 DEF Phase
<1> HIDE DEF k
<1>6. /\ calls' \in Seq(Call) /\ Len(calls') = Len(calls)
      /\ Running' /\ Top' = k /\ Phases' /\ Stacked(calls')
      /\ InCalls' = InCalls
  BY <1>1, <1>2, <1>3, <1>4, <1>5, SetTopFacts
<1>7. Len(calls') <= MaxDepth /\ nested' \in BOOLEAN /\ timer' \in [Timers -> Timer]
  BY <1>1, <1>2, <1>6 DEF TypeOK
<1>8. NextRehoming' = NextVisit(Slots, Slots - 1, now)
  BY <1>1, <1>4, <1>6 DEF NextRehoming
<1>9. CASE ~ RevolutionEnds
  <2>1. UNCHANGED <<buckets, overflow>> /\ NextRehoming' = NextRehoming
    BY <1>1, <1>8, <1>9 DEF NextRehoming
  <2> QED BY <1>1, <1>2, <1>4, <1>6, <1>7, <2>1, KeepsPartition DEF Timely
<1>10. CASE RevolutionEnds
  <2>1. /\ now \in Nat /\ now \in Int /\ Slots \in Nat \ {0}
        /\ buckets \in [0..(Slots - 1) -> Seq(Timers)] /\ overflow \in Seq(Timers)
        /\ \A t \in Timers : timer[t].deadline \in Nat
        /\ IsInjective(overflow) /\ ToSet(overflow) \subseteq Timers
        /\ OnWheel \subseteq Timers
    BY <1>2, Types, SlotsType DEF Apart
  <2>2. \A S : /\ Only(overflow, S) \in Seq(Timers) /\ IsInjective(Only(overflow, S))
               /\ ToSet(Only(overflow, S)) = ToSet(overflow) \cap S
    BY <2>1, OnlyFacts
  <2>3. ASSUME NEW s \in 0..(Slots - 1)
        PROVE  /\ buckets'[s] \in Seq(Timers) /\ IsInjective(buckets'[s])
               /\ ToSet(buckets'[s]) = ToSet(buckets[s]) \cup (ToSet(overflow) \cap Of(s))
    <3> DEFINE a == buckets[s]  c == Only(overflow, Of(s))
    <3>1. buckets'[s] = a \o c
      BY <1>1, <1>10
    <3>2. /\ a \in Seq(Timers) /\ c \in Seq(Timers)
          /\ IsInjective(a) /\ IsInjective(c)
          /\ ToSet(a) \subseteq OnWheel /\ ToSet(c) = ToSet(overflow) \cap Of(s)
      BY <1>2, <2>1, <2>2, OnWheelDef DEF Apart
    <3>3. ToSet(a) \cap ToSet(c) = {}
      BY <1>2, <3>2 DEF Apart
    <3> HIDE DEF a, c
    <3>4. /\ a \o c \in Seq(Timers) /\ IsInjective(a \o c)
          /\ ToSet(a \o c) = ToSet(a) \cup ToSet(c)
      BY <3>2, <3>3, ListConcat
    <3>5. /\ buckets'[s] \in Seq(Timers) /\ IsInjective(buckets'[s])
          /\ ToSet(buckets'[s]) = ToSet(a) \cup ToSet(c)
      BY <3>1, <3>4
    <3> QED BY <3>2, <3>5 DEF a
  <2>4. /\ overflow' \in Seq(Timers) /\ IsInjective(overflow')
        /\ ToSet(overflow') = ToSet(overflow) \cap Rest
    BY <1>1, <1>10, <2>2
  <2>5. buckets' \in [0..(Slots - 1) -> Seq(Timers)]
    BY <1>1, <1>10, <2>3
  <2>6. \A t \in Timers : timer[t].deadline % Slots \in 0..(Slots - 1)
    <3> SUFFICES ASSUME NEW t \in Timers
                 PROVE  timer[t].deadline % Slots \in 0..(Slots - 1)
      OBVIOUS
    <3>1. PICK d \in Int : d = timer[t].deadline
      BY <2>1
    <3>2. d % Slots \in 0..(Slots - 1)
      BY <2>1, ModType
    <3> QED BY <3>1, <3>2
  <2>7. OnWheel' = OnWheel \cup (ToSet(overflow) \ Rest)
    <3>1. \A t \in Timers : t \notin Rest <=> Near(timer[t].deadline)
      BY DEF Far
    <3>2. \A t : t \in OnWheel' <=> t \in OnWheel \/ (t \in ToSet(overflow) /\ t \notin Rest)
      BY <2>1, <2>3, <2>6, <3>1, OnWheelDef, OnWheelDefNext
    <3> QED BY <3>2
  <2>8. Held' = Held /\ Known' = Known /\ \A t : FiringTime(t)' = FiringTime(t)
    BY <1>1 DEF Held, Known, FiringTime
  <2>9. TypeOK'
    BY <1>1, <1>2, <1>6, <1>7, <2>4, <2>5 DEF TypeOK
  <2>10. Apart'
    <3>1. /\ OnWheel' \cap ToSet(overflow') = {}
          /\ InCalls' \cap (OnWheel' \cup ToSet(overflow')) = {}
          /\ Held' = OnWheel' \cup ToSet(overflow') \cup InCalls'
      BY <1>2, <1>6, <2>4, <2>7, <2>8 DEF Apart
    <3> QED BY <1>6, <2>3, <2>4, <3>1 DEF Apart
  <2>11. InBuckets'
    <3> SUFFICES ASSUME NEW s \in 0..(Slots - 1), NEW t \in ToSet(buckets'[s])
                 PROVE  timer[t].deadline % Slots = s /\ timer[t].deadline < now + Slots
      BY <1>1 DEF InBuckets
    <3>1. CASE t \in ToSet(buckets[s])
      BY <1>2, <3>1 DEF InBuckets
    <3>2. CASE t \in ToSet(overflow) /\ t \in Of(s)
      BY <2>1, <3>2 DEF Near
    <3> QED BY <2>3, <3>1, <3>2
  <2>12. SizeAccounted'
    BY <1>1, <1>2, <2>8 DEF SizeAccounted
  <2>13. Timely'
    <3> SUFFICES ASSUME ~ nested, raises = 0
                 PROVE  Timely'
      BY <1>1 DEF Timely
    <3>1. /\ Len(calls) <= 1 /\ now % Slots = Slots - 1
          /\ NextRehoming = now
          /\ \A t \in OnWheel : FiringTime(t) = BucketTime(Slots, timer[t].deadline, now)
          /\ \A t \in ToSet(overflow) :
                FiringTime(t) = OverflowTime(Slots, timer[t].deadline, NextRehoming)
          /\ \A t \in InCalls : FiringTime(t) = now
      BY <1>1, <1>2, <1>10 DEF Timely, NextRehoming, RevolutionEnds
    <3>2. NextRehoming' = now + Slots
      BY <1>8, <2>1, <3>1, LastVisit
    <3>3. \A d \in Int :
             /\ d < now + Slots => OverflowTime(Slots, d, now) = BucketTime(Slots, d, now)
             /\ d >= now + Slots => OverflowTime(Slots, d, now + Slots) = OverflowTime(Slots, d, now)
      BY <2>1, Rehoming
    <3>4. \A t \in Timers : /\ Near(timer[t].deadline) => timer[t].deadline < now + Slots
                            /\ ~ Near(timer[t].deadline) => timer[t].deadline >= now + Slots
      BY <2>1 DEF Near
    <3>5. ASSUME NEW t \in OnWheel'
          PROVE  FiringTime(t)' = BucketTime(Slots, timer'[t].deadline, now')
      <4>1. CASE t \in OnWheel
        BY <1>1, <2>8, <3>1, <4>1
      <4>2. CASE t \in ToSet(overflow) /\ t \notin Rest
        <5>1. timer[t].deadline \in Int /\ timer[t].deadline < now + Slots
          BY <2>1, <3>4, <4>2 DEF Far
        <5> QED BY <1>1, <2>8, <3>1, <3>3, <4>2, <5>1
      <4> QED BY <2>7, <3>5, <4>1, <4>2
    <3>6. ASSUME NEW t \in ToSet(overflow')
          PROVE  FiringTime(t)' = OverflowTime(Slots, timer'[t].deadline, NextRehoming')
      <4>1. t \in ToSet(overflow) /\ t \in Timers /\ ~ Near(timer[t].deadline)
        BY <2>4, <3>6 DEF Far
      <4>2. timer[t].deadline \in Int /\ timer[t].deadline >= now + Slots
        BY <2>1, <3>4, <4>1
      <4> QED BY <1>1, <2>8, <3>1, <3>2, <3>3, <4>1, <4>2
    <3>7. \A t \in InCalls' : FiringTime(t)' = now'
      BY <1>1, <1>6, <2>8, <3>1
    <3> QED BY <1>4, <1>6, <3>1, <3>5, <3>6, <3>7 DEF Timely
  <2> QED BY <1>6, <2>9, <2>10, <2>11, <2>12, <2>13 DEF Partition
<1> QED BY <1>9, <1>10

-----------------------------------------------------------------------------
(* Invariance *)

LEMMA InitPartition == Init => Partition
<1> SUFFICES ASSUME Init PROVE Partition
  OBVIOUS
<1>1. /\ now = 0 /\ overflow = <<>> /\ size = 0 /\ calls = <<>>
      /\ raises = 0 /\ nested = FALSE
      /\ buckets = [s \in 0..(Slots - 1) |-> <<>>]
      /\ timer = [t \in Timers |-> Free]
  BY DEF Init
<1>2. /\ ToSet(<<>>) = {} /\ IsInjective(<<>>) /\ <<>> \in Seq(Timers)
      /\ calls \in Seq(Call) /\ Len(calls) = 0 /\ DOMAIN calls = {}
  BY <1>1, ListEmpty
<1>3. {MaxDelay, MaxNow, MaxDepth, MaxRaises} \subseteq Nat /\ MaxNow + MaxDelay \in Nat
  BY WheelAssumption
<1>4. TypeOK
  <2>1. buckets \in [0..(Slots - 1) -> Seq(Timers)]
    BY <1>1, <1>2
  <2>2. timer \in [Timers -> Timer]
    BY <1>1, <1>3 DEF Free, Timer
  <2>3. 0 \in 0..Cardinality(Timers)
    BY TimersFinite
  <2>4. /\ now \in 0..MaxNow /\ raises \in 0..MaxRaises /\ Len(calls) <= MaxDepth
        /\ size \in 0..Cardinality(Timers) /\ nested \in BOOLEAN
    <3>1. MaxNow \in Nat /\ MaxRaises \in Nat /\ MaxDepth \in Nat
      BY <1>3
    <3>2. now \in 0..MaxNow /\ raises \in 0..MaxRaises /\ Len(calls) <= MaxDepth
      BY <1>1, <1>2, <3>1
    <3> QED BY <1>1, <2>3, <3>2
  <2> QED BY <1>1, <1>2, <2>1, <2>2, <2>4 DEF TypeOK
<1>5. OnWheel = {}
  BY <1>1, <1>2, OnWheelDef
<1>6. InCalls = {} /\ Held = {} /\ Known = {}
  BY <1>1, <1>2 DEF InCalls, Dues, Held, Known, Free
<1>7. Apart /\ Phases
  BY <1>1, <1>2, <1>5, <1>6 DEF Apart, Stacked, Phases
<1>8. InBuckets
  BY <1>1, <1>2 DEF InBuckets
<1>9. SizeAccounted
  BY <1>1, <1>6, FS_EmptySet DEF SizeAccounted
<1>10. Timely
  BY <1>1, <1>2, <1>5, <1>6 DEF Timely, Running
<1> QED BY <1>4, <1>7, <1>8, <1>9, <1>10 DEF Partition

LEMMA StutterPartition ==
    ASSUME Partition, UNCHANGED vars
    PROVE  Partition'
<1>1. /\ UNCHANGED <<now, buckets, overflow, size, raises>>
      /\ UNCHANGED <<timer, calls, nested>>
  BY DEF vars
<1>2. /\ calls' \in Seq(Call) /\ Len(calls') <= MaxDepth /\ nested' \in BOOLEAN
      /\ Stacked(calls') /\ Phases' /\ InCalls' = InCalls
      /\ timer' \in [Timers -> Timer]
  BY <1>1 DEF Partition, TypeOK, Apart, Phases, InCalls
<1>3. NextRehoming' = NextRehoming /\ Running' = Running /\ Top' = Top
  BY <1>1 DEF NextRehoming, RevolutionEnds, Running, Top
<1> QED BY <1>1, <1>2, <1>3, KeepsPartition DEF Partition, Timely

(* The callbacks in progress are as the innermost call says. *)
LEMMA TopStarts ==
    ASSUME TypeOK, Apart, Phases, Running, NEW k \in Call, SetTop(k)
    PROVE  InCallback' = Around \cup (IF k.pc = "callback" THEN {Head(k.due)} ELSE {})
<1> DEFINE n == Len(calls)
<1>1. calls \in Seq(Call) /\ n \in Nat \ {0} /\ DOMAIN calls = 1..n
  BY CallsLen DEF TypeOK, Running
<1>2. calls' = [calls EXCEPT ![n] = k]
  BY DEF SetTop
<1>3. /\ DOMAIN calls' = 1..n /\ calls'[n] = k
      /\ \A i \in 1..(n - 1) : calls'[i] = calls[i]
  <2>1. calls' \in Seq(Call) /\ Len(calls') = n
    BY <1>1, <1>2, ExceptSeq
  <2> HIDE DEF n
  <2>2. calls'[n] = k /\ \A i \in 1..(n - 1) : calls'[i] = calls[i]
    BY <1>1, <1>2
  <2> QED BY <2>1, <2>2, CallsLen
<1>4. InCallback' = Starts(calls', n)
  BY <1>3 DEF InCallback, Starts
<1> HIDE DEF n
<1>5. Starts(calls', n) = Starts(calls', n - 1)
                      \cup (IF calls'[n].pc = "callback" THEN {Head(calls'[n].due)} ELSE {})
  BY <1>1, StartsTop
<1>6. Starts(calls', n - 1) = Starts(calls, n - 1)
  BY <1>1, <1>3, StartsSame
<1> QED BY <1>3, <1>4, <1>5, <1>6 DEF Around, n

LEMMA PopStarts ==
    ASSUME TypeOK, Apart, Phases, Running, Pop
    PROVE  InCallback' = Around
<1> DEFINE n == Len(calls)
<1>1. /\ calls \in Seq(Call) /\ n \in Nat \ {0} /\ \A i \in 1..n : calls[i] \in Call
  BY CallsLen DEF TypeOK, Running
<1>2. PICK m \in Nat : m = n - 1
  BY <1>1
<1>3. calls' = SubSeq(calls, 1, m) /\ \A i \in 1..m : calls[i] \in Call
  BY <1>1, <1>2 DEF Pop, Front
<1> HIDE DEF n
<1>4. calls' \in Seq(Call) /\ Len(calls') = m /\ \A i \in 1..m : calls'[i] = calls[i]
  <2>1. 1 \in Int /\ m \in Int /\ m - 1 + 1 = m
    BY <1>2
  <2>2. /\ calls' \in Seq(Call) /\ Len(calls') = (IF 1 <= m THEN m - 1 + 1 ELSE 0)
        /\ \A i \in 1..(m - 1 + 1) : calls'[i] = calls[1 + i - 1]
    BY <1>3, <2>1, SubSeqProperties
  <2> QED BY <1>2, <2>1, <2>2
<1>5. InCallback' = Starts(calls', m)
  <2>1. DOMAIN calls' = 1..m
    BY <1>4, CallsLen
  <2> QED BY <2>1 DEF InCallback, Starts
<1>6. Starts(calls', m) = Starts(calls, m)
  BY <1>2, <1>4, StartsSame
<1> QED BY <1>2, <1>5, <1>6 DEF Around, n

LEMMA PushStarts ==
    ASSUME TypeOK, NEW k \in Call, k.pc = "loop", calls' = Append(calls, k)
    PROVE  InCallback' = InCallback
<1> DEFINE n == Len(calls)
<1>1. calls \in Seq(Call) /\ n \in Nat /\ DOMAIN calls = 1..n
  BY CallsLen DEF TypeOK
<1>2. /\ calls' \in Seq(Call) /\ Len(calls') = n + 1
      /\ \A i \in 1..n : calls'[i] = calls[i]
      /\ calls'[n + 1] = k
  BY <1>1, AppendProperties
<1>3. DOMAIN calls' = 1..(n + 1)
  BY <1>2, CallsLen
<1> HIDE DEF n
<1>4. \A i \in 1..(n + 1) : i \in 1..n \/ i = n + 1
  BY <1>1
<1>5. 1..n \subseteq 1..(n + 1)
  BY <1>1
<1> QED BY <1>1, <1>2, <1>3, <1>4, <1>5 DEF InCallback

(* A step keeps Started if the timers that stay have run what they had.    *)
LEMMA KeepsStarted ==
    ASSUME Started,
           \A t \in Held' : /\ t \in Held
                            /\ t \in InCallback' <=> t \in InCallback
                            /\ timer'[t].runs = timer[t].runs
                            /\ timer'[t].stopped = timer[t].stopped
                            /\ timer'[t].cancelled = timer[t].cancelled
    PROVE  Started'
  BY DEF Started

LEMMA ScheduleStarted ==
    ASSUME IInv, NEW t \in Timers, NEW d \in 0..MaxDelay, Schedule(t, d)
    PROVE  Started'
<1>1. /\ timer[t].state = "free" /\ calls' = calls
      /\ timer' = [timer EXCEPT ![t] = [Free EXCEPT !.state = "held", !.delay = d,
                                                     !.deadline = now + d]]
  BY DEF Schedule
<1>2. TypeOK /\ Apart /\ Phases /\ Started
  BY DEF IInv, Partition
<1>3. /\ \A u \in Timers : u # t => timer'[u] = timer[u]
      /\ timer'[t].runs = 0 /\ ~ timer'[t].stopped /\ ~ timer'[t].cancelled
  BY <1>1, <1>2 DEF TypeOK, Free
<1>4. InCallback' = InCallback /\ \A u \in Held' : u \in Timers /\ (u = t \/ u \in Held)
  BY <1>1, <1>3 DEF InCallback, Held
<1>5. t \notin InCallback
  <2>1. t \notin Held
    BY <1>1 DEF Held
  <2>2. InCallback \subseteq Held
    BY <1>2, CallbacksHeld
  <2> QED BY <2>1, <2>2
<1> QED BY <1>2, <1>3, <1>4, <1>5 DEF Started

LEMMA CancelStarted ==
    ASSUME IInv, NEW t \in Timers, Cancel(t)
    PROVE  Started'
<1>1. /\ timer[t].state = "held" /\ calls' = calls
      /\ timer' = [timer EXCEPT ![t].cancelled = TRUE,
                                ![t].stopped = timer[t].runs = 0]
  BY DEF Cancel
<1>2. TypeOK /\ Started
  BY DEF IInv, Partition
<1>3. timer \in [Timers -> Timer]
  BY <1>2 DEF TypeOK
<1>4. /\ \A u \in Timers : u # t => timer'[u] = timer[u]
      /\ timer'[t].runs = timer[t].runs /\ timer'[t].state = timer[t].state
      /\ timer'[t].cancelled /\ timer'[t].stopped = (timer[t].runs = 0)
  BY <1>1, <1>3 DEF Timer
<1>5. InCallback' = InCallback /\ Held' = Held /\ t \in Held
  BY <1>1, <1>4 DEF InCallback, Held
<1> QED BY <1>2, <1>4, <1>5 DEF Started, Held

(* Steps that start or end no callback. *)
LEMMA StaysStarted ==
    ASSUME IInv, timer' = timer, InCallback' = InCallback
    PROVE  Started'
<1>1. Held' = Held
  BY DEF Held
<1> QED BY <1>1 DEF IInv, Started

LEMMA FireStarted ==
    ASSUME IInv, Fire
    PROVE  Started'
<1> DEFINE k == [Top EXCEPT !.pc = "callback"]
<1>1. /\ Running /\ Top.pc = "fire" /\ Top.due # <<>> /\ SetTop(k)
      /\ ~ timer[Head(Top.due)].cancelled
      /\ timer' = [timer EXCEPT ![Head(Top.due)].runs = @ + 1]
  BY DEF Fire
<1>2. TypeOK /\ Apart /\ Phases /\ Started
  BY DEF IInv, Partition
<1>3. Top \in Call
  BY <1>1, <1>2, TopFacts
<1>4. k \in Call /\ k.pc = "callback" /\ k.due = Top.due
  BY <1>3 DEF Call
<1> HIDE DEF k
<1>5. PICK h \in Timers : h = Head(Top.due) /\ timer[h].runs = 0
  BY <1>1, HeadStarted DEF IInv
<1>6. h \in Held /\ InCallback = Around
  BY <1>1, <1>2, <1>5, AroundFacts
<1>7. InCallback' = InCallback \cup {h}
  BY <1>1, <1>2, <1>4, <1>5, <1>6, TopStarts
<1>8. timer \in [Timers -> Timer] /\ timer' = [timer EXCEPT ![h].runs = 1]
  BY <1>1, <1>2, <1>5 DEF TypeOK
<1>9. /\ \A u \in Timers : u # h => timer'[u] = timer[u]
      /\ timer'[h].runs = 1 /\ timer'[h].state = timer[h].state
      /\ timer'[h].cancelled = timer[h].cancelled
      /\ timer'[h].stopped = timer[h].stopped
  BY <1>8 DEF Timer
<1>10. Held' = Held /\ Held \subseteq Timers
  BY <1>9 DEF Held
<1>11. ~ timer[h].cancelled /\ ~ timer[h].stopped
  BY <1>1, <1>2, <1>5, <1>6 DEF Started
<1> QED BY <1>2, <1>7, <1>9, <1>10, <1>11 DEF Started

LEMMA LeaveStarted ==
    ASSUME IInv, Leave
    PROVE  Started'
<1> DEFINE k == [Top EXCEPT !.pc = "fire", !.due = Tail(@)]
<1>1. /\ Running /\ Top.due # <<>> /\ SetTop(k)
      /\ timer' = [timer EXCEPT ![Head(Top.due)] = Free]
  BY DEF Leave
<1>2. TypeOK /\ Apart /\ Phases /\ Started
  BY DEF IInv, Partition
<1>3. Top \in Call /\ Top.due \in Seq(Timers)
  BY <1>1, <1>2, TopFacts
<1>4. k \in Call /\ k.pc = "fire"
  <2>1. Tail(Top.due) \in Seq(Timers)
    BY <1>1, <1>3, HeadTailProperties
  <2> QED BY <1>3, <2>1 DEF Call
<1> HIDE DEF k
<1>5. PICK h \in Timers : h = Head(Top.due)
  BY <1>1, <1>2, AroundFacts
<1>6. InCallback' = Around /\ \A u : u # h => (u \in Around <=> u \in InCallback)
  BY <1>1, <1>2, <1>4, <1>5, AroundFacts, TopStarts
<1>7. /\ \A u \in Timers : u # h => timer'[u] = timer[u]
      /\ timer'[h].state = "free"
  BY <1>1, <1>2, <1>5 DEF TypeOK, Free
<1>8. \A u \in Held' : u \in Held /\ u \in Timers /\ u # h
  BY <1>7 DEF Held
<1> QED BY <1>2, <1>6, <1>7, <1>8, KeepsStarted

LEMMA RaiseStarted ==
    ASSUME IInv, Raise
    PROVE  Started'
<1>1. /\ Running /\ Top.pc = "callback" /\ Pop
      /\ timer' = [t \in Timers |-> IF Contains(Top.due, t)
                                    THEN [timer[t] EXCEPT !.state = "lost"]
                                    ELSE timer[t]]
  BY DEF Raise
<1>2. TypeOK /\ Apart /\ Phases /\ Started
  BY DEF IInv, Partition
<1>3. /\ Top.due \in Seq(Timers) /\ Phase(Top)
      /\ InCallback' = Around /\ InCallback = Around \cup {Head(Top.due)}
      /\ Top.due # <<>> => Head(Top.due) \in ToSet(Top.due)
  BY <1>1, <1>2, TopFacts, AroundFacts, PopStarts
<1>4. Head(Top.due) \in ToSet(Top.due) /\ \A u : Contains(Top.due, u) <=> u \in ToSet(Top.due)
  BY <1>1, <1>3, ListType DEF Phase
<1>5. \A u \in Timers : timer[u] \in Timer
  BY <1>2 DEF TypeOK
<1>6. /\ \A u \in Timers : u \in ToSet(Top.due) => timer'[u].state = "lost"
      /\ \A u \in Timers : u \notin ToSet(Top.due) => timer'[u] = timer[u]
  BY <1>1, <1>4, <1>5 DEF Timer
<1>7. \A u \in Held' : u \in Held /\ u \in Timers /\ u \notin ToSet(Top.due)
  BY <1>6 DEF Held
<1>8. \A u : u \notin ToSet(Top.due) => (u \in InCallback' <=> u \in InCallback)
  BY <1>3, <1>4
<1> QED BY <1>2, <1>6, <1>7, <1>8, KeepsStarted

(* A tick takes up what is due as the work of the innermost call. *)
LEMMA TickCall ==
    ASSUME Partition, Tick
    PROVE  \E k \in Call : k.pc = "fire" /\ SetTop(k)
<1> DEFINE n == now + 1  s == n % Slots  b == buckets[s]
           Due == {t \in Timers : timer[t].deadline <= n}
           k == [Top EXCEPT !.pc = "fire", !.slot = s, !.due = Only(b, Due)]
<1>1. Running /\ SetTop(k) /\ now' = n
  BY DEF Tick
<1>2. TypeOK /\ Apart /\ Phases
  BY DEF Partition
<1>3. Top \in Call
  BY <1>1, <1>2, TopFacts
<1>4. now \in Int /\ n \in Int /\ Slots \in Nat \ {0}
  BY <1>2, SlotsType, Types
<1>5. s \in 0..(Slots - 1)
  BY <1>4, ModType
<1>6. b \in Seq(Timers) /\ IsInjective(b)
  BY <1>2, <1>5 DEF TypeOK, Apart
<1> HIDE DEF b, Due, s
<1>7. Only(b, Due) \in Seq(Timers)
  BY <1>6, OnlyFacts
<1>8. k \in Call /\ k.pc = "fire"
  BY <1>3, <1>5, <1>7 DEF Call
<1> QED BY <1>1, <1>8

(* Whatever callbacks do to the wheel that runs them, its lists partition  *)
(* the timers that are still to fire, of which those whose callbacks are   *)
(* in progress have run them once.                                         *)
THEOREM Invariance == Spec => []IInv
<1>1. Init => IInv
  <2> SUFFICES ASSUME Init PROVE IInv
    OBVIOUS
  <2>1. Held = {}
    BY DEF Init, Held, Free
  <2> QED BY <2>1, InitPartition DEF IInv, Started
<1>2. ASSUME IInv, [Next]_vars
      PROVE  Partition'
  BY <1>2, SchedulePartition, CancelPartition, AdvancePartition,
     AdvanceReturnsPartition, TickPartition, FirePartition, LeavePartition,
     EndTickPartition, RaisePartition, StutterPartition
  DEF Next, Proceed, IInv
<1>3. ASSUME IInv, [Next]_vars
      PROVE  Started'
  <2>1. TypeOK /\ Apart /\ Phases
    BY <1>3 DEF IInv, Partition
  <2>2. ASSUME Running, Top.pc # "callback", NEW k \in Call, k.pc # "callback",
               SetTop(k), timer' = timer
        PROVE  Started'
    <3>1. InCallback' = InCallback
      BY <2>1, <2>2, AroundFacts, TopStarts
    <3> QED BY <1>3, <2>2, <3>1, StaysStarted
  <2>3. CASE \E t \in Timers, d \in 0..MaxDelay : Schedule(t, d)
    BY <1>3, <2>3, ScheduleStarted
  <2>4. CASE \E t \in Timers : Cancel(t)
    BY <1>3, <2>4, CancelStarted
  <2>5. ASSUME NEW to \in 0..MaxNow, Advance(to) PROVE Started'
    <3> DEFINE k == [pc |-> "loop", to |-> to, slot |-> 0, due |-> <<>>]
    <3>1. k \in Call /\ k.pc = "loop" /\ calls' = Append(calls, k) /\ timer' = timer
      BY <2>5, SlotsType DEF Call, Advance
    <3> HIDE DEF k
    <3>2. InCallback' = InCallback
      BY <2>1, <3>1, PushStarts
    <3> QED BY <1>3, <3>1, <3>2, StaysStarted
  <2>6. CASE AdvanceReturns
    <3>1. Running /\ Top.pc = "loop" /\ Pop /\ timer' = timer
      BY <2>6 DEF AdvanceReturns
    <3>2. InCallback' = InCallback
      BY <2>1, <3>1, AroundFacts, PopStarts
    <3> QED BY <1>3, <3>1, <3>2, StaysStarted
  <2>7. CASE Tick
    <3>1. /\ Running /\ Top.pc = "loop" /\ timer' = timer
          /\ \E k \in Call : k.pc = "fire" /\ SetTop(k)
      BY <1>3, <2>7, TickCall DEF Tick, IInv
    <3> QED BY <2>2, <3>1
  <2>8. CASE Fire
    BY <1>3, <2>8, FireStarted
  <2>9. CASE Leave
    BY <1>3, <2>9, LeaveStarted
  <2>10. CASE EndTick
    <3> DEFINE k == [Top EXCEPT !.pc = "loop"]
    <3>1. Running /\ Top.pc = "fire" /\ SetTop(k) /\ timer' = timer
      BY <2>10 DEF EndTick
    <3>2. Top \in Call
      BY <2>1, <3>1, TopFacts
    <3>3. k \in Call /\ k.pc = "loop"
      BY <3>2 DEF Call
    <3> HIDE DEF k
    <3> QED BY <2>2, <3>1, <3>3
  <2>11. CASE Raise
    BY <1>3, <2>11, RaiseStarted
  <2>12. CASE UNCHANGED vars
    BY <1>3, <2>12, StaysStarted DEF vars, InCallback
  <2> QED
    BY <1>3, <2>3, <2>4, <2>5, <2>6, <2>7, <2>8, <2>9, <2>10, <2>11, <2>12
    DEF Next, Proceed
<1>4. IInv /\ [Next]_vars => IInv'
  BY <1>2, <1>3 DEF IInv
<1> QED BY <1>1, <1>4, PTL DEF Spec

(* The variables of the wheel keep their types: size does not go below 0   *)
(* (size -= 1 in calls of _tick that run inside one another).              *)
THEOREM TypeCorrectness == Spec => []TypeOK
<1>1. Partition => TypeOK BY DEF Partition
<1> QED BY <1>1, Invariance, PTL DEF IInv

(* size is the number of timers held or lost to a raise (schedule, _tick). *)
THEOREM SizeIsAccounted == Spec => []SizeAccounted
<1>1. Partition => SizeAccounted BY DEF Partition
<1> QED BY <1>1, Invariance, PTL DEF IInv

(* Without nested calls and raises, a timer fires exactly when its         *)
(* scheduling said, also one that a callback scheduled into the bucket or  *)
(* the overflow list that _tick is working on (_place, _tick).             *)
THEOREM TimersArePunctual == Spec => []Punctual
<1>1. ASSUME Partition, ~ nested, raises = 0, Running, Top.pc = "callback"
      PROVE  now = FiringTime(Head(Top.due))
  <2>1. TypeOK /\ Apart /\ Phases /\ Timely
    BY <1>1 DEF Partition
  <2>2. /\ Top.due \in Seq(Timers) /\ IsInjective(Top.due) /\ Phase(Top)
        /\ InCalls = Below \cup ToSet(Top.due)
    BY <1>1, <2>1, TopFacts
  <2>3. Head(Top.due) \in ToSet(Top.due)
    BY <1>1, <2>2, ListTail DEF Phase
  <2> QED BY <1>1, <2>1, <2>2, <2>3 DEF Timely
<1>2. ASSUME Partition, ~ nested, raises = 0, ~ Running, NEW t \in Held
      PROVE  now < FiringTime(t)
  <2>1. TypeOK /\ Apart /\ Timely
    BY <1>2 DEF Partition
  <2>2. InCalls = {}
    BY <1>2 DEF Running, InCalls, Dues
  <2>3. PICK d \in Int : d = timer[t].deadline
    BY <2>1, Types
  <2>4. PICK r \in Int : r = NextVisit(Slots, Slots - 1, now) /\ r > now
    <3>1. now \in Int /\ Slots \in Nat \ {0} /\ Slots - 1 \in 0..(Slots - 1)
      BY <2>1, Types, SlotsType
    <3>2. NextVisit(Slots, Slots - 1, now) \in (now + 1)..(now + Slots)
      BY <3>1, NextVisitType
    <3> QED BY <3>1, <3>2
  <2>5. now \in Int /\ FiringTime(t) \in Int
    BY <2>1, Types
  <2>6. FiringTime(t) = BucketTime(Slots, d, now) \/ FiringTime(t) = OverflowTime(Slots, d, r)
    BY <1>2, <2>1, <2>2, <2>3, <2>4 DEF Apart, Timely, NextRehoming
  <2>7. BucketTime(Slots, d, now) > now /\ OverflowTime(Slots, d, r) > r
    BY <2>5, SlotsType, InTheFuture
  <2> QED BY <2>4, <2>5, <2>6, <2>7
<1>3. Partition => Punctual
  BY <1>1, <1>2 DEF Punctual
<1> QED BY <1>3, Invariance, PTL DEF IInv

(* A timer leaves the wheel having run its callback once, or never if it   *)
(* was cancelled before, or if the callback of another timer raised (the   *)
(* check of cancelled in _tick, whatever nested calls have cancelled by    *)
(* then).                                                                  *)
THEOREM CallbacksRunOnce == Spec => RunsOnceUnlessCancelled
<1>1. ASSUME IInv, [Next]_vars, NEW t \in Timers,
             timer[t].state = "held", timer'[t].state # "held"
      PROVE  \/ timer[t].stopped /\ timer[t].runs = 0
             \/ ~ timer[t].stopped /\ timer[t].runs = 1
             \/ ~ timer[t].cancelled /\ timer[t].runs = 0 /\ timer'[t].state = "lost"
  <2>1. TypeOK /\ Apart /\ Phases /\ Started /\ t \in Held
    BY <1>1 DEF IInv, Partition, Held
  <2>2. timer \in [Timers -> Timer]
    BY <2>1 DEF TypeOK
  <2>3. /\ timer[t].runs = IF t \in InCallback THEN 1 ELSE 0
        /\ timer[t].stopped <=> timer[t].cancelled /\ timer[t].runs = 0
    BY <2>1 DEF Started
  <2>4. CASE Leave
    <3>1. /\ Running /\ Top.due # <<>>
          /\ Top.pc = "callback" \/ (Top.pc = "fire" /\ timer[Head(Top.due)].cancelled)
          /\ t = Head(Top.due)
      BY <1>1, <2>2, <2>4 DEF Leave
    <3>2. CASE Top.pc = "callback"
      <4>1. t \in InCallback
        BY <2>1, <3>1, <3>2, AroundFacts
      <4> QED BY <2>3, <4>1
    <3>3. CASE Top.pc = "fire" /\ timer[t].cancelled
      <4>1. timer[t].runs = 0
        BY <1>1, <3>1, <3>3, HeadStarted DEF IInv
      <4> QED BY <2>3, <3>3, <4>1
    <3> QED BY <3>1, <3>2, <3>3
  <2>5. CASE Raise
    <3>1. timer'[t].state = "lost"
      BY <1>1, <2>2, <2>5 DEF Raise, Timer
    <3> QED BY <2>3, <3>1
  <2>6. ASSUME NEW u \in Timers, NEW d \in 0..MaxDelay, Schedule(u, d) PROVE FALSE
    BY <1>1, <2>2, <2>6 DEF Schedule, Free
  <2>7. ASSUME NEW u \in Timers, Cancel(u) PROVE FALSE
    BY <1>1, <2>2, <2>7 DEF Cancel, Timer
  <2>8. CASE Fire
    BY <1>1, <2>2, <2>8 DEF Fire, Timer
  <2>9. CASE UNCHANGED timer
    BY <1>1, <2>9
  <2> QED
    BY <1>1, <2>4, <2>5, <2>6, <2>7, <2>8, <2>9
    DEF Next, Proceed, Advance, AdvanceReturns, Tick, EndTick, vars
<1>2. IInv /\ [Next]_vars =>
         [\A t \in Timers :
            timer[t].state = "held" /\ timer'[t].state # "held" =>
                \/ timer[t].stopped /\ timer[t].runs = 0
                \/ ~ timer[t].stopped /\ timer[t].runs = 1
                \/ ~ timer[t].cancelled /\ timer[t].runs = 0 /\ timer'[t].state = "lost"]_vars
  BY <1>1
<1> QED BY <1>2, Invariance, PTL DEF Spec, RunsOnceUnlessCancelled

-----------------------------------------------------------------------------
(* One place *)

LEMMA ListsAre ==
    ASSUME NEW l
    PROVE  l \in Lists <=> \/ \E s \in 0..(Slots - 1) : l = [wheel |-> "bucket", slot |-> s]
                           \/ l = [wheel |-> "overflow"]
                           \/ \E i \in DOMAIN calls : l = [wheel |-> "due", call |-> i]
  BY DEF Lists

LEMMA ListIs ==
    /\ \A s \in 0..(Slots - 1) : List([wheel |-> "bucket", slot |-> s]) = buckets[s]
    /\ List([wheel |-> "overflow"]) = overflow
    /\ \A i \in DOMAIN calls : List([wheel |-> "due", call |-> i]) = calls[i].due
  BY DEF List

(* No timer is on two lists, or on one list twice. *)
LEMMA ListsApart ==
    ASSUME Partition
    PROVE  /\ \A l \in Lists : IsInjective(List(l))
           /\ \A l, m \in Lists : l # m => ToSet(List(l)) \cap ToSet(List(m)) = {}
           /\ \A t : t \in Held <=> \E l \in Lists : t \in ToSet(List(l))
<1>1. TypeOK /\ Apart /\ InBuckets /\ Stacked(calls)
  BY DEF Partition, Apart
<1>2. \A l \in Lists : IsInjective(List(l))
  BY <1>1, ListsAre, ListIs DEF Apart, Stacked
<1>3. DOMAIN calls = 1..Len(calls) /\ Len(calls) \in Nat
  BY <1>1, CallsLen DEF TypeOK
<1>4. \A t : t \in InCalls <=> \E i \in DOMAIN calls : t \in ToSet(calls[i].due)
  BY <1>3 DEF InCalls, Dues
<1>5. ASSUME NEW t,
             NEW s \in 0..(Slots - 1), t \in ToSet(buckets[s]),
             NEW q \in 0..(Slots - 1), t \in ToSet(buckets[q])
      PROVE  s = q
  BY <1>1, <1>5 DEF InBuckets
<1>6. ASSUME NEW t,
             NEW i \in DOMAIN calls, t \in ToSet(calls[i].due),
             NEW j \in DOMAIN calls, t \in ToSet(calls[j].due)
      PROVE  i = j
  <2>1. \A a, b \in 1..Len(calls) :
           a < b => ToSet(calls[b].due) \cap ToSet(calls[a].due) = {}
    <3> SUFFICES ASSUME NEW a \in 1..Len(calls), NEW b \in 1..Len(calls), a < b
                 PROVE  ToSet(calls[b].due) \cap ToSet(calls[a].due) = {}
      OBVIOUS
    <3>1. a \in 1..(b - 1)
      BY <1>3
    <3>2. ToSet(calls[a].due) \subseteq Dues(calls, b - 1)
      BY <3>1 DEF Dues
    <3> QED BY <1>1, <1>3, <3>2 DEF Stacked
  <2>2. i \in Int /\ j \in Int
    BY <1>3
  <2>3. ~ i < j /\ ~ j < i
    BY <1>3, <1>6, <2>1
  <2> QED BY <2>2, <2>3
<1>7. ASSUME NEW t
      PROVE  (\E l \in Lists : t \in ToSet(List(l)))
                 <=> t \in OnWheel \/ t \in ToSet(overflow) \/ t \in InCalls
  <2>1. (\E l \in Lists : t \in ToSet(List(l)))
            <=> \/ \E s \in 0..(Slots - 1) : t \in ToSet(buckets[s])
                \/ t \in ToSet(overflow)
                \/ \E i \in DOMAIN calls : t \in ToSet(calls[i].due)
    <3>1. ASSUME NEW l \in Lists, t \in ToSet(List(l))
          PROVE  \/ \E s \in 0..(Slots - 1) : t \in ToSet(buckets[s])
                 \/ t \in ToSet(overflow)
                 \/ \E i \in DOMAIN calls : t \in ToSet(calls[i].due)
      BY <3>1, ListsAre, ListIs
    <3>2. /\ [wheel |-> "overflow"] \in Lists
          /\ \A s \in 0..(Slots - 1) : [wheel |-> "bucket", slot |-> s] \in Lists
          /\ \A i \in DOMAIN calls : [wheel |-> "due", call |-> i] \in Lists
      BY ListsAre
    <3> QED BY <3>1, <3>2, ListIs
  <2> QED BY <1>4, <2>1, OnWheelDef
<1>8. ASSUME NEW l \in Lists, NEW m \in Lists, NEW t,
             t \in ToSet(List(l)), t \in ToSet(List(m))
      PROVE  l = m
  <2>1. CASE t \in OnWheel
    <3>1. t \notin ToSet(overflow) /\ t \notin InCalls
      BY <1>1, <2>1 DEF Apart
    <3>2. PICK s \in 0..(Slots - 1) :
              l = [wheel |-> "bucket", slot |-> s] /\ t \in ToSet(buckets[s])
      BY <1>4, <1>8, <3>1, ListsAre, ListIs
    <3>3. PICK q \in 0..(Slots - 1) :
              m = [wheel |-> "bucket", slot |-> q] /\ t \in ToSet(buckets[q])
      BY <1>4, <1>8, <3>1, ListsAre, ListIs
    <3> QED BY <1>5, <3>2, <3>3
  <2>2. CASE t \in InCalls
    <3>1. t \notin ToSet(overflow) /\ t \notin OnWheel
      BY <1>1, <2>2 DEF Apart
    <3>2. PICK i \in DOMAIN calls :
              l = [wheel |-> "due", call |-> i] /\ t \in ToSet(calls[i].due)
      BY <1>8, <3>1, ListsAre, ListIs, OnWheelDef
    <3>3. PICK j \in DOMAIN calls :
              m = [wheel |-> "due", call |-> j] /\ t \in ToSet(calls[j].due)
      BY <1>8, <3>1, ListsAre, ListIs, OnWheelDef
    <3> QED BY <1>6, <3>2, <3>3
  <2>3. CASE t \notin OnWheel /\ t \notin InCalls
    BY <1>4, <1>8, <2>3, ListsAre, ListIs, OnWheelDef
  <2> QED BY <2>1, <2>2, <2>3
<1>9. \A t : t \in Held <=> \E l \in Lists : t \in ToSet(List(l))
  BY <1>1, <1>7 DEF Apart
<1> QED BY <1>2, <1>8, <1>9

(* However calls of advance nest and unwind, a timer that is still to fire *)
(* is in exactly one place, and no other one is anywhere (_tick, _place).  *)
THEOREM TimersAreInOnePlace == Spec => []OnePlace
<1>1. ASSUME Partition, NEW t \in Timers
      PROVE  Cardinality(Places(t)) = IF timer[t].state = "held" THEN 1 ELSE 0
  <2>1. \A p : p \in Places(t) <=> \E l \in Lists : \E i \in DOMAIN List(l) :
                                      List(l)[i] = t /\ p = <<l, i>>
    BY DEF Places
  <2>2. \A l \in Lists : t \in ToSet(List(l)) <=> \E i \in DOMAIN List(l) : List(l)[i] = t
    BY DEF ToSet
  <2>3. CASE timer[t].state = "held"
    <3>1. PICK l \in Lists : t \in ToSet(List(l))
      BY <1>1, <2>3, ListsApart DEF Held
    <3>2. PICK i \in DOMAIN List(l) : List(l)[i] = t
      BY <2>2, <3>1
    <3>3. ASSUME NEW m \in Lists, NEW j \in DOMAIN List(m), List(m)[j] = t
          PROVE  m = l /\ j = i
      <4>1. t \in ToSet(List(m))
        BY <2>2, <3>3
      <4>2. m = l
        BY <1>1, <3>1, <4>1, ListsApart
      <4>3. IsInjective(List(l))
        BY <1>1, ListsApart
      <4> QED BY <3>2, <3>3, <4>2, <4>3 DEF IsInjective
    <3>4. Places(t) = {<<l, i>>}
      BY <2>1, <3>2, <3>3
    <3> QED BY <2>3, <3>4, FS_Singleton
  <2>4. CASE timer[t].state # "held"
    <3>1. \A l \in Lists : t \notin ToSet(List(l))
      BY <1>1, <2>4, ListsApart DEF Held
    <3>2. Places(t) = {}
      BY <2>1, <2>2, <3>1
    <3> QED BY <2>4, <3>2, FS_EmptySet
  <2> QED BY <2>3, <2>4
<1>2. Partition => OnePlace
  BY <1>1 DEF OnePlace
<1> QED BY <1>2, Invariance, PTL DEF IInv

=============================================================================
