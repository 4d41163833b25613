--------------------------- MODULE FractionalWheel ---------------------------
(***************************************************************************)
(* The timing wheel of ts/src/timing_wheel.ts, where a delay is any number *)
(* that is not negative, a fraction too.  A bucket is found by its index   *)
(* in an array, and for a fraction there is none: pushing onto it throws,  *)
(* out of schedule or, if the timer waited in the overflow list, out of    *)
(* the re-homing loop of tick and so out of advance, which the caller may  *)
(* call again.                                                             *)
(*                                                                         *)
(* The clock is in ticks and always whole; delays and deadlines are in     *)
(* half ticks.  Callbacks do not use the wheel, and cancellation, which    *)
(* keeps a callback from running but no timer from being counted out, is   *)
(* left out: ReentrantWheel has both.  delay and visits are history         *)
(* variables.                                                              *)
(*                                                                         *)
(* The operators under "Fault" are deliberate mistakes, used by nothing.   *)
(***************************************************************************)
EXTENDS WheelBasics, FiniteSets, SequencesExt

CONSTANTS
    Slots,      \* this.slots
    MaxTimers,  \* bound on the timers scheduled
    MaxDelay,   \* bound on the delay of a timer, in half ticks
    MaxNow      \* bound on virtual time

ASSUME WheelAssumption == /\ Slots \in Nat \ {0}
                          /\ {MaxTimers, MaxDelay, MaxNow} \subseteq Nat

Timers == 1..MaxTimers

VARIABLES
    now,        \* this._now
    buckets,    \* this.buckets
    overflow,   \* this.overflow
    size,       \* this._size
    deadline,   \* Timer.deadline of the timers scheduled so far, in order
    pc,         \* where advance is
    to,         \* its argument
    delay,      \* their delays
    visits      \* the instants at which each timer was counted out

vars == <<now, buckets, overflow, size, deadline, pc, to, delay, visits>>

Scheduled == DOMAIN deadline

Init ==
    /\ now = 0
    /\ buckets = [s \in 0..(Slots - 1) |-> <<>>]
    /\ overflow = <<>>
    /\ size = 0
    /\ deadline = <<>>
    /\ delay = <<>>
    /\ pc = "idle"
    /\ to = 0
    /\ visits = [t \in Timers |-> <<>>]

-----------------------------------------------------------------------------
(* schedule *)

Whole(d) == d % 2 = 0
Near(d) == d - 2 * now < 2 * Slots

(* The bucket of a deadline; undefined unless it is whole. *)
Bucket(d) == (d \div 2) % Slots

Registers(d) == /\ deadline' = Append(deadline, 2 * now + d)
                /\ delay' = Append(delay, d)
                /\ size' = size + 1

(* place, of a timer that is near ... *)
ScheduleNear(d) ==
    /\ pc = "idle"
    /\ Len(deadline) < MaxTimers
    /\ Near(2 * now + d) /\ Whole(2 * now + d)
    /\ buckets' = [buckets EXCEPT ![Bucket(2 * now + d)] = Append(@, Len(deadline) + 1)]
    /\ Registers(d)
    /\ UNCHANGED <<now, overflow, pc, to, visits>>

(* ... or far ... *)
ScheduleFar(d) ==
    /\ pc = "idle"
    /\ Len(deadline) < MaxTimers
    /\ ~ Near(2 * now + d)
    /\ overflow' = Append(overflow, Len(deadline) + 1)
    /\ Registers(d)
    /\ UNCHANGED <<now, buckets, pc, to, visits>>

(* Fault: the timer is counted before it is placed. *)
ScheduleThrowsCounted(d) ==
    /\ pc = "idle" /\ Near(2 * now + d) /\ ~ Whole(2 * now + d)
    /\ size' = size + 1
    /\ UNCHANGED <<now, buckets, overflow, deadline, delay, pc, to, visits>>

(* ... or neither: place throws, before anything is changed. *)
ScheduleThrows(d) ==
    /\ pc = "idle"
    /\ Near(2 * now + d) /\ ~ Whole(2 * now + d)
    /\ UNCHANGED vars

-----------------------------------------------------------------------------
(* advance *)

Advance(n) ==
    /\ pc = "idle"
    /\ pc' = "loop"
    /\ to' = n
    /\ UNCHANGED <<now, buckets, overflow, size, deadline, delay, visits>>

AdvanceReturns ==
    /\ pc = "loop"
    /\ ~ now < to
    /\ pc' = "idle"
    /\ to' = 0
    /\ UNCHANGED <<now, buckets, overflow, size, deadline, delay, visits>>

(* Fault: the bucket is iterated without being emptied. *)
KeepAll(list, n) == list

(* The timers of a bucket that are due at n, and those that are kept. *)
DueBy(list, n) == Only(list, {t \in Scheduled : deadline[t] <= 2 * n})
Keep(list, n) == Only(list, {t \in Scheduled : deadline[t] > 2 * n})

(* The clock moves, and tick counts out the timers that are due, running   *)
(* their callbacks.                                                        *)
Tick ==
    /\ pc = "loop"
    /\ now < to
    /\ now' = now + 1
    /\ LET slot == now' % Slots
           due == DueBy(buckets[slot], now')
       IN  /\ buckets' = [buckets EXCEPT ![slot] = Keep(@, now')]
           /\ size' = size - Len(due)
           /\ visits' = [t \in Timers |-> IF Contains(due, t) THEN Append(visits[t], now')
                                                              ELSE visits[t]]
    /\ pc' = "fired"
    /\ UNCHANGED <<overflow, deadline, delay, to>>

(* The timers of the overflow list for which there is no bucket. *)
Stumbles == {i \in DOMAIN overflow : Near(deadline[overflow[i]])
                                        /\ ~ Whole(deadline[overflow[i]])}
FirstStumble == CHOOSE i \in Stumbles : \A j \in Stumbles : i <= j

(* The buckets when the near timers of a list have been pushed. *)
Rehomed(list) ==
    [s \in 0..(Slots - 1) |-> buckets[s] \o
        Only(list, {t \in Scheduled : Near(deadline[t]) /\ Bucket(deadline[t]) = s})]

(* Fault: the revolution is taken to end at its first slot. *)
RevolutionStarts == now % Slots = 0

RevolutionEnds == now % Slots = Slots - 1

(* The loop over the overflow list ends, and the list becomes `still' ... *)
EndTick ==
    /\ pc = "fired"
    /\ \/ /\ RevolutionEnds
          /\ Stumbles = {}
          /\ buckets' = Rehomed(overflow)
          /\ overflow' = Only(overflow, {t \in Scheduled : ~ Near(deadline[t])})
       \/ /\ ~ RevolutionEnds
          /\ UNCHANGED <<buckets, overflow>>
    /\ pc' = "loop"
    /\ UNCHANGED <<now, size, deadline, delay, to, visits>>

(* Fault: the timers that were re-homed are taken off the list at once.    *)
ThrowsTidily ==
    /\ pc = "fired"
    /\ RevolutionEnds
    /\ Stumbles # {}
    /\ LET done == SubSeq(overflow, 1, FirstStumble - 1)
       IN  /\ buckets' = Rehomed(done)
           /\ overflow' = Only(overflow, {t \in Scheduled :
                                ~ (Contains(done, t) /\ Near(deadline[t]))})
    /\ pc' = "idle"
    /\ to' = 0
    /\ UNCHANGED <<now, size, deadline, delay, visits>>

(* ... or it throws at a fraction that has come near, with the timers in   *)
(* front of it re-homed and the list as it was.                            *)
Throws ==
    /\ pc = "fired"
    /\ RevolutionEnds
    /\ Stumbles # {}
    /\ buckets' = Rehomed(SubSeq(overflow, 1, FirstStumble - 1))
    /\ pc' = "idle"
    /\ to' = 0
    /\ UNCHANGED <<now, overflow, size, deadline, delay, visits>>

Next ==
    \/ \E d \in 0..MaxDelay : ScheduleNear(d) \/ ScheduleFar(d) \/ ScheduleThrows(d)
    \/ \E n \in 0..MaxNow : Advance(n)
    \/ AdvanceReturns \/ Tick \/ EndTick \/ Throws

Spec == Init /\ [][Next]_vars

-----------------------------------------------------------------------------
(* Properties *)

TypeOK ==
    /\ now \in 0..MaxNow
    /\ buckets \in [0..(Slots - 1) -> Seq(Timers)]
    /\ overflow \in Seq(Timers)
    /\ size \in -(MaxTimers * MaxNow)..MaxTimers
    /\ deadline \in Seq(0..(2 * MaxNow + MaxDelay))
    /\ Len(deadline) <= MaxTimers
    /\ delay \in Seq(0..MaxDelay) /\ Len(delay) = Len(deadline)
    /\ pc \in {"idle", "loop", "fired"}
    /\ to \in 0..MaxNow
    /\ visits \in [Timers -> Seq(0..MaxNow)]

(* The revolution at whose end a timer's turn comes to be re-homed. *)
Revolution(t) == (deadline[t] + 2) \div (2 * Slots)

Fractional(t) == ~ Whole(deadline[t])
Far(t) == delay[t] >= 2 * Slots

(* A fraction before t in the overflow list comes near no later than t. *)
Blocked(t) == /\ Far(t)
              /\ \E u \in Scheduled : u < t /\ Fractional(u) /\ Revolution(u) <= Revolution(t)

(* One after t does. *)
Repeated(t) == /\ Far(t)
               /\ \E u \in Scheduled : u > t /\ Fractional(u) /\ Revolution(u) <= Revolution(t)

(* When a whole timer is counted out in the absence of fractions. *)
DueAt(t) ==
    LET late == delay[t] = 0 \/ (Far(t) /\ Bucket(deadline[t]) = Slots - 1)
    IN  deadline[t] \div 2 + IF late THEN Slots ELSE 0

(* A fraction harms no timer that is scheduled into a bucket, none before  *)
(* it in the overflow list and none whose turn comes before its own: they  *)
(* fire when they would have fired without it.  The others and the         *)
(* fractions themselves never fire (the loop of tick that throws).         *)
FirstVisits ==
    \A t \in Scheduled :
        IF Fractional(t) \/ Blocked(t) THEN visits[t] = <<>>
        ELSE /\ visits[t] # <<>> => Head(visits[t]) = DueAt(t)
             /\ pc = "idle" /\ DueAt(t) <= now => visits[t] # <<>>

(* Only timers of the overflow list with a fraction behind them fire more  *)
(* than once, and they do so at most once in every revolution, although    *)
(* they are in the list and in a bucket (overflow, which keeps its         *)
(* timers, against the buckets that the loop filled).                      *)
FurtherVisits ==
    \A t \in Scheduled :
        /\ Len(visits[t]) > 1 => Repeated(t)
        /\ \A i \in DOMAIN visits[t] : visits[t][i] = Head(visits[t]) + (i - 1) * Slots

-----------------------------------------------------------------------------
(* The inductive invariant *)

OnWheel == UNION {ToSet(buckets[s]) : s \in 0..(Slots - 1)}

(* The revolutions at whose end the overflow list was looked through.      *)
Rehomings == (IF pc = "fired" /\ RevolutionEnds THEN now ELSE now + 1) \div Slots

(* t waits for its turn to be re-homed.                                    *)
Waits(t) == Far(t) /\ Revolution(t) > Rehomings

(* The loop does not get beyond some fraction when it is t's turn.         *)
Stuck(t) == Far(t) /\ \E u \in Scheduled : Fractional(u) /\ Revolution(u) <= Revolution(t)

Fires(t) == ~ Fractional(t) /\ ~ Blocked(t)

(* The overflow list is in the order of scheduling and holds the timers    *)
(* whose turn is still to come and those that it came for in vain.         *)
InOverflow ==
    /\ \A i, j \in DOMAIN overflow : i < j => overflow[i] < overflow[j]
    /\ ToSet(overflow) = {t \in Scheduled : Waits(t) \/ Stuck(t)}

(* A bucket holds no timer twice, and only timers of its slot that are due *)
(* less than a revolution ahead and whose turn has come.                   *)
InBuckets ==
    \A s \in 0..(Slots - 1) :
        /\ IsInjective(buckets[s])
        /\ \A t \in ToSet(buckets[s]) :
              /\ t \in Scheduled
              /\ Fires(t) /\ ~ Waits(t)
              /\ Bucket(deadline[t]) = s
              /\ deadline[t] < 2 * (now + Slots)

(* The visits of a timer so far, one per revolution.                       *)
Visited ==
    \A t \in Timers :
        /\ visits[t] # <<>> => t \in Scheduled /\ Fires(t) /\ ~ Waits(t)
        /\ \A i \in DOMAIN visits[t] : /\ visits[t][i] = DueAt(t) + (i - 1) * Slots
                                       /\ visits[t][i] \in 1..now

(* Where a timer is tells its next visit and how many it has had: one for  *)
(* each re-homing from its turn on, until the loop no longer reaches it.   *)
Progress(t) ==
    LET n == Len(visits[t]) + IF t \in OnWheel THEN 1 ELSE 0
        Reached == \A u \in Scheduled :
                      u < t /\ Fractional(u) => Revolution(u) > Rehomings
    IN  /\ n > 0
        /\ t \in OnWheel =>
              BucketTime(Slots, deadline[t] \div 2, now) = DueAt(t) + Len(visits[t]) * Slots
        /\ ~ Stuck(t) => n = 1
        /\ Stuck(t) /\ Reached => n = Rehomings - Revolution(t) + 1

OnTheirWay == \A t \in Scheduled : Fires(t) /\ ~ Waits(t) => Progress(t)

(* schedule accepts a fraction only if it is a revolution ahead.           *)
FractionsAreFar == \A t \in Scheduled : Fractional(t) => Far(t)

(* size counts every timer once and takes it off at every visit.           *)
Counted == size = Len(deadline) - SumFunction([t \in Timers |-> Len(visits[t])])

(* Whatever a fraction does to the list it waits in, every timer is where  *)
(* its visits so far say, and all visits are counted.                      *)
IInv == /\ TypeOK
        /\ FractionsAreFar
        /\ InOverflow
        /\ InBuckets
        /\ Visited
        /\ OnTheirWay
        /\ Counted

-----------------------------------------------------------------------------
(* What the documentation says, and the code does not do *)

(* size is the "Number of live (scheduled, not yet fired) timers" (the     *)
(* timers re-homed before the loop threw are re-homed once more).          *)
SizeIsLive == size = Cardinality({t \in Scheduled : visits[t] = <<>>})

=============================================================================
