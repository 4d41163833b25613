----------------------------- MODULE TimingWheel -----------------------------
(***************************************************************************)
(* The hashed timing wheel of rust/src/timing_wheel.rs: Slots buckets of   *)
(* one tick each, and an overflow list that is brought back onto the wheel *)
(* once per revolution.                                                    *)
(*                                                                         *)
(* The wheel is driven by one caller.  advance runs callbacks, and a       *)
(* callback may cancel other timers through their handles or panic, so the *)
(* loops of tick are one action per timer.  Nothing can come between the   *)
(* iterations of the sifting and the re-homing loop: the lists `keep' and  *)
(* `still' that they build are built in place, in the bucket and in the    *)
(* overflow list they are assigned to when the loop ends.                  *)
(*                                                                         *)
(* Timers are numbered in the order they are scheduled.  delay, fate and   *)
(* before are history variables.  The operators under "Fault" are          *)
(* deliberate mistakes, each a variant of the definition after it; nothing *)
(* refers to them.                                                         *)
(***************************************************************************)
EXTENDS WheelBasics, FiniteSets, SequencesExt

CONSTANTS
    Slots,      \* slots_per_wheel * levels
    MaxTimers,  \* bound on the timers scheduled
    MaxDelay,   \* bound on the delay of a timer
    MaxNow,     \* bound on virtual time
    MaxPanics   \* bound on the callbacks that panic

ASSUME WheelAssumption == /\ Slots \in Nat \ {0}
                          /\ MaxTimers \in Nat
                          /\ MaxDelay \in Nat
                          /\ MaxNow \in Nat
                          /\ MaxPanics \in Nat

Timers == 1..MaxTimers

VARIABLES
    now,        \* virtual time
    buckets,    \* the buckets, lists of timers
    overflow,   \* timers too far ahead for the wheel
    size,       \* the number that size() reports
    count,      \* timers scheduled so far
    deadline,   \* Timer.deadline
    cancelled,  \* Timer.cancelled
    pc,         \* where advance is
    to,         \* its argument
    todo,       \* the timers that the running loop of tick has still to visit
    due,        \* the due timers found so far
    fired,      \* the number of callbacks it ran
    before,     \* the timers that had fired when it was called
    delay,      \* the delay each timer was scheduled with
    fate,       \* what became of each timer
    panics      \* callbacks that panicked

local == <<pc, to, todo, due, fired, before>>
vars == <<now, buckets, overflow, size, count, deadline, cancelled, local,
          delay, fate, panics>>

(* "tick": at the head of advance's loop; "sift", "fire", "rehome": in the *)
(* loops of tick; "callback": in the callback of Head(todo).               *)
PC == {"idle", "tick", "sift", "fire", "callback", "rehome"}

Fates == {"none", "held", "fired", "dropped", "panicked", "lost"}

With(f) == {t \in Timers : fate[t] = f}

Init ==
    /\ now = 0
    /\ buckets = [s \in 0..(Slots - 1) |-> <<>>]
    /\ overflow = <<>>
    /\ size = 0
    /\ count = 0
    /\ deadline = [t \in Timers |-> 0]
    /\ cancelled = [t \in Timers |-> FALSE]
    /\ pc = "idle"
    /\ to = 0
    /\ todo = <<>>
    /\ due = <<>>
    /\ fired = 0
    /\ before = {}
    /\ delay = [t \in Timers |-> 0]
    /\ fate = [t \in Timers |-> "none"]
    /\ panics = 0

-----------------------------------------------------------------------------
(* Scheduling and cancelling *)

(* Faults: the wheel is taken to span two revolutions; a bucket is chosen  *)
(* by the distance and not by the deadline.                                *)
InRangeOfTwo(d) == d - now < 2 * Slots
HomeByDistance(d) == (d - now) % Slots

InRange(d) == d - now < Slots

(* The bucket of a deadline. *)
Home(d) == d % Slots

(* Put a timer that is due at d into its bucket or at the end of `far'. *)
Place(t, d, far) ==
    \/ /\ InRange(d)
       /\ buckets' = [buckets EXCEPT ![Home(d)] = Append(@, t)]
       /\ overflow' = far
    \/ /\ ~ InRange(d)
       /\ buckets' = buckets
       /\ overflow' = Append(far, t)

Schedule(d) ==
    /\ pc = "idle"
    /\ count < MaxTimers
    /\ count' = count + 1
    /\ deadline' = [deadline EXCEPT ![count + 1] = now + d]
    /\ Place(count + 1, now + d, overflow)
    /\ size' = size + 1
    /\ delay' = [delay EXCEPT ![count + 1] = d]
    /\ fate' = [fate EXCEPT ![count + 1] = "held"]
    /\ UNCHANGED <<now, cancelled, local, panics>>

(* Fault: a timer is counted out when it is cancelled, and again when due. *)
CancelCounted(t) ==
    /\ pc = "idle" \/ (pc = "callback" /\ t # Head(todo))
    /\ fate[t] = "held" /\ ~ cancelled[t]
    /\ cancelled' = [cancelled EXCEPT ![t] = TRUE]
    /\ size' = size - 1
    /\ UNCHANGED <<now, buckets, overflow, count, deadline, local, delay, fate,
                   panics>>

(* The holder of a handle cancels a timer, between calls or in a callback. *)
(* A callback cannot cancel its own timer, which is mutably borrowed.      *)
Cancel(t) ==
    /\ \/ pc = "idle"
       \/ pc = "callback" /\ t # Head(todo)
    /\ fate[t] = "held"
    /\ ~ cancelled[t]
    /\ cancelled' = [cancelled EXCEPT ![t] = TRUE]
    /\ UNCHANGED <<now, buckets, overflow, size, count, deadline, local,
                   delay, fate, panics>>

-----------------------------------------------------------------------------
(* advance *)

Slot == now % Slots

Advance(n) ==
    /\ pc = "idle"
    /\ to' = n
    /\ fired' = 0
    /\ before' = With("fired")
    /\ pc' = "tick"
    /\ UNCHANGED <<now, buckets, overflow, size, count, deadline, cancelled,
                   todo, due, delay, fate, panics>>

AdvanceReturns ==
    /\ pc = "tick"
    /\ ~ now < to
    /\ pc' = "idle"
    /\ to' = 0
    /\ fired' = 0
    /\ before' = {}
    /\ UNCHANGED <<now, buckets, overflow, size, count, deadline, cancelled,
                   todo, due, delay, fate, panics>>

(* Fault: the bucket is iterated without being emptied. *)
CopyBucket(s) == buckets

(* The buckets after mem::take of one of them. *)
TakeBucket(s) == [buckets EXCEPT ![s] = <<>>]

(* The clock moves and tick takes the bucket of the new time. *)
Tick ==
    /\ pc = "tick"
    /\ now < to
    /\ now' = now + 1
    /\ todo' = buckets[now' % Slots]
    /\ buckets' = TakeBucket(now' % Slots)
    /\ pc' = "sift"
    /\ UNCHANGED <<overflow, size, count, deadline, cancelled, to, due, fired,
                   before, delay, fate, panics>>

(* A timer of the bucket is due or kept. *)
Sift ==
    /\ pc = "sift"
    /\ todo # <<>>
    /\ todo' = Tail(todo)
    /\ LET t == Head(todo)
       IN  \/ /\ deadline[t] <= now
              /\ due' = Append(due, t)
              /\ buckets' = buckets
           \/ /\ deadline[t] > now
              /\ buckets' = [buckets EXCEPT ![Slot] = Append(@, t)]
              /\ due' = due
    /\ UNCHANGED <<now, overflow, size, count, deadline, cancelled, pc, to,
                   fired, before, delay, fate, panics>>

Sifted ==
    /\ pc = "sift"
    /\ todo = <<>>
    /\ todo' = due
    /\ due' = <<>>
    /\ pc' = "fire"
    /\ UNCHANGED <<now, buckets, overflow, size, count, deadline, cancelled,
                   to, fired, before, delay, fate, panics>>

(* Faults: a cancelled timer is not counted out; it is counted as fired;   *)
(* cancellation is not looked at when a timer fires.                       *)
DropUncounted ==
    /\ pc = "fire" /\ todo # <<>> /\ cancelled[Head(todo)]
    /\ todo' = Tail(todo)
    /\ fate' = [fate EXCEPT ![Head(todo)] = "dropped"]
    /\ UNCHANGED <<now, buckets, overflow, size, count, deadline, cancelled, pc,
                   to, due, fired, before, delay, panics>>
DropFired ==
    /\ pc = "fire" /\ todo # <<>> /\ cancelled[Head(todo)]
    /\ fired' = fired + 1
    /\ size' = size - 1
    /\ todo' = Tail(todo)
    /\ fate' = [fate EXCEPT ![Head(todo)] = "dropped"]
    /\ UNCHANGED <<now, buckets, overflow, count, deadline, cancelled, pc, to,
                   due, before, delay, panics>>
FireUnchecked ==
    /\ pc = "fire" /\ todo # <<>>
    /\ pc' = "callback"
    /\ UNCHANGED <<now, buckets, overflow, size, count, deadline, cancelled,
                   to, todo, due, fired, before, delay, fate, panics>>

(* A due timer is dropped if it is cancelled by now ... *)
Drop ==
    /\ pc = "fire"
    /\ todo # <<>>
    /\ cancelled[Head(todo)]
    /\ size' = size - 1
    /\ todo' = Tail(todo)
    /\ fate' = [fate EXCEPT ![Head(todo)] = "dropped"]
    /\ UNCHANGED <<now, buckets, overflow, count, deadline, cancelled, pc, to,
                   due, fired, before, delay, panics>>

(* ... else its callback is called ... *)
Fire ==
    /\ pc = "fire"
    /\ todo # <<>>
    /\ ~ cancelled[Head(todo)]
    /\ pc' = "callback"
    /\ UNCHANGED <<now, buckets, overflow, size, count, deadline, cancelled,
                   to, todo, due, fired, before, delay, fate, panics>>

(* ... and returns ... *)
CallbackReturns ==
    /\ pc = "callback"
    /\ fired' = fired + 1
    /\ size' = size - 1
    /\ todo' = Tail(todo)
    /\ pc' = "fire"
    /\ fate' = [fate EXCEPT ![Head(todo)] = "fired"]
    /\ UNCHANGED <<now, buckets, overflow, count, deadline, cancelled, to, due,
                   before, delay, panics>>

(* ... or unwinds advance, and with it the list of due timers. *)
CallbackPanics ==
    /\ pc = "callback"
    /\ panics < MaxPanics
    /\ panics' = panics + 1
    /\ pc' = "idle"
    /\ to' = 0
    /\ todo' = <<>>
    /\ fired' = 0
    /\ before' = {}
    /\ fate' = [t \in Timers |-> IF t = Head(todo) THEN "panicked"
                                 ELSE IF Contains(todo, t) THEN "lost"
                                 ELSE fate[t]]
    /\ UNCHANGED <<now, buckets, overflow, size, count, deadline, cancelled,
                   due, delay>>

(* Faults: the revolution is taken to end at its first slot; or never. *)
RevolutionStarts == Slot = 0
RevolutionNeverEnds == Slot = Slots

RevolutionEnds == Slot = Slots - 1

(* At the end of a revolution the overflow list is taken ... *)
Fired ==
    /\ pc = "fire"
    /\ todo = <<>>
    /\ \/ /\ RevolutionEnds
          /\ overflow # <<>>
          /\ todo' = overflow
          /\ overflow' = <<>>
          /\ pc' = "rehome"
       \/ /\ ~ RevolutionEnds \/ overflow = <<>>
          /\ pc' = "tick"
          /\ UNCHANGED <<todo, overflow>>
    /\ UNCHANGED <<now, buckets, size, count, deadline, cancelled, to, due,
                   fired, before, delay, fate, panics>>

(* Fault: the timers are popped off the end of the list. *)
RehomeByPop ==
    /\ pc = "rehome" /\ todo # <<>>
    /\ Place(Last(todo), deadline[Last(todo)], overflow)
    /\ todo' = Front(todo)
    /\ UNCHANGED <<now, size, count, deadline, cancelled, pc, to, due, fired,
                   before, delay, fate, panics>>

(* ... and each of its timers placed anew. *)
Rehome ==
    /\ pc = "rehome"
    /\ todo # <<>>
    /\ Place(Head(todo), deadline[Head(todo)], overflow)
    /\ todo' = Tail(todo)
    /\ UNCHANGED <<now, size, count, deadline, cancelled, pc, to, due, fired,
                   before, delay, fate, panics>>

Rehomed ==
    /\ pc = "rehome"
    /\ todo = <<>>
    /\ pc' = "tick"
    /\ UNCHANGED <<now, buckets, overflow, size, count, deadline, cancelled,
                   to, todo, due, fired, before, delay, fate, panics>>

Running == \/ Tick \/ Sift \/ Sifted \/ Drop \/ Fire \/ CallbackReturns
           \/ Fired \/ Rehome \/ Rehomed \/ AdvanceReturns

Next ==
    \/ \E d \in 0..MaxDelay : Schedule(d)
    \/ \E t \in Timers : Cancel(t)
    \/ \E n \in 0..MaxNow : Advance(n)
    \/ Running
    \/ CallbackPanics

Spec == Init /\ [][Next]_vars

(* advance is a loop that runs by itself, its callbacks return or panic,   *)
(* and the caller advances the clock again and again, whatever else it     *)
(* calls in between.                                                       *)
LiveSpec ==
    /\ Spec
    /\ WF_vars(Running \/ CallbackPanics)
    /\ SF_vars(\E n \in 0..MaxNow : n > now /\ Advance(n))

-----------------------------------------------------------------------------
(* Safety *)

TypeOK ==
    /\ now \in 0..MaxNow
    /\ buckets \in [0..(Slots - 1) -> Seq(Timers)]
    /\ overflow \in Seq(Timers)
    /\ size \in 0..MaxTimers
    /\ count \in 0..MaxTimers
    /\ deadline \in [Timers -> 0..(MaxNow + MaxDelay)]
    /\ cancelled \in [Timers -> BOOLEAN]
    /\ pc \in PC
    /\ to \in 0..MaxNow
    /\ todo \in Seq(Timers)
    /\ due \in Seq(Timers)
    /\ fired \in 0..MaxTimers
    /\ before \subseteq Timers
    /\ delay \in [Timers -> 0..MaxDelay]
    /\ fate \in [Timers -> Fates]
    /\ panics \in 0..MaxPanics

(* The timers that a late re-homing or an already processed bucket holds   *)
(* back for one more revolution: scheduled with delay 0, or into overflow  *)
(* with a deadline in the last slot, whose bucket tick has emptied before  *)
(* it re-homes.                                                            *)
HeldBack(t) == \/ delay[t] = 0
               \/ delay[t] >= Slots /\ deadline[t] % Slots = Slots - 1

DueAt(t) == deadline[t] + (IF HeldBack(t) THEN Slots ELSE 0)

(* Unless a callback panics, every timer fires at one instant that its     *)
(* scheduling determines, neither before nor after, however often it       *)
(* changes between overflow and wheel (schedule, tick).                    *)
FiresWhenDue ==
    panics = 0 =>
        /\ pc = "callback" => now = DueAt(Head(todo))
        /\ pc = "idle" => \A t \in With("held") : now < DueAt(t)

(* Where a timer is: the list and the position in it. *)
Lists == [wheel : {"bucket"}, slot : 0..(Slots - 1)]
            \cup {[wheel |-> "overflow"], [wheel |-> "todo"], [wheel |-> "due"]}

List(l) == CASE l.wheel = "bucket"   -> buckets[l.slot]
             [] l.wheel = "overflow" -> overflow
             [] l.wheel = "todo"     -> todo
             [] l.wheel = "due"      -> due

Places(t) == UNION {{<<l, i>> : i \in {j \in DOMAIN List(l) : List(l)[j] = t}}
                       : l \in Lists}

(* No timer is duplicated or forgotten while tick moves timers between     *)
(* lists: one that is still to fire is in exactly one place, and one that  *)
(* fired, was dropped or was lost is nowhere.                              *)
OnePlace == \A t \in Timers :
                Cardinality(Places(t)) = IF fate[t] = "held" THEN 1 ELSE 0

(* size() counts the timers that are still held and, for ever, those that  *)
(* a panic took off the wheel.                                             *)
SizeAccounted ==
    size = Cardinality(With("held") \cup With("panicked") \cup With("lost"))

(* What advance has counted so far, and returns, are the timers that fired *)
(* since it was called.                                                    *)
FiredAccounted == pc # "idle" => fired = Cardinality(With("fired") \ before)

(* However due timers come to be fired, dropped and lost between one tick  *)
(* and another of a call, both counters agree with what became of them     *)
(* (the loop of tick, which a panic leaves, and the sum in advance).       *)
Accounted == SizeAccounted /\ FiredAccounted

(* Every timer of a bucket belongs there and is due at the next visit, so  *)
(* the list `keep' of tick stays empty, contrary to the comment there.     *)
NothingKept ==
    /\ \A s \in 0..(Slots - 1) : \A i \in DOMAIN buckets[s] :
          deadline[buckets[s][i]] % Slots = s
    /\ pc = "sift" => /\ buckets[Slot] = <<>>
                      /\ \A i \in DOMAIN todo : deadline[todo[i]] <= now

(* Timers with one deadline that took the same path to their bucket, at    *)
(* once or through overflow.                                               *)
Peers(t, u) == /\ deadline[t] = deadline[u]
               /\ delay[t] >= Slots <=> delay[u] >= Slots

(* Such timers have their turn in the order they were scheduled, however   *)
(* often they are moved from list to list and whatever a panic skips       *)
(* (the append of place, and the loops of tick that rebuild the lists).    *)
InOrder ==
    [][\A t, u \in Timers :
          /\ u < t /\ Peers(t, u)
          /\ fate[t] = "held" /\ fate'[t] \in {"fired", "dropped", "panicked"}
          => fate[u] # "held"]_vars

(* A cancelled timer never fires, even if an earlier callback of the same  *)
(* tick cancels it when it is already on the list of due timers.           *)
CancelledNeverFires ==
    [][\A t \in Timers : cancelled[t] => fate'[t] # "fired" \/ fate[t] = "fired"]_vars

-----------------------------------------------------------------------------
(* The wheel implements TimerService *)

(* The next instant at which the overflow list is re-homed. *)
NextRehoming == IF pc \in {"sift", "fire", "callback"} /\ RevolutionEnds
                THEN now ELSE NextVisit(Slots, Slots - 1, now)

(* When a timer fires, read off the place it is in. *)
FiringTime(t) ==
    LET d == deadline[t]
    IN  CASE Contains(overflow, t) -> OverflowTime(Slots, d, NextRehoming)
          [] pc = "rehome" /\ Contains(todo, t) -> OverflowTime(Slots, d, now)
          [] pc # "rehome" /\ Contains(todo \o due, t) -> now
          [] OTHER -> BucketTime(Slots, d, now)

State(t) == CASE fate[t] = "none" -> "new"
              [] fate[t] = "held" -> IF cancelled[t] THEN "cancelled" ELSE "pending"
              [] fate[t] = "panicked" -> "failed"
              [] OTHER -> fate[t]

Service == INSTANCE TimerService WITH
    Delays <- 0..MaxDelay,
    Late   <- Slots,
    state  <- [t \in Timers |-> State(t)],
    at     <- [t \in Timers |-> IF fate[t] = "held" THEN FiringTime(t) ELSE 0]

(* The instant at which a timer fires is fixed when it is scheduled, and   *)
(* whatever list it is moved to until then, the clock does not pass it:    *)
(* the wheel implements TimerService (schedule and tick against each       *)
(* other, and against a panic that skips a re-homing).                     *)
TimerSpec == Service!TSpec

-----------------------------------------------------------------------------
(* The inductive invariant *)

OnWheel == UNION {ToSet(buckets[s]) : s \in 0..(Slots - 1)}

(* No list holds a timer twice, no two lists share one, and together they  *)
(* hold the timers that are still to fire.                                 *)
Apart ==
    /\ \A s \in 0..(Slots - 1) : IsInjective(buckets[s])
    /\ IsInjective(overflow) /\ IsInjective(todo) /\ IsInjective(due)
    /\ ToSet(todo) \cap ToSet(due) = {}
    /\ ToSet(overflow) \cap (ToSet(todo) \cup ToSet(due)) = {}
    /\ OnWheel \cap (ToSet(overflow) \cup ToSet(todo) \cup ToSet(due)) = {}
    /\ With("held") = OnWheel \cup ToSet(overflow) \cup ToSet(todo) \cup ToSet(due)

(* What the loops of advance have on their lists. *)
Phases ==
    /\ pc \in {"idle", "tick"} => todo = <<>>
    /\ pc # "sift" => due = <<>>
    /\ pc = "sift" => /\ buckets[Slot] = <<>>
                      /\ \A t \in ToSet(todo) : deadline[t] <= now
    /\ pc = "callback" => todo # <<>> /\ ~ cancelled[Head(todo)]
    /\ pc = "rehome" => RevolutionEnds

(* A timer is in the bucket of its deadline, less than a revolution ahead. *)
InBuckets ==
    \A s \in 0..(Slots - 1) : \A t \in ToSet(buckets[s]) :
        deadline[t] % Slots = s /\ deadline[t] < now + Slots

(* A timer that was not scheduled yet is not cancelled either. *)
Fresh == \A t \in Timers : /\ t > count <=> fate[t] = "none"
                           /\ fate[t] = "none" => ~ cancelled[t]

(* advance counts the timers that fired after those that had fired already.*)
Counted == FiredAccounted /\ before \subseteq With("fired")

(* The place of a timer tells the instant that its scheduling fixed. *)
Punctual == panics = 0 => \A t \in With("held") : FiringTime(t) = DueAt(t)

(* Of two peers the one that was scheduled first comes first on a list,    *)
(* and is not on a list that is looked through later than the other's:     *)
(* one that tick has yet to loop over (todo, against the lists that the    *)
(* loop fills), the bucket of the slot, or overflow.                       *)
Ahead(S, T) == \A t \in S, u \in T : Peers(t, u) => t < u
Queue(list) == \A i, j \in DOMAIN list :
                   i < j /\ Peers(list[i], list[j]) => list[i] < list[j]

Ordered ==
    /\ \A s \in 0..(Slots - 1) : Queue(buckets[s])
    /\ Queue(overflow) /\ Queue(todo) /\ Queue(due)
    /\ \A t \in ToSet(overflow) : delay[t] >= Slots
    /\ pc # "rehome" =>
          \A t \in OnWheel \cup ToSet(todo) \cup ToSet(due), u \in ToSet(overflow) :
              ~ Peers(t, u)
    /\ pc = "rehome" =>
          /\ Ahead(OnWheel \cup ToSet(overflow), ToSet(todo))
          /\ \A t \in ToSet(todo) : delay[t] >= Slots
          /\ \A t \in ToSet(overflow) : ~ InRange(deadline[t])
    /\ pc \in {"sift", "fire", "callback"} =>
          /\ buckets[Slot] = <<>>
          /\ \A t \in ToSet(todo) \cup ToSet(due) : Home(deadline[t]) = Slot
    /\ Ahead(ToSet(due), ToSet(todo))

(* Wherever a timer is moved, the lists partition those still to fire, and *)
(* the place of each agrees with its deadline.                             *)
Partition == /\ TypeOK
             /\ Apart
             /\ Phases
             /\ InBuckets
             /\ Fresh
             /\ SizeAccounted
             /\ Counted
             /\ Punctual

(* ... and the lists keep the order in which they were scheduled.          *)
IInv == Partition /\ Ordered

-----------------------------------------------------------------------------
(* Liveness *)

(* A timer whose time comes leaves the wheel, fired, dropped, or lost to a *)
(* panic, if the clock keeps advancing (advance against the overflow list  *)
(* and the panics still to come, each of which may skip its re-homing and  *)
(* cost a revolution).  MaxNow ends virtual time.                          *)
EventuallyLeaves ==
    \A t \in Timers :
        (/\ fate[t] = "held"
         /\ FiringTime(t) + (MaxPanics - panics) * Slots <= MaxNow) ~> fate[t] # "held"

-----------------------------------------------------------------------------
(* What the documentation says, and the code does not do *)

(* Timers the caller would still expect to fire; delay 0 is left aside,    *)
(* whose late firing is documented.                                        *)
Expected == {t \in With("held") : ~ cancelled[t] /\ delay[t] > 0}

(* advance fires "every due timer in time order": none fires while another *)
(* that is due earlier is still on the wheel (re-homing after the bucket). *)
TimeOrder ==
    pc = "callback" =>
        \A t \in Expected : deadline[t] >= deadline[Head(todo)]

=============================================================================
