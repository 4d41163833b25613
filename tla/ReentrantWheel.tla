--------------------------- MODULE ReentrantWheel ---------------------------
(***************************************************************************)
(* The timing wheel of resumerun/timing_wheel.py with callbacks that use   *)
(* the wheel they run on: they schedule timers, cancel them (their own     *)
(* too), advance the clock, or raise.  In Rust the borrow of advance rules *)
(* that out (TimingWheel); in Python nothing does.                         *)
(*                                                                         *)
(* calls is the stack of calls of advance in progress.  The two list       *)
(* comprehensions of _tick and its re-homing loop run no callback, so each *)
(* is one step.  What advance returns is left out.  The handle of a timer  *)
(* that fired or was dropped is used again, so that timers can be          *)
(* scheduled for ever.                                                     *)
(*                                                                         *)
(* The operators under "Fault" are deliberate mistakes, used by nothing.   *)
(***************************************************************************)
EXTENDS WheelBasics, FiniteSets, SequencesExt

CONSTANTS
    Slots,      \* self.slots
    Timers,     \* handles
    MaxDelay,   \* bound on the delay of a timer
    MaxNow,     \* bound on virtual time
    MaxDepth,   \* bound on the calls of advance in progress; 1: no nesting
    MaxRaises   \* bound on the callbacks that raise

ASSUME WheelAssumption == /\ Slots \in Nat \ {0}
                          /\ IsFiniteSet(Timers)
                          /\ {MaxDelay, MaxNow, MaxDepth, MaxRaises} \subseteq Nat

VARIABLES
    now,        \* self.now
    buckets,    \* self.buckets
    overflow,   \* self.overflow
    size,       \* self.size
    timer,      \* the timer behind every handle
    calls,      \* the calls of advance in progress, the innermost last
    raises,     \* callbacks that raised
    nested      \* whether a callback has called advance

vars == <<now, buckets, overflow, size, timer, calls, raises, nested>>

(* "free": not scheduled, or fired, or dropped; "lost": its callback, or   *)
(* one before it on the list of due timers, raised.  delay, runs (how      *)
(* often its callback was started) and stopped (whether it was cancelled   *)
(* before that) are history variables.                                     *)
Timer == [state     : {"free", "held", "lost"},
          delay     : 0..MaxDelay,
          deadline  : 0..(MaxNow + MaxDelay),
          cancelled : BOOLEAN,
          runs      : 0..1,
          stopped   : BOOLEAN]

Free == [state |-> "free", delay |-> 0, deadline |-> 0, cancelled |-> FALSE,
         runs |-> 0, stopped |-> FALSE]

(* "loop": at the head of advance's loop; "fire": in the loop of _tick     *)
(* over `due'; "callback": in the callback of Head(due).                   *)
Call == [pc : {"loop", "fire", "callback"}, to : 0..MaxNow,
         slot : 0..(Slots - 1), due : Seq(Timers)]

Running == calls # <<>>
Top == Last(calls)
SetTop(c) == calls' = [calls EXCEPT ![Len(calls)] = c]
Pop == calls' = Front(calls)

(* The wheel may be called by the program or by a callback. *)
InUserCode == Running => Top.pc = "callback"

Init ==
    /\ now = 0
    /\ buckets = [s \in 0..(Slots - 1) |-> <<>>]
    /\ overflow = <<>>
    /\ size = 0
    /\ timer = [t \in Timers |-> Free]
    /\ calls = <<>>
    /\ raises = 0
    /\ nested = FALSE

-----------------------------------------------------------------------------
(* schedule and cancellation *)

(* Fault: a timer that is due in a whole revolution counts as in range. *)
NearOrOn(deadline) == deadline - now <= Slots

Near(deadline) == deadline - now < Slots

(* Fault: the loop of _tick runs over the bucket itself, so that a timer   *)
(* that a callback adds to the bucket is found by it.                      *)
ScheduleIntoLoop(t, delay) ==
    /\ InUserCode /\ timer[t].state = "free"
    /\ timer' = [timer EXCEPT ![t] = [Free EXCEPT !.state = "held", !.delay = delay,
                                                   !.deadline = now + delay]]
    /\ IF Running /\ delay = 0
       THEN /\ SetTop([Top EXCEPT !.due = Append(@, t)])
            /\ UNCHANGED <<buckets, overflow>>
       ELSE /\ UNCHANGED calls
            /\ IF Near(now + delay)
               THEN /\ buckets' = [buckets EXCEPT ![(now + delay) % Slots] = Append(@, t)]
                    /\ UNCHANGED overflow
               ELSE overflow' = Append(overflow, t) /\ UNCHANGED buckets
    /\ size' = size + 1
    /\ UNCHANGED <<now, raises, nested>>

Schedule(t, delay) ==
    /\ InUserCode
    /\ timer[t].state = "free"
    /\ timer' = [timer EXCEPT ![t] = [Free EXCEPT !.state = "held", !.delay = delay,
                                                   !.deadline = now + delay]]
    /\ IF Near(now + delay)
       THEN /\ buckets' = [buckets EXCEPT ![(now + delay) % Slots] = Append(@, t)]
            /\ UNCHANGED overflow
       ELSE /\ overflow' = Append(overflow, t)
            /\ UNCHANGED buckets
    /\ size' = size + 1
    /\ UNCHANGED <<now, calls, raises, nested>>

Cancel(t) ==
    /\ InUserCode
    /\ timer[t].state = "held"
    /\ ~ timer[t].cancelled
    /\ timer' = [timer EXCEPT ![t].cancelled = TRUE,
                              ![t].stopped = timer[t].runs = 0]
    /\ UNCHANGED <<now, buckets, overflow, size, calls, raises, nested>>

-----------------------------------------------------------------------------
(* advance *)

Advance(to) ==
    /\ InUserCode
    /\ Len(calls) < MaxDepth
    /\ calls' = Append(calls, [pc |-> "loop", to |-> to, slot |-> 0, due |-> <<>>])
    /\ nested' = (nested \/ Running)
    /\ UNCHANGED <<now, buckets, overflow, size, timer, raises>>

AdvanceReturns ==
    /\ Running
    /\ Top.pc = "loop"
    /\ ~ now < Top.to
    /\ Pop
    /\ UNCHANGED <<now, buckets, overflow, size, timer, raises, nested>>

(* The clock moves, and _tick splits the bucket of the new time. *)
Tick ==
    /\ Running
    /\ Top.pc = "loop"
    /\ now < Top.to
    /\ now' = now + 1
    /\ LET slot == now' % Slots
           Due == {t \in Timers : timer[t].deadline <= now'}
       IN  /\ SetTop([Top EXCEPT !.pc = "fire", !.slot = slot,
                                 !.due = Only(buckets[slot], Due)])
           /\ buckets' = [buckets EXCEPT ![slot] = Only(@, Timers \ Due)]
    /\ UNCHANGED <<overflow, size, timer, raises, nested>>

(* Fault: cancellation is not looked at when a timer fires. *)
FireUnchecked ==
    /\ Running /\ Top.pc = "fire" /\ Top.due # <<>>
    /\ SetTop([Top EXCEPT !.pc = "callback"])
    /\ timer' = [timer EXCEPT ![Head(Top.due)].runs = @ + 1]
    /\ UNCHANGED <<now, buckets, overflow, size, raises, nested>>

Fire ==
    /\ Running
    /\ Top.pc = "fire"
    /\ Top.due # <<>>
    /\ ~ timer[Head(Top.due)].cancelled
    /\ SetTop([Top EXCEPT !.pc = "callback"])
    /\ timer' = [timer EXCEPT ![Head(Top.due)].runs = @ + 1]
    /\ UNCHANGED <<now, buckets, overflow, size, raises, nested>>

(* Fault: only timers whose callback ran are counted out. *)
LeaveIfFired ==
    /\ Running /\ Top.due # <<>>
    /\ \/ Top.pc = "callback"
       \/ Top.pc = "fire" /\ timer[Head(Top.due)].cancelled
    /\ SetTop([Top EXCEPT !.pc = "fire", !.due = Tail(@)])
    /\ timer' = [timer EXCEPT ![Head(Top.due)] = Free]
    /\ size' = IF Top.pc = "callback" THEN size - 1 ELSE size
    /\ UNCHANGED <<now, buckets, overflow, raises, nested>>

(* The callback of a due timer returns, or it is skipped as cancelled. *)
Leave ==
    /\ Running
    /\ Top.due # <<>>
    /\ \/ Top.pc = "callback"
       \/ Top.pc = "fire" /\ timer[Head(Top.due)].cancelled
    /\ SetTop([Top EXCEPT !.pc = "fire", !.due = Tail(@)])
    /\ timer' = [timer EXCEPT ![Head(Top.due)] = Free]
    /\ size' = size - 1
    /\ UNCHANGED <<now, buckets, overflow, raises, nested>>

(* A callback raises, out of the call of advance that runs it; the list of *)
(* due timers goes with it.  A callback around that call may go on.        *)
Raise ==
    /\ Running
    /\ Top.pc = "callback"
    /\ raises < MaxRaises
    /\ raises' = raises + 1
    /\ timer' = [t \in Timers |-> IF Contains(Top.due, t)
                                  THEN [timer[t] EXCEPT !.state = "lost"]
                                  ELSE timer[t]]
    /\ Pop
    /\ UNCHANGED <<now, buckets, overflow, size, nested>>

(* Faults: the revolution is taken to end at its first slot; the overflow  *)
(* list is left as it is when its timers are re-homed.                     *)
RevolutionStarts == Top.slot = 0
Stays(deadline) == TRUE

RevolutionEnds == Top.slot = Slots - 1
Far(deadline) == ~ Near(deadline)

(* After the callbacks, timers of the overflow list that have come into    *)
(* range by now are put onto the wheel, if the tick was at the last slot.  *)
EndTick ==
    /\ Running
    /\ Top.pc = "fire"
    /\ Top.due = <<>>
    /\ SetTop([Top EXCEPT !.pc = "loop"])
    /\ IF RevolutionEnds
       THEN LET Of(s) == {t \in Timers : /\ Near(timer[t].deadline)
                                        /\ timer[t].deadline % Slots = s}
            IN  /\ buckets' = [s \in 0..(Slots - 1) |->
                                  buckets[s] \o Only(overflow, Of(s))]
                /\ overflow' = Only(overflow, {t \in Timers : Far(timer[t].deadline)})
       ELSE UNCHANGED <<buckets, overflow>>
    /\ UNCHANGED <<now, size, timer, raises, nested>>

Proceed == AdvanceReturns \/ Tick \/ Fire \/ Leave \/ EndTick

Next ==
    \/ \E t \in Timers, d \in 0..MaxDelay : Schedule(t, d)
    \/ \E t \in Timers : Cancel(t)
    \/ \E to \in 0..MaxNow : Advance(to)
    \/ Proceed
    \/ Raise

Spec == Init /\ [][Next]_vars

(* advance runs by itself and every callback ends.  Nobody need ever call  *)
(* the wheel.                                                              *)
LiveSpec ==
    /\ Spec
    /\ WF_vars(Proceed)
    /\ \A depth \in 1..MaxDepth : SF_vars(Len(calls) = depth /\ Leave)

-----------------------------------------------------------------------------
(* Properties *)

TypeOK ==
    /\ now \in 0..MaxNow
    /\ buckets \in [0..(Slots - 1) -> Seq(Timers)]
    /\ overflow \in Seq(Timers)
    /\ size \in 0..Cardinality(Timers)
    /\ timer \in [Timers -> Timer]
    /\ calls \in Seq(Call)
    /\ Len(calls) <= MaxDepth
    /\ raises \in 0..MaxRaises
    /\ nested \in BOOLEAN

(* When a timer fires if no callback advances the clock: at its deadline,  *)
(* or one revolution later if it was scheduled with delay 0 or into the    *)
(* overflow list with a deadline in the last slot.                         *)
FiringTime(t) ==
    LET late == \/ timer[t].delay = 0
                \/ timer[t].delay >= Slots /\ timer[t].deadline % Slots = Slots - 1
    IN  timer[t].deadline + IF late THEN Slots ELSE 0

Held == {t \in Timers : timer[t].state = "held"}

(* Without nested calls of advance and callbacks that raise, timers are    *)
(* punctual even if callbacks schedule them, into the bucket or the        *)
(* overflow list that _tick is working on (_place against _tick).          *)
Punctual ==
    ~ nested /\ raises = 0 =>
        /\ Running /\ Top.pc = "callback" => now = FiringTime(Head(Top.due))
        /\ ~ Running => \A t \in Held : now < FiringTime(t)

(* advance comes to an end although callbacks keep scheduling timers that  *)
(* are due at once (the list `due' is computed before any callback runs).  *)
AdvanceEnds == Running ~> ~ Running

(* The lists that hold timers, and where on them t is. *)
Lists == [wheel : {"bucket"}, slot : 0..(Slots - 1)]
             \cup {[wheel |-> "overflow"]}
             \cup [wheel : {"due"}, call : DOMAIN calls]

List(l) == CASE l.wheel = "bucket" -> buckets[l.slot]
             [] l.wheel = "overflow" -> overflow
             [] OTHER -> calls[l.call].due

Places(t) == UNION {{<<l, i>> : i \in {j \in DOMAIN List(l) : List(l)[j] = t}} :
                       l \in Lists}

(* However calls of advance nest and unwind, no timer is duplicated or     *)
(* forgotten: those still to fire are in one place, the others nowhere     *)
(* (the lists that _tick rebuilds while inner calls change the wheel).     *)
OnePlace ==
    \A t \in Timers : Cardinality(Places(t)) = IF timer[t].state = "held" THEN 1 ELSE 0

(* size counts the timers still held and, for ever, those lost to a raise. *)
Known == {t \in Timers : timer[t].state # "free"}
SizeAccounted == size = Cardinality(Known)

(* A timer leaves the wheel having run its callback exactly once, and not  *)
(* at all if it was cancelled before: by whichever callback of whichever   *)
(* call of advance, whatever lists it was on by then, and also if it is    *)
(* cancelled again, by its own callback or by one that this one calls.  A  *)
(* raise may take it off before its callback ran, but not after a second   *)
(* run (_tick, which looks at t.cancelled only when t's turn comes).       *)
RunsOnceUnlessCancelled ==
    [][\A t \in Timers :
          timer[t].state = "held" /\ timer'[t].state # "held" =>
              \/ timer[t].stopped /\ timer[t].runs = 0
              \/ ~ timer[t].stopped /\ timer[t].runs = 1
              \/ ~ timer[t].cancelled /\ timer[t].runs = 0 /\ timer'[t].state = "lost"]_vars

-----------------------------------------------------------------------------
(* The inductive invariant *)

OnWheel == UNION {ToSet(buckets[s]) : s \in 0..(Slots - 1)}

(* The timers on the lists of the first n calls of a stack, and that no   *)
(* two lists of a stack share one.                                         *)
Dues(stack, n) == UNION {ToSet(stack[i].due) : i \in 1..n}
Stacked(stack) ==
    \A i \in DOMAIN stack : /\ IsInjective(stack[i].due)
                            /\ ToSet(stack[i].due) \cap Dues(stack, i - 1) = {}

InCalls == Dues(calls, Len(calls))

(* No list holds a timer twice, no two lists share one, and together they  *)
(* hold the timers that are still to fire.                                 *)
Apart ==
    /\ \A s \in 0..(Slots - 1) : IsInjective(buckets[s])
    /\ IsInjective(overflow)
    /\ Stacked(calls)
    /\ OnWheel \cap ToSet(overflow) = {}
    /\ InCalls \cap (OnWheel \cup ToSet(overflow)) = {}
    /\ Held = OnWheel \cup ToSet(overflow) \cup InCalls

(* A call of advance is at the head of its loop with nothing left to fire, *)
(* and in a callback of a timer that is still on its list.                 *)
Phase(call) == /\ call.pc = "loop" => call.due = <<>>
               /\ call.pc = "callback" => call.due # <<>>

Phases == \A i \in DOMAIN calls : Phase(calls[i])

(* A timer is in the bucket of its deadline, less than a revolution ahead. *)
InBuckets ==
    \A s \in 0..(Slots - 1) : \A t \in ToSet(buckets[s]) :
        timer[t].deadline % Slots = s /\ timer[t].deadline < now + Slots

(* The next instant at which the overflow list is re-homed. *)
NextRehoming == IF Running /\ Top.pc # "loop" /\ RevolutionEnds
                THEN now ELSE NextVisit(Slots, Slots - 1, now)

(* While no call of advance nests or is cut short, the place of a timer    *)
(* tells the instant at which it will fire.                                *)
Timely ==
    ~ nested /\ raises = 0 =>
        /\ Len(calls) <= 1
        /\ Running /\ Top.pc # "loop" => Top.slot = now % Slots
        /\ \A t \in OnWheel :
              FiringTime(t) = BucketTime(Slots, timer[t].deadline, now)
        /\ \A t \in ToSet(overflow) :
              FiringTime(t) = OverflowTime(Slots, timer[t].deadline, NextRehoming)
        /\ \A t \in InCalls : FiringTime(t) = now

(* Whatever callbacks do, the lists partition the timers still to fire.    *)
Partition == /\ TypeOK
             /\ Apart
             /\ Phases
             /\ InBuckets
             /\ SizeAccounted
             /\ Timely

(* The timers whose callbacks are in progress have run them once, all      *)
(* others that are still to fire never.                                    *)
InCallback == {Head(calls[i].due) : i \in {j \in DOMAIN calls : calls[j].pc = "callback"}}

Started ==
    \A t \in Held : /\ timer[t].runs = IF t \in InCallback THEN 1 ELSE 0
                    /\ timer[t].stopped <=> timer[t].cancelled /\ timer[t].runs = 0

(* ... and the callbacks in progress are those that the timers have run.   *)
IInv == Partition /\ Started

=============================================================================
