# A verification project for durable-execution

`durable-execution` runs workflows written as ordinary functions so that they
survive crashes, and provides the timing wheel such engines use for their
timers. The repository holds one design in six languages: a Python reference
(`resumerun/`) and ports to Rust, Go, TypeScript, C# and Java. The two
components of the design do not call each other; a user combines them.

This directory holds TLA+ modules translated from the source, the TLC
configurations that check them, and proofs that TLAPS checks.

## Inventory

### Replay engine

State. `HistoryStore.data` maps a workflow id to its history, a list of events
(position, step id, result). A `WorkflowContext` has a copy of one history and a
cursor into it. An `Engine` has a handle on the store and a count of replays.

Operations. `Engine::run` loads the history and calls the workflow body with a
new context. The body calls `ctx.step(id, f)`. While the cursor is inside the
history, `step` compares the ids and serves the recorded result. Past its end it
calls `f`, appends the event to the context's copy, saves the whole copy and
returns the `Replay` signal, at which `run` counts, loads again and calls the
body from the top. Any other error leaves `run`. `resume` is `run`.

Interaction. Several engines share one store. Rust's handle is an `Rc`, so they
share a thread too, and what interleaves is nesting: a body or a closure `f` may
run another workflow on another engine (`&mut self` keeps it off its own). In
the other five languages it may also use its own engine, whose workflow id is a
field there (`Engine.wid`), set by `run` and read when a step is saved. In those
languages the replay signal is an exception or panic, which a body can catch: in
TypeScript it is not even exported, so a body that catches anything catches it. In
Rust it is the `Err` of a `Result`, which the documentation asks to propagate ("Call it
with the `?` operator"), and which a body may also match on to go on.

What is hard. A failure between the effect of `f` and the save; a history saved
from a copy that is no longer the newest; a body that changed since the history
was recorded; nested runs; a resume of what has already returned; a body that
swallows the signal and goes on.

Correct means: a completed step is not repeated, results served are those that
are durable, histories only grow, unchanged code is never rejected, changed code
never runs a step against a history it disagrees with, and a workflow that is
resumed often enough returns.

### Timing wheel

State. `now`, one list of timers per slot, an overflow list, and a size. A timer
has a deadline, a callback and a cancelled flag that its holder may set.

Operations. `schedule` puts a timer into the bucket `deadline % slots` if it is
less than a revolution away, else into overflow. `advance(to)` moves `now` one
tick at a time. `tick` takes the bucket of the new time, sifts it into due and
kept timers, runs the callbacks of the due ones that are not cancelled, and at
the last slot of a revolution places the overflow timers anew.

What is hard. Delays of 0, of one revolution and around it; the tick at which a
timer is re-homed; two timers that reach one bucket on different paths; a
callback that cancels a later timer of the same list; a callback that panics in
the middle of the list. In languages other than Rust a callback can also call
`schedule` and `advance` on the wheel that runs it. In TypeScript a delay is any
number: a deadline that is not whole has no bucket, and the loop that finds out
throws half way.

Correct means: every timer fires once, at an instant its scheduling determines,
unless cancelled before; no timer is lost or duplicated; the size is the number
of timers left.

### Not modelled

Package metadata and entry points (no behaviour), the conversions and formatting
of `Value` (nothing depends on them), and several threads or goroutines on one
engine (the design is single-threaded, and nothing in the code synchronises).

Results that a body and the store share by reference (in all ports but Rust): the
models' results are values, so a body that changes an object it was served is left
out. Asynchronous TypeScript bodies: their first recorded step rejects the promise
they returned, so none gets past its first call. The width of deadlines: `now + delay`
wraps beyond the range of `i64`, and `deadline - now` wraps back, so such a timer waits
in overflow as it should until the clock itself is near the end of its range.
A wheel of no slots, which divides by zero in its first tick.

The C#, Java and Python engines and the Go, C# and Java wheels repeat, statement by
statement, ports that are modelled; PROJECT.json says which. One difference is known:
the Python engine compares step ids with an `assert`, which `python -O` leaves out, and
then serves a changed body the results of other steps (the mutant of
`ServedUnderTheirIds`).

## Modules

| Module | Contents |
|---|---|
| `Workflow` | bodies, events, `Follows` (a body agrees with a history): shared data |
| `DurableWorkflow` | abstract specification: one log of completed steps per workflow |
| `ReplayEngine` | `rust/src/engine.rs` |
| `SharedWidEngine` | `go/engine.go`: one engine, its field `wid`, nested runs |
| `SwallowedReplay` | `ts/src/engine.ts`: bodies that catch what `step` throws, step functions that call `step` |
| `TimerService` | abstract specification: each timer leaves at an instant fixed when it is scheduled |
| `TimingWheel` | `rust/src/timing_wheel.rs` |
| `ReentrantWheel` | `resumerun/timing_wheel.py`: callbacks that use their wheel |
| `FractionalWheel` | `ts/src/timing_wheel.ts`: delays that are not whole |
| `WheelBasics` | what the wheels share: the instants at which slots are visited, list comprehensions (`Only`) |
| `MCWorkflows`, `MCReplayEngine`, `MCSharedWidEngine`, `MCSwallowedReplay` | small workflows for TLC |
| `ReplayEngine_proofs`, `SharedWidEngine_proofs`, `SwallowedReplay_proofs`, `TimingWheel_proofs`, `ReentrantWheel_proofs`, `FractionalWheel_proofs` | lemmas and theorems on these modules, checked by TLAPS |
| `Workflow_proofs`, `DataLemmas` | lemmas they share: histories; induction, sums, lists, remainders and instants |

### ReplayEngine

A body is known by `Do(b, results)`, the next thing it does after `results` were
returned to it: call `step` with an id, or return. This is the determinism the
design requires of bodies; `Versions[w]` is the set of bodies run under one id,
so a redeployment is a set of two. The module takes bodies to propagate the `Err` of
`step`, as documented: after `Effect` and `RecordStep`, or `Mismatch`, the body is left. A
Rust body that matches on it and goes on finds a context whose history has grown and
whose cursor has not moved, the situation that `SwallowedReplay` describes for
TypeScript, whose `step` does the same in the same order. `frame[e]` is the call of `run` in progress on
engine `e`: its context (`history`, `cursor`), the local state of the body
(`served`, what `step` has returned to it), the body and the calling frame. Only
the innermost frame executes (`Executing`).

| Action | Code |
|---|---|
| `Run` | call of `run` up to the body, from the program or from running code |
| `ServeStep`, `Mismatch` | the two outcomes of `step` inside the history |
| `CallStep`, `Effect`, `RecordStep` | `f()` is called, has its effect, is pushed and saved; apart, because `f` may run workflows and may fail |
| `Replay`, `Return` | the `Replay` and `Ok` arms of `run` |
| `Fail` | the body returns an error, or body or `f` panics |
| `Crash` | the process dies; new engines over the same store |

`execs`, `lost`, `returned` and `restored` are history variables that only
properties read. `Exclusive` says that callers never overlap two runs of one
workflow id. The code does not enforce it (see Findings).

### TimingWheel

One action per iteration of the loops of `tick`, because callbacks can cancel
and panic between them. `todo` is the list the running loop still has to visit.
`keep` and `still` of the code are built in place, which no one can observe.
`delay`, `fate` and `before` (the timers that had fired when `advance` was called) are
history variables. `Accounted` compares with them both counters of the code, `size` and
the sum that `advance` returns. `InOrder` says that timers with one deadline have their
turn in the order they were scheduled if they took the same path, both directly to
their bucket or both through overflow.

The wheel implements `TimerService`, which knows neither slots nor lists: `Schedule`
fixes the instant `at` which the timer will leave (its deadline, or `Late` ticks after
it), `Pass` moves the clock only when nothing is due, `Expire` fires or drops a due
timer, and `Fail`, a panic, loses the timers that are due with it and may postpone others
by `Late` once. The mapping (`Service`) takes `Late` to be one revolution, renames fates
to states, and reads `at` off the place a timer is in: the next visit of its bucket, `now`
on the lists of a running tick, and in overflow the first visit after the re-homing at
which its turn comes (`FiringTime`). That the mapped `at` stays put while timers move
between lists is what the refinement checks.

### SharedWidEngine

`calls` is the stack of calls of `Run` on one engine. `Run` sets `wid`; `Record`
(append, `persist`, the panic, its recovery in `attempt` and the reload, between
which no user code runs) saves under `wid` and reloads under the argument of its
own call. `Panic` leaves one call, and `wid` as it is. With `MaxDepth = 1` runs
follow each other and the module implements `DurableWorkflow`; with 2 they nest.

### SwallowedReplay

Bodies in `Catching` catch whatever `step` throws, so `Do(b, outcomes)` depends on
outcomes: values, or `None` for a throw. Which bodies catch is fixed per body, not per
call of `step`. `Record` is the one place where it matters:
a body that does not catch is run again over what is durable, one that does goes on
with a history that contains the new event and a cursor before it. `Mismatch` and
`FnThrows` are caught likewise; `BodyThrows` is an error of the body itself, which
leaves `run`. `InnerStep` is a step function that calls `step` on the context that
is executing it: the inner function runs next, its event takes the position of the outer
step, and the signal unwinds both, so an effect of the outer function is lost. Runs do
not nest.

### ReentrantWheel

`calls` is the stack of calls of `advance`; `InUserCode` is where the wheel can be
called: outside, or in a callback of the innermost call. A list comprehension (`Only`) or the
re-homing loop is one step, since no callback runs in it. `EndTick` tests the slot
of its own tick and re-homes by the current `now`, as the code does. Handles are used
again, so scheduling never ends; only `now`, the depth and the raises are bounded.
`nested` remembers whether a callback ever called `advance`: what `Punctual` says is
not true afterwards. `runs` and `stopped` of a timer are history: how often its callback
was started, and whether it was cancelled before. `RunsOnceUnlessCancelled` holds them
against each other when the timer leaves the wheel, often many steps and calls later;
`Fire` decides by the flag, which a callback may also set while, or after, the timer runs. `OnePlace` counts positions, pairs of a list and an index, so that a
timer twice on one list would show.

### FractionalWheel

Delays and deadlines are counted in half ticks, and an odd one has no bucket. `place`
has three outcomes: `ScheduleNear`, `ScheduleFar` and `ScheduleThrows`, which changes
nothing. `Tick` is the clock, the sifting and the callbacks, `EndTick` and `Throws` the
two ends of the re-homing loop: in `Throws` the timers in front of the fraction have
been pushed into their buckets, and the overflow list, assigned only after the loop,
still has them. `visits` records when each timer was counted out; `FirstVisits` and
`FurtherVisits` predict it from the deadlines and the order of scheduling alone.
`Revolution(t)` is the revolution at whose end the turn of a timer comes to be re-homed.
A timer of the overflow list is `Blocked` if a fraction in front of it comes near no
later than it does, and `Repeated` if one behind it does.

## Runs

| Run | Bounds | Shows |
|---|---|---|
| `engine` | 2 engines, 2 workflows, 4 bodies of 1 or 2 steps (one branches on a result, three are versions of one workflow), 2 values, 1 failure | all safety properties of the engine, `IInv`, refinement of `DurableWorkflow`, `EventuallyReturns` |
| `shared_wid` | 1 engine, the same workflows, no nesting, 2 failures | `IInv` (the inductive invariant of the proofs), `SeparateHistories`, refinement of `DurableWorkflow` |
| `swallowed` | 3 workflows (one retries each step, one is rewritten with a fallback, one catches nothing), 2 values, 2 failures or inner steps | `EffectsAccounted`, `ServedInOrder`, `ServedUnderTheirIds`, `CleanAnswersStand` |
| `wheel` | 3 slots, 2 timers, delays to 5, time to 8, 1 panic | `IInv`, refinement of `TimerService`, `FiresWhenDue`, `NothingKept`, `OnePlace`, `Accounted`, `CancelledNeverFires`, `InOrder`, `EventuallyLeaves` |
| `wheel_reentrant` | 2 slots, 2 handles, delays to 3, time to 5, 3 nested calls, 2 raises | `IInv`, `Punctual`, `OnePlace`, `SizeAccounted`, `RunsOnceUnlessCancelled`, `AdvanceEnds` |
| `wheel_fractions` | 2 slots, 3 timers, delays to 9 half ticks, time to 8 | `IInv`, `FirstVisits`, `FurtherVisits` |
| `engine_exactly_once`, `engine_shape`, `shared_wid_nested`, `swallowed_fallback`, `wheel_order`, `wheel_fractions_size` | minimal | the findings below |

Why the bounds are enough. Two engines give every shape of nesting of two
workflows; a third workflow would only lengthen the stack. Bodies of two steps
have a first step, a last step and one in between that is both served and
executed; the proofs lift all of these bounds for safety. On the wheel, delays
reach almost to two revolutions, so timers are re-homed at once, later, and never
directly; time reaches the late firing of the longest of the early timers, and for the
shorter ones the revolution that a panic may add; two timers let a panic hit a list with one timer
to go, or skip the re-homing of another. Three nested calls of `advance` leave two outer
due lists behind the clock, and handles that are used again fill them with timers
scheduled at any of the three levels. Two raises unwind two of the three calls, at once
or with callbacks of the remaining one in between. With two timers on the Rust wheel each
of them is in front of the other in turn, which is all that `InOrder` is about. The passing
run of the Go engine does not nest; `shared_wid_nested` does, and shows why. Three timers around a fraction are one in front of
it, one behind it and the fraction, or two fractions and a timer between them; four
revolutions of two slots show a timer that fires again and again. Two failures let a step
fail, be retried and fail again, which makes the retrying body skip it.

Deadlock is checked in every run. The engine can always run a workflow again,
and the wheel can always be advanced (to a time that has passed, if `MaxNow` is
reached), so a deadlock would be a loop of the code that cannot go on.

Fairness. `engine`: each frame takes a step if it can again and again
(closures terminate and bodies call `run` finitely often; strong, because a frame
waits while a nested run executes), and the client keeps resuming each workflow.
No fairness on failures. `wheel`: `advance` runs by itself (weak), and the
caller advances the clock again and again (strong, because it may call other
things in between). `wheel_reentrant`: `advance` and its callbacks proceed
(weak), and at each depth of nesting a callback that can return again and again does
(strong, because nested calls of `advance` come in between: a callback that calls them
for ever is a loop of the user's). Nothing else is assumed, in particular not that
callbacks stop scheduling. Without a client that retries, nothing in the code resumes
anything, so this is the caller's part of the promise.

## Findings

Each of these runs ends in a counterexample to what the documentation says.

1. `engine_exactly_once`: a failure after the effect of a step and before its
   save repeats the effect on resume (`EffectsAccounted` is what does hold: at
   most one repetition per failure).
2. `engine_shape`: a workflow redeployed with fewer steps is not detected;
   `run` returns with history left over.
3. `shared_wid_nested`: a run nested on the engine that is running leaves its id in
   `wid`; the outer step is saved over the inner workflow's history.
4. `swallowed_fallback`: a body that catches the replay signal and falls back on
   another step is rejected as changed, in its first run. What does hold: effects
   are not repeated and the values served are the recorded ones in order
   (`EffectsAccounted`, `ServedInOrder`), and an answer computed without catching
   anything stands (`CleanAnswersStand`);
   others may change in a later run.
5. `wheel_order`: a timer that went to overflow and whose deadline falls into the
   last slot is re-homed at its own deadline, after that bucket was processed,
   and fires one revolution late. `FiresWhenDue` describes exactly which timers
   are late (these, and the documented delay 0) and that all others are punctual.

6. `wheel_fractions_size`: a fractional delay of a revolution or more is accepted, and
   the re-homing loop throws at it in every revolution from then on. Timers in front of
   it in the overflow list fire and are counted out again every time (`size` falls below
   zero), those behind it never fire. What does hold: timers scheduled into a bucket, and
   those whose turn comes before the fraction's, are not affected (`FirstVisits`,
   `FurtherVisits`). Python's loop is the same, but its delays are annotated as
   integers; in the other ports the types keep fractions out.

Some properties are weaker than one would wish, and for a reason. `Exclusive`:
without it, nested runs of one workflow id overwrite each other's events and
`AppendOnly` fails. `Accounted`, `SizeAccounted`: a callback that panics leaves `size` too large
for good, though it is documented as the number of live timers. `Punctual` holds
as long as no call nests or raises: a callback that advances the clock lets timers of later ticks
fire before those still due in its own. `InOrder` compares timers on the same path only:
re-homing appends to the bucket, so a timer that comes out of overflow fires behind timers
with its deadline that were scheduled later, directly into the bucket.

`NothingKept` also shows that the comment in `tick`, that a bucket can hold
timers a revolution away, describes a case that does not occur: `keep` is empty.

## Proofs

The proofs hold for all values of the constants, bounds included: every number of
workflows, engines, slots, timers, panics and nested calls.

### Engines

`ReplayEngine_proofs` proves, under `Exclusive`: `TypeOK`, `EffectsAccounted`,
`LiveStepExtendsHistory`, `NoFalseAlarm`, `AppendOnly`, `CompletedForGood`,
`ReplaysCountRecordings` and `Spec => DurableSpec`, the refinement.

All but one follow from `IInv`. `EffectsAccounted` alone is not inductive: that
`RecordStep` lengthens the stored history by one needs the frame's copy to be the
stored one, which needs that no other frame saves under the same id. So `IInv`
says that the copy of each frame is the durable history, that the body agrees
with it up to the cursor and was served exactly its results (`FrameAgrees`), that
a live step is at its end (`LiveStep`), that no two frames have the same id
(`NoOverlap`), and, for workflows whose code does not change, that the whole
stored history agrees with the body and with the answer it gave (`StoreAgrees`).
There is one lemma per action; `RecordStepFacts` and `ReturnFacts` are shared by
the invariant and the refinement, whose two abstract actions are exactly these
two steps. `Workflow_proofs` has the facts on histories. `ReplaysCountRecordings`
is a sum over workflows and engines, which must be finitely many: `RecordStep` adds one
to a history and one to the signals on their way, `Replay` turns a signal into a
count, and `SumChange` (in `DataLemmas`) says what changing one term does to a sum.

`SharedWidEngine_proofs` proves for the Go engine, under `MaxDepth = 1` (no run
inside a run; `shared_wid_nested` shows that this is needed): `TypeOK`,
`SeparateHistories` and the refinement of `DurableWorkflow`. The field survives
panics and earlier runs, so what `persist` reads in it follows only from an
invariant: `IInv` says that while a run is in progress the field is its id, its
copy is the durable history, its body agrees with the copy up to the cursor, and
a step function is called at its end (`CallAgrees`). The code has a stack of
calls; `PopLast` is the fact that ending the only call leaves nothing to agree
with, the one place where the bound on nesting is used for calls that end.

`SwallowedReplay_proofs` proves, for all sets of catching bodies: `TypeOK`,
`EffectsAccounted`, `ServedInOrder`, `ServedUnderTheirIds`, `CleanAnswersStand`, and
`Agreement`, which no run checks. Here a body may go on after its event was saved, so the copy
and the cursor of the frame no longer tell what the body has seen. `IInv` relates
them through `Answers`, the number of calls so far that were answered: the answers
are the recorded results of as many events from the first on (`ServedInOrder`).
`Agreement` adds that a clean answer of an earlier run is what the body computes from
a prefix of the durable history, and that a run in progress with the same id is on the
way to it; it is the invariant behind `CleanAnswersStand`.

### Wheels

`TimingWheel_proofs` proves `TypeOK`, `Accounted`, `NothingKept`, `FiresWhenDue`,
`OnePlace`, `CancelledNeverFires`, `InOrder` and `Spec => TimerSpec`, the refinement,
for every number of slots from 1 on. `NothingKept` alone is not inductive: that all
timers of a bucket are due when its slot comes needs that each of them belongs to the
slot and was less than a revolution ahead one tick earlier. `IInv` says that the lists
partition the timers still to fire (`Apart`), what each list may hold in each phase of
`tick` (`Phases`), that a bucket holds timers of its slot due less than a revolution
ahead (`InBuckets`), and that the place of each timer tells the instant its scheduling
fixed (`Punctual`). All this is its part `Partition`, which `PartitionInvariance`
proves first; the other part, `Ordered`, says that on every list peers stand in the
order they were scheduled, and that no list holds a timer whose earlier peer is on a
list that is looked through later, from which `InOrder` follows. The instants are
those of `WheelBasics`: `NextVisit`, the next turn of a slot, and `RehomedAt`, the
re-homing that takes a timer out of overflow. `DataLemmas` has their arithmetic, from
the uniqueness of quotient and remainder: the next visit stays the same until it
comes, and re-homing a timer leaves the instant of its visit as it was. The refinement
has a lemma per abstract action. `Schedule`, `Cancel`, `Expire` and `Pass` change what
the code's steps change; the sifting, the re-homing and the loops are stutters because
they change no `FiringTime`; and `PanicTimes` says that a panic, which skips a
re-homing, postpones a timer by one revolution or not at all.

`ReentrantWheel_proofs` proves `TypeOK`, `SizeAccounted`, `Punctual`, `OnePlace` and
`RunsOnceUnlessCancelled` for every depth of nested calls and every number of raises. The
lists of timers to fire are a stack here, so `Apart` says of it, too, that no list holds a timer
of one below (`Stacked`); `SetTopFacts`, `PushFacts` and `PopFacts` are what changing the
top call, calling and returning do to it. `InBuckets` needs no lower bound on deadlines: a
nested call may leave overdue timers in a bucket, and the comprehension takes them with
the others, so what it keeps is always empty. `Punctual` follows from `Timely`, which
speaks of places like its counterpart above, and holds as long as no call nests or raises.
`RunsOnceUnlessCancelled` needs `Started`, the other part of `IInv`: of the timers still to
fire, exactly those at the heads of calls in a callback have run, once. That a callback
returning from under several others takes off the right timer, and that no timer is
taken up twice, is where it uses that the lists are apart (`AroundFacts`, `HeadStarted`).

`FractionalWheel_proofs` proves `TypeOK`, `FirstVisits` and `FurtherVisits` for any
number of fractions, wherever they stand among the other timers. Neither property of the
visits is inductive: both say when a timer fires, and the step in which it does reads the
lists. `IInv` says where each timer is. The overflow list is in the order of scheduling,
and holds exactly the timers whose turn is still to come (`Waits`) and those for which
it came while some fraction stopped the loop (`Stuck`); a bucket holds no timer twice.
`Progress` relates the place of a timer to its visits: if it is in a bucket, the next
visit of its slot is the next it is due to have, and a `Stuck` timer has had one visit,
or waits for it in its bucket, per re-homing since its turn. This last
clause holds only while no fraction in front of the timer has come near (`Reached`):
from then on the loop ends before it gets to the timer, which keeps the visits it had,
so without `Reached` the clause is false.
`RehomeIInv` is the one lemma for both ends of the re-homing loop: it takes the list of the
timers that the loop gets to, all of them in `EndTick` and those in front of the first fraction
in `Throws`. `TurnComes` says that being near at the end of a revolution is having
one's turn by then, and `VisitAfterRehoming` that the bucket a timer is pushed to is
visited in the revolution that its visits so far call for. `Counted`, that `size` is the
number of timers less that of all visits, gives the bounds of `TypeOK` and
`SizeIsAtMostLive`: `size` is the number of live timers unless some timer is `Repeated`,
and then too small, never too large. This is what is left of the documented meaning of
`size` (see Findings).

`DataLemmas` has what engines and wheels need about sums and lists, and the arithmetic
of the wheels. Its induction is over
sets of numbers (`SetInduction`), not over properties, which makes it usable by the
provers: so the recursive functions behind `SumFunction` and `Only` have proved defining
equations (`SumsDef`, `OnlyDef`).

### Assumptions, and what is not proved

Assumptions on constants: `VersionsAssumption`, `EngineAssumption`, `SharedAssumption`,
`CatchingAssumption`, `FrameAssumption` (no frame is the value that stands for no frame)
and the `WheelAssumption` of each wheel; TLC evaluates them in the runs of their
modules. On behaviours: `Exclusive` for the Rust engine and `MaxDepth = 1` for the Go
one. The sums are over finite sets of workflows and engines.

Only model-checked: liveness (`EventuallyReturns`, `EventuallyLeaves`, `AdvanceEnds`),
which depends on fairness and so on `ENABLED`. Every safety invariant and action
property of the passing runs is a theorem.

## Plan

1. Done: `ReplayEngine`, `DurableWorkflow`, `TimingWheel`, the proofs above.
2. Done: `SharedWidEngine` and its proofs, `SwallowedReplay`, `ReentrantWheel`.
3. Done: `TimerService` and the refinement, `FractionalWheel`, inner steps in
   `SwallowedReplay`, nesting and liveness together in `ReentrantWheel`.
4. Done: proofs about `TimingWheel` with the refinement of `TimerService`, about
   `ReentrantWheel`, `FractionalWheel` and `SwallowedReplay`, and
   `ReplaysCountRecordings`.
5. Left: results shared by reference between body and store.
