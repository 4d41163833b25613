-------------------------- MODULE SwallowedReplay --------------------------
(***************************************************************************)
(* The replay engine of ts/src/engine.ts with bodies that catch what step  *)
(* throws, as ordinary code does to retry a step or to fall back on        *)
(* another one.  The signal of the engine, ReplayError, is thrown through  *)
(* the body like any other error, and the package does not export it: such *)
(* a body swallows it and goes on in the same attempt, in a context whose  *)
(* history has grown and whose cursor has not moved.                       *)
(*                                                                         *)
(* A body in Catching catches everything that step throws, NonDeterminis-  *)
(* ticWorkflowError and errors of the step function included; the others   *)
(* catch nothing.  Do(b, outcomes) is what b does next when its calls of   *)
(* step ended with `outcomes': values returned, or None for a throw.  Step *)
(* functions catch nothing, but may call step on the context that is       *)
(* executing them.  Runs do not nest here.                                 *)
(*                                                                         *)
(* execs, lost and returned are history variables.  The operators under    *)
(* "Fault" are deliberate mistakes, used by nothing.                       *)
(***************************************************************************)
EXTENDS Workflow, FiniteSets

CONSTANTS
    Catching,   \* the bodies that catch what step throws
    MaxFaults   \* bound on errors of user code and crashes

ASSUME CatchingAssumption == /\ Catching \subseteq Bodies
                             /\ MaxFaults \in Nat
                             /\ None \notin Values

VARIABLES
    data,       \* HistoryStore.data
    frame,      \* the call of run in progress, or None
    replays,    \* Engine.replays
    faults,     \* errors of user code and crashes so far
    execs,      \* side effects performed for each workflow id
    lost,       \* those of them that a failure kept from being recorded
    returned    \* how each workflow last returned

vars == <<data, frame, replays, faults, execs, lost, returned>>

Outcomes == Seq(Values \cup {None})

(* "body": in the body; "fn": in the function of the step `id'; "called":  *)
(* it has had its effect and computed its result.                          *)
Frame == [pc       : {"body", "fn", "called"},
          wid      : Wids,
          body     : Bodies,
          history  : Seq(HistoryEvent),
          cursor   : Nat,
          outcomes : Outcomes,
          id       : StepIds \cup {None},
          result   : Values \cup {None}]

ASSUME FrameAssumption == None \notin Frame

Running == frame # None

Init ==
    /\ data = [w \in Wids |-> <<>>]
    /\ frame = None
    /\ replays = 0
    /\ faults = 0
    /\ execs = [w \in Wids |-> 0]
    /\ lost = [w \in Wids |-> 0]
    /\ returned = [w \in Wids |-> None]

-----------------------------------------------------------------------------
(* HistoryStore *)

load(w) == data[w]

(* Fault: the history is saved without its newest event. *)
saveStale(w, history) == data' = [data EXCEPT ![w] = Front(history)]

save(w, history) == data' = [data EXCEPT ![w] = history]

-----------------------------------------------------------------------------
(* Engine.run *)

Attempt(w, b, history) ==
    [pc |-> "body", wid |-> w, body |-> b, history |-> history, cursor |-> 0,
     outcomes |-> <<>>, id |-> None, result |-> None]

(* Fault: a resumed workflow starts from an empty history. *)
RunAfresh(w, b) ==
    /\ ~ Running /\ b \in Versions[w]
    /\ frame' = Attempt(w, b, <<>>)
    /\ UNCHANGED <<data, replays, faults, execs, lost, returned>>

Run(w, b) ==
    /\ ~ Running
    /\ b \in Versions[w]
    /\ frame' = Attempt(w, b, load(w))
    /\ UNCHANGED <<data, replays, faults, execs, lost, returned>>

Return ==
    /\ Running
    /\ frame.pc = "body"
    /\ Do(frame.body, frame.outcomes) = ReturnOp
    /\ returned' = [returned EXCEPT ![frame.wid] = frame.outcomes]
    /\ frame' = None
    /\ UNCHANGED <<data, replays, faults, execs, lost>>

-----------------------------------------------------------------------------
(* WorkflowContext.step *)

Calls(id) == /\ Running
             /\ frame.pc = "body"
             /\ Do(frame.body, frame.outcomes) = StepOp(id)

Recorded == frame.cursor < Len(frame.history)
Event == frame.history[frame.cursor + 1]

(* A throw out of step in a body that catches it. *)
Caught(f) == [f EXCEPT !.pc = "body", !.id = None, !.result = None,
                       !.outcomes = Append(@, None)]

(* Any throw but ReplayError: caught by the body, or it leaves run. *)
Throw(f) == frame' = IF f.body \in Catching THEN Caught(f) ELSE None

(* Fault: the step ids are not compared. *)
ServeAnyId ==
    /\ \E id \in StepIds : Calls(id) /\ Recorded
    /\ frame' = [frame EXCEPT !.cursor = @ + 1,
                              !.outcomes = Append(@, Event.result)]
    /\ UNCHANGED <<data, replays, faults, execs, lost, returned>>

Serve ==
    /\ \E id \in StepIds : Calls(id) /\ Recorded /\ Event.step_id = id
    /\ frame' = [frame EXCEPT !.cursor = @ + 1,
                              !.outcomes = Append(@, Event.result)]
    /\ UNCHANGED <<data, replays, faults, execs, lost, returned>>

(* Fault: the cursor moves before the step ids are compared. *)
MismatchMovesCursor ==
    /\ \E id \in StepIds : Calls(id) /\ Recorded /\ Event.step_id # id
    /\ Throw([frame EXCEPT !.cursor = @ + 1])
    /\ UNCHANGED <<data, replays, faults, execs, lost, returned>>

Mismatch ==
    /\ \E id \in StepIds : Calls(id) /\ Recorded /\ Event.step_id # id
    /\ Throw(frame)
    /\ UNCHANGED <<data, replays, faults, execs, lost, returned>>

CallFn ==
    /\ Running
    /\ ~ Recorded
    /\ \E id \in StepIds : Calls(id) /\ frame' = [frame EXCEPT !.pc = "fn", !.id = id]
    /\ UNCHANGED <<data, replays, faults, execs, lost, returned>>

(* Fault: the result of the step function is dropped. *)
FnReturnsNothing ==
    /\ Running /\ frame.pc = "fn"
    /\ frame' = [frame EXCEPT !.pc = "called"]
    /\ execs' = [execs EXCEPT ![frame.wid] = @ + 1]
    /\ UNCHANGED <<data, replays, faults, lost, returned>>

FnReturns ==
    /\ Running
    /\ frame.pc = "fn"
    /\ \E v \in Values : frame' = [frame EXCEPT !.pc = "called", !.result = v]
    /\ execs' = [execs EXCEPT ![frame.wid] = @ + 1]
    /\ UNCHANGED <<data, replays, faults, lost, returned>>

(* The history that persist saves, with the new event pushed. *)
Pushed == Append(frame.history, [seq |-> Len(frame.history), step_id |-> frame.id,
                                 result |-> frame.result])

(* Push, persist, throw ReplayError: a body that does not catch it is run  *)
(* again from the top over what is durable; one that does continues.       *)
Record ==
    /\ Running
    /\ frame.pc = "called"
    /\ save(frame.wid, Pushed)
    /\ \/ /\ frame.body \in Catching
          /\ frame' = Caught([frame EXCEPT !.history = Pushed])
          /\ UNCHANGED replays
       \/ /\ frame.body \notin Catching
          /\ frame' = Attempt(frame.wid, frame.body, data'[frame.wid])
          /\ replays' = replays + 1
    /\ UNCHANGED <<faults, execs, lost, returned>>

-----------------------------------------------------------------------------
(* Failures *)

Pending(w) == IF Running /\ frame.pc = "called" /\ frame.wid = w THEN 1 ELSE 0

Fault == /\ faults < MaxFaults
         /\ Running
         /\ faults' = faults + 1
         /\ lost' = [w \in Wids |-> lost[w] + Pending(w)]

(* The step function throws, before its effect or after it. *)
FnThrows ==
    /\ Fault
    /\ frame.pc \in {"fn", "called"}
    /\ Throw(frame)
    /\ UNCHANGED <<data, replays, execs, returned>>

(* The step function calls step on the context that is executing it, where *)
(* nothing is recorded under the cursor, so the inner function is called.  *)
(* Its event will be recorded where the outer one's belongs, and the       *)
(* ReplayError that follows passes through the outer function too.         *)
InnerStep(id) ==
    /\ Fault
    /\ frame.pc \in {"fn", "called"}
    /\ ~ Recorded
    /\ frame' = [frame EXCEPT !.pc = "fn", !.id = id, !.result = None]
    /\ UNCHANGED <<data, replays, execs, returned>>

(* The body throws between two steps. *)
BodyThrows ==
    /\ Fault
    /\ frame.pc = "body"
    /\ frame' = None
    /\ UNCHANGED <<data, replays, execs, returned>>

(* The process dies; a new engine is built over the store. *)
Crash ==
    /\ Fault
    /\ frame' = None
    /\ replays' = 0
    /\ UNCHANGED <<data, execs, returned>>

-----------------------------------------------------------------------------

Next ==
    \/ \E w \in Wids : \E b \in Versions[w] : Run(w, b)
    \/ Serve \/ Mismatch \/ CallFn \/ FnReturns \/ Record \/ Return
    \/ FnThrows \/ (\E id \in StepIds : InnerStep(id)) \/ BodyThrows \/ Crash

Spec == Init /\ [][Next]_vars

-----------------------------------------------------------------------------
(* Properties *)

TypeOK ==
    /\ data \in [Wids -> Seq(HistoryEvent)]
    /\ frame \in Frame \cup {None}
    /\ replays \in Nat
    /\ faults \in 0..MaxFaults
    /\ execs \in [Wids -> Nat]
    /\ lost \in [Wids -> Nat]
    /\ returned \in [Wids -> Outcomes \cup {None}]

(* Catching the signal never repeats an effect: the event is in the        *)
(* context's history, before which the cursor stays, so that a further     *)
(* call of step meets it (push against cursor in step).                    *)
EffectsAccounted ==
    \A w \in Wids : execs[w] = Len(data[w]) + lost[w] + Pending(w)

(* How many of the first n calls of step gave the body a value. *)
Answers(outcomes, n) == Cardinality({i \in 1..n : outcomes[i] # None})

(* However signals and mismatches are swallowed, the values a body gets    *)
(* are the recorded ones, in order and without a gap, and a step function  *)
(* is called only when all of them were served (the cursor of step).       *)
ServedInOrder ==
    Running =>
        /\ frame.history = data[frame.wid]
        /\ Answers(frame.outcomes, Len(frame.outcomes)) = frame.cursor
        /\ frame.cursor <= Len(frame.history)
        /\ \A n \in DOMAIN frame.outcomes :
              frame.outcomes[n] # None =>
                  frame.outcomes[n] = frame.history[Answers(frame.outcomes, n)].result
        /\ frame.pc # "body" => frame.cursor = Len(frame.history)

(* Whatever step functions record in front of the step that they belong    *)
(* to, no step is answered with the result of another one: what a body got *)
(* was recorded under the id it asked for (the position in history at      *)
(* which an inner step is pushed).                                         *)
ServedUnderTheirIds ==
    Running =>
        \A n \in DOMAIN frame.outcomes :
            frame.outcomes[n] # None =>
                Do(frame.body, SubSeq(frame.outcomes, 1, n - 1))
                    = StepOp(frame.history[Answers(frame.outcomes, n)].step_id)

(* A workflow returned without having caught anything that step threw. *)
Clean(w) == returned[w] # None /\ \A i \in DOMAIN returned[w] : returned[w][i] # None

(* An answer computed without swallowing anything stands: running the      *)
(* workflow again gives it again and performs no effect, even if earlier   *)
(* attempts swallowed signals and errors.                                  *)
CleanAnswersStand ==
    [][\A w \in Wids :
          Unchanged(w) /\ Clean(w) =>
              returned'[w] = returned[w] /\ execs'[w] = execs[w]]_vars

-----------------------------------------------------------------------------
(* The inductive invariant *)

(* A step function is called under the id of a step, with a result once it *)
(* has computed one, and by a body of its workflow.                        *)
FrameAgrees ==
    /\ frame.body \in Versions[frame.wid]
    /\ frame.pc # "body" => frame.id \in StepIds
    /\ frame.pc = "called" => frame.result \in Values

(* A clean answer is what the body computes from the history that is       *)
(* durable, and a later attempt is on the way to it.                       *)
AnswerIsDurable(w) ==
    LET n == Len(returned[w])
    IN  /\ n <= Len(data[w])
        /\ returned[w] = Results(data[w], n)
        /\ \A b \in Versions[w] : /\ Follows(b, data[w], n)
                                  /\ Do(b, returned[w]) = ReturnOp
        /\ Running /\ frame.wid = w =>
              /\ frame.pc = "body"
              /\ frame.cursor <= n
              /\ frame.outcomes = Results(data[w], frame.cursor)

(* A clean answer stays what the durable history determines, whatever runs *)
(* and fails meanwhile (the early exit of step against the history that    *)
(* grows while it is consumed).                                            *)
Agreement ==
    /\ Running => FrameAgrees
    /\ \A w \in Wids : Unchanged(w) /\ Clean(w) => AnswerIsDurable(w)

IInv == /\ TypeOK
        /\ EffectsAccounted
        /\ ServedInOrder
        /\ ServedUnderTheirIds
        /\ Agreement

-----------------------------------------------------------------------------
(* What the documentation says, and the code does not do *)

(* NonDeterministicWorkflowError "signals a changed workflow shape": it is *)
(* not thrown if the code is the same (a body that falls back on another   *)
(* step when it catches the signal).                                       *)
OnlyChangedShapeRejected ==
    \A id \in StepIds :
        Calls(id) /\ Recorded /\ Unchanged(frame.wid) => Event.step_id = id

=============================================================================
