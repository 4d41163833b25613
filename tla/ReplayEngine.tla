---------------------------- MODULE ReplayEngine ----------------------------
(***************************************************************************)
(* The replay engine of rust/src/engine.rs: WorkflowContext::step and      *)
(* Engine::run over a HistoryStore that several engines share.             *)
(*                                                                         *)
(* The store handle is an Rc, so all engines of a store live on one        *)
(* thread.  What interleaves is nested calls: a body, or the closure of a  *)
(* step, may run another workflow on another engine (`&mut self' keeps it  *)
(* off its own).  A frame is one call of Engine::run in progress; only the *)
(* innermost frame executes.  User code may fail wherever it runs, and the *)
(* process may crash at any point, with only the store surviving.          *)
(*                                                                         *)
(* execs, lost, returned and restored are history variables: no action     *)
(* reads them.  The operators under "Faults" are deliberate mistakes, each *)
(* a variant of the definition it is named after; nothing refers to them.  *)
(***************************************************************************)
EXTENDS Workflow

CONSTANTS
    Engines,    \* Engine instances over the shared store
    MaxFaults,  \* bound on failures of user code and crashes
    Exclusive   \* callers never overlap two runs of one workflow id

ASSUME EngineAssumption == /\ None \notin Engines
                           /\ MaxFaults \in Nat
                           /\ Exclusive \in BOOLEAN

VARIABLES
    data,       \* HistoryStore.data, the durable histories
    pc,         \* where the frame of each engine is
    frame,      \* the frame of each engine: its WorkflowContext and the body
    replays,    \* Engine.replays
    faults,     \* failures so far
    execs,      \* side effects performed for each workflow id
    lost,       \* those of them that a failure kept from being recorded
    returned,   \* how the workflow last returned
    restored    \* events of each workflow that were durable when the process started

ghosts == <<lost, returned, restored>>

vars == <<data, pc, frame, replays, faults, execs, ghosts>>

(***************************************************************************)
(* "body": in the workflow body; "in_f": in the closure of a step;         *)
(* "executed": the closure has performed its effect; "replay": the step is *)
(* saved and WorkflowError::Replay is on its way to Engine::run.           *)
(***************************************************************************)
PC == {"idle", "body", "in_f", "executed", "replay"}

(* A call of run: history and cursor are the WorkflowContext's, served is  *)
(* what step has returned to the body, result what the closure computed.   *)
Frame == [caller  : Engines \cup {None},
          wid     : Wids \cup {None},
          body    : Bodies \cup {None},
          history : Seq(HistoryEvent),
          cursor  : Nat,
          served  : Seq(Values),
          result  : Values \cup {None}]

NoFrame == [caller |-> None, wid |-> None, body |-> None, history |-> <<>>,
            cursor |-> 0, served |-> <<>>, result |-> None]

Active(e) == pc[e] # "idle"

(* e's frame is the innermost one. *)
Executing(e) == Active(e) /\ \A f \in Engines : Active(f) => frame[f].caller # e

Init ==
    /\ data = [w \in Wids |-> <<>>]
    /\ pc = [e \in Engines |-> "idle"]
    /\ frame = [e \in Engines |-> NoFrame]
    /\ replays = [e \in Engines |-> 0]
    /\ faults = 0
    /\ execs = [w \in Wids |-> 0]
    /\ lost = [w \in Wids |-> 0]
    /\ returned = [w \in Wids |-> None]
    /\ restored = [w \in Wids |-> 0]

-----------------------------------------------------------------------------
(* HistoryStore *)

Load(w) == data[w]

(* Faults: the new event replaces the history; the new event is not saved. *)
SaveOnlyLast(w, history) == data' = [data EXCEPT ![w] = <<Last(history)>>]
SaveStale(w, history) == data' = [data EXCEPT ![w] = Front(history)]

Save(w, history) == data' = [data EXCEPT ![w] = history]

-----------------------------------------------------------------------------
(* Engine::run, from the caller's side *)

(* The context of a new attempt: WorkflowContext::new. *)
Attempt(caller, w, b, history) ==
    [caller |-> caller, wid |-> w, body |-> b, history |-> history,
     cursor |-> 0, served |-> <<>>, result |-> None]

(* Who may call run: the program when nothing runs, else the running code. *)
MayCall(c) ==
    IF c = None THEN \A f \in Engines : ~ Active(f)
                ELSE Executing(c) /\ pc[c] \in {"body", "in_f"}

(* Fault: a resumed workflow starts from an empty history. *)
RunAfresh(c, e, w, b) ==
    /\ ~ Active(e) /\ MayCall(c) /\ b \in Versions[w]
    /\ Exclusive => \A f \in Engines : Active(f) => frame[f].wid # w
    /\ pc' = [pc EXCEPT ![e] = "body"]
    /\ frame' = [frame EXCEPT ![e] = Attempt(c, w, b, <<>>)]
    /\ UNCHANGED <<data, replays, faults, execs, ghosts>>

Run(c, e, w, b) ==
    /\ ~ Active(e)
    /\ MayCall(c)
    /\ b \in Versions[w]
    /\ Exclusive => \A f \in Engines : Active(f) => frame[f].wid # w
    /\ pc' = [pc EXCEPT ![e] = "body"]
    /\ frame' = [frame EXCEPT ![e] = Attempt(c, w, b, Load(w))]
    /\ UNCHANGED <<data, replays, faults, execs, ghosts>>

(* The call of run ends, whatever its outcome. *)
End(e) ==
    /\ pc' = [pc EXCEPT ![e] = "idle"]
    /\ frame' = [frame EXCEPT ![e] = NoFrame]

-----------------------------------------------------------------------------
(* WorkflowContext::step *)

Calls(e, id) ==
    /\ Executing(e)
    /\ pc[e] = "body"
    /\ Do(frame[e].body, frame[e].served) = StepOp(id)

(* Faults: the last event does not count as recorded; the position in      *)
(* history does not move with the cursor.                                  *)
RecordedButLast(e) == frame[e].cursor + 1 < Len(frame[e].history)
FirstEvent(e) == frame[e].history[1]

Recorded(e) == frame[e].cursor < Len(frame[e].history)

(* The event at the cursor. *)
Event(e) == frame[e].history[frame[e].cursor + 1]

(* Fault: the step id is not compared. *)
ServeUnchecked(e) ==
    /\ \E id \in StepIds : Calls(e, id) /\ Recorded(e)
    /\ frame' = [frame EXCEPT ![e].cursor = @ + 1,
                              ![e].served = Append(@, Event(e).result)]
    /\ UNCHANGED <<data, pc, replays, faults, execs, ghosts>>

(* A recorded step is served from history. *)
ServeStep(e) ==
    /\ \E id \in StepIds : Calls(e, id) /\ Recorded(e) /\ Event(e).step_id = id
    /\ frame' = [frame EXCEPT ![e].cursor = @ + 1,
                              ![e].served = Append(@, Event(e).result)]
    /\ UNCHANGED <<data, pc, replays, faults, execs, ghosts>>

(* The recorded step is another one: NonDeterministic propagates to the    *)
(* caller of run.                                                          *)
Mismatch(e) ==
    /\ \E id \in StepIds : Calls(e, id) /\ Recorded(e) /\ Event(e).step_id # id
    /\ End(e)
    /\ UNCHANGED <<data, replays, faults, execs, ghosts>>

(* A new step: its closure is called ... *)
CallStep(e) ==
    /\ \E id \in StepIds : Calls(e, id) /\ ~ Recorded(e)
    /\ pc' = [pc EXCEPT ![e] = "in_f"]
    /\ UNCHANGED <<data, frame, replays, faults, execs, ghosts>>

(* Fault: the result of the closure is dropped. *)
EffectWithoutResult(e) ==
    /\ Executing(e) /\ pc[e] = "in_f"
    /\ pc' = [pc EXCEPT ![e] = "executed"]
    /\ execs' = [execs EXCEPT ![frame[e].wid] = @ + 1]
    /\ UNCHANGED <<data, frame, replays, faults, ghosts>>

(* ... performs its side effect and computes its result ... *)
Effect(e) ==
    /\ Executing(e)
    /\ pc[e] = "in_f"
    /\ \E v \in Values : frame' = [frame EXCEPT ![e].result = v]
    /\ pc' = [pc EXCEPT ![e] = "executed"]
    /\ execs' = [execs EXCEPT ![frame[e].wid] = @ + 1]
    /\ UNCHANGED <<data, replays, faults, ghosts>>

(* ... which is pushed, saved and signalled by WorkflowError::Replay. *)
RecordStep(e) ==
    /\ Executing(e)
    /\ pc[e] = "executed"
    /\ \E id \in StepIds :
          /\ Do(frame[e].body, frame[e].served) = StepOp(id)
          /\ LET event == [seq |-> Len(frame[e].history), step_id |-> id,
                           result |-> frame[e].result]
                 history == Append(frame[e].history, event)
             IN  /\ frame' = [frame EXCEPT ![e].history = history]
                 /\ Save(frame[e].wid, history)
    /\ pc' = [pc EXCEPT ![e] = "replay"]
    /\ UNCHANGED <<replays, faults, execs, ghosts>>

-----------------------------------------------------------------------------
(* Engine::run, the loop *)

(* Fault: the count is taken from the history and not from the loop. *)
ReplayUncounted(e) ==
    /\ Executing(e) /\ pc[e] = "replay"
    /\ replays' = [replays EXCEPT ![e] = Len(data[frame[e].wid])]
    /\ pc' = [pc EXCEPT ![e] = "body"]
    /\ frame' = [frame EXCEPT ![e] =
                    Attempt(@.caller, @.wid, @.body, Load(@.wid))]
    /\ UNCHANGED <<data, faults, execs, ghosts>>

(* The Replay arm: count, reload what is durable, start from the top. *)
Replay(e) ==
    /\ Executing(e)
    /\ pc[e] = "replay"
    /\ replays' = [replays EXCEPT ![e] = @ + 1]
    /\ pc' = [pc EXCEPT ![e] = "body"]
    /\ frame' = [frame EXCEPT ![e] =
                    Attempt(@.caller, @.wid, @.body, Load(@.wid))]
    /\ UNCHANGED <<data, faults, execs, ghosts>>

(* The Ok arm. *)
Return(e) ==
    /\ Executing(e)
    /\ pc[e] = "body"
    /\ Do(frame[e].body, frame[e].served) = ReturnOp
    /\ returned' = [returned EXCEPT ![frame[e].wid] =
                       [body |-> frame[e].body, results |-> frame[e].served]]
    /\ End(e)
    /\ UNCHANGED <<data, replays, faults, execs, lost, restored>>

-----------------------------------------------------------------------------
(* Failures *)

(* 1 if e has performed an effect that is not in the store yet. *)
Pending(e, w) == IF pc[e] = "executed" /\ frame[e].wid = w THEN 1 ELSE 0

(* The body returns Err(Crash), or the closure panics: before its effect   *)
(* or after it.  Nothing in Engine::run catches either.                    *)
Fail(e) ==
    /\ faults < MaxFaults
    /\ Executing(e)
    /\ pc[e] \in {"body", "in_f", "executed"}
    /\ faults' = faults + 1
    /\ lost' = [w \in Wids |-> lost[w] + Pending(e, w)]
    /\ End(e)
    /\ UNCHANGED <<data, replays, execs, returned, restored>>

(* The process dies and restarts with new engines over the same store. *)
Crash ==
    /\ faults < MaxFaults
    /\ \E e \in Engines : Active(e)
    /\ faults' = faults + 1
    /\ lost' = [w \in Wids |-> lost[w] +
                   IF \E e \in Engines : Pending(e, w) = 1 THEN 1 ELSE 0]
    /\ pc' = [e \in Engines |-> "idle"]
    /\ frame' = [e \in Engines |-> NoFrame]
    /\ replays' = [e \in Engines |-> 0]
    /\ restored' = [w \in Wids |-> Len(data[w])]
    /\ UNCHANGED <<data, execs, returned>>

-----------------------------------------------------------------------------

Step(e) == \/ ServeStep(e) \/ Mismatch(e) \/ CallStep(e) \/ Effect(e)
           \/ RecordStep(e) \/ Replay(e) \/ Return(e)

Next ==
    \/ \E c \in Engines \cup {None}, e \in Engines, w \in Wids :
          \E b \in Versions[w] : Run(c, e, w, b)
    \/ \E e \in Engines : Step(e) \/ Fail(e)
    \/ Crash

Spec == Init /\ [][Next]_vars

(***************************************************************************)
(* Step closures and bodies terminate and call run finitely often, so a    *)
(* frame that can step again and again does; and the client keeps          *)
(* resuming every workflow.  Nothing forces a failure or a nested run.     *)
(***************************************************************************)
Fairness ==
    /\ \A e \in Engines : SF_vars(Step(e))
    /\ \A w \in Wids :
          SF_vars(\E e \in Engines : \E b \in Versions[w] : Run(None, e, w, b))

LiveSpec == Spec /\ Fairness

-----------------------------------------------------------------------------
(* Safety *)

TypeOK ==
    /\ data \in [Wids -> Seq(HistoryEvent)]
    /\ pc \in [Engines -> PC]
    /\ frame \in [Engines -> Frame]
    /\ replays \in [Engines -> Nat]
    /\ faults \in 0..MaxFaults
    /\ execs \in [Wids -> Nat]
    /\ lost \in [Wids -> Nat]
    /\ returned \in [Wids -> [body : Bodies, results : Seq(Values)] \cup {None}]
    /\ restored \in [Wids -> Nat]

(* Every side effect is accounted for: it is in the durable history, or a  *)
(* failure struck between the effect and its save, or it is about to be    *)
(* saved.  So without a failure every step runs exactly once, whatever is  *)
(* nested, replayed or resumed, and each failure costs one repetition of   *)
(* one step at most (WorkflowContext::step against Engine::run's reload).  *)
EffectsAccounted ==
    \A w \in Wids :
        execs[w] = Len(data[w]) + lost[w]
                     + (IF \E e \in Engines : Pending(e, w) = 1 THEN 1 ELSE 0)

(* A closure is only ever called for the step that continues the whole     *)
(* durable history: the body agrees with every recorded event and was      *)
(* given exactly the recorded results, even if the code changed since they *)
(* were recorded or other workflows ran meanwhile (the guards of step).    *)
LiveStepExtendsHistory ==
    \A e \in Engines : pc[e] \in {"in_f", "executed"} =>
        LET durable == data[frame[e].wid]
        IN  /\ Follows(frame[e].body, durable, Len(durable))
            /\ frame[e].served = Results(durable, Len(durable))

(* Code that did not change is never rejected as non-deterministic, after  *)
(* any failures, resumptions and nested runs (the step_id test of step).   *)
NoFalseAlarm ==
    \A e \in Engines, id \in StepIds :
        Calls(e, id) /\ Recorded(e) /\ Unchanged(frame[e].wid)
            => Event(e).step_id = id

(* Engine::replays "equals the number of steps that had to be recorded":   *)
(* over all engines, one replay for each event that was not yet durable    *)
(* when the process started (less the one on its way), however runs nest,  *)
(* fail and repeat.                                                        *)
ReplaysCountRecordings ==
    SumFunction([w \in Wids |-> Len(data[w])]) =
        SumFunction(restored) + SumFunction(replays)
            + SumFunction([e \in Engines |-> IF pc[e] = "replay" THEN 1 ELSE 0])

(* A durable history only grows at its end (the "append-only store" that   *)
(* HistoryStore is documented to be, whose save replaces whole histories). *)
AppendOnly == [][\A w \in Wids : IsPrefix(data[w], data'[w])]_vars

(* Once a workflow whose code does not change has returned, running it     *)
(* again gives the same answer from the same results and performs no side  *)
(* effect (Engine::resume of a completed workflow).                        *)
CompletedForGood ==
    [][\A w \in Wids : Unchanged(w) /\ returned[w] # None =>
          returned'[w] = returned[w] /\ execs'[w] = execs[w]]_vars

(* Engines, replays, failures and nesting are invisible in what is durable *)
(* and what workflows return: the engine implements DurableWorkflow.       *)
Abstract == INSTANCE DurableWorkflow WITH log <- data

DurableSpec == Abstract!DSpec

-----------------------------------------------------------------------------
(* The inductive invariant *)

(* What a frame knows: its copy of the history is the durable one, and its *)
(* body has been given exactly the results before the cursor.              *)
FrameAgrees(e) ==
    LET f == frame[e]
    IN  /\ f.wid \in Wids
        /\ f.body \in Versions[f.wid]
        /\ f.history = data[f.wid]
        /\ f.cursor \in 0..Len(f.history)
        /\ f.served = Results(f.history, f.cursor)
        /\ Follows(f.body, f.history, f.cursor)

(* A live step is at the end of the history, with a result once executed. *)
LiveStep(e) ==
    /\ pc[e] \in {"in_f", "executed"} =>
          /\ frame[e].cursor = Len(frame[e].history)
          /\ \E id \in StepIds : Do(frame[e].body, frame[e].served) = StepOp(id)
    /\ pc[e] = "executed" => frame[e].result \in Values

(* The body whose run left an answer would be given the same results again. *)
Answered(w) ==
    \E b \in Versions[w] :
        /\ Do(b, Results(data[w], Len(data[w]))) = ReturnOp
        /\ returned[w] = [body |-> b, results |-> Results(data[w], Len(data[w]))]

FramesAgree == \A e \in Engines : Active(e) => FrameAgrees(e) /\ LiveStep(e)

NoOverlap ==
    \A e, f \in Engines : Active(e) /\ Active(f) /\ e # f
                            => frame[e].wid # frame[f].wid

StoreAgrees(w) ==
    /\ \A b \in Versions[w] : Follows(b, data[w], Len(data[w]))
    /\ returned[w] # None => Answered(w)

(* When no two runs of a workflow overlap, the reason for all of the above: *)
(* the frames agree with the store, and the store with unchanged code.      *)
IInv ==
    /\ TypeOK
    /\ FramesAgree
    /\ NoOverlap
    /\ \A w \in Wids : Unchanged(w) => StoreAgrees(w)
    /\ EffectsAccounted

-----------------------------------------------------------------------------
(* Liveness *)

(* A workflow that the client keeps resuming returns in the end, however   *)
(* its attempts fail (finitely often) and whatever runs in between.        *)
EventuallyReturns == \A w \in Wids : Unchanged(w) => <>(returned[w] # None)

-----------------------------------------------------------------------------
(* What the documentation says, and the code does not do *)

(* DESIGN.md, "Survive a crash at any point and resume without repeating a *)
(* completed side effect": no more effects than the recorded steps and the *)
(* one being executed (step runs the closure before it records anything).  *)
NeverRepeatsEffect == \A w \in Wids : execs[w] <= Len(data[w]) + 1

(* DESIGN.md, "a changed shape is correctly detected as non-determinism":  *)
(* a body that returns has used the whole history (Engine::run's Ok arm).  *)
ChangedShapeDetected ==
    [][\A w \in Wids : returned'[w] # returned[w] =>
          Len(returned'[w].results) = Len(data[w])]_vars

=============================================================================
