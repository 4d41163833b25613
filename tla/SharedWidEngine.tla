-------------------------- MODULE SharedWidEngine --------------------------
(***************************************************************************)
(* The replay engine of go/engine.go, where the workflow id is a field of  *)
(* the Engine: Run sets it, persist reads it after the step function was   *)
(* called, and nothing resets it.  Go lets a workflow body or a step       *)
(* function call Run on the engine that is running it (Rust's `&mut self'  *)
(* does not), so one engine has a stack of calls of Run in progress, which *)
(* share the field.  Unlike ReplayEngine this is about a single engine.    *)
(*                                                                         *)
(* Between the append in Step and the reload in Run no user code runs and  *)
(* only the save is durable, so that stretch is one action.  A panic       *)
(* unwinds one call of Run, whose caller may recover from it or go on      *)
(* panicking.                                                              *)
(*                                                                         *)
(* returned is a history variable.  The operators under "Fault" are        *)
(* deliberate mistakes in the definition after them, used by nothing.      *)
(***************************************************************************)
EXTENDS Workflow

CONSTANTS
    MaxDepth,   \* calls of Run in progress at once; 1: no nesting
    MaxFaults   \* bound on panics of user code and crashes

ASSUME SharedAssumption == /\ MaxDepth \in Nat \ {0}
                           /\ MaxFaults \in Nat
                           /\ None \notin Wids

VARIABLES
    data,       \* HistoryStore.data
    wid,        \* Engine.wid
    Replays,    \* Engine.Replays
    calls,      \* the calls of Run in progress, the innermost last
    faults,     \* panics of user code and crashes so far
    returned    \* how each workflow last returned

vars == <<data, wid, Replays, calls, faults, returned>>

(* "body": in the workflow body; "fn": in a step function; "called": the   *)
(* step function has computed its result.                                  *)
Call == [pc      : {"body", "fn", "called"},
         wid     : Wids,                \* the argument of Run
         body    : Bodies,
         history : Seq(HistoryEvent),   \* WorkflowContext.history
         served  : Seq(Values),         \* what Step returned to the body
         result  : Values \cup {None}]

Running == calls # <<>>
Top == Last(calls)

(* WorkflowContext.cursor: Step moves it whenever it serves a result. *)
Cursor == Len(Top.served)

SetTop(c) == calls' = Front(calls) \o <<c>>
Pop == calls' = Front(calls)

Init ==
    /\ data = [w \in Wids |-> <<>>]
    /\ wid = None
    /\ Replays = 0
    /\ calls = <<>>
    /\ faults = 0
    /\ returned = [w \in Wids |-> None]

-----------------------------------------------------------------------------
(* HistoryStore, and Engine.persist *)

Load(w) == data[w]

Save(w, history) == data' = [data EXCEPT ![w] = history]

persist(history) == Save(wid, history)

-----------------------------------------------------------------------------
(* Engine.Run *)

(* A new context over a history, at the top of the body. *)
Attempt(w, b, history) == [pc |-> "body", wid |-> w, body |-> b,
                           history |-> history, served |-> <<>>, result |-> None]

(* Fault: the field is set once, when the engine is first used. *)
RunSetsWidOnce(w, b) ==
    /\ Len(calls) < MaxDepth /\ b \in Versions[w]
    /\ Running => Top.pc \in {"body", "fn"}
    /\ wid' = IF wid = None THEN w ELSE wid
    /\ calls' = Append(calls, Attempt(w, b, Load(w)))
    /\ UNCHANGED <<data, Replays, faults, returned>>

Run(w, b) ==
    /\ Len(calls) < MaxDepth
    /\ Running => Top.pc \in {"body", "fn"}
    /\ b \in Versions[w]
    /\ wid' = w
    /\ calls' = Append(calls, Attempt(w, b, Load(w)))
    /\ UNCHANGED <<data, Replays, faults, returned>>

Return ==
    /\ Running
    /\ Top.pc = "body"
    /\ Do(Top.body, Top.served) = ReturnOp
    /\ returned' = [returned EXCEPT ![Top.wid] =
                       [body |-> Top.body, results |-> Top.served]]
    /\ Pop
    /\ UNCHANGED <<data, wid, Replays, faults>>

-----------------------------------------------------------------------------
(* WorkflowContext.Step *)

Steps(id) == /\ Running
             /\ Top.pc = "body"
             /\ Do(Top.body, Top.served) = StepOp(id)

(* Fault: the last event does not count as recorded. *)
RecordedButLast == Cursor + 1 < Len(Top.history)

Recorded == Cursor < Len(Top.history)
Event == Top.history[Cursor + 1]

(* Fault: step ids are not compared. *)
ServeUnchecked ==
    /\ \E id \in StepIds : Steps(id) /\ Recorded
    /\ SetTop([Top EXCEPT !.served = Append(@, Event.result)])
    /\ UNCHANGED <<data, wid, Replays, faults, returned>>

Serve ==
    /\ \E id \in StepIds : Steps(id) /\ Recorded /\ Event.step_id = id
    /\ SetTop([Top EXCEPT !.served = Append(@, Event.result)])
    /\ UNCHANGED <<data, wid, Replays, faults, returned>>

(* NonDeterministicWorkflowError is panicked and leaves Run. *)
Mismatch ==
    /\ \E id \in StepIds : Steps(id) /\ Recorded /\ Event.step_id # id
    /\ Pop
    /\ UNCHANGED <<data, wid, Replays, faults, returned>>

CallFn ==
    /\ \E id \in StepIds : Steps(id) /\ ~ Recorded
    /\ SetTop([Top EXCEPT !.pc = "fn"])
    /\ UNCHANGED <<data, wid, Replays, faults, returned>>

(* Fault: the result of the step function is dropped. *)
FnReturnsNothing ==
    /\ Running /\ Top.pc = "fn"
    /\ SetTop([Top EXCEPT !.pc = "called"])
    /\ UNCHANGED <<data, wid, Replays, faults, returned>>

FnReturns ==
    /\ Running
    /\ Top.pc = "fn"
    /\ \E v \in Values : SetTop([Top EXCEPT !.pc = "called", !.result = v])
    /\ UNCHANGED <<data, wid, Replays, faults, returned>>

(* Append, persist under the engine's workflow id, panic(replaySignal{}),  *)
(* recover in attempt, count, and reload under the argument of Run.        *)
Record ==
    /\ Running
    /\ Top.pc = "called"
    /\ \E id \in StepIds :
          /\ Do(Top.body, Top.served) = StepOp(id)
          /\ persist(Append(Top.history, [seq     |-> Len(Top.history),
                                          step_id |-> id,
                                          result  |-> Top.result]))
    /\ Replays' = Replays + 1
    /\ SetTop(Attempt(Top.wid, Top.body, data'[Top.wid]))
    /\ UNCHANGED <<wid, faults, returned>>

-----------------------------------------------------------------------------
(* Failures *)

(* The body or the step function panics; attempt lets it through. *)
Panic ==
    /\ faults < MaxFaults
    /\ Running
    /\ faults' = faults + 1
    /\ Pop
    /\ UNCHANGED <<data, wid, Replays, returned>>

(* The process dies; a new engine is built over the store. *)
Crash ==
    /\ faults < MaxFaults
    /\ Running
    /\ faults' = faults + 1
    /\ wid' = None
    /\ Replays' = 0
    /\ calls' = <<>>
    /\ UNCHANGED <<data, returned>>

-----------------------------------------------------------------------------

Next ==
    \/ \E w \in Wids : \E b \in Versions[w] : Run(w, b)
    \/ Serve \/ Mismatch \/ CallFn \/ FnReturns \/ Record \/ Return
    \/ Panic \/ Crash

Spec == Init /\ [][Next]_vars

-----------------------------------------------------------------------------
(* Properties *)

TypeOK ==
    /\ data \in [Wids -> Seq(HistoryEvent)]
    /\ wid \in Wids \cup {None}
    /\ Replays \in Nat
    /\ calls \in Seq(Call)
    /\ Len(calls) <= MaxDepth
    /\ faults \in 0..MaxFaults
    /\ returned \in [Wids -> [body : Bodies, results : Seq(Values)] \cup {None}]

(* Only a run of a workflow writes the history of that workflow, whatever  *)
(* ran, panicked and was resumed on the engine before (persist against the *)
(* field that earlier and inner runs leave behind).  It fails when Run is  *)
(* called from a body or a step function on its own engine: the outer run  *)
(* then saves its history over that of the inner workflow.                 *)
SeparateHistories ==
    [][\A w \in Wids : data'[w] # data[w] => Running /\ Top.wid = w]_vars

(* One engine that runs workflows one after the other, resuming them after *)
(* panics and crashes, implements the durable logs.                        *)
Abstract == INSTANCE DurableWorkflow WITH log <- data

DurableSpec == Abstract!DSpec

-----------------------------------------------------------------------------
(* The inductive invariant without nesting *)

(* What the call in progress knows: its copy of the history is durable,    *)
(* its body agrees with it as far as it was served, and a step function is *)
(* called at its end.                                                      *)
CallAgrees ==
    LET h == Top.history
    IN  /\ Top.body \in Versions[Top.wid]
        /\ h = data[Top.wid]
        /\ Cursor \in 0..Len(h)
        /\ Top.served = Results(h, Cursor)
        /\ Follows(Top.body, h, Cursor)
        /\ Top.pc # "body" =>
              /\ Cursor = Len(h)
              /\ \E id \in StepIds : Do(Top.body, Top.served) = StepOp(id)
        /\ Top.pc = "called" => Top.result \in Values

(* While a run is in progress the field holds its workflow id, and its     *)
(* view of the history is right, whatever ran on the engine before.        *)
IInv ==
    /\ TypeOK
    /\ Running => wid = Top.wid /\ CallAgrees

=============================================================================
