------------------------------ MODULE Workflow ------------------------------
(***************************************************************************)
(* The data that the replay engine and its abstract specification share:   *)
(* workflow bodies, history events, and what it means for a body to agree  *)
(* with a history.                                                         *)
(*                                                                         *)
(* A workflow body is user code.  Between two calls of ctx.step it is a    *)
(* function of the results the earlier calls returned to it (DESIGN.md     *)
(* calls this the determinism a body must have), so a body b is known by   *)
(* Do(b, results): the next thing it does once `results' were returned.    *)
(* That is either to call step with some id or to return.  Code that is    *)
(* deployed anew under an old workflow id is a second body of that id:     *)
(* Versions[w] is the set of bodies that callers pass to run for w.        *)
(***************************************************************************)
EXTENDS Naturals, Sequences, SequencesExt

CONSTANTS
    Wids,       \* workflow ids
    StepIds,    \* the ids passed to ctx.step
    Values,     \* what a step closure may return
    Bodies,     \* workflow bodies
    Versions,   \* [Wids -> SUBSET Bodies], the bodies run under each id
    Do(_, _),   \* the next operation of a body after some results
    None        \* no value

ASSUME VersionsAssumption == Versions \in [Wids -> SUBSET Bodies]

-----------------------------------------------------------------------------

StepOp(id) == [kind |-> "step", id |-> id]
ReturnOp   == [kind |-> "return"]

HistoryEvent == [seq : Nat, step_id : StepIds, result : Values]

(* The results of the first n events of a history. *)
Results(history, n) == [i \in 1..n |-> history[i].result]

(* Replaying body b over the first n events never meets a foreign step id. *)
Follows(b, history, n) ==
    \A i \in 1..n : Do(b, Results(history, i - 1)) = StepOp(history[i].step_id)

(* Only one body is ever run under w: its code was not changed. *)
Unchanged(w) == \A b, c \in Versions[w] : b = c

=============================================================================
