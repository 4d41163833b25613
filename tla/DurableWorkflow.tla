-------------------------- MODULE DurableWorkflow --------------------------
(***************************************************************************)
(* What durable execution promises, without engines, replays or crashes:   *)
(* every workflow id has one log of completed steps.  A body only ever     *)
(* extends a log that it agrees with from the first event to the last, and *)
(* the results a finished workflow computed with are those of the log.     *)
(* ReplayEngine implements this specification.                             *)
(***************************************************************************)
EXTENDS Workflow

VARIABLES
    log,        \* the completed steps of every workflow id, in order
    returned    \* the body that last finished and the results it was given

dvars == <<log, returned>>

DInit ==
    /\ log = [w \in Wids |-> <<>>]
    /\ returned = [w \in Wids |-> None]

(* One more step of w completes. *)
Perform(w) ==
    /\ \E b \in Versions[w], id \in StepIds, v \in Values :
          /\ Follows(b, log[w], Len(log[w]))
          /\ Do(b, Results(log[w], Len(log[w]))) = StepOp(id)
          /\ log' = [log EXCEPT ![w] = Append(@,
                        [seq |-> Len(log[w]), step_id |-> id, result |-> v])]
    /\ UNCHANGED returned

(* Some body of w returns, having been served the first n logged results. *)
Finish(w) ==
    /\ \E b \in Versions[w] : \E n \in 0..Len(log[w]) :
          /\ Follows(b, log[w], n)
          /\ Do(b, Results(log[w], n)) = ReturnOp
          /\ returned' = [returned EXCEPT ![w] =
                             [body |-> b, results |-> Results(log[w], n)]]
    /\ UNCHANGED log

DNext == \E w \in Wids : Perform(w) \/ Finish(w)

DSpec == DInit /\ [][DNext]_dvars

=============================================================================
