---------------------------- MODULE MCWorkflows ----------------------------
(***************************************************************************)
(* Small workflows for TLC.  Step ids, values and bodies are strings;      *)
(* `order' branches on its first result, `short', `long' and `other' are   *)
(* successive versions of one workflow.                                    *)
(***************************************************************************)
EXTENDS Workflow

MCWids == {"w1", "w2"}
MCStepIds == {"a", "b"}
MCBodies == {"order", "short", "long", "other"}

(* order: a, then b if a's result is v1; short: a; long: a, b; other: b *)
MCDo(b, results) ==
    LET n == Len(results)
        Plan == CASE b = "order" -> IF n > 0 /\ results[1] = "v1"
                                    THEN <<"a", "b">> ELSE <<"a">>
                  [] b = "short" -> <<"a">>
                  [] b = "long"  -> <<"a", "b">>
                  [] b = "other" -> <<"b">>
    IN  IF n < Len(Plan) THEN StepOp(Plan[n + 1]) ELSE ReturnOp

(* w1 keeps its code, w2 is redeployed. *)
RedeployVersions == [w1 |-> {"order"}, w2 |-> {"short", "long", "other"}]

(* No code changes. *)
FixedVersions == [w1 |-> {"order"}, w2 |-> {"long"}]

=============================================================================
