------------------------- MODULE MCSwallowedReplay -------------------------
(***************************************************************************)
(* Bodies that catch what step throws:                                     *)
(*   retry     calls a, and calls it once more if that throws, then b;     *)
(*   fallback  calls a, and b if a throws;                                 *)
(* and plain, which calls a and b and catches nothing.                     *)
(***************************************************************************)
EXTENDS SwallowedReplay

MCWids == {"w1", "w2", "w3"}
MCBodies == {"retry", "fallback", "plain"}
MCCatching == {"retry", "fallback"}

Got(outcomes) == Len(SelectSeq(outcomes, LAMBDA o : o # None))

MCDo(b, outcomes) ==
    LET n == Len(outcomes)
    IN  CASE b = "retry" ->
               IF n < 2 /\ Got(outcomes) = 0 THEN StepOp("a")
               ELSE IF n < 4 /\ Got(outcomes) < 2 THEN StepOp("b") ELSE ReturnOp
          [] b = "fallback" ->
               IF n = 0 THEN StepOp("a")
               ELSE IF n = 1 /\ outcomes[1] = None THEN StepOp("b") ELSE ReturnOp
          [] b = "plain" ->
               IF n = 0 THEN StepOp("a")
               ELSE IF n = 1 THEN StepOp("b") ELSE ReturnOp

(* w1 and w3 keep their code, w2 is rewritten. *)
RewrittenVersions == [w1 |-> {"retry"}, w2 |-> {"plain", "fallback"},
                      w3 |-> {"plain"}]

(* No code changes. *)
MixedVersions == [w1 |-> {"retry"}, w2 |-> {"fallback"}, w3 |-> {"plain"}]

=============================================================================
