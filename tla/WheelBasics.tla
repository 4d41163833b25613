----------------------------- MODULE WheelBasics -----------------------------
(***************************************************************************)
(* What the models of the timing wheels share: the instants at which a     *)
(* wheel of m slots visits its slots, and the part of a list that a list   *)
(* comprehension keeps.                                                    *)
(***************************************************************************)
EXTENDS Integers, Sequences

(* The first instant after n at which tick visits slot s. *)
NextVisit(m, s, n) == n + 1 + ((s - n - 1) % m)

(* When a timer due at d is put into its bucket if its turn comes at r and *)
(* once per revolution after that.                                         *)
RehomedAt(m, d, r) == IF d < r THEN r ELSE r + (m * ((d - r) \div m))

(* The instant at which a timer due at d fires if it is in its bucket at   *)
(* n, and if it is in the overflow list, to be re-homed at r.              *)
BucketTime(m, d, n) == NextVisit(m, d % m, n)
OverflowTime(m, d, r) == NextVisit(m, d % m, RehomedAt(m, d, r))

(* The elements of a list that belong to S, in their order. *)
Only(list, S) ==
    LET upTo[i \in 0..Len(list)] ==
            IF i = 0 THEN <<>>
            ELSE IF list[i] \in S THEN Append(upTo[i - 1], list[i])
            ELSE upTo[i - 1]
    IN  upTo[Len(list)]

=============================================================================
