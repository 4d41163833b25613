---------------------------- MODULE TimerService ----------------------------
(***************************************************************************)
(* What a timing wheel promises, without slots, buckets and overflow: when *)
(* a timer is scheduled, the instant at which it will leave the service is *)
(* fixed, its deadline or Late ticks after it, and the clock never passes  *)
(* a timer.  Only a callback that panics takes timers away or changes an   *)
(* instant.  TimingWheel implements this specification.                    *)
(***************************************************************************)
EXTENDS Naturals

CONSTANTS
    Timers,     \* the timers
    Delays,     \* the delays they are scheduled with
    Late        \* how late a timer may be

VARIABLES
    now,        \* virtual time
    state,      \* what became of each timer
    at          \* the instants fixed for the live ones, 0 for the others

tvars == <<now, state, at>>

Live == {t \in Timers : state[t] \in {"pending", "cancelled"}}
Due == {t \in Live : at[t] = now}

TInit ==
    /\ now = 0
    /\ state = [t \in Timers |-> "new"]
    /\ at = [t \in Timers |-> 0]

Schedule(t) ==
    /\ state[t] = "new"
    /\ \E d \in Delays, late \in {0, Late} :
          /\ d + late > 0
          /\ at' = [at EXCEPT ![t] = now + d + late]
    /\ state' = [state EXCEPT ![t] = "pending"]
    /\ UNCHANGED now

Cancel(t) ==
    /\ state[t] = "pending"
    /\ state' = [state EXCEPT ![t] = "cancelled"]
    /\ UNCHANGED <<now, at>>

(* The callback of a timer returns, or the timer is dropped. *)
Expire(t) ==
    /\ t \in Due
    /\ state' = [state EXCEPT ![t] = IF @ = "pending" THEN "fired" ELSE "dropped"]
    /\ at' = [at EXCEPT ![t] = 0]
    /\ UNCHANGED now

(* The clock waits for the timers that are due. *)
Pass ==
    /\ Due = {}
    /\ now' = now + 1
    /\ UNCHANGED <<state, at>>

(* A callback panics: the other timers that are due are lost with it, and  *)
(* some that are not become Late ticks later.                              *)
Fail(t) ==
    /\ t \in Due /\ state[t] = "pending"
    /\ state' = [u \in Timers |-> IF u = t THEN "failed"
                                  ELSE IF u \in Due THEN "lost" ELSE state[u]]
    /\ \E postponed \in SUBSET (Live \ Due) :
          at' = [u \in Timers |-> IF u \in Due THEN 0
                                  ELSE IF u \in postponed THEN at[u] + Late
                                  ELSE at[u]]
    /\ UNCHANGED now

TNext == Pass \/ \E t \in Timers : Schedule(t) \/ Cancel(t) \/ Expire(t) \/ Fail(t)

TSpec == TInit /\ [][TNext]_tvars

=============================================================================
