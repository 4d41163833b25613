----------------------- MODULE SharedWidEngine_proofs -----------------------
(***************************************************************************)
(* One engine with its workflow id in a field, for every set of workflows, *)
(* bodies and values and every number of panics and crashes, as long as    *)
(* Run is not called from inside a run (MaxDepth = 1).  The run of TLC     *)
(* with MaxDepth = 2 shows that this is needed.                            *)
(***************************************************************************)
EXTENDS SharedWidEngine, Workflow_proofs

-----------------------------------------------------------------------------
(* The stack of calls *)

(* The innermost call, and the stack after each of the three operations on *)
(* it: replacing the innermost call, ending it, and a new one.             *)
LEMMA TopType ==
    ASSUME TypeOK, Running
    PROVE  Top \in Call /\ Len(calls) \in Nat \ {0}
<1>1. calls \in Seq(Call) /\ Len(calls) \in Nat \ {0}
  BY EmptySeq DEF TypeOK, Running
<1> QED BY <1>1, LenProperties DEF Top, Last

LEMMA FrontType ==
    ASSUME TypeOK, Running
    PROVE  Front(calls) \in Seq(Call) /\ Len(Front(calls)) = Len(calls) - 1
<1> DEFINE n == Len(calls) - 1
<1>1. calls \in Seq(Call) /\ n \in Nat
  BY TopType DEF TypeOK
<1>2. \A i \in 1..n : calls[i] \in Call
  BY <1>1, LenProperties
<1>3. /\ SubSeq(calls, 1, n) \in Seq(Call)
      /\ Len(SubSeq(calls, 1, n)) = IF 1 <= n THEN n - 1 + 1 ELSE 0
  <2> HIDE DEF n
  <2> QED BY <1>1, <1>2, SubSeqProperties
<1>4. Len(SubSeq(calls, 1, n)) = n
  <2> HIDE DEF n
  <2> QED BY <1>1, <1>3
<1> QED BY <1>3, <1>4 DEF Front

LEMMA SetTopStack ==
    ASSUME TypeOK, Running, NEW c \in Call, SetTop(c)
    PROVE  /\ calls' \in Seq(Call) /\ Len(calls') = Len(calls)
           /\ Running' /\ Top' = c
<1>1. Len(calls) \in Nat \ {0}
  BY TopType
<1>2. <<c>> \in Seq(Call) /\ Len(<<c>>) = 1 /\ <<c>>[1] = c
  OBVIOUS
<1>3. /\ calls' \in Seq(Call) /\ Len(calls') = Len(calls)
      /\ calls'[Len(calls)] = c
  BY <1>1, <1>2, FrontType, ConcatProperties DEF SetTop
<1> QED BY <1>1, <1>3, EmptySeq DEF Running, Top, Last

LEMMA PopStack ==
    ASSUME TypeOK, Running, Pop
    PROVE  calls' \in Seq(Call) /\ Len(calls') = Len(calls) - 1
  BY FrontType DEF Pop

LEMMA PushStack ==
    ASSUME TypeOK, NEW c \in Call, calls' = Append(calls, c)
    PROVE  /\ calls' \in Seq(Call) /\ Len(calls') = Len(calls) + 1
           /\ Running' /\ Top' = c
<1>1. calls \in Seq(Call) /\ Len(calls) \in Nat
  BY LenProperties DEF TypeOK
<1> QED BY <1>1, AppendProperties DEF Running, Top, Last

(* Nothing is left of a stack of one call when the call ends. *)
LEMMA PopLast ==
    ASSUME MaxDepth = 1, TypeOK, Running, Pop
    PROVE  calls' = <<>>
<1>1. calls' \in Seq(Call) /\ Len(calls') = Len(calls) - 1
  BY PopStack
<1>2. Len(calls) <= MaxDepth
  BY DEF TypeOK
<1>3. Len(calls) \in Nat \ {0}
  BY TopType
<1> QED BY <1>1, <1>2, <1>3, EmptySeq

(* A new attempt is a call that agrees with the history it starts from. *)
LEMMA AttemptAgrees ==
    ASSUME NEW w \in Wids, NEW b \in Versions[w], NEW h \in Seq(HistoryEvent)
    PROVE  LET c == Attempt(w, b, h)
           IN  /\ c \in Call
               /\ c.wid = w /\ c.body = b /\ c.history = h /\ c.pc = "body"
               /\ Len(c.served) = 0
               /\ c.served = Results(h, 0)
               /\ Follows(b, h, 0)
<1>1. Results(h, 0) = <<>> BY DEF Results
<1>2. Follows(b, h, 0) BY DEF Follows
<1> QED BY <1>1, <1>2, VersionsAssumption, EmptySeq DEF Attempt, Call

-----------------------------------------------------------------------------
(* IInv is inductive *)

(* What IInv says of the call in progress, with its types. *)
LEMMA CallFacts ==
    ASSUME IInv, Running
    PROVE  /\ Top \in Call /\ Top.wid \in Wids /\ wid = Top.wid
           /\ Top.body \in Versions[Top.wid]
           /\ Top.history \in Seq(HistoryEvent) /\ Top.history = data[Top.wid]
           /\ Top.served \in Seq(Values)
           /\ Cursor \in 0..Len(Top.history)
           /\ Top.served = Results(Top.history, Cursor)
           /\ Follows(Top.body, Top.history, Cursor)
  BY TopType DEF IInv, CallAgrees, Call

(* When the only call of Run ends, what is left to show are types. *)
LEMMA EndedIInv ==
    ASSUME MaxDepth = 1, calls' = <<>>,
           data' \in [Wids -> Seq(HistoryEvent)], wid' \in Wids \cup {None},
           Replays' \in Nat, faults' \in 0..MaxFaults,
           returned' \in [Wids -> [body : Bodies, results : Seq(Values)] \cup {None}]
    PROVE  IInv'
<1>1. calls' \in Seq(Call) /\ Len(calls') = 0 /\ ~ Running'
  BY EmptySeq DEF Running
<1> QED BY <1>1 DEF IInv, TypeOK

(* When the call in progress goes on, what is left to show is that it      *)
(* agrees with the store.                                                  *)
LEMMA GoesOnIInv ==
    ASSUME IInv, Running, NEW c \in Call, SetTop(c), c.wid = Top.wid,
           UNCHANGED <<wid, faults, returned>>,
           data' \in [Wids -> Seq(HistoryEvent)], Replays' \in Nat,
           CallAgrees'
    PROVE  IInv'
<1>1. /\ calls' \in Seq(Call) /\ Len(calls') = Len(calls)
      /\ Running' /\ Top' = c
  BY SetTopStack DEF IInv
<1>2. TypeOK'
  BY <1>1 DEF IInv, TypeOK
<1>3. wid' = Top'.wid
  BY <1>1, CallFacts
<1> QED BY <1>2, <1>3 DEF IInv

LEMMA InitIInv == Init => IInv
<1> SUFFICES ASSUME Init PROVE IInv OBVIOUS
<1>1. ~ Running
  BY DEF Init, Running
<1>2. TypeOK
  BY SharedAssumption, EmptySeq DEF Init, TypeOK
<1> QED BY <1>1, <1>2 DEF IInv

LEMMA RunIInv ==
    ASSUME MaxDepth = 1, IInv, NEW w \in Wids, NEW b \in Versions[w], Run(w, b)
    PROVE  IInv'
<1> DEFINE c == Attempt(w, b, data[w])
<1>1. data[w] \in Seq(HistoryEvent)
  BY DEF IInv, TypeOK
<1>2. /\ c \in Call /\ c.wid = w /\ c.body = b /\ c.history = data[w]
      /\ c.pc = "body" /\ Len(c.served) = 0
      /\ c.served = Results(data[w], 0) /\ Follows(b, data[w], 0)
  BY <1>1, AttemptAgrees
<1>3. calls' = Append(calls, c) /\ wid' = w /\ Len(calls) < MaxDepth
      /\ UNCHANGED <<data, Replays, faults, returned>>
  BY DEF Run, Load
<1> HIDE DEF c
<1>4. /\ calls' \in Seq(Call) /\ Len(calls') = Len(calls) + 1
      /\ Running' /\ Top' = c
  BY <1>2, <1>3, PushStack DEF IInv
<1>5. Len(calls') <= MaxDepth
  <2>1. calls \in Seq(Call) BY DEF IInv, TypeOK
  <2>2. Len(calls) \in Nat BY <2>1, LenProperties
  <2> QED BY <2>2, <1>3, <1>4
<1>6. TypeOK'
  BY <1>3, <1>4, <1>5 DEF IInv, TypeOK
<1>7. CallAgrees'
  <2>1. Len(data[w]) \in Nat BY <1>1, LenProperties
  <2>2. Cursor' = 0 BY <1>2, <1>4 DEF Cursor
  <2>3. 0 \in 0..Len(data[w]) BY <2>1
  <2> QED BY <2>2, <2>3, <1>2, <1>3, <1>4 DEF CallAgrees
<1> QED BY <1>2, <1>3, <1>4, <1>6, <1>7 DEF IInv

LEMMA ServeIInv ==
    ASSUME IInv, Serve
    PROVE  IInv'
<1> DEFINE h == Top.history
           n == Cursor
           c == [Top EXCEPT !.served = Append(Top.served, h[n + 1].result)]
<1>1. /\ Running /\ Top.pc = "body" /\ n < Len(h)
      /\ Do(Top.body, Top.served) = StepOp(h[n + 1].step_id)
      /\ SetTop(c) /\ UNCHANGED <<data, wid, Replays, faults, returned>>
  BY DEF Serve, Steps, Recorded, Event
<1>2. /\ Top \in Call /\ Top.body \in Versions[Top.wid]
      /\ h \in Seq(HistoryEvent) /\ h = data[Top.wid]
      /\ Top.served \in Seq(Values) /\ n \in 0..Len(h)
      /\ Top.served = Results(h, n) /\ Follows(Top.body, h, n)
  BY <1>1, CallFacts
<1>3. n \in 0..(Len(h) - 1) /\ n + 1 \in 1..Len(h)
  BY <1>1, <1>2, LenProperties
<1>4. h[n + 1].result \in Values
  BY <1>2, <1>3, EventType
<1>5. /\ Append(Top.served, h[n + 1].result) \in Seq(Values)
      /\ Len(Append(Top.served, h[n + 1].result)) = n + 1
  BY <1>2, <1>4, AppendProperties DEF Cursor
<1>6. /\ c \in Call /\ c.wid = Top.wid /\ c.body = Top.body /\ c.history = h
      /\ c.pc = "body" /\ c.served = Append(Top.served, h[n + 1].result)
  BY <1>1, <1>2, <1>5 DEF Call
<1>7. Results(h, n + 1) = Append(Results(h, n), h[n + 1].result)
      /\ Follows(Top.body, h, n + 1)
  <2> HIDE DEF h, n
  <2> QED BY <1>1, <1>2, <1>3, ResultsExtend, FollowsExtend
<1>8. Top' = c
  <2> HIDE DEF c
  <2> QED BY <1>1, <1>6, SetTopStack DEF IInv
<1>9. CallAgrees'
  <2>1. Cursor' = n + 1 BY <1>5, <1>6, <1>8 DEF Cursor
  <2> HIDE DEF c, n, h
  <2>2. n + 1 \in 0..Len(h) BY <1>3
  <2>3. Top'.history = h /\ Top'.body = Top.body /\ Top'.wid = Top.wid
        /\ Top'.pc = "body" /\ Top'.served = Results(h, n + 1)
    BY <1>2, <1>6, <1>7, <1>8
  <2> QED BY <2>1, <2>2, <2>3, <1>1, <1>2, <1>7 DEF CallAgrees
<1> HIDE DEF c
<1> QED BY <1>1, <1>6, <1>9, GoesOnIInv DEF IInv, TypeOK

(* The function of a step is called at the end of the history. *)
LEMMA CallFnIInv ==
    ASSUME IInv, CallFn
    PROVE  IInv'
<1> DEFINE c == [Top EXCEPT !.pc = "fn"]
<1>1. /\ Running /\ ~ Recorded /\ SetTop(c)
      /\ UNCHANGED <<data, wid, Replays, faults, returned>>
      /\ \E id \in StepIds : Do(Top.body, Top.served) = StepOp(id)
  BY DEF CallFn, Steps
<1>2. /\ c \in Call /\ c.wid = Top.wid /\ c.body = Top.body
      /\ c.history = Top.history /\ c.served = Top.served /\ c.pc = "fn"
  BY <1>1, CallFacts DEF Call
<1>3. Top' = c
  <2> HIDE DEF c
  <2> QED BY <1>1, <1>2, SetTopStack DEF IInv
<1>4. Cursor' = Cursor
  BY <1>2, <1>3 DEF Cursor
<1>5. Cursor = Len(Top.history)
  <2>1. Cursor \in 0..Len(Top.history) /\ Len(Top.history) \in Nat
    BY <1>1, CallFacts, LenProperties
  <2> QED BY <2>1, <1>1 DEF Recorded
<1> HIDE DEF c
<1>6. CallAgrees'
  BY <1>1, <1>2, <1>3, <1>4, <1>5, CallFacts DEF CallAgrees
<1> QED BY <1>1, <1>2, <1>6, GoesOnIInv DEF IInv, TypeOK

LEMMA FnReturnsIInv ==
    ASSUME IInv, FnReturns
    PROVE  IInv'
<1>1. PICK v \in Values : SetTop([Top EXCEPT !.pc = "called", !.result = v])
  BY DEF FnReturns
<1> DEFINE c == [Top EXCEPT !.pc = "called", !.result = v]
<1>2. /\ Running /\ Top.pc = "fn" /\ SetTop(c)
      /\ UNCHANGED <<data, wid, Replays, faults, returned>>
  BY <1>1 DEF FnReturns
<1>3. /\ c \in Call /\ c.wid = Top.wid /\ c.body = Top.body
      /\ c.history = Top.history /\ c.served = Top.served
      /\ c.pc = "called" /\ c.result = v
  BY <1>2, CallFacts DEF Call
<1>4. Top' = c
  <2> HIDE DEF c
  <2> QED BY <1>2, <1>3, SetTopStack DEF IInv
<1>5. Cursor' = Cursor
  BY <1>3, <1>4 DEF Cursor
<1> HIDE DEF c
<1>6. /\ Cursor = Len(Top.history)
      /\ \E id \in StepIds : Do(Top.body, Top.served) = StepOp(id)
  BY <1>2 DEF IInv, CallAgrees
<1>7. CallAgrees'
  BY <1>2, <1>3, <1>4, <1>5, <1>6, CallFacts DEF CallAgrees
<1> QED BY <1>2, <1>3, <1>7, GoesOnIInv DEF IInv, TypeOK

(* The save of a step goes to the workflow that runs, at the end of a      *)
(* history that its body agrees with.                                      *)
LEMMA RecordFacts ==
    ASSUME IInv, Record
    PROVE  \E id \in StepIds :
              LET w  == Top.wid
                  h  == data[w]
                  ev == [seq |-> Len(h), step_id |-> id, result |-> Top.result]
              IN  /\ Running /\ w \in Wids /\ h \in Seq(HistoryEvent)
                  /\ ev \in HistoryEvent
                  /\ Top.body \in Versions[w] /\ Top.result \in Values
                  /\ Follows(Top.body, h, Len(h))
                  /\ Do(Top.body, Results(h, Len(h))) = StepOp(id)
                  /\ data' = [data EXCEPT ![w] = Append(h, ev)]
<1>1. PICK id \in StepIds :
         /\ Do(Top.body, Top.served) = StepOp(id)
         /\ persist(Append(Top.history, [seq     |-> Len(Top.history),
                                         step_id |-> id,
                                         result  |-> Top.result]))
  BY DEF Record
<1>2. Running /\ Top.pc = "called"
  BY DEF Record
<1>3. /\ Top.wid \in Wids /\ wid = Top.wid /\ Top.body \in Versions[Top.wid]
      /\ Top.history \in Seq(HistoryEvent) /\ Top.history = data[Top.wid]
      /\ Top.served = Results(Top.history, Cursor)
      /\ Follows(Top.body, Top.history, Cursor)
  BY <1>2, CallFacts
<1>4. Cursor = Len(Top.history) /\ Top.result \in Values
  BY <1>2 DEF IInv, CallAgrees
<1>5. [seq |-> Len(data[Top.wid]), step_id |-> id, result |-> Top.result] \in HistoryEvent
  <2>1. Len(data[Top.wid]) \in Nat BY <1>3, LenProperties
  <2> QED BY <2>1, <1>4 DEF HistoryEvent
<1>6. data' = [data EXCEPT ![Top.wid] = Append(data[Top.wid],
                 [seq |-> Len(data[Top.wid]), step_id |-> id, result |-> Top.result])]
  BY <1>1, <1>3 DEF persist, Save
<1> QED BY <1>1, <1>2, <1>3, <1>4, <1>5, <1>6

LEMMA RecordIInv ==
    ASSUME IInv, Record
    PROVE  IInv'
<1> DEFINE w == Top.wid
           c == Attempt(w, Top.body, data'[w])
<1>1. PICK h \in Seq(HistoryEvent), ev \in HistoryEvent :
         /\ Running /\ w \in Wids /\ Top.body \in Versions[w]
         /\ data' = [data EXCEPT ![w] = Append(h, ev)]
  BY RecordFacts
<1>2. /\ Replays' = Replays + 1 /\ SetTop(c)
      /\ UNCHANGED <<wid, faults, returned>>
  BY DEF Record
<1>3. Append(h, ev) \in Seq(HistoryEvent)
  BY AppendProperties
<1>4. data' \in [Wids -> Seq(HistoryEvent)] /\ Replays' \in Nat
  BY <1>1, <1>2, <1>3 DEF IInv, TypeOK
<1>5. data'[w] \in Seq(HistoryEvent)
  BY <1>1, <1>4
<1>6. /\ c \in Call /\ c.wid = w /\ c.body = Top.body /\ c.history = data'[w]
      /\ c.pc = "body" /\ Len(c.served) = 0
      /\ c.served = Results(data'[w], 0) /\ Follows(Top.body, data'[w], 0)
  <2> DEFINE b == Top.body
             g == data'[w]
  <2>1. w \in Wids /\ b \in Versions[w] /\ g \in Seq(HistoryEvent)
    BY <1>1, <1>5
  <2> HIDE DEF w, b, g
  <2>2. /\ Attempt(w, b, g) \in Call
        /\ Attempt(w, b, g).wid = w /\ Attempt(w, b, g).body = b
        /\ Attempt(w, b, g).history = g /\ Attempt(w, b, g).pc = "body"
        /\ Len(Attempt(w, b, g).served) = 0
        /\ Attempt(w, b, g).served = Results(g, 0) /\ Follows(b, g, 0)
    BY <2>1, AttemptAgrees
  <2> QED BY <2>2 DEF b, g
<1> HIDE DEF c
<1>7. Top' = c
  BY <1>1, <1>2, <1>6, SetTopStack DEF IInv
<1>8. CallAgrees'
  <2>1. Len(data'[w]) \in Nat BY <1>5, LenProperties
  <2>2. 0 \in 0..Len(data'[w]) BY <2>1
  <2>3. Cursor' = 0 BY <1>6, <1>7 DEF Cursor
  <2> QED BY <2>2, <2>3, <1>1, <1>6, <1>7 DEF CallAgrees
<1> QED BY <1>1, <1>2, <1>4, <1>6, <1>8, GoesOnIInv

(* A workflow returns the results of its durable history. *)
LEMMA ReturnFacts ==
    ASSUME IInv, Return
    PROVE  LET w == Top.wid
           IN  /\ Running /\ w \in Wids /\ Top.body \in Versions[w]
               /\ data[w] \in Seq(HistoryEvent) /\ Cursor \in 0..Len(data[w])
               /\ Follows(Top.body, data[w], Cursor)
               /\ Do(Top.body, Results(data[w], Cursor)) = ReturnOp
               /\ returned' = [returned EXCEPT ![w] =
                     [body |-> Top.body, results |-> Results(data[w], Cursor)]]
<1>1. /\ Running /\ Do(Top.body, Top.served) = ReturnOp
      /\ returned' = [returned EXCEPT ![Top.wid] =
                         [body |-> Top.body, results |-> Top.served]]
  BY DEF Return
<1>2. /\ Top.wid \in Wids /\ Top.body \in Versions[Top.wid]
      /\ Top.history \in Seq(HistoryEvent) /\ Top.history = data[Top.wid]
      /\ Cursor \in 0..Len(Top.history)
      /\ Top.served = Results(Top.history, Cursor)
      /\ Follows(Top.body, Top.history, Cursor)
  BY <1>1, CallFacts
<1> QED BY <1>1, <1>2

LEMMA ReturnIInv ==
    ASSUME MaxDepth = 1, IInv, Return
    PROVE  IInv'
<1>1. /\ Top.wid \in Wids /\ Top.body \in Versions[Top.wid] /\ Running
      /\ data[Top.wid] \in Seq(HistoryEvent) /\ Cursor \in 0..Len(data[Top.wid])
      /\ returned' = [returned EXCEPT ![Top.wid] =
            [body |-> Top.body, results |-> Results(data[Top.wid], Cursor)]]
  BY ReturnFacts
<1>2. UNCHANGED <<data, wid, Replays, faults>> /\ Pop
  BY DEF Return
<1>3. calls' = <<>>
  BY <1>1, <1>2, PopLast DEF IInv
<1>4. [body |-> Top.body, results |-> Results(data[Top.wid], Cursor)]
         \in [body : Bodies, results : Seq(Values)]
  BY <1>1, ResultsType, VersionsAssumption
<1>5. returned' \in [Wids -> [body : Bodies, results : Seq(Values)] \cup {None}]
  BY <1>1, <1>4 DEF IInv, TypeOK
<1> QED BY <1>2, <1>3, <1>5, EndedIInv DEF IInv, TypeOK

(* A rejected workflow, a panic and a crash leave the store as it is. *)
LEMMA FailureIInv ==
    ASSUME MaxDepth = 1, IInv, Mismatch \/ Panic \/ Crash
    PROVE  IInv'
<1>1. CASE Mismatch
  <2>1. Running /\ Pop /\ UNCHANGED <<data, wid, Replays, faults, returned>>
    BY <1>1 DEF Mismatch, Steps
  <2>2. calls' = <<>> BY <2>1, PopLast DEF IInv
  <2> QED BY <2>1, <2>2, EndedIInv DEF IInv, TypeOK
<1>2. CASE Panic
  <2>1. Running /\ Pop /\ UNCHANGED <<data, wid, Replays, returned>>
    BY <1>2 DEF Panic
  <2>2. faults' \in 0..MaxFaults
    BY <1>2, SharedAssumption DEF Panic, IInv, TypeOK
  <2>3. calls' = <<>> BY <2>1, PopLast DEF IInv
  <2> QED BY <2>1, <2>2, <2>3, EndedIInv DEF IInv, TypeOK
<1>3. CASE Crash
  <2>1. calls' = <<>> /\ wid' = None /\ Replays' = 0 /\ UNCHANGED <<data, returned>>
    BY <1>3 DEF Crash
  <2>2. faults' \in 0..MaxFaults
    BY <1>3, SharedAssumption DEF Crash, IInv, TypeOK
  <2> QED BY <2>1, <2>2, EndedIInv DEF IInv, TypeOK
<1> QED BY <1>1, <1>2, <1>3

LEMMA NextIInv == ASSUME MaxDepth = 1 PROVE IInv /\ [Next]_vars => IInv'
<1> SUFFICES ASSUME IInv, [Next]_vars PROVE IInv' OBVIOUS
<1>1. ASSUME NEW w \in Wids, NEW b \in Versions[w], Run(w, b) PROVE IInv'
  BY <1>1, RunIInv
<1>2. CASE Serve \/ CallFn \/ FnReturns \/ Record \/ Return
  BY <1>2, ServeIInv, CallFnIInv, FnReturnsIInv, RecordIInv, ReturnIInv
<1>3. CASE Mismatch \/ Panic \/ Crash
  BY <1>3, FailureIInv
<1>4. CASE UNCHANGED vars
  BY <1>4 DEF vars, IInv, TypeOK, CallAgrees, Running, Top, Last, Cursor
<1> QED BY <1>1, <1>2, <1>3, <1>4 DEF Next

-----------------------------------------------------------------------------
(* The theorems *)

(* As long as Run is not called inside a run, the call in progress agrees  *)
(* with the store and the field holds its workflow id.                     *)
THEOREM Invariance == ASSUME MaxDepth = 1 PROVE Spec => []IInv
<1>1. Init => IInv BY InitIInv
<1>2. IInv /\ [Next]_vars => IInv' BY NextIInv
<1> QED BY <1>1, <1>2, PTL DEF Spec

(* The variables of the engine keep their types. *)
THEOREM TypeCorrect == ASSUME MaxDepth = 1 PROVE Spec => []TypeOK
<1>1. IInv => TypeOK BY DEF IInv
<1> QED BY <1>1, Invariance, PTL

(* Only Record touches the store, and only Return the answers. *)
LEMMA StoreSteps ==
    ASSUME [Next]_vars
    PROVE  /\ UNCHANGED data \/ Record
           /\ UNCHANGED returned \/ Return
  BY DEF Next, Run, Serve, Mismatch, CallFn, FnReturns, Record, Return, Panic,
         Crash, vars

(* Only a run of a workflow writes its history, whatever ran, panicked and *)
(* was resumed on the engine before.                                       *)
THEOREM HistoriesSeparate == ASSUME MaxDepth = 1 PROVE Spec => SeparateHistories
<1>1. ASSUME IInv, [Next]_vars, NEW w \in Wids, data'[w] # data[w]
      PROVE  Running /\ Top.wid = w
  <2>1. Record BY <1>1, StoreSteps
  <2>2. PICK h : /\ Running
                 /\ data' = [data EXCEPT ![Top.wid] = h]
    BY <1>1, <2>1, RecordFacts
  <2> QED BY <1>1, <2>2 DEF IInv, TypeOK
<1>2. IInv /\ [Next]_vars =>
        [\A w \in Wids : data'[w] # data[w] => Running /\ Top.wid = w]_vars
  BY <1>1
<1> QED BY <1>2, Invariance, PTL DEF Spec, SeparateHistories

(* Both specifications use the same operators on bodies and histories. *)
LEMMA SameOperators ==
    /\ \A h, n : Abstract!Results(h, n) = Results(h, n)
    /\ \A b, h, n : Abstract!Follows(b, h, n) <=> Follows(b, h, n)
    /\ \A id : Abstract!StepOp(id) = StepOp(id)
    /\ Abstract!ReturnOp = ReturnOp
  BY DEF Abstract!Results, Results, Abstract!Follows, Follows, Abstract!StepOp,
         StepOp, Abstract!ReturnOp, ReturnOp

(* One engine that runs workflows one after the other implements the       *)
(* specification of durable workflows.                                     *)
THEOREM Refinement == ASSUME MaxDepth = 1 PROVE Spec => DurableSpec
<1>1. Init => Abstract!DInit
  BY DEF Init, Abstract!DInit
<1>2. ASSUME IInv, [Next]_vars PROVE [Abstract!DNext]_<<data, returned>>
  <2> DEFINE w == Top.wid
  <2>1. CASE Record
    <3>1. UNCHANGED returned BY <2>1 DEF Record
    <3>2. PICK id \in StepIds :
             LET h  == data[w]
                 ev == [seq |-> Len(h), step_id |-> id, result |-> Top.result]
             IN  /\ w \in Wids
                 /\ Top.body \in Versions[w] /\ Top.result \in Values
                 /\ Follows(Top.body, h, Len(h))
                 /\ Do(Top.body, Results(h, Len(h))) = StepOp(id)
                 /\ data' = [data EXCEPT ![w] = Append(h, ev)]
      BY <1>2, <2>1, RecordFacts
    <3>3. /\ Abstract!Follows(Top.body, data[w], Len(data[w]))
          /\ Do(Top.body, Abstract!Results(data[w], Len(data[w]))) = Abstract!StepOp(id)
      BY <3>2, SameOperators
    <3>4. Abstract!Perform(w)
      BY <3>1, <3>2, <3>3 DEF Abstract!Perform
    <3> QED BY <3>2, <3>4 DEF Abstract!DNext
  <2>2. CASE Return
    <3>1. UNCHANGED data BY <2>2 DEF Return
    <3>2. /\ w \in Wids /\ Top.body \in Versions[w] /\ Cursor \in 0..Len(data[w])
          /\ Follows(Top.body, data[w], Cursor)
          /\ Do(Top.body, Results(data[w], Cursor)) = ReturnOp
          /\ returned' = [returned EXCEPT ![w] =
                [body |-> Top.body, results |-> Results(data[w], Cursor)]]
      BY <1>2, <2>2, ReturnFacts
    <3>3. /\ Abstract!Follows(Top.body, data[w], Cursor)
          /\ Do(Top.body, Abstract!Results(data[w], Cursor)) = Abstract!ReturnOp
          /\ Abstract!Results(data[w], Cursor) = Results(data[w], Cursor)
      BY <3>2, SameOperators
    <3>4. Abstract!Finish(w)
      BY <3>1, <3>2, <3>3 DEF Abstract!Finish
    <3> QED BY <3>2, <3>4 DEF Abstract!DNext
  <2>3. CASE UNCHANGED <<data, returned>> BY <2>3
  <2> QED BY <1>2, <2>1, <2>2, <2>3, StoreSteps
<1>3. IInv /\ [Next]_vars => [Abstract!DNext]_(Abstract!dvars)
  BY <1>2 DEF Abstract!dvars
<1> QED BY <1>1, <1>3, Invariance, PTL DEF Spec, DurableSpec, Abstract!DSpec

=============================================================================
