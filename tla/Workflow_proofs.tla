-------------------------- MODULE Workflow_proofs --------------------------
(***************************************************************************)
(* Facts about the operators of Workflow: what replaying a history over    *)
(* its first n events says about n + 1 events and about a longer history.  *)
(***************************************************************************)
EXTENDS Workflow, SequenceTheorems, TLAPS

(* The two operations of a body are told apart, and so are two step ids. *)
LEMMA OpsDiffer ==
    ASSUME NEW i, NEW j
    PROVE  /\ StepOp(i) # ReturnOp
           /\ StepOp(i) = StepOp(j) => i = j
<1>1. StepOp(i).kind = "step" /\ ReturnOp.kind = "return" BY DEF StepOp, ReturnOp
<1>2. StepOp(i).id = i /\ StepOp(j).id = j BY DEF StepOp
<1> QED BY <1>1, <1>2

(* What the events of a history are. *)
LEMMA EventType ==
    ASSUME NEW h \in Seq(HistoryEvent), NEW i \in 1..Len(h)
    PROVE  /\ h[i] \in HistoryEvent
           /\ h[i].result \in Values
           /\ h[i].step_id \in StepIds
<1>1. h[i] \in HistoryEvent BY ElementOfSeq
<1> QED BY <1>1 DEF HistoryEvent

(* The results of a history are a sequence of step results. *)
LEMMA ResultsType ==
    ASSUME NEW h \in Seq(HistoryEvent), NEW n \in 0..Len(h)
    PROVE  /\ Results(h, n) \in Seq(Values)
           /\ Len(Results(h, n)) = n
           /\ \A i \in 1..n : Results(h, n)[i] = h[i].result
<1>1. \A i \in 1..n : h[i].result \in Values
  BY EventType, LenProperties
<1> QED BY <1>1 DEF Results

(* Serving one more event appends its result. *)
LEMMA ResultsExtend ==
    ASSUME NEW h \in Seq(HistoryEvent), NEW n \in 0..(Len(h) - 1)
    PROVE  Results(h, n + 1) = Append(Results(h, n), h[n + 1].result)
<1>1. n \in 0..Len(h) /\ n + 1 \in 0..Len(h) /\ n + 1 \in 1..Len(h)
  BY LenProperties
<1>2. h[n + 1].result \in Values
  BY <1>1, EventType
<1> DEFINE s == Results(h, n + 1)
           t == Append(Results(h, n), h[n + 1].result)
<1>3. s \in Seq(Values) /\ Len(s) = n + 1 /\ \A i \in 1..(n + 1) : s[i] = h[i].result
  BY <1>1, ResultsType
<1>4. /\ Results(h, n) \in Seq(Values) /\ Len(Results(h, n)) = n
      /\ \A i \in 1..n : Results(h, n)[i] = h[i].result
  BY <1>1, ResultsType
<1>5. t \in Seq(Values) /\ Len(t) = n + 1 /\ \A i \in 1..(n + 1) : t[i] = h[i].result
  BY <1>2, <1>4, AppendProperties
<1> QED BY <1>3, <1>5, SeqEqual

(* A new event leaves the results of the earlier ones alone. *)
LEMMA ResultsAppend ==
    ASSUME NEW h \in Seq(HistoryEvent), NEW ev \in HistoryEvent, NEW n \in 0..Len(h)
    PROVE  Results(Append(h, ev), n) = Results(h, n)
<1>1. \A i \in 1..n : Append(h, ev)[i] = h[i]
  BY AppendProperties, LenProperties
<1> QED BY <1>1 DEF Results

(* Agreement with n events and with the next one is agreement with n + 1. *)
LEMMA FollowsExtend ==
    ASSUME NEW b, NEW h \in Seq(HistoryEvent), NEW n \in 0..(Len(h) - 1),
           Follows(b, h, n), Do(b, Results(h, n)) = StepOp(h[n + 1].step_id)
    PROVE  Follows(b, h, n + 1)
<1> SUFFICES ASSUME NEW i \in 1..(n + 1)
             PROVE  Do(b, Results(h, i - 1)) = StepOp(h[i].step_id)
  BY DEF Follows
<1>1. CASE i = n + 1 BY <1>1
<1>2. CASE i \in 1..n BY <1>2 DEF Follows
<1> QED BY <1>1, <1>2

(* Agreement with a prefix survives a new event, and extends to it if it   *)
(* is the step that the body calls next.                                   *)
LEMMA FollowsAppend ==
    ASSUME NEW b, NEW h \in Seq(HistoryEvent), NEW ev \in HistoryEvent,
           NEW n \in 0..Len(h), Follows(b, h, n)
    PROVE  /\ Follows(b, Append(h, ev), n)
           /\ n = Len(h) /\ Do(b, Results(h, n)) = StepOp(ev.step_id)
                 => Follows(b, Append(h, ev), n + 1)
<1> DEFINE g == Append(h, ev)
<1>1. /\ g \in Seq(HistoryEvent) /\ Len(g) = Len(h) + 1 /\ g[Len(h) + 1] = ev
      /\ \A i \in 1..Len(h) : g[i] = h[i]
  BY AppendProperties
<1>2. \A i \in 1..n : i - 1 \in 0..Len(h) /\ i \in 1..Len(h)
  BY LenProperties
<1>3. Follows(b, g, n)
  BY <1>1, <1>2, ResultsAppend DEF Follows
<1>4. ASSUME n = Len(h), Do(b, Results(h, n)) = StepOp(ev.step_id)
      PROVE  Follows(b, g, n + 1)
  <2>1. n \in 0..(Len(g) - 1) BY <1>1, <1>4
  <2>2. Do(b, Results(g, n)) = StepOp(g[n + 1].step_id)
    BY <1>1, <1>4, ResultsAppend
  <2> HIDE DEF g
  <2> QED BY <1>1, <1>3, <2>1, <2>2, FollowsExtend
<1> QED BY <1>3, <1>4

(* A history is a prefix of itself ... *)
LEMMA PrefixOfSelf ==
    ASSUME NEW h \in Seq(HistoryEvent)
    PROVE  IsPrefix(h, h)
  BY LenProperties DEF IsPrefix

(* ... and of itself one more event. *)
LEMMA PrefixOfAppend ==
    ASSUME NEW h \in Seq(HistoryEvent), NEW ev \in HistoryEvent
    PROVE  IsPrefix(h, Append(h, ev))
<1>1. Len(h) \in Nat /\ Len(Append(h, ev)) = Len(h) + 1
  BY AppendProperties, LenProperties
<1>2. SubSeq(h, 1, Len(h)) = SubSeq(Append(h, ev), 1, Len(h))
  BY <1>1, AppendProperties
<1> QED BY <1>1, <1>2 DEF IsPrefix

=============================================================================
