----------------------- MODULE SwallowedReplay_proofs -----------------------
(***************************************************************************)
(* Bodies that swallow what step throws, for every set of workflows,       *)
(* bodies, step ids and values and every number of failures: whatever is   *)
(* swallowed, no effect is lost from the account, the values served are    *)
(* the recorded ones in order and under their ids, and a clean answer      *)
(* stands.                                                                 *)
(***************************************************************************)
EXTENDS SwallowedReplay, Workflow_proofs, FiniteSetTheorems

-----------------------------------------------------------------------------
(* Counting the calls that were answered *)

LEMMA AnswersType ==
    ASSUME NEW o, NEW n \in Nat
    PROVE  /\ IsFiniteSet({i \in 1..n : o[i] # None})
           /\ Answers(o, n) \in 0..n
<1>1. IsFiniteSet(1..n) /\ Cardinality(1..n) = n
  BY FS_Interval
<1>2. {i \in 1..n : o[i] # None} \subseteq 1..n
  OBVIOUS
<1> QED BY <1>1, <1>2, FS_Subset, FS_CardinalityType DEF Answers

LEMMA AnswersOfNone ==
    ASSUME NEW o
    PROVE  Answers(o, 0) = 0
  BY FS_EmptySet DEF Answers

(* One more call counts if it was answered. *)
LEMMA AnswersStep ==
    ASSUME NEW o, NEW n \in Nat
    PROVE  Answers(o, n + 1) = Answers(o, n) + (IF o[n + 1] # None THEN 1 ELSE 0)
<1> DEFINE A == {i \in 1..n : o[i] # None}
           B == {i \in 1..(n + 1) : o[i] # None}
<1>1. IsFiniteSet(A) /\ Cardinality(A) \in Nat
  BY AnswersType, FS_CardinalityType
<1>2. CASE o[n + 1] # None
  <2>1. B = A \cup {n + 1} /\ n + 1 \notin A
    BY <1>2
  <2>2. Cardinality(B) = Cardinality(A) + 1
    <3> HIDE DEF A, B
    <3> QED BY <1>1, <2>1, FS_AddElement
  <2> QED BY <1>2, <2>2 DEF Answers
<1>3. CASE o[n + 1] = None
  <2>1. B = A
    BY <1>3
  <2> QED BY <1>1, <1>3, <2>1 DEF Answers
<1> QED BY <1>2, <1>3

(* The count depends on the calls counted only. *)
LEMMA AnswersOfEqual ==
    ASSUME NEW o, NEW p, NEW n \in Nat, \A i \in 1..n : o[i] = p[i]
    PROVE  Answers(o, n) = Answers(p, n)
<1>1. {i \in 1..n : o[i] # None} = {i \in 1..n : p[i] # None}
  OBVIOUS
<1> QED BY <1>1 DEF Answers

(* Of the calls up to one that was answered, at least that one was, and    *)
(* there are not more of them than later.                                  *)
LEMMA AnswersBounds ==
    ASSUME NEW o, NEW m \in Nat, NEW n \in 1..m, o[n] # None
    PROVE  Answers(o, n) \in 1..Answers(o, m)
<1> DEFINE A == {i \in 1..n : o[i] # None}
           B == {i \in 1..m : o[i] # None}
<1>1. IsFiniteSet(B) /\ A \subseteq B /\ n \in A
  BY AnswersType
<1>2. IsFiniteSet(A) /\ Cardinality(A) <= Cardinality(B) /\ A # {}
  <2> HIDE DEF A, B
  <2> QED BY <1>1, FS_Subset
<1>3. Cardinality(A) \in Nat /\ Cardinality(B) \in Nat /\ Cardinality(A) # 0
  <2> HIDE DEF A, B
  <2> QED BY <1>1, <1>2, FS_EmptySet, FS_CardinalityType
<1> QED BY <1>2, <1>3 DEF Answers

LEMMA AnswersOfAll ==
    ASSUME NEW o, NEW n \in Nat, \A i \in 1..n : o[i] # None
    PROVE  Answers(o, n) = n
<1>1. {i \in 1..n : o[i] # None} = 1..n
  OBVIOUS
<1>2. Cardinality(1..n) = n
  BY FS_Interval
<1> QED BY <1>1, <1>2 DEF Answers

LEMMA AnswersAppend ==
    ASSUME NEW o \in Outcomes, NEW v \in Values \cup {None}
    PROVE  /\ \A n \in 0..Len(o) : Answers(Append(o, v), n) = Answers(o, n)
           /\ Answers(Append(o, v), Len(o) + 1)
                 = Answers(o, Len(o)) + (IF v # None THEN 1 ELSE 0)
<1>1. /\ Len(o) \in Nat
      /\ \A i \in 1..Len(o) : Append(o, v)[i] = o[i]
      /\ Append(o, v)[Len(o) + 1] = v
  BY AppendProperties, LenProperties DEF Outcomes
<1> DEFINE p == Append(o, v)
<1> HIDE DEF p
<1>2. ASSUME NEW n \in 0..Len(o)
      PROVE  Answers(p, n) = Answers(o, n)
  <2>1. \A i \in 1..n : p[i] = o[i]
    BY <1>1 DEF p
  <2> QED BY <1>1, <2>1, AnswersOfEqual
<1>3. Answers(p, Len(o) + 1) = Answers(p, Len(o)) + (IF v # None THEN 1 ELSE 0)
  BY <1>1, AnswersStep DEF p
<1> QED BY <1>1, <1>2, <1>3 DEF p

-----------------------------------------------------------------------------
(* What a call of run has consumed *)

(* The answers that the body of f got are the results of the events up to  *)
(* the cursor, each recorded under the id that the body asked for.         *)
Consumed(f) ==
    /\ Answers(f.outcomes, Len(f.outcomes)) = f.cursor
    /\ f.cursor <= Len(f.history)
    /\ \A n \in 1..Len(f.outcomes) :
          f.outcomes[n] # None =>
              /\ f.outcomes[n] = f.history[Answers(f.outcomes, n)].result
              /\ Do(f.body, SubSeq(f.outcomes, 1, n - 1))
                     = StepOp(f.history[Answers(f.outcomes, n)].step_id)

(* What IInv says of the frame, with its types. *)
LEMMA FrameFacts ==
    ASSUME IInv, Running
    PROVE  /\ frame \in Frame
           /\ frame.wid \in Wids /\ frame.body \in Bodies
           /\ frame.body \in Versions[frame.wid]
           /\ frame.history \in Seq(HistoryEvent)
           /\ frame.history = data[frame.wid]
           /\ frame.outcomes \in Outcomes
           /\ frame.cursor \in 0..Len(frame.history)
           /\ Consumed(frame)
           /\ frame.pc # "body" => /\ frame.cursor = Len(frame.history)
                                   /\ frame.id \in StepIds
           /\ frame.pc = "called" => frame.result \in Values
<1>1. frame \in Frame
  BY DEF IInv, TypeOK, Running
<1>2. /\ frame.wid \in Wids /\ frame.body \in Bodies
      /\ frame.history \in Seq(HistoryEvent)
      /\ frame.outcomes \in Outcomes /\ frame.cursor \in Nat
  BY <1>1 DEF Frame
<1>3. DOMAIN frame.outcomes = 1..Len(frame.outcomes) /\ Len(frame.history) \in Nat
  BY <1>2, LenProperties DEF Outcomes
<1>4. Consumed(frame) /\ frame.cursor <= Len(frame.history)
  BY <1>3 DEF IInv, ServedInOrder, ServedUnderTheirIds, Consumed
<1> QED BY <1>1, <1>2, <1>3, <1>4 DEF IInv, ServedInOrder, Agreement, FrameAgrees

(* The invariants on what was served, from the facts about the frame. *)
LEMMA ServedFromConsumed ==
    ASSUME frame' \in Frame, Consumed(frame)', frame'.history = data'[frame'.wid],
           frame'.pc # "body" => frame'.cursor = Len(frame'.history)
    PROVE  ServedInOrder' /\ ServedUnderTheirIds'
<1>1. frame'.outcomes \in Outcomes
  BY DEF Frame
<1>2. DOMAIN frame'.outcomes = 1..Len(frame'.outcomes)
  BY <1>1, LenProperties DEF Outcomes
<1> QED BY <1>2 DEF Consumed, ServedInOrder, ServedUnderTheirIds

LEMMA AttemptConsumed ==
    ASSUME NEW w \in Wids, NEW b \in Versions[w], NEW h \in Seq(HistoryEvent)
    PROVE  /\ Attempt(w, b, h) \in Frame
           /\ Consumed(Attempt(w, b, h))
<1>1. Len(h) \in Nat /\ b \in Bodies /\ <<>> \in Outcomes /\ Len(<<>>) = 0
  BY LenProperties, VersionsAssumption DEF Outcomes
<1>2. Attempt(w, b, h) \in Frame
  BY <1>1 DEF Attempt, Frame
<1> QED BY <1>1, <1>2, AnswersOfNone DEF Attempt, Consumed

(* Consumed is about four fields of the frame. *)
LEMMA ConsumedSame ==
    ASSUME NEW f, NEW g, Consumed(f), g.outcomes = f.outcomes, g.cursor = f.cursor,
           g.history = f.history, g.body = f.body
    PROVE  Consumed(g)
  BY DEF Consumed

(* An answer from the history ... *)
LEMMA ServeConsumed ==
    ASSUME NEW f \in Frame, Consumed(f), f.cursor < Len(f.history),
           Do(f.body, f.outcomes) = StepOp(f.history[f.cursor + 1].step_id),
           NEW g, g = [f EXCEPT !.cursor = @ + 1,
                                !.outcomes = Append(@, f.history[f.cursor + 1].result)]
    PROVE  Consumed(g)
<1> DEFINE o == f.outcomes  c == f.cursor  h == f.history  v == h[c + 1].result
           p == Append(o, v)
<1>1. /\ o \in Outcomes /\ h \in Seq(HistoryEvent) /\ c \in Nat /\ Len(h) \in Nat
      /\ Len(o) \in Nat
  BY LenProperties DEF Frame, Outcomes
<1>2. c + 1 \in 1..Len(h) /\ v \in Values
  BY <1>1, EventType
<1>3. v # None
  BY <1>2, CatchingAssumption
<1>4. /\ g.outcomes = p /\ g.cursor = c + 1 /\ g.history = h
      /\ g.body = f.body
  BY DEF Frame
<1>5. /\ p \in Outcomes /\ Len(p) = Len(o) + 1
      /\ \A i \in 1..Len(o) : p[i] = o[i]
      /\ p[Len(o) + 1] = v
  BY <1>1, <1>2, AppendProperties DEF Outcomes
<1>6. /\ \A n \in 0..Len(o) : Answers(p, n) = Answers(o, n)
      /\ Answers(p, Len(o) + 1) = c + 1
  BY <1>1, <1>2, <1>3, AnswersAppend DEF Consumed
<1> HIDE DEF p
<1>7. \A n \in 1..(Len(o) + 1) : SubSeq(p, 1, n - 1) = SubSeq(o, 1, n - 1)
  BY <1>1, <1>5
<1>8. SubSeq(o, 1, Len(o)) = o
  BY <1>1, SubSeqFull DEF Outcomes
<1>9. ASSUME NEW n \in 1..(Len(o) + 1), p[n] # None
      PROVE  /\ p[n] = h[Answers(p, n)].result
             /\ Do(f.body, SubSeq(p, 1, n - 1))
                   = StepOp(h[Answers(p, n)].step_id)
  <2>1. CASE n \in 1..Len(o)
    <3>1. p[n] = o[n] /\ Answers(p, n) = Answers(o, n) /\ o[n] # None
      BY <1>1, <1>5, <1>6, <1>9, <2>1
    <3> QED BY <1>7, <2>1, <3>1 DEF Consumed
  <2>2. CASE n = Len(o) + 1
    <3>1. p[n] = v /\ Answers(p, n) = c + 1 /\ n - 1 = Len(o)
      BY <1>1, <1>5, <1>6, <2>2
    <3>2. SubSeq(p, 1, n - 1) = o
      BY <1>7, <1>8, <3>1
    <3> QED BY <3>1, <3>2
  <2> QED BY <1>1, <2>1, <2>2
<1>10. Answers(p, Len(p)) = c + 1 /\ c + 1 <= Len(h) /\ 1..Len(p) = 1..(Len(o) + 1)
  BY <1>1, <1>2, <1>5, <1>6
<1> HIDE DEF o, c, h, v
<1> QED BY <1>4, <1>5, <1>9, <1>10 DEF Consumed

(* ... and a throw that is caught, with or without a new event. *)
LEMMA CaughtConsumed ==
    ASSUME NEW f \in Frame, Consumed(f), NEW h \in Seq(HistoryEvent),
           Len(f.history) <= Len(h),
           \A i \in 1..Len(f.history) : h[i] = f.history[i]
    PROVE  /\ Caught([f EXCEPT !.history = h]) \in Frame
           /\ Consumed(Caught([f EXCEPT !.history = h]))
<1> DEFINE o == f.outcomes  p == Append(o, None)
           g == Caught([f EXCEPT !.history = h])
<1>1. /\ o \in Outcomes /\ f.history \in Seq(HistoryEvent) /\ f.cursor \in Nat
      /\ Len(f.history) \in Nat /\ Len(o) \in Nat /\ Len(h) \in Nat
  BY LenProperties DEF Frame, Outcomes
<1>2. /\ p \in Outcomes /\ Len(p) = Len(o) + 1
      /\ \A i \in 1..Len(o) : p[i] = o[i]
      /\ p[Len(o) + 1] = None
  BY <1>1, AppendProperties DEF Outcomes
<1>3. g \in Frame
  BY <1>2 DEF Caught, Frame
<1>4. g.outcomes = p /\ g.cursor = f.cursor /\ g.history = h /\ g.body = f.body
  BY DEF Caught, Frame
<1>5. /\ \A n \in 0..Len(o) : Answers(p, n) = Answers(o, n)
      /\ Answers(p, Len(o) + 1) = f.cursor
  BY <1>1, AnswersAppend DEF Consumed
<1> HIDE DEF p, g
<1>6. \A n \in 1..(Len(o) + 1) : SubSeq(p, 1, n - 1) = SubSeq(o, 1, n - 1)
  BY <1>1, <1>2
<1>7. ASSUME NEW n \in 1..(Len(o) + 1), p[n] # None
      PROVE  /\ p[n] = h[Answers(p, n)].result
             /\ Do(f.body, SubSeq(p, 1, n - 1)) = StepOp(h[Answers(p, n)].step_id)
  <2>1. n \in 1..Len(o) /\ o[n] # None
    BY <1>1, <1>2, <1>7
  <2>2. Answers(o, n) \in 1..Len(f.history)
    BY <1>1, <2>1, AnswersBounds DEF Consumed
  <2>3. p[n] = o[n] /\ Answers(p, n) = Answers(o, n)
    BY <1>1, <1>2, <1>5, <2>1
  <2>4. /\ o[n] = f.history[Answers(o, n)].result
        /\ Do(f.body, SubSeq(o, 1, n - 1)) = StepOp(f.history[Answers(o, n)].step_id)
    BY <2>1 DEF Consumed
  <2>5. h[Answers(o, n)] = f.history[Answers(o, n)]
    BY <2>2
  <2> QED BY <1>6, <2>3, <2>4, <2>5
<1>8. Consumed(g)
  BY <1>1, <1>2, <1>4, <1>5, <1>7 DEF Consumed
<1> QED BY <1>3, <1>8 DEF g, p

-----------------------------------------------------------------------------
(* IInv is inductive *)

(* A step that the attempt in progress takes in its workflow. *)
LEMMA GoesOnIInv ==
    ASSUME IInv, Running, frame' \in Frame, Consumed(frame)',
           frame'.wid = frame.wid, frame'.body = frame.body,
           frame'.history = data'[frame.wid],
           frame'.pc # "body" => /\ frame'.cursor = Len(frame'.history)
                                 /\ frame'.id \in StepIds,
           frame'.pc = "called" => frame'.result \in Values,
           data' \in [Wids -> Seq(HistoryEvent)],
           \A w \in Wids : w # frame.wid => data'[w] = data[w],
           replays' \in Nat, faults' \in 0..MaxFaults,
           execs' \in [Wids -> Nat], lost' \in [Wids -> Nat], UNCHANGED returned,
           EffectsAccounted',
           Unchanged(frame.wid) /\ Clean(frame.wid) =>
               /\ data'[frame.wid] = data[frame.wid]
               /\ frame'.pc = "body"
               /\ frame'.cursor <= Len(returned[frame.wid])
               /\ frame'.outcomes = Results(data[frame.wid], frame'.cursor)
    PROVE  IInv'
<1>1. TypeOK'
  BY DEF IInv, TypeOK
<1>2. ServedInOrder' /\ ServedUnderTheirIds'
  BY ServedFromConsumed
<1>3. FrameAgrees'
  BY FrameFacts DEF FrameAgrees
<1>4. ASSUME NEW w \in Wids, Unchanged(w), Clean(w)'
      PROVE  AnswerIsDurable(w)'
  <2>1. Clean(w) /\ AnswerIsDurable(w)
    BY <1>4 DEF Clean, IInv, Agreement
  <2>2. CASE w = frame.wid
    BY <1>4, <2>1, <2>2 DEF AnswerIsDurable
  <2>3. CASE w # frame.wid
    BY <2>1, <2>3 DEF AnswerIsDurable
  <2> QED BY <2>2, <2>3
<1> QED BY <1>1, <1>2, <1>3, <1>4 DEF IInv, Agreement

(* A step after which no call of run is in progress. *)
LEMMA EndedIInv ==
    ASSUME IInv, frame' = None, UNCHANGED <<data, returned>>,
           replays' \in Nat, faults' \in 0..MaxFaults,
           execs' \in [Wids -> Nat], lost' \in [Wids -> Nat], EffectsAccounted'
    PROVE  IInv'
<1>1. ~ Running'
  BY DEF Running
<1>2. TypeOK'
  BY DEF IInv, TypeOK
<1>3. ASSUME NEW w \in Wids, Unchanged(w), Clean(w)'
      PROVE  AnswerIsDurable(w)'
  <2>1. AnswerIsDurable(w)
    BY <1>3 DEF Clean, IInv, Agreement
  <2> QED BY <1>1, <2>1 DEF AnswerIsDurable
<1> QED BY <1>1, <1>2, <1>3
        DEF IInv, ServedInOrder, ServedUnderTheirIds, Agreement

(* An attempt at a workflow that has a clean answer is between two steps,  *)
(* and its next step is served, until it returns that answer again.        *)
LEMMA OnTheWay ==
    ASSUME IInv, Running, Unchanged(frame.wid), Clean(frame.wid)
    PROVE  /\ frame.pc = "body"
           /\ Len(returned[frame.wid]) \in Nat
           /\ frame.cursor <= Len(returned[frame.wid])
           /\ frame.outcomes = Results(data[frame.wid], frame.cursor)
           /\ frame.cursor = Len(returned[frame.wid]) =>
                 /\ frame.outcomes = returned[frame.wid]
                 /\ Do(frame.body, frame.outcomes) = ReturnOp
           /\ frame.cursor # Len(returned[frame.wid]) =>
                 /\ Recorded
                 /\ Do(frame.body, frame.outcomes) = StepOp(Event.step_id)
<1> DEFINE w == frame.wid  n == Len(returned[w])  c == frame.cursor
<1>1. /\ w \in Wids /\ frame.body \in Versions[w] /\ frame.history = data[w]
      /\ c \in Nat /\ Len(data[w]) \in Nat
  BY FrameFacts, LenProperties
<1>2. AnswerIsDurable(w)
  BY <1>1 DEF IInv, Agreement
<1>3. /\ n <= Len(data[w]) /\ returned[w] = Results(data[w], n)
      /\ Follows(frame.body, data[w], n) /\ Do(frame.body, returned[w]) = ReturnOp
      /\ frame.pc = "body" /\ c <= n /\ frame.outcomes = Results(data[w], c)
  BY <1>1, <1>2 DEF AnswerIsDurable
<1>4. n \in Nat
  <2>1. returned[w] \in Outcomes
    BY <1>1 DEF IInv, TypeOK, Clean
  <2> QED BY <2>1, LenProperties DEF Outcomes
<1>5. CASE c = n
  BY <1>3, <1>4, <1>5
<1>6. CASE c # n
  <2>1. c + 1 \in 1..n /\ (c + 1) - 1 = c
    BY <1>1, <1>3, <1>4, <1>6
  <2>2. Do(frame.body, Results(data[w], (c + 1) - 1)) = StepOp(data[w][c + 1].step_id)
    <3> HIDE DEF c, n
    <3> QED BY <1>3, <2>1 DEF Follows
  <2> QED BY <1>1, <1>3, <1>4, <1>6, <2>1, <2>2 DEF Recorded, Event
<1> QED BY <1>3, <1>4, <1>5, <1>6

LEMMA PendingType ==
    ASSUME NEW w
    PROVE  Pending(w) \in {0, 1}
  BY DEF Pending

LEMMA RunIInv ==
    ASSUME IInv, NEW w \in Wids, NEW b \in Versions[w], Run(w, b)
    PROVE  IInv'
<1> DEFINE a == Attempt(w, b, data[w])
<1>1. data[w] \in Seq(HistoryEvent) /\ b \in Bodies
  BY VersionsAssumption DEF IInv, TypeOK
<1>2. a \in Frame /\ Consumed(a) /\ a.pc = "body" /\ a.wid = w /\ a.body = b
      /\ a.history = data[w] /\ a.cursor = 0 /\ a.outcomes = <<>>
  BY <1>1, AttemptConsumed DEF Attempt
<1> HIDE DEF a
<1>3. frame' = a /\ UNCHANGED <<data, replays, faults, execs, lost, returned>>
  BY DEF Run, load, a
<1>4. TypeOK'
  BY <1>2, <1>3 DEF IInv, TypeOK
<1>5. ServedInOrder' /\ ServedUnderTheirIds'
  BY <1>2, <1>3, ServedFromConsumed DEF Consumed
<1>6. EffectsAccounted'
  BY <1>2, <1>3 DEF IInv, EffectsAccounted, Pending, Run, Running
<1>7. FrameAgrees'
  BY <1>2, <1>3 DEF FrameAgrees
<1>8. ASSUME NEW u \in Wids, Unchanged(u), Clean(u)'
      PROVE  AnswerIsDurable(u)'
  <2>1. returned[u] \in Outcomes /\ AnswerIsDurable(u)
    BY <1>3, <1>8 DEF Clean, IInv, TypeOK, Agreement
  <2>2. Len(returned[u]) \in Nat
    BY <2>1, LenProperties DEF Outcomes
  <2>3. Results(data[u], 0) = <<>>
    BY DEF Results
  <2> QED BY <1>2, <1>3, <2>1, <2>2, <2>3 DEF AnswerIsDurable
<1> QED BY <1>4, <1>5, <1>6, <1>7, <1>8 DEF IInv, Agreement

LEMMA ServeIInv ==
    ASSUME IInv, Serve
    PROVE  IInv'
<1> DEFINE f == frame  h == f.history  c == f.cursor  w == f.wid
<1>1. PICK id \in StepIds : Calls(id) /\ Recorded /\ Event.step_id = id
  BY DEF Serve
<1>2. Running /\ f.pc = "body" /\ Do(f.body, f.outcomes) = StepOp(h[c + 1].step_id)
      /\ c < Len(h)
  BY <1>1 DEF Calls, Recorded, Event
<1>3. /\ f \in Frame /\ w \in Wids /\ h \in Seq(HistoryEvent) /\ h = data[w]
      /\ c \in 0..Len(h) /\ Consumed(f) /\ f.outcomes \in Outcomes
  BY <1>2, FrameFacts
<1>4. c + 1 \in 1..Len(h) /\ h[c + 1].result \in Values /\ c \in 0..(Len(h) - 1)
  BY <1>2, <1>3, LenProperties, EventType
<1>5. frame' = [f EXCEPT !.cursor = @ + 1,
                         !.outcomes = Append(@, h[c + 1].result)]
  BY DEF Serve, Event
<1>6. /\ frame'.pc = "body" /\ frame'.wid = w /\ frame'.body = f.body
      /\ frame'.history = h /\ frame'.cursor = c + 1
      /\ frame'.outcomes = Append(f.outcomes, h[c + 1].result)
  BY <1>2, <1>3, <1>5 DEF Frame
<1>7. frame' \in Frame
  <2>1. Append(f.outcomes, h[c + 1].result) \in Outcomes /\ c + 1 \in Nat
    BY <1>3, <1>4, AppendProperties DEF Outcomes
  <2> QED BY <1>3, <1>5, <2>1 DEF Frame
<1>8. Consumed(frame)'
  <2>1. f \in Frame /\ Consumed(f) /\ f.cursor < Len(f.history)
        /\ Do(f.body, f.outcomes) = StepOp(f.history[f.cursor + 1].step_id)
    BY <1>2, <1>3
  <2>2. ASSUME NEW g, g = frame'
        PROVE  Consumed(g)
    <3> HIDE DEF f, h, c
    <3> QED BY <1>5, <2>1, <2>2, ServeConsumed DEF h, c
  <2> QED BY <2>2 DEF Consumed
<1>9. EffectsAccounted'
  BY <1>2, <1>6 DEF Serve, IInv, EffectsAccounted, Pending, Running
<1>10. ASSUME Unchanged(w), Clean(w)
       PROVE  c + 1 <= Len(returned[w]) /\ frame'.outcomes = Results(data[w], c + 1)
  <2>1. c # Len(returned[w])
    BY <1>2, <1>10, OnTheWay, OpsDiffer
  <2>2. c + 1 <= Len(returned[w]) /\ f.outcomes = Results(data[w], c)
    BY <1>2, <1>3, <1>10, <2>1, OnTheWay
  <2>3. Results(data[w], c + 1) = Append(Results(data[w], c), h[c + 1].result)
    <3> HIDE DEF c, h, w
    <3> QED BY <1>3, <1>4, ResultsExtend
  <2> QED BY <1>6, <2>2, <2>3
<1> QED
  <2>1. UNCHANGED <<data, replays, faults, execs, lost, returned>>
    BY DEF Serve
  <2> HIDE DEF f, h, c, w
  <2>2. TypeOK
    BY DEF IInv
  <2> QED
    BY <1>2, <1>3, <1>6, <1>7, <1>8, <1>9, <1>10, <2>1, <2>2, GoesOnIInv
    DEF TypeOK, f, h, c, w

(* What a throw leaves: the attempt in the body again, or nothing. *)
LEMMA ThrowFrame ==
    ASSUME IInv, Running, Throw(frame)
    PROVE  /\ \A w : Pending(w)' = 0
           /\ \/ frame' = None
              \/ /\ frame' \in Frame /\ Consumed(frame)'
                 /\ frame'.pc = "body" /\ frame'.wid = frame.wid
                 /\ frame'.body = frame.body /\ frame'.history = frame.history
<1>1. CASE frame.body \notin Catching
  BY <1>1 DEF Throw, Pending, Running
<1>2. CASE frame.body \in Catching
  <2> DEFINE f == frame  g == Caught([f EXCEPT !.history = f.history])
  <2>1. /\ f \in Frame /\ Consumed(f) /\ f.history \in Seq(HistoryEvent)
        /\ Len(f.history) \in Nat
    BY FrameFacts, LenProperties
  <2>2. [f EXCEPT !.history = f.history] = f
    BY <2>1 DEF Frame
  <2>3. frame' = g
    BY <1>2, <2>2 DEF Throw
  <2>4. g.pc = "body" /\ g.wid = f.wid /\ g.body = f.body /\ g.history = f.history
    BY <2>1 DEF Caught, Frame
  <2>5. g \in Frame /\ Consumed(g)
    <3> HIDE DEF f
    <3> QED BY <2>1, CaughtConsumed
  <2> HIDE DEF f, g
  <2>6. Consumed(frame)'
    BY <2>3, <2>5 DEF Consumed
  <2>7. \A w : Pending(w)' = 0
    BY <2>3, <2>4 DEF Pending
  <2> QED BY <2>3, <2>4, <2>5, <2>6, <2>7 DEF f
<1> QED BY <1>1, <1>2

LEMMA ThrowIInv ==
    ASSUME IInv, Running, Throw(frame), UNCHANGED <<data, replays, returned>>,
           faults' \in 0..MaxFaults, execs' \in [Wids -> Nat],
           lost' \in [Wids -> Nat],
           \A w \in Wids : execs'[w] = Len(data[w]) + lost'[w],
           ~ (Unchanged(frame.wid) /\ Clean(frame.wid))
    PROVE  IInv'
<1>1. TypeOK /\ replays' \in Nat
  BY DEF IInv, TypeOK
<1>2. EffectsAccounted'
  <2> SUFFICES ASSUME NEW w \in Wids
               PROVE  execs'[w] = Len(data'[w]) + lost'[w] + Pending(w)'
    BY DEF EffectsAccounted
  <2>1. Len(data[w]) + lost'[w] \in Nat
    BY <1>1, LenProperties DEF TypeOK
  <2> QED BY <2>1, ThrowFrame
<1>3. CASE frame' = None
  BY <1>1, <1>2, <1>3, EndedIInv
<1>4. CASE frame' # None
  <2>1. /\ frame' \in Frame /\ Consumed(frame)'
        /\ frame'.pc = "body" /\ frame'.wid = frame.wid
        /\ frame'.body = frame.body /\ frame'.history = frame.history
    BY <1>4, ThrowFrame
  <2>2. frame.history = data[frame.wid] /\ data \in [Wids -> Seq(HistoryEvent)]
    BY <1>1, FrameFacts DEF TypeOK
  <2> QED BY <1>1, <1>2, <2>1, <2>2, GoesOnIInv
<1> QED BY <1>3, <1>4

LEMMA MismatchIInv ==
    ASSUME IInv, Mismatch
    PROVE  IInv'
<1>1. PICK id \in StepIds : Calls(id) /\ Recorded /\ Event.step_id # id
  BY DEF Mismatch
<1>2. Running /\ frame.pc = "body" /\ Throw(frame)
      /\ UNCHANGED <<data, replays, faults, execs, lost, returned>>
  BY <1>1 DEF Calls, Mismatch
<1>3. ~ (Unchanged(frame.wid) /\ Clean(frame.wid))
  BY <1>1, <1>2, OnTheWay, OpsDiffer DEF Calls
<1>4. TypeOK
  BY DEF IInv
<1>5. ASSUME NEW w \in Wids
      PROVE  execs'[w] = Len(data[w]) + lost'[w]
  <2>1. execs[w] = Len(data[w]) + lost[w] + Pending(w) /\ Pending(w) = 0
    BY <1>2 DEF IInv, EffectsAccounted, Pending
  <2>2. Len(data[w]) \in Nat /\ lost[w] \in Nat
    BY <1>4, LenProperties DEF TypeOK
  <2> QED BY <1>2, <2>1, <2>2
<1> QED BY <1>2, <1>3, <1>4, <1>5, ThrowIInv DEF TypeOK

LEMMA CallFnIInv ==
    ASSUME IInv, CallFn
    PROVE  IInv'
<1>1. PICK id \in StepIds : Calls(id) /\ frame' = [frame EXCEPT !.pc = "fn", !.id = id]
  BY DEF CallFn
<1>2. Running /\ ~ Recorded /\ frame.pc = "body"
      /\ Do(frame.body, frame.outcomes) = StepOp(id)
      /\ UNCHANGED <<data, replays, faults, execs, lost, returned>>
  BY <1>1 DEF Calls, CallFn
<1>3. /\ frame \in Frame /\ frame.history = data[frame.wid] /\ Consumed(frame)
      /\ frame.cursor = Len(frame.history)
  <2>1. frame.cursor \in 0..Len(frame.history) /\ Len(frame.history) \in Nat
    BY <1>2, FrameFacts, LenProperties
  <2> QED BY <1>2, <2>1, FrameFacts DEF Recorded
<1>4. /\ frame' \in Frame /\ frame'.pc = "fn" /\ frame'.wid = frame.wid
      /\ frame'.body = frame.body /\ frame'.history = frame.history
      /\ frame'.cursor = frame.cursor /\ frame'.outcomes = frame.outcomes
      /\ frame'.id = id
  BY <1>1, <1>3 DEF Frame
<1>5. Consumed(frame)'
  BY <1>3, <1>4 DEF Consumed
<1>6. EffectsAccounted'
  BY <1>2, <1>4 DEF IInv, EffectsAccounted, Pending, Running
<1>7. ~ (Unchanged(frame.wid) /\ Clean(frame.wid))
  BY <1>2, OnTheWay, OpsDiffer
<1>8. TypeOK
  BY DEF IInv
<1> QED BY <1>2, <1>3, <1>4, <1>5, <1>6, <1>7, <1>8, GoesOnIInv DEF TypeOK

LEMMA FnReturnsIInv ==
    ASSUME IInv, FnReturns
    PROVE  IInv'
<1>1. PICK v \in Values : frame' = [frame EXCEPT !.pc = "called", !.result = v]
  BY DEF FnReturns
<1>2. Running /\ frame.pc = "fn" /\ execs' = [execs EXCEPT ![frame.wid] = @ + 1]
      /\ UNCHANGED <<data, replays, faults, lost, returned>>
  BY DEF FnReturns
<1>3. /\ frame \in Frame /\ frame.wid \in Wids /\ frame.history = data[frame.wid]
      /\ Consumed(frame) /\ frame.cursor = Len(frame.history) /\ frame.id \in StepIds
  BY <1>2, FrameFacts
<1>4. /\ frame' \in Frame /\ frame'.pc = "called" /\ frame'.wid = frame.wid
      /\ frame'.body = frame.body /\ frame'.history = frame.history
      /\ frame'.cursor = frame.cursor /\ frame'.outcomes = frame.outcomes
      /\ frame'.id = frame.id /\ frame'.result = v
  BY <1>1, <1>3 DEF Frame
<1>5. Consumed(frame)'
  BY <1>3, <1>4 DEF Consumed
<1>6. TypeOK
  BY DEF IInv
<1>7. execs' \in [Wids -> Nat]
  BY <1>2, <1>3, <1>6 DEF TypeOK
<1>8. EffectsAccounted'
  <2> SUFFICES ASSUME NEW w \in Wids
               PROVE  execs'[w] = Len(data'[w]) + lost'[w] + Pending(w)'
    BY DEF EffectsAccounted
  <2>1. execs[w] = Len(data[w]) + lost[w] + Pending(w) /\ Pending(w) = 0
    BY <1>2 DEF IInv, EffectsAccounted, Pending
  <2>2. Len(data[w]) \in Nat /\ lost[w] \in Nat /\ execs[w] \in Nat
    BY <1>6, LenProperties DEF TypeOK
  <2>3. Running'
    BY <1>4, FrameAssumption DEF Running
  <2>4. CASE w = frame.wid
    <3>1. Pending(w)' = 1
      BY <1>4, <2>3, <2>4 DEF Pending
    <3>2. execs'[w] = execs[w] + 1
      BY <1>2, <1>3, <1>6, <2>4 DEF TypeOK
    <3> QED BY <1>2, <2>1, <2>2, <3>1, <3>2
  <2>5. CASE w # frame.wid
    <3>1. Pending(w)' = 0
      BY <1>4, <2>5 DEF Pending
    <3>2. execs'[w] = execs[w]
      BY <1>2, <1>6, <2>5 DEF TypeOK
    <3> QED BY <1>2, <2>1, <2>2, <3>1, <3>2
  <2> QED BY <2>4, <2>5
<1>9. ~ (Unchanged(frame.wid) /\ Clean(frame.wid))
  BY <1>2, OnTheWay
<1> QED BY <1>2, <1>3, <1>4, <1>5, <1>6, <1>7, <1>8, <1>9, GoesOnIInv DEF TypeOK

LEMMA RecordIInv ==
    ASSUME IInv, Record
    PROVE  IInv'
<1> DEFINE f == frame  w == f.wid  h == f.history
           ev == [seq |-> Len(h), step_id |-> f.id, result |-> f.result]
           k == Append(h, ev)
<1>1. Running /\ f.pc = "called" /\ data' = [data EXCEPT ![w] = k]
      /\ UNCHANGED <<faults, execs, lost, returned>>
  BY DEF Record, save, Pushed
<1>2. /\ f \in Frame /\ w \in Wids /\ f.body \in Versions[w] /\ h = data[w]
      /\ h \in Seq(HistoryEvent) /\ Consumed(f) /\ f.id \in StepIds
      /\ f.result \in Values
  BY <1>1, FrameFacts
<1>3. TypeOK /\ Len(h) \in Nat
  BY <1>2, LenProperties DEF IInv
<1>4. ev \in HistoryEvent
  BY <1>2, <1>3 DEF HistoryEvent
<1>5. /\ k \in Seq(HistoryEvent) /\ Len(k) = Len(h) + 1
      /\ \A i \in 1..Len(h) : k[i] = h[i]
  <2> HIDE DEF h, ev
  <2> QED BY <1>2, <1>4, AppendProperties
<1>6. data' \in [Wids -> Seq(HistoryEvent)] /\ data'[w] = k
      /\ \A u \in Wids : u # w => data'[u] = data[u]
  <2> HIDE DEF k
  <2> QED BY <1>1, <1>2, <1>3, <1>5 DEF TypeOK
<1>7. /\ frame' \in Frame /\ Consumed(frame)' /\ frame'.pc = "body"
      /\ frame'.wid = w /\ frame'.body = f.body /\ frame'.history = k
      /\ replays' \in Nat
  <2> DEFINE g == Caught([f EXCEPT !.history = k])  a == Attempt(w, f.body, k)
  <2>1. CASE f.body \in Catching
    <3>1. frame' = g /\ replays' = replays
      BY <2>1 DEF Record, Pushed
    <3>2. g.pc = "body" /\ g.wid = w /\ g.body = f.body /\ g.history = k
      BY <1>2 DEF Caught, Frame
    <3>3. g \in Frame /\ Consumed(g)
      <4> HIDE DEF k, f
      <4> QED BY <1>2, <1>3, <1>5, CaughtConsumed DEF h
    <3> HIDE DEF g, k, f
    <3>4. Consumed(frame)'
      BY <3>1, <3>3 DEF Consumed
    <3> QED BY <1>3, <3>1, <3>2, <3>3, <3>4 DEF TypeOK
  <2>2. CASE f.body \notin Catching
    <3>1. frame' = a /\ replays' = replays + 1
      BY <1>6, <2>2 DEF Record, Pushed
    <3>2. a.pc = "body" /\ a.wid = w /\ a.body = f.body /\ a.history = k
      BY DEF Attempt
    <3>3. a \in Frame /\ Consumed(a)
      <4> HIDE DEF k, f, w
      <4> QED BY <1>2, <1>5, AttemptConsumed
    <3> HIDE DEF a, k, f
    <3>4. Consumed(frame)'
      BY <3>1, <3>3 DEF Consumed
    <3> QED BY <1>3, <3>1, <3>2, <3>3, <3>4 DEF TypeOK
  <2> QED BY <2>1, <2>2
<1> HIDE DEF k
<1>8. EffectsAccounted'
  <2> SUFFICES ASSUME NEW u \in Wids
               PROVE  execs'[u] = Len(data'[u]) + lost'[u] + Pending(u)'
    BY DEF EffectsAccounted
  <2>1. execs[u] = Len(data[u]) + lost[u] + Pending(u) /\ Pending(u)' = 0
    BY <1>7 DEF IInv, EffectsAccounted, Pending
  <2>2. Len(data[u]) \in Nat /\ lost[u] \in Nat
    BY <1>3, LenProperties DEF TypeOK
  <2>3. CASE u = w
    <3>1. Pending(u) = 1
      BY <1>1, <2>3 DEF Pending
    <3>2. Len(data'[u]) = Len(data[u]) + 1
      BY <1>2, <1>5, <1>6, <2>3
    <3> QED BY <1>1, <2>1, <2>2, <3>1, <3>2
  <2>4. CASE u # w
    <3>1. Pending(u) = 0
      BY <2>4 DEF Pending
    <3> QED BY <1>1, <1>6, <2>1, <2>2, <2>4, <3>1
  <2> QED BY <2>3, <2>4
<1>9. ~ (Unchanged(w) /\ Clean(w))
  BY <1>1, OnTheWay
<1> QED BY <1>1, <1>3, <1>6, <1>7, <1>8, <1>9, GoesOnIInv DEF TypeOK

(* A clean answer is read off the history: every call of step was served.  *)
LEMMA CleanFrame ==
    ASSUME IInv, Running, \A i \in DOMAIN frame.outcomes : frame.outcomes[i] # None
    PROVE  /\ Len(frame.outcomes) = frame.cursor
           /\ frame.outcomes = Results(data[frame.wid], frame.cursor)
           /\ Follows(frame.body, data[frame.wid], frame.cursor)
<1> DEFINE o == frame.outcomes  h == frame.history  c == frame.cursor
<1>1. /\ o \in Outcomes /\ h = data[frame.wid] /\ h \in Seq(HistoryEvent)
      /\ c \in 0..Len(h) /\ Consumed(frame)
  BY FrameFacts
<1>2. Len(o) \in Nat /\ DOMAIN o = 1..Len(o)
  BY <1>1, LenProperties DEF Outcomes
<1>3. \A n \in 0..Len(o) : Answers(o, n) = n
  BY <1>2, AnswersOfAll
<1>4. Len(o) = c
  BY <1>1, <1>2, <1>3 DEF Consumed
<1>5. \A n \in 1..c : /\ o[n] = h[n].result
                      /\ Do(frame.body, SubSeq(o, 1, n - 1)) = StepOp(h[n].step_id)
  BY <1>1, <1>2, <1>3, <1>4 DEF Consumed
<1>6. o = Results(h, c)
  <2>1. /\ Results(h, c) \in Seq(Values) /\ Len(Results(h, c)) = c
        /\ \A n \in 1..c : Results(h, c)[n] = h[n].result
    <3> HIDE DEF c, h
    <3> QED BY <1>1, ResultsType
  <2>2. Results(h, c) \in Seq(Values \cup {None}) /\ o \in Seq(Values \cup {None})
    BY <1>1, <2>1 DEF Outcomes
  <2> HIDE DEF o, h, c
  <2> QED BY <1>4, <1>5, <2>1, <2>2, SeqEqual
<1>7. ASSUME NEW n \in 1..c
      PROVE  SubSeq(o, 1, n - 1) = Results(h, n - 1)
  <2>1. c \in Nat /\ Len(h) \in Nat /\ n - 1 \in 0..Len(h)
    BY <1>1, LenProperties
  <2>2. /\ Results(h, n - 1) \in Seq(Values) /\ Len(Results(h, n - 1)) = n - 1
        /\ \A i \in 1..(n - 1) : Results(h, n - 1)[i] = h[i].result
    <3> HIDE DEF c, h
    <3> QED BY <1>1, <2>1, ResultsType
  <2>3. /\ SubSeq(o, 1, n - 1) \in Seq(Values \cup {None})
        /\ Len(SubSeq(o, 1, n - 1)) = n - 1
        /\ \A i \in 1..(n - 1) : SubSeq(o, 1, n - 1)[i] = o[i]
    <3> HIDE DEF o, c, h
    <3> QED BY <1>1, <1>2, <1>4, <2>1, SubSeqProperties DEF Outcomes
  <2>4. Results(h, n - 1) \in Seq(Values \cup {None})
    BY <2>2
  <2>5. \A i \in 1..(n - 1) : SubSeq(o, 1, n - 1)[i] = Results(h, n - 1)[i]
    <3> HIDE DEF o, c, h
    <3> QED BY <1>5, <2>1, <2>2, <2>3
  <2> HIDE DEF o, h, c
  <2> QED BY <2>2, <2>3, <2>4, <2>5, SeqEqual
<1>8. Follows(frame.body, h, c)
  BY <1>5, <1>7 DEF Follows
<1> QED BY <1>1, <1>4, <1>6, <1>8

LEMMA ReturnIInv ==
    ASSUME IInv, Return
    PROVE  IInv'
<1> DEFINE w == frame.wid
<1>1. /\ Running /\ frame.pc = "body" /\ frame' = None
      /\ Do(frame.body, frame.outcomes) = ReturnOp
      /\ returned' = [returned EXCEPT ![w] = frame.outcomes]
      /\ UNCHANGED <<data, replays, faults, execs, lost>>
  BY DEF Return
<1>2. TypeOK /\ ~ Running' /\ w \in Wids /\ frame.outcomes \in Outcomes
      /\ frame.body \in Versions[w] /\ frame.cursor \in 0..Len(data[w])
      /\ Len(data[w]) \in Nat
  BY <1>1, FrameFacts, LenProperties DEF IInv, Running
<1>3. returned' \in [Wids -> Outcomes \cup {None}] /\ returned'[w] = frame.outcomes
      /\ \A u \in Wids : u # w => returned'[u] = returned[u]
  BY <1>1, <1>2 DEF TypeOK
<1>4. TypeOK'
  BY <1>1, <1>2, <1>3 DEF TypeOK
<1>5. EffectsAccounted'
  BY <1>1, <1>2 DEF IInv, EffectsAccounted, Pending
<1>6. ASSUME NEW u \in Wids, Unchanged(u), Clean(u)'
      PROVE  AnswerIsDurable(u)'
  <2>1. CASE u = w
    <3>1. \A i \in DOMAIN frame.outcomes : frame.outcomes[i] # None
      BY <1>3, <1>6, <2>1 DEF Clean
    <3>2. /\ Len(frame.outcomes) = frame.cursor
          /\ frame.outcomes = Results(data[w], frame.cursor)
          /\ Follows(frame.body, data[w], frame.cursor)
      BY <1>1, <3>1, CleanFrame
    <3>3. \A b \in Versions[w] : b = frame.body
      BY <1>2, <1>6, <2>1 DEF Unchanged
    <3> QED BY <1>1, <1>2, <1>3, <2>1, <3>2, <3>3 DEF AnswerIsDurable
  <2>2. CASE u # w
    <3>1. Clean(u) /\ AnswerIsDurable(u)
      BY <1>3, <1>6, <2>2 DEF Clean, IInv, Agreement
    <3> QED BY <1>1, <1>2, <1>3, <2>2, <3>1 DEF AnswerIsDurable
  <2> QED BY <2>1, <2>2
<1> QED BY <1>2, <1>4, <1>5, <1>6
        DEF IInv, ServedInOrder, ServedUnderTheirIds, Agreement

(* A failure keeps the effect of the step function in progress from being  *)
(* recorded, if it had one.                                                *)
LEMMA FaultFacts ==
    ASSUME IInv, Fault
    PROVE  /\ Running /\ faults' \in 0..MaxFaults
           /\ lost' \in [Wids -> Nat]
           /\ \A w \in Wids : execs[w] = Len(data[w]) + lost'[w]
<1>1. TypeOK /\ Running /\ faults' = faults + 1 /\ faults < MaxFaults
  BY DEF IInv, Fault
<1>2. \A w \in Wids : lost'[w] = lost[w] + Pending(w) /\ lost[w] \in Nat
                      /\ Len(data[w]) \in Nat
  BY <1>1, LenProperties DEF Fault, TypeOK
<1>3. lost' \in [Wids -> Nat]
  BY <1>1, <1>2, PendingType DEF Fault
<1>4. \A w \in Wids : execs[w] = Len(data[w]) + lost'[w]
  BY <1>2, PendingType DEF IInv, EffectsAccounted
<1> QED BY <1>1, <1>3, <1>4, CatchingAssumption DEF TypeOK

LEMMA FnThrowsIInv ==
    ASSUME IInv, FnThrows
    PROVE  IInv'
<1>1. Fault /\ frame.pc # "body" /\ Throw(frame)
      /\ UNCHANGED <<data, replays, execs, returned>>
  BY DEF FnThrows
<1>2. Running /\ execs' \in [Wids -> Nat]
  BY <1>1, FaultFacts DEF IInv, TypeOK
<1>3. ~ (Unchanged(frame.wid) /\ Clean(frame.wid))
  BY <1>1, <1>2, OnTheWay
<1> QED BY <1>1, <1>2, <1>3, FaultFacts, ThrowIInv

LEMMA InnerStepIInv ==
    ASSUME IInv, NEW id \in StepIds, InnerStep(id)
    PROVE  IInv'
<1>1. Fault /\ frame.pc # "body" /\ Running
      /\ frame' = [frame EXCEPT !.pc = "fn", !.id = id, !.result = None]
      /\ UNCHANGED <<data, replays, execs, returned>>
  BY DEF InnerStep, Fault
<1>2. /\ frame \in Frame /\ frame.history = data[frame.wid] /\ Consumed(frame)
      /\ frame.cursor = Len(frame.history)
  BY <1>1, FrameFacts
<1>3. /\ frame' \in Frame /\ frame'.pc = "fn" /\ frame'.wid = frame.wid
      /\ frame'.body = frame.body /\ frame'.history = frame.history
      /\ frame'.cursor = frame.cursor /\ frame'.outcomes = frame.outcomes
      /\ frame'.id = id
  BY <1>1, <1>2 DEF Frame
<1>4. Consumed(frame)'
  BY <1>2, <1>3 DEF Consumed
<1>5. TypeOK
  BY DEF IInv
<1>6. EffectsAccounted'
  <2> SUFFICES ASSUME NEW w \in Wids
               PROVE  execs'[w] = Len(data'[w]) + lost'[w] + Pending(w)'
    BY DEF EffectsAccounted
  <2>1. Pending(w)' = 0
    BY <1>3 DEF Pending
  <2>2. execs[w] = Len(data[w]) + lost'[w] /\ lost'[w] \in Nat
    BY <1>1, FaultFacts
  <2>3. Len(data[w]) \in Nat
    BY <1>5, LenProperties DEF TypeOK
  <2> QED BY <1>1, <2>1, <2>2, <2>3
<1>7. ~ (Unchanged(frame.wid) /\ Clean(frame.wid))
  BY <1>1, OnTheWay
<1> QED BY <1>1, <1>2, <1>3, <1>4, <1>5, <1>6, <1>7, FaultFacts, GoesOnIInv
        DEF TypeOK

(* The body throws, or the process dies. *)
LEMMA StopIInv ==
    ASSUME IInv, BodyThrows \/ Crash
    PROVE  IInv'
<1>1. Fault /\ frame' = None /\ replays' \in {replays, 0}
      /\ UNCHANGED <<data, execs, returned>>
  BY DEF BodyThrows, Crash
<1>2. TypeOK
  BY DEF IInv
<1>3. EffectsAccounted'
  <2> SUFFICES ASSUME NEW w \in Wids
               PROVE  execs'[w] = Len(data'[w]) + lost'[w] + Pending(w)'
    BY DEF EffectsAccounted
  <2>1. Pending(w)' = 0
    BY <1>1 DEF Pending, Running
  <2>2. execs[w] = Len(data[w]) + lost'[w] /\ lost'[w] \in Nat
    BY <1>1, FaultFacts
  <2>3. Len(data[w]) \in Nat
    BY <1>2, LenProperties DEF TypeOK
  <2> QED BY <1>1, <2>1, <2>2, <2>3
<1> QED BY <1>1, <1>2, <1>3, FaultFacts, EndedIInv DEF TypeOK

-----------------------------------------------------------------------------
(* The theorems *)

(* The inductive invariant holds of every run of the specification: the    *)
(* attempt in progress has consumed the durable history up to its cursor,  *)
(* whatever was swallowed before (run and step of ts/src/engine.ts).       *)
THEOREM Invariance == Spec => []IInv
<1>1. Init => IInv
  <2> SUFFICES ASSUME Init PROVE IInv
    OBVIOUS
  <2>1. ~ Running
    BY DEF Init, Running
  <2>2. <<>> \in Seq(HistoryEvent) /\ Len(<<>>) = 0
    BY EmptySeq
  <2>3. TypeOK
    BY <2>2, CatchingAssumption DEF Init, TypeOK
  <2>4. EffectsAccounted
    BY <2>1, <2>2 DEF Init, EffectsAccounted, Pending
  <2>5. \A w \in Wids : ~ Clean(w)
    BY DEF Init, Clean
  <2> QED BY <2>1, <2>3, <2>4, <2>5
          DEF IInv, ServedInOrder, ServedUnderTheirIds, Agreement
<1>2. IInv /\ [Next]_vars => IInv'
  <2> SUFFICES ASSUME IInv, [Next]_vars PROVE IInv'
    OBVIOUS
  <2>1. CASE UNCHANGED vars
    BY <2>1 DEF vars, IInv, TypeOK, EffectsAccounted, Pending, Running,
                ServedInOrder, ServedUnderTheirIds, Agreement, FrameAgrees,
                AnswerIsDurable, Clean
  <2>2. ASSUME NEW w \in Wids, NEW b \in Versions[w], Run(w, b) PROVE IInv'
    BY <2>2, RunIInv
  <2>3. CASE Serve BY <2>3, ServeIInv
  <2>4. CASE Mismatch BY <2>4, MismatchIInv
  <2>5. CASE CallFn BY <2>5, CallFnIInv
  <2>6. CASE FnReturns BY <2>6, FnReturnsIInv
  <2>7. CASE Record BY <2>7, RecordIInv
  <2>8. CASE Return BY <2>8, ReturnIInv
  <2>9. CASE FnThrows BY <2>9, FnThrowsIInv
  <2>10. ASSUME NEW id \in StepIds, InnerStep(id) PROVE IInv'
    BY <2>10, InnerStepIInv
  <2>11. CASE BodyThrows \/ Crash BY <2>11, StopIInv
  <2> QED
    BY <2>1, <2>2, <2>3, <2>4, <2>5, <2>6, <2>7, <2>8, <2>9, <2>10, <2>11
    DEF Next
<1> QED BY <1>1, <1>2, PTL DEF Spec

(* The state of store, engine and attempt stays within its types.          *)
THEOREM TypeCorrectness == Spec => []TypeOK
<1>1. IInv => TypeOK BY DEF IInv
<1> QED BY <1>1, Invariance, PTL

(* Every side effect performed is in the durable history or was cut off by *)
(* a failure before it could be, whatever the body swallows (the push and  *)
(* persist of step).                                                       *)
THEOREM EffectsAreAccounted == Spec => []EffectsAccounted
<1>1. IInv => EffectsAccounted BY DEF IInv
<1> QED BY <1>1, Invariance, PTL

(* A body gets the recorded results, in order and without a gap, and a     *)
(* step function is called only past the last of them (the cursor of step).*)
THEOREM AnswersComeInOrder == Spec => []ServedInOrder
<1>1. IInv => ServedInOrder BY DEF IInv
<1> QED BY <1>1, Invariance, PTL

(* No step is answered with what was recorded under another id.            *)
THEOREM AnswersComeUnderTheirIds == Spec => []ServedUnderTheirIds
<1>1. IInv => ServedUnderTheirIds BY DEF IInv
<1> QED BY <1>1, Invariance, PTL

(* While the code of a workflow is not changed, a clean answer of it is    *)
(* determined by its durable history.                                      *)
THEOREM AnswersAgree == Spec => []Agreement
<1>1. IInv => Agreement BY DEF IInv
<1> QED BY <1>1, Invariance, PTL

(* An answer computed without swallowing anything is given again by every  *)
(* later run, which performs no effect (resume, which is run).             *)
THEOREM AnswersStand == Spec => CleanAnswersStand
<1>1. ASSUME IInv, [Next]_vars, NEW w \in Wids, Unchanged(w), Clean(w)
      PROVE  returned'[w] = returned[w] /\ execs'[w] = execs[w]
  <2>1. TypeOK
    BY <1>1 DEF IInv
  <2>2. CASE Return
    <3>1. Running /\ frame.pc = "body" /\ Do(frame.body, frame.outcomes) = ReturnOp
          /\ returned' = [returned EXCEPT ![frame.wid] = frame.outcomes]
          /\ UNCHANGED execs
      BY <2>2 DEF Return
    <3>2. CASE w = frame.wid
      <4>1. frame.outcomes = returned[w]
        BY <1>1, <3>1, <3>2, OnTheWay, OpsDiffer
      <4> QED BY <2>1, <3>1, <3>2, <4>1 DEF TypeOK
    <3>3. CASE w # frame.wid
      BY <2>1, <3>1, <3>3 DEF TypeOK
    <3> QED BY <3>1, <3>2, <3>3
  <2>3. CASE FnReturns
    <3>1. Running /\ frame.pc = "fn"
          /\ execs' = [execs EXCEPT ![frame.wid] = @ + 1] /\ UNCHANGED returned
      BY <2>3 DEF FnReturns
    <3>2. w # frame.wid
      BY <1>1, <3>1, OnTheWay
    <3> QED BY <2>1, <3>1, <3>2 DEF TypeOK
  <2>4. CASE UNCHANGED <<execs, returned>>
    BY <2>4
  <2> QED
    BY <1>1, <2>2, <2>3, <2>4
    DEF Next, vars, Run, Serve, Mismatch, CallFn, Record, FnThrows, InnerStep,
        BodyThrows, Crash
<1>2. IInv /\ [Next]_vars =>
         [\A w \in Wids : Unchanged(w) /\ Clean(w) =>
              returned'[w] = returned[w] /\ execs'[w] = execs[w]]_vars
  BY <1>1
<1> QED BY <1>2, Invariance, PTL DEF Spec, CleanAnswersStand

=============================================================================
