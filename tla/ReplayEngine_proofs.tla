------------------------ MODULE ReplayEngine_proofs ------------------------
(***************************************************************************)
(* Safety of the replay engine for every set of engines, workflows, bodies *)
(* and values, as long as callers do not overlap two runs of one workflow  *)
(* id.  IInv is inductive; every other fact follows from it.               *)
(***************************************************************************)
EXTENDS ReplayEngine, Workflow_proofs, DataLemmas

-----------------------------------------------------------------------------
(* Lemmas for several actions *)

(* A frame stays in agreement while neither it nor its history changes. *)
LEMMA FrameKept ==
    ASSUME NEW e \in Engines, FrameAgrees(e), LiveStep(e),
           frame'[e] = frame[e], pc'[e] = pc[e],
           data'[frame[e].wid] = data[frame[e].wid]
    PROVE  (FrameAgrees(e) /\ LiveStep(e))'
  BY DEF FrameAgrees, LiveStep

(* Unchanged code stays in agreement while its history is the same and its *)
(* answer, if it has one, is the old one.                                  *)
LEMMA StoreKept ==
    ASSUME NEW w \in Wids, StoreAgrees(w), data'[w] = data[w],
           returned'[w] = returned[w]
    PROVE  StoreAgrees(w)'
  BY DEF StoreAgrees, Answered

(* An attempt begins in agreement. *)
LEMMA AttemptAgrees ==
    ASSUME NEW c, NEW w \in Wids, NEW b \in Versions[w], NEW h,
           h \in Seq(HistoryEvent)
    PROVE  LET f == Attempt(c, w, b, h)
           IN  /\ f.wid = w /\ f.body = b /\ f.history = h
               /\ f.cursor = 0 /\ f.served = Results(h, 0)
               /\ f.caller = c /\ f.result = None
               /\ Follows(b, h, 0)
<1>1. Results(h, 0) = <<>> BY DEF Results
<1>2. Follows(b, h, 0) BY DEF Follows
<1> QED BY <1>1, <1>2 DEF Attempt

(* The type of a new attempt. *)
LEMMA AttemptType ==
    ASSUME NEW c \in Engines \cup {None}, NEW w \in Wids,
           NEW b \in Versions[w], NEW h \in Seq(HistoryEvent)
    PROVE  Attempt(c, w, b, h) \in Frame
  BY VersionsAssumption, EmptySeq DEF Attempt, Frame

(* The type of no frame. *)
LEMMA NoFrameType == NoFrame \in Frame
  BY EmptySeq DEF NoFrame, Frame

(* When a call of run ends, the other frames stay as they are. *)
LEMMA EndKeeps ==
    ASSUME IInv, NEW e \in Engines, End(e), UNCHANGED data
    PROVE  /\ pc' \in [Engines -> PC] /\ frame' \in [Engines -> Frame]
           /\ FramesAgree' /\ NoOverlap'
<1> USE DEF IInv, TypeOK
<1>1. pc' \in [Engines -> PC] /\ frame' \in [Engines -> Frame]
  BY NoFrameType DEF End, PC
<1>2. \A f \in Engines : Active(f)' =>
          f # e /\ Active(f) /\ frame'[f] = frame[f] /\ pc'[f] = pc[f]
  BY DEF End, Active
<1>3. FramesAgree'
  BY <1>2, FrameKept DEF FramesAgree
<1>4. NoOverlap'
  BY <1>2 DEF NoOverlap
<1> QED BY <1>1, <1>3, <1>4

-----------------------------------------------------------------------------
(* IInv is inductive *)

LEMMA InitIInv == Init => IInv
<1> SUFFICES ASSUME Init PROVE IInv OBVIOUS
<1>1. TypeOK
  BY EngineAssumption, NoFrameType, EmptySeq DEF Init, TypeOK, PC
<1>2. FramesAgree /\ NoOverlap
  BY DEF Init, FramesAgree, NoOverlap, Active
<1>3. ASSUME NEW w \in Wids PROVE StoreAgrees(w)
  BY EmptySeq DEF Init, StoreAgrees, Follows
<1>4. EffectsAccounted
  BY EmptySeq DEF Init, EffectsAccounted, Pending
<1> QED BY <1>1, <1>2, <1>3, <1>4 DEF IInv

LEMMA RunIInv ==
    ASSUME Exclusive, IInv, NEW c \in Engines \cup {None}, NEW e \in Engines,
           NEW w \in Wids, NEW b \in Versions[w], Run(c, e, w, b)
    PROVE  IInv'
<1> USE DEF Run, Load, ghosts
<1>1. data[w] \in Seq(HistoryEvent) BY DEF IInv, TypeOK
<1>2. TypeOK'
  BY <1>1, AttemptType DEF IInv, TypeOK, PC
<1>3. frame'[e] = Attempt(c, w, b, data[w]) /\ pc'[e] = "body"
  BY DEF IInv, TypeOK
<1>4. \A f \in Engines : f # e => frame'[f] = frame[f] /\ pc'[f] = pc[f]
  BY DEF IInv, TypeOK
<1>5. FramesAgree'
  <2> SUFFICES ASSUME NEW f \in Engines, Active(f)'
               PROVE  (FrameAgrees(f) /\ LiveStep(f))'
    BY DEF FramesAgree
  <2>1. CASE f = e
    BY <2>1, <1>1, <1>3, AttemptAgrees, LenProperties DEF FrameAgrees, LiveStep
  <2>2. CASE f # e
    BY <2>2, <1>4, FrameKept DEF IInv, FramesAgree, Active
  <2> QED BY <2>1, <2>2
<1>6. NoOverlap'
  BY <1>1, <1>3, <1>4, AttemptAgrees DEF IInv, NoOverlap, Active
<1>7. ASSUME NEW v \in Wids, Unchanged(v) PROVE StoreAgrees(v)'
  BY <1>7, StoreKept DEF IInv
<1>8. EffectsAccounted'
  BY <1>3, <1>4 DEF IInv, EffectsAccounted, Pending, Active
<1> QED BY <1>2, <1>5, <1>6, <1>7, <1>8 DEF IInv

LEMMA ServeStepIInv ==
    ASSUME IInv, NEW e \in Engines, ServeStep(e)
    PROVE  IInv'
<1> DEFINE h == frame[e].history
           n == frame[e].cursor
<1>1. /\ pc[e] = "body" /\ FrameAgrees(e) /\ frame[e] \in Frame
      /\ Recorded(e)
      /\ Do(frame[e].body, frame[e].served) = StepOp(Event(e).step_id)
  BY DEF ServeStep, Calls, Executing, IInv, FramesAgree, TypeOK
<1>2. UNCHANGED <<data, pc, replays, faults, execs, lost, returned, restored>>
  BY DEF ServeStep, ghosts
<1>3. /\ h \in Seq(HistoryEvent) /\ n \in 0..(Len(h) - 1) /\ n + 1 \in 1..Len(h)
      /\ Event(e) = h[n + 1]
  BY <1>1, LenProperties DEF Frame, Recorded, Event
<1>4. h[n + 1].result \in Values
  BY <1>3, EventType
<1>5. frame'[e] = [frame[e] EXCEPT !.cursor = n + 1,
                                   !.served = Append(frame[e].served, h[n + 1].result)]
  BY <1>3 DEF ServeStep, IInv, TypeOK
<1>6. \A f \in Engines : f # e => frame'[f] = frame[f]
  BY DEF ServeStep, IInv, TypeOK
<1>7. /\ frame'[e].wid = frame[e].wid /\ frame'[e].body = frame[e].body
      /\ frame'[e].history = h /\ frame'[e].cursor = n + 1
      /\ frame'[e].served = Append(frame[e].served, h[n + 1].result)
      /\ frame'[e].result = frame[e].result
  BY <1>1, <1>5 DEF Frame
<1>8. \A f \in Engines : frame'[f].wid = frame[f].wid
  BY <1>6, <1>7
<1>9. TypeOK'
  <2>1. frame[e].served \in Seq(Values) /\ n + 1 \in Nat
    BY <1>1 DEF Frame
  <2>2. Append(frame[e].served, h[n + 1].result) \in Seq(Values)
    BY <1>4, <2>1, AppendProperties
  <2>3. frame'[e] \in Frame
    BY <1>1, <1>5, <2>1, <2>2 DEF Frame
  <2>4. frame' \in [Engines -> Frame]
    BY <1>6, <2>3 DEF ServeStep, IInv, TypeOK
  <2> QED BY <1>2, <2>4 DEF IInv, TypeOK
<1>10. FramesAgree'
  <2> SUFFICES ASSUME NEW f \in Engines, Active(f)'
               PROVE  (FrameAgrees(f) /\ LiveStep(f))'
    BY DEF FramesAgree
  <2>1. CASE f = e
    <3>1. Append(frame[e].served, h[n + 1].result) = Results(h, n + 1)
      BY <1>1, <1>3, ResultsExtend DEF FrameAgrees
    <3>2. Follows(frame[e].body, h, n + 1)
      BY <1>1, <1>3, FollowsExtend DEF FrameAgrees
    <3>3. n + 1 \in 0..Len(h) BY <1>3
    <3>4. FrameAgrees(e)'
      BY <1>1, <1>2, <1>7, <3>1, <3>2, <3>3 DEF FrameAgrees
    <3>5. LiveStep(e)'
      BY <1>1, <1>2 DEF LiveStep
    <3> QED BY <2>1, <3>4, <3>5
  <2>2. CASE f # e
    BY <2>2, <1>2, <1>6, FrameKept DEF IInv, FramesAgree, Active
  <2> QED BY <2>1, <2>2
<1>11. NoOverlap'
  BY <1>2, <1>8 DEF IInv, NoOverlap, Active
<1>12. ASSUME NEW v \in Wids, Unchanged(v) PROVE StoreAgrees(v)'
  BY <1>2, <1>12, StoreKept DEF IInv
<1>13. EffectsAccounted'
  BY <1>2, <1>8 DEF IInv, EffectsAccounted, Pending
<1> QED BY <1>9, <1>10, <1>11, <1>12, <1>13 DEF IInv

LEMMA MismatchIInv ==
    ASSUME IInv, NEW e \in Engines, Mismatch(e)
    PROVE  IInv'
<1> USE DEF Mismatch, ghosts
<1>1. pc[e] = "body" BY DEF Calls
<1>2. TypeOK' /\ FramesAgree' /\ NoOverlap'
  BY EndKeeps DEF IInv, TypeOK
<1>3. ASSUME NEW v \in Wids, Unchanged(v) PROVE StoreAgrees(v)'
  BY <1>3, StoreKept DEF IInv
<1>4. EffectsAccounted'
  BY <1>1 DEF IInv, TypeOK, EffectsAccounted, Pending, End
<1> QED BY <1>2, <1>3, <1>4 DEF IInv

LEMMA CallStepIInv ==
    ASSUME IInv, NEW e \in Engines, CallStep(e)
    PROVE  IInv'
<1> USE DEF CallStep, ghosts
<1>1. pc[e] = "body" /\ FrameAgrees(e) /\ frame[e] \in Frame
  BY DEF Calls, Executing, IInv, FramesAgree, TypeOK
<1>2. frame[e].cursor = Len(frame[e].history)
  BY <1>1, LenProperties DEF Recorded, FrameAgrees, Frame
<1>3. pc'[e] = "in_f" /\ \A f \in Engines : f # e => pc'[f] = pc[f]
  BY DEF IInv, TypeOK
<1>4. TypeOK' BY DEF IInv, TypeOK, PC
<1>5. FramesAgree'
  <2> SUFFICES ASSUME NEW f \in Engines, Active(f)'
               PROVE  (FrameAgrees(f) /\ LiveStep(f))'
    BY DEF FramesAgree
  <2>1. CASE f = e
    BY <2>1, <1>1, <1>2, <1>3 DEF FrameAgrees, LiveStep, Calls
  <2>2. CASE f # e
    BY <2>2, <1>3, FrameKept DEF IInv, FramesAgree, Active
  <2> QED BY <2>1, <2>2
<1>6. NoOverlap'
  BY <1>1, <1>3 DEF IInv, NoOverlap, Active
<1>7. ASSUME NEW v \in Wids, Unchanged(v) PROVE StoreAgrees(v)'
  BY <1>7, StoreKept DEF IInv
<1>8. EffectsAccounted'
  BY <1>1, <1>3 DEF IInv, EffectsAccounted, Pending
<1> QED BY <1>4, <1>5, <1>6, <1>7, <1>8 DEF IInv

LEMMA EffectIInv ==
    ASSUME IInv, NEW e \in Engines, Effect(e)
    PROVE  IInv'
<1>1. /\ pc[e] = "in_f" /\ FrameAgrees(e) /\ LiveStep(e) /\ frame[e] \in Frame
      /\ frame[e].wid \in Wids
  BY DEF Effect, Executing, IInv, FramesAgree, FrameAgrees, TypeOK
<1>2. PICK v \in Values : frame' = [frame EXCEPT ![e].result = v]
  BY DEF Effect
<1>3. UNCHANGED <<data, replays, faults, lost, returned, restored>>
  BY DEF Effect, ghosts
<1>4. pc'[e] = "executed" /\ \A f \in Engines : f # e => pc'[f] = pc[f]
  BY DEF Effect, IInv, TypeOK
<1>5. frame'[e] = [frame[e] EXCEPT !.result = v]
  BY <1>2 DEF IInv, TypeOK
<1>6. /\ frame'[e] \in Frame /\ frame'[e].result = v
      /\ frame'[e].wid = frame[e].wid /\ frame'[e].body = frame[e].body
      /\ frame'[e].history = frame[e].history /\ frame'[e].cursor = frame[e].cursor
      /\ frame'[e].served = frame[e].served
  BY <1>1, <1>5 DEF Frame
<1>7. \A f \in Engines : f # e => frame'[f] = frame[f]
  BY <1>2 DEF IInv, TypeOK
<1>8. TypeOK'
  <2>1. frame' \in [Engines -> Frame] BY <1>2, <1>6, <1>7 DEF IInv, TypeOK
  <2>2. pc' \in [Engines -> PC] BY DEF Effect, IInv, TypeOK, PC
  <2>3. execs' \in [Wids -> Nat] BY <1>1 DEF Effect, IInv, TypeOK
  <2> QED BY <1>3, <2>1, <2>2, <2>3 DEF IInv, TypeOK
<1>9. FramesAgree'
  <2> SUFFICES ASSUME NEW f \in Engines, Active(f)'
               PROVE  (FrameAgrees(f) /\ LiveStep(f))'
    BY DEF FramesAgree
  <2>1. CASE f = e
    <3>1. FrameAgrees(e)' BY <1>1, <1>3, <1>6 DEF FrameAgrees
    <3>2. LiveStep(e)' BY <1>1, <1>6 DEF LiveStep
    <3> QED BY <2>1, <3>1, <3>2
  <2>2. CASE f # e
    BY <2>2, <1>3, <1>4, <1>7, FrameKept DEF IInv, FramesAgree, Active
  <2> QED BY <2>1, <2>2
<1>10. NoOverlap'
  BY <1>1, <1>4, <1>6, <1>7 DEF IInv, NoOverlap, Active
<1>11. ASSUME NEW w \in Wids, Unchanged(w) PROVE StoreAgrees(w)'
  BY <1>3, <1>11, StoreKept DEF IInv
<1>12. EffectsAccounted'
  <2> SUFFICES ASSUME NEW w \in Wids
               PROVE  execs'[w] = Len(data'[w]) + lost'[w]
                        + (IF \E f \in Engines : Pending(f, w)' = 1 THEN 1 ELSE 0)
    BY DEF EffectsAccounted
  <2>1. \A f \in Engines : f # e => Pending(f, w)' = Pending(f, w)
    BY <1>4, <1>7 DEF Pending
  <2>2. CASE w = frame[e].wid
    <3>1. Pending(e, w)' = 1 BY <2>2, <1>4, <1>6 DEF Pending
    <3>2. \A f \in Engines : Pending(f, w) # 1
      BY <1>1, <2>2 DEF IInv, NoOverlap, Active, Pending
    <3>3. execs'[w] = execs[w] + 1
      BY <2>2 DEF Effect, IInv, TypeOK
    <3>4. execs[w] \in Nat /\ lost[w] \in Nat /\ Len(data[w]) \in Nat
      BY LenProperties DEF IInv, TypeOK
    <3>5. execs[w] = Len(data[w]) + lost[w]
      BY <3>2, <3>4 DEF IInv, EffectsAccounted
    <3> QED BY <1>3, <3>1, <3>3, <3>4, <3>5
  <2>3. CASE w # frame[e].wid
    <3>1. Pending(e, w)' = 0 /\ Pending(e, w) = 0 BY <2>3, <1>6 DEF Pending
    <3>2. execs'[w] = execs[w] BY <2>3 DEF Effect, IInv, TypeOK
    <3>3. (\E f \in Engines : Pending(f, w)' = 1) <=> (\E f \in Engines : Pending(f, w) = 1)
      BY <2>1, <3>1
    <3> QED BY <1>3, <3>2, <3>3 DEF IInv, EffectsAccounted
  <2> QED BY <2>2, <2>3
<1> QED BY <1>8, <1>9, <1>10, <1>11, <1>12 DEF IInv

(* What a recorded step leaves behind; the refinement cites it too. *)
LEMMA RecordStepFacts ==
    ASSUME IInv, NEW e \in Engines, RecordStep(e)
    PROVE  \E id \in StepIds :
               LET w == frame[e].wid
                   h == data[w]
                   ev == [seq |-> Len(h), step_id |-> id, result |-> frame[e].result]
               IN  /\ w \in Wids /\ frame[e].body \in Versions[w]
                   /\ h \in Seq(HistoryEvent) /\ ev \in HistoryEvent
                   /\ frame[e].result \in Values
                   /\ Follows(frame[e].body, h, Len(h))
                   /\ Do(frame[e].body, Results(h, Len(h))) = StepOp(id)
                   /\ frame' = [frame EXCEPT ![e].history = Append(h, ev)]
                   /\ data' = [data EXCEPT ![w] = Append(h, ev)]
<1>1. /\ pc[e] = "executed" /\ FrameAgrees(e) /\ LiveStep(e) /\ frame[e] \in Frame
  BY DEF RecordStep, Executing, IInv, FramesAgree, TypeOK
<1>2. /\ frame[e].history = data[frame[e].wid] /\ frame[e].wid \in Wids
      /\ frame[e].body \in Versions[frame[e].wid] /\ frame[e].result \in Values
      /\ frame[e].cursor = Len(frame[e].history)
      /\ frame[e].served = Results(frame[e].history, frame[e].cursor)
      /\ Follows(frame[e].body, frame[e].history, frame[e].cursor)
  BY <1>1 DEF FrameAgrees, LiveStep
<1>3. PICK id \in StepIds :
          /\ Do(frame[e].body, frame[e].served) = StepOp(id)
          /\ LET event == [seq |-> Len(frame[e].history), step_id |-> id,
                           result |-> frame[e].result]
                 history == Append(frame[e].history, event)
             IN  /\ frame' = [frame EXCEPT ![e].history = history]
                 /\ Save(frame[e].wid, history)
  BY DEF RecordStep
<1>4. data[frame[e].wid] \in Seq(HistoryEvent)
  BY <1>2 DEF IInv, TypeOK
<1>5. [seq |-> Len(data[frame[e].wid]), step_id |-> id, result |-> frame[e].result]
          \in HistoryEvent
  BY <1>2, <1>4, LenProperties DEF HistoryEvent
<1> WITNESS id \in StepIds
<1> QED BY <1>2, <1>3, <1>4, <1>5 DEF Save

LEMMA RecordStepIInv ==
    ASSUME IInv, NEW e \in Engines, RecordStep(e)
    PROVE  IInv'
<1> DEFINE w == frame[e].wid
           h == data[w]
<1>1. PICK id \in StepIds :
        LET ev == [seq |-> Len(h), step_id |-> id, result |-> frame[e].result]
        IN  /\ w \in Wids /\ frame[e].body \in Versions[w]
            /\ h \in Seq(HistoryEvent) /\ ev \in HistoryEvent
            /\ Follows(frame[e].body, h, Len(h))
            /\ Do(frame[e].body, Results(h, Len(h))) = StepOp(id)
            /\ frame' = [frame EXCEPT ![e].history = Append(h, ev)]
            /\ data' = [data EXCEPT ![w] = Append(h, ev)]
  BY RecordStepFacts
<1> DEFINE ev == [seq |-> Len(h), step_id |-> id, result |-> frame[e].result]
           g == Append(h, ev)
<1>2. g \in Seq(HistoryEvent) /\ Len(g) = Len(h) + 1 /\ Len(h) \in Nat
  BY <1>1, AppendProperties, LenProperties
<1>3. /\ pc[e] = "executed" /\ frame[e] \in Frame /\ FrameAgrees(e) /\ LiveStep(e)
  BY DEF RecordStep, Executing, IInv, FramesAgree, TypeOK
<1>4. UNCHANGED <<replays, faults, execs, lost, returned, restored>>
  BY DEF RecordStep, ghosts
<1>5. /\ pc'[e] = "replay" /\ pc' \in [Engines -> PC]
      /\ \A f \in Engines : f # e => pc'[f] = pc[f] /\ frame'[f] = frame[f]
  BY <1>1 DEF RecordStep, IInv, TypeOK, PC
<1>6. frame'[e] = [frame[e] EXCEPT !.history = g]
  BY <1>1 DEF IInv, TypeOK
<1>7. data'[w] = g /\ \A v \in Wids : v # w => data'[v] = data[v]
  BY <1>1 DEF IInv, TypeOK
<1>8. Follows(frame[e].body, g, Len(h)) /\ Follows(frame[e].body, g, Len(g))
  <2>1. Len(h) \in 0..Len(h) /\ ev.step_id = id /\ ev \in HistoryEvent
    BY <1>1, <1>2
  <2> HIDE DEF ev
  <2>2. /\ Follows(frame[e].body, g, Len(h))
        /\ Follows(frame[e].body, g, Len(h) + 1)
    BY <1>1, <2>1, FollowsAppend
  <2> QED BY <1>2, <2>2
<1>9. Results(g, Len(h)) = Results(h, Len(h))
  BY <1>1, <1>2, ResultsAppend
<1> HIDE DEF g, ev
<1>10. /\ frame'[e] \in Frame /\ frame'[e].history = g
       /\ frame'[e].wid = w /\ frame'[e].body = frame[e].body
       /\ frame'[e].cursor = frame[e].cursor /\ frame'[e].served = frame[e].served
  BY <1>2, <1>3, <1>6 DEF Frame
<1> HIDE DEF w, h
<1>11. TypeOK'
  <2>1. frame' \in [Engines -> Frame]
    BY <1>1, <1>5, <1>10 DEF IInv, TypeOK
  <2>2. data' \in [Wids -> Seq(HistoryEvent)]
    BY <1>1, <1>2, <1>7 DEF IInv, TypeOK
  <2> QED BY <1>4, <1>5, <2>1, <2>2 DEF IInv, TypeOK
<1>12. FramesAgree'
  <2> SUFFICES ASSUME NEW f \in Engines, Active(f)'
               PROVE  (FrameAgrees(f) /\ LiveStep(f))'
    BY DEF FramesAgree
  <2>1. CASE f = e
    <3>1. frame[e].cursor = Len(h) /\ frame[e].served = Results(h, Len(h))
      BY <1>3 DEF FrameAgrees, LiveStep, w, h
    <3>2. Len(h) \in 0..Len(g) BY <1>2
    <3>3. FrameAgrees(e)'
      BY <1>1, <1>7, <1>8, <1>9, <1>10, <3>1, <3>2 DEF FrameAgrees
    <3> QED BY <2>1, <1>5, <3>3 DEF LiveStep
  <2>2. CASE f # e
    <3>1. Active(f) /\ Active(e) BY <2>2, <1>3, <1>5 DEF Active
    <3>2. frame[f].wid # w /\ FrameAgrees(f) /\ LiveStep(f) /\ frame[f].wid \in Wids
      BY <2>2, <3>1 DEF IInv, NoOverlap, FramesAgree, FrameAgrees, w
    <3> QED BY <2>2, <1>5, <1>7, <3>2, FrameKept
  <2> QED BY <2>1, <2>2
<1>13. NoOverlap'
  BY <1>3, <1>5, <1>10 DEF IInv, NoOverlap, Active, w
<1>14. ASSUME NEW v \in Wids, Unchanged(v) PROVE StoreAgrees(v)'
  <2>1. CASE v = w
    <3>1. \A b \in Versions[w] : b = frame[e].body
      BY <2>1, <1>1, <1>14 DEF Unchanged
    <3>2. returned[w] = None
      BY <2>1, <1>1, <1>14, <3>1, OpsDiffer DEF IInv, StoreAgrees, Answered, h
    <3> QED BY <2>1, <1>4, <1>7, <1>8, <3>1, <3>2 DEF StoreAgrees
  <2>2. CASE v # w
    BY <2>2, <1>4, <1>7, <1>14, StoreKept DEF IInv
  <2> QED BY <2>1, <2>2
<1>15. EffectsAccounted'
  <2> SUFFICES ASSUME NEW v \in Wids
               PROVE  execs'[v] = Len(data'[v]) + lost'[v]
                        + (IF \E f \in Engines : Pending(f, v)' = 1 THEN 1 ELSE 0)
    BY DEF EffectsAccounted
  <2>1. \A f \in Engines : f # e => Pending(f, v)' = Pending(f, v)
    BY <1>5 DEF Pending
  <2>2. Pending(e, v)' = 0 BY <1>5 DEF Pending
  <2>3. CASE v = w
    <3>1. Pending(e, v) = 1 BY <2>3, <1>3 DEF Pending, w
    <3>2. \A f \in Engines : f # e => Pending(f, v) # 1
      BY <1>3, <2>3 DEF IInv, NoOverlap, Active, Pending, w
    <3>3. execs[v] \in Nat /\ lost[v] \in Nat
      BY DEF IInv, TypeOK
    <3>4. execs[v] = Len(h) + lost[v] + 1
      BY <2>3, <3>1 DEF IInv, EffectsAccounted, h
    <3> QED BY <2>1, <2>2, <2>3, <3>2, <3>3, <3>4, <1>2, <1>4, <1>7
  <2>4. CASE v # w
    <3>1. Pending(e, v) = 0 BY <2>4 DEF Pending, w
    <3>2. (\E f \in Engines : Pending(f, v)' = 1) <=> (\E f \in Engines : Pending(f, v) = 1)
      BY <2>1, <2>2, <3>1
    <3> QED BY <2>4, <1>4, <1>7, <3>2 DEF IInv, EffectsAccounted
  <2> QED BY <2>3, <2>4
<1> QED BY <1>11, <1>12, <1>13, <1>14, <1>15 DEF IInv

LEMMA ReplayIInv ==
    ASSUME IInv, NEW e \in Engines, Replay(e)
    PROVE  IInv'
<1> DEFINE w == frame[e].wid
           a == Attempt(frame[e].caller, w, frame[e].body, data[w])
<1>1. /\ pc[e] = "replay" /\ FrameAgrees(e) /\ frame[e] \in Frame
      /\ w \in Wids /\ frame[e].body \in Versions[w] /\ data[w] \in Seq(HistoryEvent)
  BY DEF Replay, Executing, IInv, FramesAgree, FrameAgrees, TypeOK
<1>2. UNCHANGED <<data, faults, execs, lost, returned, restored>>
  BY DEF Replay, ghosts
<1>3. /\ pc'[e] = "body" /\ frame'[e] = a
      /\ \A f \in Engines : f # e => pc'[f] = pc[f] /\ frame'[f] = frame[f]
  BY DEF Replay, Load, IInv, TypeOK
<1>4. /\ a.wid = w /\ a.body = frame[e].body /\ a.history = data[w]
      /\ a.cursor = 0 /\ a.served = Results(data[w], 0) /\ Follows(a.body, data[w], 0)
  BY <1>1, AttemptAgrees
<1>5. a \in Frame
  BY <1>1, AttemptType DEF Frame
<1> HIDE DEF a
<1>6. TypeOK'
  <2>1. frame' \in [Engines -> Frame]
    BY <1>3, <1>5 DEF Replay, IInv, TypeOK
  <2>2. pc' \in [Engines -> PC] /\ replays' \in [Engines -> Nat]
    BY DEF Replay, IInv, TypeOK, PC
  <2> QED BY <1>2, <2>1, <2>2 DEF IInv, TypeOK
<1>7. FramesAgree'
  <2> SUFFICES ASSUME NEW f \in Engines, Active(f)'
               PROVE  (FrameAgrees(f) /\ LiveStep(f))'
    BY DEF FramesAgree
  <2>1. CASE f = e
    BY <2>1, <1>1, <1>2, <1>3, <1>4, LenProperties DEF FrameAgrees, LiveStep
  <2>2. CASE f # e
    BY <2>2, <1>2, <1>3, FrameKept DEF IInv, FramesAgree, Active
  <2> QED BY <2>1, <2>2
<1>8. NoOverlap'
  BY <1>1, <1>3, <1>4 DEF IInv, NoOverlap, Active
<1>9. ASSUME NEW v \in Wids, Unchanged(v) PROVE StoreAgrees(v)'
  BY <1>2, <1>9, StoreKept DEF IInv
<1>10. EffectsAccounted'
  BY <1>1, <1>2, <1>3 DEF IInv, EffectsAccounted, Pending
<1> QED BY <1>6, <1>7, <1>8, <1>9, <1>10 DEF IInv

(* What a body that returns was given; the refinement cites it too. *)
LEMMA ReturnFacts ==
    ASSUME IInv, NEW e \in Engines, Return(e)
    PROVE  LET f == frame[e]
               h == data[f.wid]
           IN  /\ f.wid \in Wids /\ f.body \in Versions[f.wid]
               /\ h \in Seq(HistoryEvent) /\ f.cursor \in 0..Len(h)
               /\ Follows(f.body, h, f.cursor)
               /\ Do(f.body, Results(h, f.cursor)) = ReturnOp
               /\ returned' = [returned EXCEPT ![f.wid] =
                      [body |-> f.body, results |-> Results(h, f.cursor)]]
               /\ Unchanged(f.wid) => f.cursor = Len(h)
<1>1. FrameAgrees(e) /\ pc[e] = "body"
  BY DEF Return, Executing, IInv, FramesAgree
<1> DEFINE f == frame[e]
           h == data[f.wid]
<1>2. /\ f.wid \in Wids /\ f.body \in Versions[f.wid]
      /\ h \in Seq(HistoryEvent) /\ f.cursor \in 0..Len(h)
      /\ Follows(f.body, h, f.cursor) /\ f.served = Results(h, f.cursor)
  BY <1>1 DEF FrameAgrees, IInv, TypeOK
<1>3. Do(f.body, Results(h, f.cursor)) = ReturnOp
  BY <1>2 DEF Return
<1>4. ASSUME Unchanged(f.wid), f.cursor # Len(h) PROVE FALSE
  <2>1. f.cursor + 1 \in 1..Len(h) /\ (f.cursor + 1) - 1 = f.cursor
    BY <1>2, <1>4, LenProperties
  <2>2. Follows(f.body, h, Len(h))
    BY <1>2, <1>4 DEF IInv, StoreAgrees
  <2>3. Do(f.body, Results(h, f.cursor)) = StepOp(h[f.cursor + 1].step_id)
    BY <2>1, <2>2 DEF Follows
  <2> QED BY <1>3, <2>3, OpsDiffer
<1> QED BY <1>2, <1>3, <1>4 DEF Return

LEMMA ReturnIInv ==
    ASSUME IInv, NEW e \in Engines, Return(e)
    PROVE  IInv'
<1> DEFINE w == frame[e].wid
           answer == [body |-> frame[e].body,
                      results |-> Results(data[w], frame[e].cursor)]
<1>1. /\ w \in Wids /\ frame[e].body \in Versions[w]
      /\ data[w] \in Seq(HistoryEvent) /\ frame[e].cursor \in 0..Len(data[w])
      /\ Do(frame[e].body, Results(data[w], frame[e].cursor)) = ReturnOp
      /\ returned' = [returned EXCEPT ![w] = answer]
      /\ Unchanged(w) => frame[e].cursor = Len(data[w])
  BY ReturnFacts
<1>2. UNCHANGED <<data, replays, faults, execs, lost, restored>> /\ End(e) /\ pc[e] = "body"
  BY DEF Return
<1>3. TypeOK' /\ FramesAgree' /\ NoOverlap'
  <2>1. answer \in [body : Bodies, results : Seq(Values)]
    BY <1>1, ResultsType, VersionsAssumption
  <2>2. returned' \in [Wids -> [body : Bodies, results : Seq(Values)] \cup {None}]
    BY <1>1, <2>1 DEF IInv, TypeOK
  <2> QED BY <1>2, <2>2, EndKeeps DEF IInv, TypeOK
<1>4. ASSUME NEW v \in Wids, Unchanged(v) PROVE StoreAgrees(v)'
  <2>1. CASE v = w
    <3>1. returned'[w] = answer /\ StoreAgrees(w)
      BY <2>1, <1>1, <1>4 DEF IInv, TypeOK
    <3> QED BY <2>1, <1>1, <1>2, <1>4, <3>1 DEF StoreAgrees, Answered
  <2>2. CASE v # w
    BY <2>2, <1>1, <1>2, <1>4, StoreKept DEF IInv, TypeOK
  <2> QED BY <2>1, <2>2
<1>5. EffectsAccounted'
  BY <1>2 DEF IInv, TypeOK, EffectsAccounted, Pending, End
<1> QED BY <1>3, <1>4, <1>5 DEF IInv

LEMMA FailIInv ==
    ASSUME IInv, NEW e \in Engines, Fail(e)
    PROVE  IInv'
<1>1. UNCHANGED <<data, replays, execs, returned, restored>> /\ End(e) /\ Active(e)
  BY DEF Fail, Executing
<1>2. TypeOK' /\ FramesAgree' /\ NoOverlap'
  <2>1. lost' \in [Wids -> Nat] BY DEF Fail, IInv, TypeOK, Pending
  <2>2. faults' \in 0..MaxFaults
    BY EngineAssumption DEF Fail, IInv, TypeOK
  <2> QED BY <1>1, <2>1, <2>2, EndKeeps DEF IInv, TypeOK
<1>3. ASSUME NEW v \in Wids, Unchanged(v) PROVE StoreAgrees(v)'
  BY <1>1, <1>3, StoreKept DEF IInv
<1>4. EffectsAccounted'
  <2> SUFFICES ASSUME NEW w \in Wids
               PROVE  execs'[w] = Len(data'[w]) + lost'[w]
                        + (IF \E f \in Engines : Pending(f, w)' = 1 THEN 1 ELSE 0)
    BY DEF EffectsAccounted
  <2>1. /\ Pending(e, w)' = 0
        /\ \A f \in Engines : f # e => Pending(f, w)' = Pending(f, w)
    BY <1>1 DEF Pending, End, IInv, TypeOK
  <2>2. lost'[w] = lost[w] + Pending(e, w)
    BY DEF Fail
  <2>3. execs[w] \in Nat /\ lost[w] \in Nat /\ Len(data[w]) \in Nat
    BY LenProperties DEF IInv, TypeOK
  <2>4. execs[w] = Len(data[w]) + lost[w]
                     + (IF \E f \in Engines : Pending(f, w) = 1 THEN 1 ELSE 0)
    BY DEF IInv, EffectsAccounted
  <2>5. CASE Pending(e, w) = 1
    <3>1. \A f \in Engines : f # e => Pending(f, w) # 1
      BY <1>1, <2>5 DEF IInv, NoOverlap, Active, Pending
    <3> QED BY <1>1, <2>1, <2>2, <2>3, <2>4, <2>5, <3>1
  <2>6. CASE Pending(e, w) = 0
    <3>1. (\E f \in Engines : Pending(f, w)' = 1) <=> (\E f \in Engines : Pending(f, w) = 1)
      BY <2>1, <2>6
    <3> QED BY <1>1, <2>2, <2>3, <2>4, <2>6, <3>1
  <2> QED BY <2>5, <2>6 DEF Pending
<1> QED BY <1>2, <1>3, <1>4 DEF IInv

LEMMA CrashIInv == IInv /\ Crash => IInv'
<1> SUFFICES ASSUME IInv, Crash PROVE IInv' OBVIOUS
<1> USE DEF Crash
<1>1. \A e \in Engines : pc'[e] = "idle" OBVIOUS
<1>2. TypeOK'
  <2>1. restored' \in [Wids -> Nat]
    BY LenProperties DEF IInv, TypeOK
  <2>2. faults' \in 0..MaxFaults BY EngineAssumption DEF IInv, TypeOK
  <2>3. lost' \in [Wids -> Nat] BY DEF IInv, TypeOK
  <2> QED BY <2>1, <2>2, <2>3, NoFrameType DEF IInv, TypeOK, PC
<1>3. FramesAgree' /\ NoOverlap'
  BY <1>1 DEF FramesAgree, NoOverlap, Active
<1>4. ASSUME NEW v \in Wids, Unchanged(v) PROVE StoreAgrees(v)'
  BY <1>4, StoreKept DEF IInv
<1>5. EffectsAccounted'
  <2> SUFFICES ASSUME NEW w \in Wids
               PROVE  execs'[w] = Len(data'[w]) + lost'[w]
                        + (IF \E f \in Engines : Pending(f, w)' = 1 THEN 1 ELSE 0)
    BY DEF EffectsAccounted
  <2>1. \A f \in Engines : Pending(f, w)' = 0 BY <1>1 DEF Pending
  <2>2. execs[w] \in Nat /\ lost[w] \in Nat /\ Len(data[w]) \in Nat
    BY LenProperties DEF IInv, TypeOK
  <2> QED BY <2>1, <2>2 DEF IInv, EffectsAccounted
<1> QED BY <1>2, <1>3, <1>4, <1>5 DEF IInv

LEMMA NextIInv == ASSUME Exclusive PROVE IInv /\ [Next]_vars => IInv'
<1> SUFFICES ASSUME IInv, [Next]_vars PROVE IInv' OBVIOUS
<1>1. ASSUME NEW c \in Engines \cup {None}, NEW e \in Engines, NEW w \in Wids,
             NEW b \in Versions[w], Run(c, e, w, b)
      PROVE  IInv'
  BY <1>1, RunIInv
<1>2. ASSUME NEW e \in Engines, Step(e) PROVE IInv'
  BY <1>2, ServeStepIInv, MismatchIInv, CallStepIInv, EffectIInv,
     RecordStepIInv, ReplayIInv, ReturnIInv DEF Step
<1>3. ASSUME NEW e \in Engines, Fail(e) PROVE IInv' BY <1>3, FailIInv
<1>4. CASE Crash BY <1>4, CrashIInv
<1>5. CASE UNCHANGED vars
  BY <1>5 DEF vars, ghosts, IInv, TypeOK, FramesAgree, FrameAgrees, LiveStep,
     NoOverlap, StoreAgrees, Answered, EffectsAccounted, Pending, Active
<1> QED BY <1>1, <1>2, <1>3, <1>4, <1>5 DEF Next

-----------------------------------------------------------------------------
(* The theorems *)

(* As long as runs of one workflow do not overlap, frames agree with the   *)
(* store and the store with unchanged code, in every reachable state.      *)
THEOREM Invariance == ASSUME Exclusive PROVE Spec => []IInv
<1>1. Init => IInv BY InitIInv
<1>2. IInv /\ [Next]_vars => IInv' BY NextIInv
<1> QED BY <1>1, <1>2, PTL DEF Spec

(* The variables of the engine keep their types. *)
THEOREM TypeCorrect == ASSUME Exclusive PROVE Spec => []TypeOK
<1>1. IInv => TypeOK BY DEF IInv
<1> QED BY <1>1, Invariance, PTL

(* Every side effect is recorded, lost to a failure, or about to be        *)
(* recorded: no step runs twice unless a failure struck between its effect *)
(* and its save.                                                           *)
THEOREM EffectsAreAccounted == ASSUME Exclusive PROVE Spec => []EffectsAccounted
<1>1. IInv => EffectsAccounted BY DEF IInv
<1> QED BY <1>1, Invariance, PTL

(* A closure is only called for the step that continues the whole durable  *)
(* history, also after the code of the workflow changed.                   *)
THEOREM LiveStepsExtendHistory ==
    ASSUME Exclusive PROVE Spec => []LiveStepExtendsHistory
<1>1. IInv => LiveStepExtendsHistory
  <2> SUFFICES ASSUME IInv, NEW e \in Engines, pc[e] \in {"in_f", "executed"}
               PROVE  LET durable == data[frame[e].wid]
                      IN  /\ Follows(frame[e].body, durable, Len(durable))
                          /\ frame[e].served = Results(durable, Len(durable))
    BY DEF LiveStepExtendsHistory
  <2>1. FrameAgrees(e) /\ LiveStep(e) BY DEF IInv, FramesAgree, Active
  <2> QED BY <2>1 DEF FrameAgrees, LiveStep
<1> QED BY <1>1, Invariance, PTL

(* Unchanged code is never taken for non-deterministic. *)
THEOREM NoFalseAlarms == ASSUME Exclusive PROVE Spec => []NoFalseAlarm
<1>1. IInv => NoFalseAlarm
  <2> SUFFICES ASSUME IInv, NEW e \in Engines, NEW id \in StepIds,
                      Calls(e, id), Recorded(e), Unchanged(frame[e].wid)
               PROVE  Event(e).step_id = id
    BY DEF NoFalseAlarm
  <2> DEFINE f == frame[e]
  <2>1. FrameAgrees(e) BY DEF Calls, Executing, IInv, FramesAgree
  <2>2. /\ f.wid \in Wids /\ f.body \in Versions[f.wid]
        /\ f.history = data[f.wid] /\ f.history \in Seq(HistoryEvent)
        /\ f.cursor \in 0..Len(f.history) /\ f.served = Results(f.history, f.cursor)
    BY <2>1 DEF FrameAgrees, IInv, TypeOK
  <2>3. f.cursor + 1 \in 1..Len(f.history) /\ (f.cursor + 1) - 1 = f.cursor
    BY <2>2, LenProperties DEF Recorded
  <2>4. Follows(f.body, f.history, Len(f.history))
    BY <2>2 DEF IInv, StoreAgrees
  <2>5. Do(f.body, f.served) = StepOp(f.history[f.cursor + 1].step_id)
    BY <2>2, <2>3, <2>4 DEF Follows
  <2> QED BY <2>5, OpsDiffer DEF Calls, Event
<1> QED BY <1>1, Invariance, PTL

(* Only RecordStep touches the store, and it appends one event. *)
LEMMA StoreSteps ==
    ASSUME IInv, [Next]_vars
    PROVE  \/ UNCHANGED data
           \/ \E e \in Engines : RecordStep(e)
  BY DEF Next, Step, Run, ServeStep, Mismatch, CallStep, Effect, Replay, Return,
         Fail, Crash, vars

(* Only Return changes what a workflow returned. *)
LEMMA ReturnSteps ==
    ASSUME IInv, [Next]_vars
    PROVE  \/ UNCHANGED returned
           \/ \E e \in Engines : Return(e)
  BY DEF Next, Step, Run, ServeStep, Mismatch, CallStep, Effect, RecordStep, Replay,
         Fail, Crash, vars, ghosts

(* Durable histories only grow at their end. *)
THEOREM HistoriesAppendOnly == ASSUME Exclusive PROVE Spec => AppendOnly
<1>1. ASSUME IInv, [Next]_vars, NEW w \in Wids PROVE IsPrefix(data[w], data'[w])
  <2>1. data[w] \in Seq(HistoryEvent) BY <1>1 DEF IInv, TypeOK
  <2>2. CASE UNCHANGED data
    BY <2>1, <2>2, PrefixOfSelf
  <2>3. ASSUME NEW e \in Engines, RecordStep(e) PROVE IsPrefix(data[w], data'[w])
    <3>1. PICK h \in Seq(HistoryEvent), ev \in HistoryEvent :
             /\ h = data[frame[e].wid]
             /\ data' = [data EXCEPT ![frame[e].wid] = Append(h, ev)]
      BY <1>1, <2>3, RecordStepFacts
    <3>2. CASE w = frame[e].wid
      <4>1. data'[w] = Append(h, ev) /\ data[w] = h
        BY <1>1, <3>1, <3>2 DEF IInv, TypeOK
      <4> QED BY <4>1, PrefixOfAppend
    <3>3. CASE w # frame[e].wid
      BY <1>1, <2>1, <3>1, <3>3, PrefixOfSelf DEF IInv, TypeOK
    <3> QED BY <3>2, <3>3
  <2> QED BY <1>1, <2>2, <2>3, StoreSteps
<1>2. IInv /\ [Next]_vars => [\A w \in Wids : IsPrefix(data[w], data'[w])]_vars
  BY <1>1
<1> QED BY <1>2, Invariance, PTL DEF Spec, AppendOnly

(* A workflow whose code is unchanged and that has returned keeps its      *)
(* answer and performs no side effect again.                               *)
THEOREM CompletedStaysCompleted == ASSUME Exclusive PROVE Spec => CompletedForGood
<1>1. ASSUME IInv, [Next]_vars, NEW w \in Wids, Unchanged(w), returned[w] # None
      PROVE  returned'[w] = returned[w] /\ execs'[w] = execs[w]
  <2>1. PICK b \in Versions[w] :
          /\ Do(b, Results(data[w], Len(data[w]))) = ReturnOp
          /\ returned[w] = [body |-> b, results |-> Results(data[w], Len(data[w]))]
    BY <1>1 DEF IInv, StoreAgrees, Answered
  <2>2. returned'[w] = returned[w]
    <3>1. ASSUME NEW e \in Engines, Return(e) PROVE returned'[w] = returned[w]
      <4>1. CASE frame[e].wid = w
        <5>1. frame[e].body = b
          BY <1>1, <3>1, <4>1, ReturnFacts DEF Unchanged
        <5>2. frame[e].cursor = Len(data[w])
          BY <1>1, <3>1, <4>1, ReturnFacts
        <5>3. returned' = [returned EXCEPT ![w] =
                 [body |-> b, results |-> Results(data[w], Len(data[w]))]]
          BY <1>1, <3>1, <4>1, <5>1, <5>2, ReturnFacts
        <5> QED BY <1>1, <2>1, <5>3 DEF IInv, TypeOK
      <4>2. CASE frame[e].wid # w
        BY <1>1, <3>1, <4>2, ReturnFacts DEF IInv, TypeOK
      <4> QED BY <4>1, <4>2
    <3> QED BY <1>1, <3>1, ReturnSteps
  <2>3. execs'[w] = execs[w]
    <3>1. ASSUME NEW e \in Engines, Effect(e) PROVE execs'[w] = execs[w]
      <4>1. FrameAgrees(e) /\ LiveStep(e) /\ pc[e] = "in_f"
        BY <1>1, <3>1 DEF Effect, Executing, IInv, FramesAgree
      <4>2. frame[e].wid # w
        <5> SUFFICES ASSUME frame[e].wid = w PROVE FALSE OBVIOUS
        <5>1. frame[e].body = b BY <1>1, <4>1 DEF FrameAgrees, Unchanged
        <5>2. frame[e].served = Results(data[w], Len(data[w]))
          BY <4>1 DEF FrameAgrees, LiveStep
        <5> QED BY <2>1, <4>1, <5>1, <5>2, OpsDiffer DEF LiveStep
      <4> QED BY <1>1, <3>1, <4>2 DEF Effect, IInv, TypeOK
    <3>2. UNCHANGED execs \/ \E e \in Engines : Effect(e)
      BY <1>1 DEF Next, Step, Run, ServeStep, Mismatch, CallStep, RecordStep,
         Replay, Return, Fail, Crash, vars
    <3> QED BY <3>1, <3>2
  <2> QED BY <2>2, <2>3
<1>2. IInv /\ [Next]_vars =>
        [\A w \in Wids : Unchanged(w) /\ returned[w] # None =>
            returned'[w] = returned[w] /\ execs'[w] = execs[w]]_vars
  BY <1>1
<1> QED BY <1>2, Invariance, PTL DEF Spec, CompletedForGood

-----------------------------------------------------------------------------
(* Replays and recorded steps *)

Saved == [w \in Wids |-> Len(data[w])]
Signals == [e \in Engines |-> IF pc[e] = "replay" THEN 1 ELSE 0]

LEMMA CountTypes ==
    ASSUME TypeOK
    PROVE  /\ Saved \in [Wids -> Int] /\ restored \in [Wids -> Int]
           /\ replays \in [Engines -> Int] /\ Signals \in [Engines -> Int]
<1>1. \A w \in Wids : Len(data[w]) \in Int /\ restored[w] \in Int
  BY LenProperties DEF TypeOK
<1>2. \A e \in Engines : replays[e] \in Int
  BY DEF TypeOK
<1> QED BY <1>1, <1>2 DEF TypeOK, Saved, Signals

LEMMA CountTypesNext == (TypeOK => /\ Saved \in [Wids -> Int] /\ restored \in [Wids -> Int]
                                   /\ replays \in [Engines -> Int]
                                   /\ Signals \in [Engines -> Int])'
<1>1. TypeOK => /\ Saved \in [Wids -> Int] /\ restored \in [Wids -> Int]
                /\ replays \in [Engines -> Int] /\ Signals \in [Engines -> Int]
  BY CountTypes
<1> QED BY <1>1, PTL

(* The counts change where a step is recorded, where it is counted, and in *)
(* a crash, which starts them anew.                                        *)
LEMMA CountSteps ==
    ASSUME IInv, [Next]_vars
    PROVE  \/ UNCHANGED <<Saved, restored, replays, Signals>>
           \/ \E e \in Engines : RecordStep(e) \/ Replay(e)
           \/ Crash
<1>1. ASSUME NEW c \in Engines \cup {None}, NEW e \in Engines, NEW w \in Wids,
             NEW b \in Versions[w], Run(c, e, w, b)
      PROVE  UNCHANGED <<Saved, restored, replays, Signals>>
  <2>1. /\ pc[e] = "idle" /\ pc' = [pc EXCEPT ![e] = "body"]
        /\ UNCHANGED <<data, restored, replays>>
    BY <1>1 DEF Run, Active, ghosts
  <2> QED BY <2>1 DEF IInv, TypeOK, Saved, Signals
<1>2. ASSUME NEW e \in Engines, ServeStep(e)
      PROVE  UNCHANGED <<Saved, restored, replays, Signals>>
  BY <1>2 DEF ServeStep, ghosts, Saved, Signals
<1>3. ASSUME NEW e \in Engines, Mismatch(e) \/ Return(e) \/ Fail(e)
      PROVE  UNCHANGED <<Saved, restored, replays, Signals>>
  <2>1. /\ pc[e] \in {"body", "in_f", "executed"} /\ pc' = [pc EXCEPT ![e] = "idle"]
        /\ UNCHANGED <<data, restored, replays>>
    BY <1>3 DEF Mismatch, Return, Fail, Calls, End, ghosts
  <2> QED BY <2>1 DEF IInv, TypeOK, Saved, Signals
<1>4. ASSUME NEW e \in Engines, CallStep(e) \/ Effect(e)
      PROVE  UNCHANGED <<Saved, restored, replays, Signals>>
  <2>1. /\ pc[e] \in {"body", "in_f"} /\ UNCHANGED <<data, restored, replays>>
        /\ \/ pc' = [pc EXCEPT ![e] = "in_f"]
           \/ pc' = [pc EXCEPT ![e] = "executed"]
    BY <1>4 DEF CallStep, Effect, Calls, ghosts
  <2> QED BY <2>1 DEF IInv, TypeOK, Saved, Signals
<1>5. CASE UNCHANGED vars
  BY <1>5 DEF vars, ghosts, Saved, Signals
<1> QED BY <1>1, <1>2, <1>3, <1>4, <1>5 DEF Next, Step

(* Recording a step sends one signal, ... *)
LEMMA RecordStepCounts ==
    ASSUME IInv, IInv', IsFiniteSet(Wids), IsFiniteSet(Engines),
           NEW e \in Engines, RecordStep(e)
    PROVE  /\ SumFunction(Saved') = SumFunction(Saved) + 1
           /\ SumFunction(Signals') = SumFunction(Signals) + 1
           /\ UNCHANGED <<restored, replays>>
<1>1. /\ Saved \in [Wids -> Int] /\ Saved' \in [Wids -> Int]
      /\ Signals \in [Engines -> Int] /\ Signals' \in [Engines -> Int]
  BY CountTypes, CountTypesNext DEF IInv
<1>2. PICK w \in Wids, h \in Seq(HistoryEvent), ev \in HistoryEvent :
         h = data[w] /\ data' = [data EXCEPT ![w] = Append(h, ev)]
  <2>1. /\ frame[e].wid \in Wids
        /\ \E h \in Seq(HistoryEvent), ev \in HistoryEvent :
              /\ h = data[frame[e].wid]
              /\ data' = [data EXCEPT ![frame[e].wid] = Append(h, ev)]
    BY RecordStepFacts
  <2> QED BY <2>1
<1>3. Len(Append(h, ev)) = Len(h) + 1
  BY AppendProperties
<1>4. /\ Saved'[w] = Saved[w] + 1
      /\ \A v \in Wids : v # w => Saved'[v] = Saved[v]
  BY <1>2, <1>3 DEF Saved, IInv, TypeOK
<1>5. /\ Signals'[e] = Signals[e] + 1
      /\ \A f \in Engines : f # e => Signals'[f] = Signals[f]
  BY DEF RecordStep, Signals, IInv, TypeOK
<1>6. UNCHANGED <<restored, replays>>
  BY DEF RecordStep, ghosts
<1>7. 1 \in Int
  OBVIOUS
<1> HIDE DEF Saved, Signals
<1>8. SumFunction(Saved') = SumFunction(Saved) + 1
  <2> DEFINE a == Saved  b == Saved'
  <2>1. a \in [Wids -> Int] /\ b \in [Wids -> Int]
    BY <1>1
  <2>2. b[w] = a[w] + 1 /\ \A v \in Wids : v # w => b[v] = a[v]
    BY <1>4
  <2> HIDE DEF a, b
  <2>3. SumFunction(b) = SumFunction(a) + 1
    BY <1>7, <2>1, <2>2, SumChange
  <2> QED BY <2>3 DEF a, b
<1>9. SumFunction(Signals') = SumFunction(Signals) + 1
  <2> DEFINE a == Signals  b == Signals'
  <2>1. a \in [Engines -> Int] /\ b \in [Engines -> Int]
    BY <1>1
  <2>2. b[e] = a[e] + 1 /\ \A f \in Engines : f # e => b[f] = a[f]
    BY <1>5
  <2> HIDE DEF a, b
  <2>3. SumFunction(b) = SumFunction(a) + 1
    BY <1>7, <2>1, <2>2, SumChange
  <2> QED BY <2>3 DEF a, b
<1> QED BY <1>6, <1>8, <1>9

(* ... which is taken back when the loop of run counts it. *)
LEMMA ReplayCounts ==
    ASSUME IInv, IInv', IsFiniteSet(Wids), IsFiniteSet(Engines),
           NEW e \in Engines, Replay(e)
    PROVE  /\ SumFunction(replays') = SumFunction(replays) + 1
           /\ SumFunction(Signals') = SumFunction(Signals) - 1
           /\ UNCHANGED <<Saved, restored>>
<1>1. /\ replays \in [Engines -> Int] /\ replays' \in [Engines -> Int]
      /\ Signals \in [Engines -> Int] /\ Signals' \in [Engines -> Int]
  BY CountTypes, CountTypesNext DEF IInv
<1>2. /\ pc[e] = "replay" /\ pc' = [pc EXCEPT ![e] = "body"]
      /\ replays' = [replays EXCEPT ![e] = @ + 1]
      /\ UNCHANGED <<data, restored>>
  BY DEF Replay, ghosts
<1>3. /\ replays'[e] = replays[e] + 1
      /\ \A f \in Engines : f # e => replays'[f] = replays[f]
  BY <1>1, <1>2
<1>4. /\ Signals'[e] = Signals[e] + (-1)
      /\ \A f \in Engines : f # e => Signals'[f] = Signals[f]
  BY <1>2 DEF Signals, IInv, TypeOK
<1>5. UNCHANGED <<Saved, restored>>
  BY <1>2 DEF Saved
<1>6. 1 \in Int /\ -1 \in Int
  OBVIOUS
<1> HIDE DEF Signals
<1>7. SumFunction(replays') = SumFunction(replays) + 1
  BY <1>1, <1>3, <1>6, SumChange
<1>8. SumFunction(Signals') = SumFunction(Signals) + (-1)
  BY <1>1, <1>4, <1>6, SumChange
<1>9. SumFunction(Signals) \in Int
  BY <1>1, SumType
<1> DEFINE t == SumFunction(Signals)  u == SumFunction(Signals')
<1> HIDE DEF t, u
<1>10. u = t - 1
  BY <1>8, <1>9 DEF t, u
<1> QED BY <1>5, <1>7, <1>10 DEF t, u

(* All engines together have counted one replay for every event recorded   *)
(* since the process started, but for the signals still on their way.      *)
THEOREM ReplaysCount ==
    ASSUME Exclusive, IsFiniteSet(Wids), IsFiniteSet(Engines)
    PROVE  Spec => []ReplaysCountRecordings
<1> DEFINE Counted == SumFunction(Saved) = SumFunction(restored) + SumFunction(replays) + SumFunction(Signals)
<1>1. ReplaysCountRecordings <=> Counted
  BY DEF ReplaysCountRecordings, Saved, Signals
<1>2. Init => Counted
  <2> SUFFICES ASSUME Init PROVE Counted
    OBVIOUS
  <2>1. /\ Saved \in [Wids -> Int] /\ restored \in [Wids -> Int]
        /\ replays \in [Engines -> Int] /\ Signals \in [Engines -> Int]
    BY InitIInv, CountTypes DEF IInv
  <2>2. /\ \A w \in Wids : Saved[w] = 0 /\ restored[w] = 0
        /\ \A e \in Engines : replays[e] = 0 /\ Signals[e] = 0
    BY EmptySeq DEF Init, Saved, Signals
  <2> HIDE DEF Saved, Signals
  <2>3. SumFunction(Saved) = 0 /\ SumFunction(restored) = 0 /\ SumFunction(replays) = 0 /\ SumFunction(Signals) = 0
    BY <2>1, <2>2, SumZero
  <2> QED BY <2>3
<1>3. IInv /\ IInv' /\ Counted /\ [Next]_vars => Counted'
  <2> SUFFICES ASSUME IInv, IInv', Counted, [Next]_vars PROVE Counted'
    OBVIOUS
  <2>1. /\ Saved \in [Wids -> Int] /\ restored \in [Wids -> Int]
        /\ replays \in [Engines -> Int] /\ Signals \in [Engines -> Int]
    BY CountTypes DEF IInv
  <2>2. /\ SumFunction(Saved) \in Int /\ SumFunction(restored) \in Int
        /\ SumFunction(replays) \in Int /\ SumFunction(Signals) \in Int
    BY <2>1, SumType
  <2> DEFINE s == SumFunction(Saved)  r == SumFunction(restored)
             p == SumFunction(replays)  g == SumFunction(Signals)
  <2>3. s = r + p + g /\ s \in Int /\ r \in Int /\ p \in Int /\ g \in Int
    BY <2>2
  <2> SUFFICES SumFunction(Saved') = SumFunction(restored') + SumFunction(replays') + SumFunction(Signals')
    OBVIOUS
  <2>4. CASE UNCHANGED <<Saved, restored, replays, Signals>>
    BY <2>4
  <2>5. ASSUME NEW e \in Engines, RecordStep(e)
        PROVE  SumFunction(Saved') = SumFunction(restored') + SumFunction(replays') + SumFunction(Signals')
    <3>1. /\ SumFunction(Saved') = s + 1 /\ SumFunction(Signals') = g + 1
          /\ SumFunction(restored') = r /\ SumFunction(replays') = p
      BY <2>5, RecordStepCounts
    <3> HIDE DEF s, r, p, g
    <3>2. s + 1 = r + p + (g + 1)
      BY <2>3
    <3> QED BY <3>1, <3>2
  <2>6. ASSUME NEW e \in Engines, Replay(e)
        PROVE  SumFunction(Saved') = SumFunction(restored') + SumFunction(replays') + SumFunction(Signals')
    <3>1. /\ SumFunction(Saved') = s /\ SumFunction(Signals') = g - 1
          /\ SumFunction(restored') = r /\ SumFunction(replays') = p + 1
      BY <2>6, ReplayCounts
    <3> HIDE DEF s, r, p, g
    <3>2. s = r + (p + 1) + (g - 1)
      BY <2>3
    <3> QED BY <3>1, <3>2
  <2>7. CASE Crash
    <3>1. /\ restored' = Saved /\ Saved' = Saved
          /\ \A e \in Engines : replays'[e] = 0 /\ Signals'[e] = 0
      BY <2>7 DEF Crash, Saved, Signals
    <3>2. replays' \in [Engines -> Int] /\ Signals' \in [Engines -> Int]
      BY CountTypesNext DEF IInv
    <3> HIDE DEF Saved, Signals
    <3>3. SumFunction(replays') = 0 /\ SumFunction(Signals') = 0
      BY <3>1, <3>2, SumZero
    <3>4. SumFunction(Saved') = s /\ SumFunction(restored') = s
      BY <3>1
    <3> HIDE DEF s
    <3>5. s = s + 0 + 0
      BY <2>3
    <3> QED BY <3>3, <3>4, <3>5
  <2> QED BY <2>4, <2>5, <2>6, <2>7, CountSteps
<1> HIDE DEF Counted
<1>4. Spec => []Counted
  BY <1>2, <1>3, Invariance, PTL DEF Spec
<1> QED BY <1>1, <1>4, PTL

-----------------------------------------------------------------------------
(* The refinement *)

(* Both specifications use the same operators on bodies and histories. *)
LEMMA SameOperators ==
    /\ \A h, n : Abstract!Results(h, n) = Results(h, n)
    /\ \A b, h, n : Abstract!Follows(b, h, n) <=> Follows(b, h, n)
    /\ \A id : Abstract!StepOp(id) = StepOp(id)
    /\ Abstract!ReturnOp = ReturnOp
  BY DEF Abstract!Results, Results, Abstract!Follows, Follows, Abstract!StepOp,
         StepOp, Abstract!ReturnOp, ReturnOp

(* The engine implements the specification of durable workflows. *)
THEOREM Refinement == ASSUME Exclusive PROVE Spec => DurableSpec
<1>1. Init => Abstract!DInit
  BY DEF Init, Abstract!DInit
<1>2. ASSUME IInv, [Next]_vars PROVE [Abstract!DNext]_<<data, returned>>
  <2>1. ASSUME NEW e \in Engines, RecordStep(e) PROVE Abstract!DNext
    <3> DEFINE w == frame[e].wid
    <3>1. UNCHANGED returned BY <2>1 DEF RecordStep, ghosts
    <3>2. w \in Wids BY <1>2, <2>1, RecordStepFacts
    <3>3. PICK id \in StepIds :
             LET h == data[w]
                 ev == [seq |-> Len(h), step_id |-> id, result |-> frame[e].result]
             IN  /\ frame[e].body \in Versions[w] /\ frame[e].result \in Values
                 /\ Follows(frame[e].body, h, Len(h))
                 /\ Do(frame[e].body, Results(h, Len(h))) = StepOp(id)
                 /\ data' = [data EXCEPT ![w] = Append(h, ev)]
      BY <1>2, <2>1, RecordStepFacts
    <3>4. /\ Abstract!Follows(frame[e].body, data[w], Len(data[w]))
          /\ Do(frame[e].body, Abstract!Results(data[w], Len(data[w]))) = Abstract!StepOp(id)
      BY <3>3, SameOperators
    <3>5. Abstract!Perform(w)
      BY <3>1, <3>3, <3>4 DEF Abstract!Perform
    <3> QED BY <3>2, <3>5 DEF Abstract!DNext
  <2>2. ASSUME NEW e \in Engines, Return(e) PROVE Abstract!DNext
    <3> DEFINE w == frame[e].wid
               n == frame[e].cursor
    <3>1. UNCHANGED data BY <2>2 DEF Return
    <3>2. w \in Wids BY <1>2, <2>2, ReturnFacts
    <3>3. /\ frame[e].body \in Versions[w] /\ n \in 0..Len(data[w])
          /\ Follows(frame[e].body, data[w], n)
          /\ Do(frame[e].body, Results(data[w], n)) = ReturnOp
          /\ returned' = [returned EXCEPT ![w] =
                [body |-> frame[e].body, results |-> Results(data[w], n)]]
      BY <1>2, <2>2, ReturnFacts
    <3>4. /\ Abstract!Follows(frame[e].body, data[w], n)
          /\ Do(frame[e].body, Abstract!Results(data[w], n)) = Abstract!ReturnOp
          /\ Abstract!Results(data[w], n) = Results(data[w], n)
      BY <3>3, SameOperators
    <3>5. Abstract!Finish(w)
      BY <3>1, <3>3, <3>4 DEF Abstract!Finish
    <3> QED BY <3>2, <3>5 DEF Abstract!DNext
  <2>3. CASE UNCHANGED <<data, returned>> BY <2>3
  <2> QED BY <1>2, <2>1, <2>2, <2>3, StoreSteps, ReturnSteps
<1>3. IInv /\ [Next]_vars => [Abstract!DNext]_(Abstract!dvars)
  BY <1>2 DEF Abstract!dvars
<1> QED BY <1>1, <1>3, Invariance, PTL DEF Spec, DurableSpec, Abstract!DSpec

=============================================================================
