---------------------------- MODULE IngestProofs ----------------------------
(***************************************************************************)
(* Proofs about Ingest, for every set of submissions, contents and cap.    *)
(***************************************************************************)
EXTENDS Ingest, FiniteSetTheorems, TLAPS

USE IngestAssumption

(* Type correctness: every reachable state of Ingest satisfies TypeOK but for
   the sign of `reserved`, which needs the reservation invariant below. *)
TypeInv ==
  /\ row \in [Sub -> L!RowState \cup {"none"}]
  /\ content \in [Sub -> Content]
  /\ zip \subseteq Sub
  /\ req \in [Sub -> {"idle", "body", "scan"}]
  /\ reserved \in Int
  /\ scanning \subseteq Sub
  /\ seg \in {NoSeg} \cup [op : SegOps, sub : Sub]
  /\ phase \in {"sleep", "retry", "rescan", "ingest", "sweep", "requeue"}
  /\ todo \subseteq Sub
  /\ cur \in Sub \cup {NoSub}
  /\ pending \in [Sub -> Age]
  /\ running \in [Sub -> Age]
  /\ marked \subseteq Sub
  /\ done \in [Sub -> Outcomes \cup {"absent"}]
  /\ pkg \in [Sub -> {"absent", "partial", "whole"}]
  /\ rpc \in {"idle", "claimed", "work", "wrote"}
  /\ rjob \in Sub \cup {NoSub}
  /\ rpc # "idle" => rjob \in Sub
  /\ deaths \in [Sub -> Nat]
  /\ crashes \in Nat

LEMMA TypeInit == Init => TypeInv
BY DEF Init, TypeInv, NoSeg, Age, Outcomes

LEMMA TypeUpload ==
  ASSUME TypeInv, NEW s \in Sub, Upload(s)
  PROVE  TypeInv'
<1> USE DEF TypeInv, dbVars, memVars, pollVars, jobVars, runVars, Owe, NoSeg, SegOps, Age,
            Outcomes, L!RowState, Move
<1>1. CASE Submit(s)     BY <1>1 DEF Submit, Reserve
<1>2. CASE Refuse(s)     BY <1>2 DEF Refuse
<1>3. CASE Promote(s)    BY <1>3 DEF Promote
<1>4. CASE Insert(s)     BY <1>4 DEF Insert
<1>5. CASE \E v \in Verdicts : Scanned(s, v)
  <2> PICK v \in Verdicts : Scanned(s, v)  BY <1>5
  <2> QED BY DEF Scanned, Apply, ScanOver, Hold
<1>6. CASE RejectAV(s)   BY <1>6 DEF RejectAV
<1>7. CASE QueueJob(s)   BY <1>7 DEF QueueJob
<1> QED BY <1>1, <1>2, <1>3, <1>4, <1>5, <1>6, <1>7 DEF Upload

LEMMA TypePoll ==
  ASSUME TypeInv, NEW s \in Sub, Poll(s)
  PROVE  TypeInv'
<1> USE DEF TypeInv, dbVars, memVars, pollVars, jobVars, runVars, Owe, NoSeg, SegOps, Age,
            Outcomes, L!RowState, Move
<1>1. CASE RetrySkip(s)        BY <1>1 DEF RetrySkip
<1>2. CASE RetryScan(s)        BY <1>2 DEF RetryScan
<1>3. CASE \E v \in Verdicts : Rescanned(s, v)
  <2> PICK v \in Verdicts : Rescanned(s, v)  BY <1>3
  <2> QED BY DEF Rescanned, Apply, ScanOver, Hold
<1>4. CASE IngestDrop(s)       BY <1>4 DEF IngestDrop
<1>5. CASE IngestFailed(s)     BY <1>5 DEF IngestFailed
<1>6. CASE IngestValidated(s)  BY <1>6 DEF IngestValidated
<1>7. CASE \E clean \in BOOLEAN : Swept(s, clean)
  <2> PICK clean \in BOOLEAN : Swept(s, clean)  BY <1>7
  <2> QED BY DEF Swept
<1>8. CASE Archive(s)          BY <1>8 DEF Archive
<1>9. CASE RequeueSkip(s)      BY <1>9 DEF RequeueSkip
<1>10. CASE RequeueDrop(s)     BY <1>10 DEF RequeueDrop
<1>11. CASE RequeueMark(s)     BY <1>11 DEF RequeueMark
<1>12. CASE RequeueUnlink(s)   BY <1>12 DEF RequeueUnlink, AfterUnlink
<1>13. CASE GiveUp(s)          BY <1>13 DEF GiveUp
<1>14. CASE Unmark(s)          BY <1>14 DEF Unmark
<1>15. CASE Bury(s)            BY <1>15 DEF Bury
<1> QED BY <1>1, <1>2, <1>3, <1>4, <1>5, <1>6, <1>7, <1>8, <1>9, <1>10, <1>11, <1>12,
           <1>13, <1>14, <1>15 DEF Poll

LEMMA TypeOthers ==
  ASSUME TypeInv, PollPass \/ Runner \/ Clock \/ Curator \/ GatewayCrash
  PROVE  TypeInv'
<1> USE DEF TypeInv, dbVars, memVars, pollVars, jobVars, runVars, gwVars, Owe, NoSeg,
            SegOps, Age, Outcomes, L!RowState, Move
<1>1. CASE PollPass
  BY <1>1 DEF PollPass, PollStart, RetryEnd, IngestEnd, RequeueEnd
<1>2. CASE Runner
  <2>1. ASSUME NEW s \in Sub, Claim(s) PROVE TypeInv'   BY <2>1 DEF Claim
  <2>2. CASE Unpack       BY <2>2 DEF Unpack
  <2>3. CASE ReadFails    BY <2>3 DEF ReadFails
  <2>4. CASE Retire       BY <2>4 DEF Retire
  <2>5. ASSUME NEW o \in Outcomes, Finish(o) PROVE TypeInv'   BY <2>5 DEF Finish
  <2>6. CASE Beat         BY <2>6 DEF Beat
  <2>7. CASE RunnerCrash  BY <2>7 DEF RunnerCrash
  <2> QED BY <1>2, <2>1, <2>2, <2>3, <2>4, <2>5, <2>6, <2>7 DEF Runner, RunnerStep
<1>3. CASE Clock
  BY <1>3 DEF Clock, AgePending, AgeRunning
<1>4. CASE Curator
  BY <1>4 DEF Curator, Decide
<1>5. CASE GatewayCrash
  BY <1>5 DEF GatewayCrash
<1> QED BY <1>1, <1>2, <1>3, <1>4, <1>5

LEMMA TypeStep == TypeInv /\ [Next]_vars => TypeInv'
<1> SUFFICES ASSUME TypeInv, [Next]_vars PROVE TypeInv'  OBVIOUS
<1>1. CASE UNCHANGED vars  BY <1>1 DEF vars, TypeInv, NoSeg
<1>2. CASE Next  BY <1>2, TypeUpload, TypePoll, TypeOthers DEF Next
<1> QED BY <1>1, <1>2

(* The shape of control: what is known of a row while a coroutine is between two
   of its durable effects, or suspended with the row in hand. *)
Ctl ==
  /\ \A s \in Sub : req[s] = "body" => row[s] = "none"
  /\ seg.op = "insert" => req[seg.sub] = "body"
  /\ seg.op = "reject" => row[seg.sub] = "RECEIVED"
  /\ seg.op \in {"queue", "requeue", "unmark", "bury"} => row[seg.sub] = "SCANNED"
  /\ seg.op \in {"requeue", "unmark", "bury"} => phase = "requeue"
  /\ seg.op = "archive" => row[seg.sub] \in {"VALIDATED", "QUARANTINED"}
  /\ phase = "sweep" => cur \in Sub /\ row[cur] = "SCANNED"

LEMMA CtlInit == Init => Ctl
BY DEF Init, Ctl, NoSeg

LEMMA CtlUpload ==
  ASSUME TypeInv, Ctl, NEW s \in Sub, Upload(s)
  PROVE  Ctl'
<1> USE DEF Ctl, TypeInv, Move, SegOps, dbVars, memVars, pollVars, jobVars, runVars, Owe, NoSeg, Free
<1>1. CASE Submit(s)            BY <1>1 DEF Submit, Reserve
<1>2. CASE Refuse(s)            BY <1>2 DEF Refuse
<1>3. CASE Promote(s)           BY <1>3 DEF Promote, Duplicate
<1>4. CASE Insert(s)            BY <1>4 DEF Insert
<1>5. CASE \E v \in Verdicts : Scanned(s, v)
  <2> PICK v \in Verdicts : Scanned(s, v)  BY <1>5
  <2> QED BY DEF Scanned, Apply, ScanOver, Hold, StillHeld
<1>6. CASE RejectAV(s)          BY <1>6 DEF RejectAV
<1>7. CASE QueueJob(s)          BY <1>7 DEF QueueJob
<1> QED BY <1>1, <1>2, <1>3, <1>4, <1>5, <1>6, <1>7 DEF Upload

LEMMA CtlPoll ==
  ASSUME TypeInv, Ctl, NEW s \in Sub, Poll(s)
  PROVE  Ctl'
<1> USE DEF Ctl, TypeInv, Move, SegOps, dbVars, memVars, pollVars, jobVars, runVars, Owe, NoSeg, Free
<1>1. CASE RetrySkip(s)         BY <1>1 DEF RetrySkip
<1>2. CASE RetryScan(s)         BY <1>2 DEF RetryScan
<1>3. CASE \E v \in Verdicts : Rescanned(s, v)
  <2> PICK v \in Verdicts : Rescanned(s, v)  BY <1>3
  <2> QED BY DEF Rescanned, Apply, ScanOver, Hold, StillHeld
<1>4. CASE IngestDrop(s)        BY <1>4 DEF IngestDrop
<1>5. CASE IngestFailed(s)      BY <1>5 DEF IngestFailed
<1>6. CASE IngestValidated(s)   BY <1>6 DEF IngestValidated
<1>7. CASE \E clean \in BOOLEAN : Swept(s, clean)
  <2> PICK clean \in BOOLEAN : Swept(s, clean)  BY <1>7
  <2> QED BY DEF Swept
<1>8. CASE Archive(s)           BY <1>8 DEF Archive
<1>9. CASE RequeueSkip(s)       BY <1>9 DEF RequeueSkip
<1>10. CASE RequeueDrop(s)      BY <1>10 DEF RequeueDrop
<1>11. CASE RequeueMark(s)      BY <1>11 DEF RequeueMark, Unanswered
<1>12. CASE RequeueUnlink(s)    BY <1>12 DEF RequeueUnlink, AfterUnlink
<1>13. CASE GiveUp(s)           BY <1>13 DEF GiveUp, Unanswered
<1>14. CASE Unmark(s)           BY <1>14 DEF Unmark
<1>15. CASE Bury(s)             BY <1>15 DEF Bury
<1> QED BY <1>1, <1>2, <1>3, <1>4, <1>5, <1>6, <1>7, <1>8, <1>9, <1>10, <1>11, <1>12, <1>13, <1>14, <1>15 DEF Poll

LEMMA CtlOthers ==
  ASSUME TypeInv, Ctl, PollPass \/ Runner \/ Clock \/ Curator \/ GatewayCrash
  PROVE  Ctl'
<1> USE DEF Ctl, TypeInv, Move, SegOps, dbVars, memVars, pollVars, jobVars, runVars, Owe, NoSeg, Free, gwVars
<1>1. CASE PollPass
  BY <1>1 DEF PollPass, PollStart, RetryEnd, IngestEnd, RequeueEnd
<1>2. CASE Runner
  <2>1. ASSUME NEW s \in Sub, Claim(s) PROVE Ctl'   BY <2>1 DEF Claim
  <2>2. CASE Unpack       BY <2>2 DEF Unpack
  <2>3. CASE ReadFails    BY <2>3 DEF ReadFails
  <2>4. CASE Retire       BY <2>4 DEF Retire
  <2>5. ASSUME NEW o \in Outcomes, Finish(o) PROVE Ctl'   BY <2>5 DEF Finish
  <2>6. CASE Beat         BY <2>6 DEF Beat
  <2>7. CASE RunnerCrash  BY <2>7 DEF RunnerCrash
  <2> QED BY <1>2, <2>1, <2>2, <2>3, <2>4, <2>5, <2>6, <2>7 DEF Runner, RunnerStep
<1>3. CASE Clock
  BY <1>3 DEF Clock, AgePending, AgeRunning
<1>4. CASE Curator
  BY <1>4 DEF Curator, Decide
<1>5. CASE GatewayCrash
  BY <1>5 DEF GatewayCrash
<1> QED BY <1>1, <1>2, <1>3, <1>4, <1>5

LEMMA CtlStep == TypeInv /\ Ctl /\ [Next]_vars => Ctl'
<1> SUFFICES ASSUME TypeInv, Ctl, [Next]_vars PROVE Ctl'  OBVIOUS
<1>1. CASE UNCHANGED vars  BY <1>1 DEF Ctl, TypeInv, NoSeg, vars
<1>2. CASE Next  BY <1>2, CtlUpload, CtlPoll, CtlOthers DEF Next
<1> QED BY <1>1, <1>2

THEOREM Control == Spec => [](TypeInv /\ Ctl)
<1>1. Init => TypeInv /\ Ctl  BY TypeInit, CtlInit
<1>2. TypeInv /\ Ctl /\ [Next]_vars => (TypeInv /\ Ctl)'  BY TypeStep, CtlStep
<1> QED BY <1>1, <1>2, PTL DEF Spec

-----------------------------------------------------------------------------
(* The in-flight cap.  A slot is held by a row that is not terminal, or by an
   upload between its cap check and its insert; the reservations count the
   uploads under way.  Every step but Submit can only shrink what is held. *)

Busy == {s \in Sub : req[s] # "idle"}
Held == Inflight \cup {s \in Sub : req[s] = "body"}

SlotInv == /\ reserved = Cardinality(Busy)
           /\ Cardinality(Held) <= MaxInflight

(* What a step can do to the slots. *)
Take(s) == /\ HasRoom /\ req[s] = "idle"
           /\ reserved' = reserved + 1
           /\ Busy' = Busy \cup {s}
           /\ Held' = Held \cup {s}
Release(s) == /\ s \in Busy
              /\ reserved' = reserved - 1
              /\ Busy' = Busy \ {s}
              /\ Held' \subseteq Held
Forget == reserved' = 0 /\ Busy' = {} /\ Held' \subseteq Held
Keep == reserved' = reserved /\ Busy' = Busy /\ Held' \subseteq Held

SlotStep == Keep \/ Forget \/ \E s \in Sub : Take(s) \/ Release(s)

LEMMA SlotUpload ==
  ASSUME TypeInv, Ctl, NEW s \in Sub, Upload(s)
  PROVE  SlotStep
<1> USE DEF Ctl, TypeInv, Move, SegOps, L!Terminal, L!RowState, Inflight, Busy, Held, dbVars, memVars, pollVars, jobVars, runVars, Owe, NoSeg, Free
<1>1. CASE Submit(s)            BY <1>1 DEF Submit, Reserve, SlotStep, Take
<1>2. CASE Refuse(s)            BY <1>2 DEF Refuse, SlotStep, Release
<1>3. CASE Promote(s)           BY <1>3 DEF Promote, Duplicate, SlotStep, Keep
<1>4. CASE Insert(s)            BY <1>4 DEF Insert, SlotStep, Keep
<1>5. CASE \E v \in Verdicts : Scanned(s, v)
  <2> PICK v \in Verdicts : Scanned(s, v)  BY <1>5
  <2> QED BY DEF Scanned, Apply, ScanOver, Hold, StillHeld, SlotStep, Release
<1>6. CASE RejectAV(s)          BY <1>6 DEF RejectAV, SlotStep, Keep
<1>7. CASE QueueJob(s)          BY <1>7 DEF QueueJob, SlotStep, Keep
<1> QED BY <1>1, <1>2, <1>3, <1>4, <1>5, <1>6, <1>7 DEF Upload

LEMMA SlotPoll ==
  ASSUME TypeInv, Ctl, NEW s \in Sub, Poll(s)
  PROVE  Keep
<1> USE DEF Ctl, TypeInv, Move, SegOps, L!Terminal, L!RowState, Inflight, Busy, Held, dbVars, memVars, pollVars, jobVars, runVars, Owe, NoSeg, Free
<1>1. CASE RetrySkip(s)         BY <1>1 DEF RetrySkip, Keep
<1>2. CASE RetryScan(s)         BY <1>2 DEF RetryScan, Keep
<1>3. CASE \E v \in Verdicts : Rescanned(s, v)
  <2> PICK v \in Verdicts : Rescanned(s, v)  BY <1>3
  <2> QED BY DEF Rescanned, Apply, ScanOver, Hold, StillHeld, Keep
<1>4. CASE IngestDrop(s)        BY <1>4 DEF IngestDrop, Keep
<1>5. CASE IngestFailed(s)      BY <1>5 DEF IngestFailed, Keep
<1>6. CASE IngestValidated(s)   BY <1>6 DEF IngestValidated, Keep
<1>7. CASE \E clean \in BOOLEAN : Swept(s, clean)
  <2> PICK clean \in BOOLEAN : Swept(s, clean)  BY <1>7
  <2> QED BY DEF Swept, Keep
<1>8. CASE Archive(s)           BY <1>8 DEF Archive, Keep
<1>9. CASE RequeueSkip(s)       BY <1>9 DEF RequeueSkip, Keep
<1>10. CASE RequeueDrop(s)      BY <1>10 DEF RequeueDrop, Keep
<1>11. CASE RequeueMark(s)      BY <1>11 DEF RequeueMark, Unanswered, Keep
<1>12. CASE RequeueUnlink(s)    BY <1>12 DEF RequeueUnlink, AfterUnlink, Keep
<1>13. CASE GiveUp(s)           BY <1>13 DEF GiveUp, Unanswered, Keep
<1>14. CASE Unmark(s)           BY <1>14 DEF Unmark, Keep
<1>15. CASE Bury(s)             BY <1>15 DEF Bury, Keep
<1> QED BY <1>1, <1>2, <1>3, <1>4, <1>5, <1>6, <1>7, <1>8, <1>9, <1>10, <1>11, <1>12, <1>13, <1>14, <1>15 DEF Poll

LEMMA SlotOthers ==
  ASSUME TypeInv, Ctl, PollPass \/ Runner \/ Clock \/ Curator \/ GatewayCrash
  PROVE  Keep \/ Forget
<1> USE DEF Ctl, TypeInv, Move, SegOps, L!Terminal, L!RowState, Inflight, Busy, Held, dbVars, memVars, pollVars, jobVars, runVars, Owe, NoSeg, Free, gwVars
<1>1. CASE PollPass
  BY <1>1 DEF PollPass, PollStart, RetryEnd, IngestEnd, RequeueEnd, Keep
<1>2. CASE Runner
  <2>1. ASSUME NEW s \in Sub, Claim(s) PROVE Keep \/ Forget   BY <2>1 DEF Claim, Keep
  <2>2. CASE Unpack       BY <2>2 DEF Unpack, Keep
  <2>3. CASE ReadFails    BY <2>3 DEF ReadFails, Keep
  <2>4. CASE Retire       BY <2>4 DEF Retire, Keep
  <2>5. ASSUME NEW o \in Outcomes, Finish(o) PROVE Keep \/ Forget   BY <2>5 DEF Finish, Keep
  <2>6. CASE Beat         BY <2>6 DEF Beat, Keep
  <2>7. CASE RunnerCrash  BY <2>7 DEF RunnerCrash, Keep
  <2> QED BY <1>2, <2>1, <2>2, <2>3, <2>4, <2>5, <2>6, <2>7 DEF Runner, RunnerStep
<1>3. CASE Clock
  BY <1>3 DEF Clock, AgePending, AgeRunning, Keep
<1>4. CASE Curator
  BY <1>4 DEF Curator, Decide, Keep
<1>5. CASE GatewayCrash
  BY <1>5 DEF GatewayCrash, Forget
<1> QED BY <1>1, <1>2, <1>3, <1>4, <1>5

LEMMA SlotEffect == TypeInv /\ Ctl /\ [Next]_vars => SlotStep
<1> SUFFICES ASSUME TypeInv, Ctl, [Next]_vars PROVE SlotStep  OBVIOUS
<1>1. CASE UNCHANGED vars  BY <1>1 DEF vars, SlotStep, Keep, Busy, Held, Inflight
<1>2. CASE Next  BY <1>2, SlotUpload, SlotPoll, SlotOthers DEF Next, SlotStep
<1> QED BY <1>1, <1>2

LEMMA SlotSets == /\ IsFiniteSet(Busy) /\ IsFiniteSet(Held) /\ IsFiniteSet(Inflight)
                  /\ Cardinality(Busy) \in Nat /\ Cardinality(Held) \in Nat
                  /\ Cardinality(Inflight) \in Nat
                  /\ Cardinality(Held) <= Cardinality(Inflight) + Cardinality(Busy)
<1>1. Busy \subseteq Sub /\ Held \subseteq Sub /\ Inflight \subseteq Sub
  BY DEF Busy, Held, Inflight
<1>2. IsFiniteSet(Busy) /\ IsFiniteSet(Held) /\ IsFiniteSet(Inflight)
  BY <1>1, FS_Subset
<1>3. /\ Cardinality(Busy) \in Nat /\ Cardinality(Held) \in Nat
      /\ Cardinality(Inflight) \in Nat
  BY <1>2, FS_CardinalityType
<1>4. Held \subseteq Inflight \cup Busy
  BY DEF Held, Busy
<1>5. IsFiniteSet(Inflight \cup Busy)
      /\ Cardinality(Inflight \cup Busy) =
           Cardinality(Inflight) + Cardinality(Busy) - Cardinality(Inflight \cap Busy)
  BY <1>2, FS_Union
<1>6. Cardinality(Inflight \cap Busy) \in Nat
  BY <1>2, FS_Subset, FS_CardinalityType
<1>7. Cardinality(Held) <= Cardinality(Inflight \cup Busy)
  BY <1>4, <1>5, FS_Subset
<1> QED BY <1>2, <1>3, <1>5, <1>6, <1>7

LEMMA SlotPreserved == SlotInv /\ SlotStep => SlotInv'
<1> SUFFICES ASSUME SlotInv, SlotStep PROVE SlotInv'  OBVIOUS
<1> USE SlotSets DEF SlotInv
<1>1. CASE Keep \/ Forget
  <2>1. Cardinality(Held') <= Cardinality(Held)
    BY <1>1, FS_Subset DEF Keep, Forget
  <2>2. reserved' = Cardinality(Busy')
    BY <1>1, FS_EmptySet DEF Keep, Forget
  <2>3. Cardinality(Held') \in Nat
    BY <1>1, FS_Subset, FS_CardinalityType DEF Keep, Forget
  <2> QED BY <2>1, <2>2, <2>3
<1>2. ASSUME NEW s \in Sub, Take(s) PROVE SlotInv'
  <2>1. s \notin Busy  BY <1>2 DEF Take, Busy
  <2>2. Cardinality(Busy') = Cardinality(Busy) + 1
    BY <1>2, <2>1, FS_AddElement DEF Take
  <2>3. Cardinality(Held') <= Cardinality(Held) + 1 /\ Cardinality(Held') \in Nat
    <3>1. CASE s \in Held
      <4>1. Held' = Held  BY <1>2, <3>1 DEF Take
      <4> QED BY <4>1
    <3>2. CASE s \notin Held
      <4>1. Cardinality(Held \cup {s}) = Cardinality(Held) + 1
        BY <3>2, FS_AddElement
      <4> QED BY <4>1, <1>2 DEF Take
    <3> QED BY <3>1, <3>2
  <2>4. Cardinality(Held) < MaxInflight
    BY <1>2 DEF Take, HasRoom
  <2> QED BY <1>2, <2>2, <2>3, <2>4 DEF Take
<1>3. ASSUME NEW s \in Sub, Release(s) PROVE SlotInv'
  <2>1. Cardinality(Held') <= Cardinality(Held) /\ Cardinality(Held') \in Nat
    BY <1>3, FS_Subset, FS_CardinalityType DEF Release
  <2>2. Cardinality(Busy') = Cardinality(Busy) - 1
    BY <1>3, FS_RemoveElement DEF Release
  <2> QED BY <1>3, <2>1, <2>2 DEF Release
<1> QED BY <1>1, <1>2, <1>3 DEF SlotStep

LEMMA SlotInit == Init => SlotInv
<1> SUFFICES ASSUME Init PROVE SlotInv  OBVIOUS
<1>1. Busy = {} /\ Held = {}
  BY DEF Init, Busy, Held, Inflight
<1> QED BY <1>1, FS_EmptySet DEF SlotInv, Init

THEOREM Slots == Spec => []SlotInv
<1>1. TypeInv /\ Ctl /\ SlotInv /\ [Next]_vars => SlotInv'
  BY SlotEffect, SlotPreserved
<1> QED BY <1>1, SlotInit, Control, PTL DEF Spec

(* However many uploads arrive together, the rows in flight never exceed
   AUSMT_MAX_INFLIGHT (app.py, handle_submit; db.py, count_inflight). *)
THEOREM Capacity == Spec => []CapacityRespected
<1>1. SlotInv => CapacityRespected
  <2> SUFFICES ASSUME SlotInv PROVE CapacityRespected  OBVIOUS
  <2>1. Inflight \subseteq Held  BY DEF Held
  <2>2. Cardinality(Inflight) <= Cardinality(Held)  BY <2>1, SlotSets, FS_Subset
  <2> QED BY <2>2, SlotSets DEF SlotInv, CapacityRespected
<1> QED BY <1>1, Slots, PTL

(* Every variable keeps its type: in particular the reservation count of
   app.py 191-193 never goes below zero. *)
THEOREM Types == Spec => []TypeOK
<1>1. TypeInv /\ SlotInv => TypeOK
  BY SlotSets DEF TypeInv, SlotInv, TypeOK
<1> QED BY <1>1, Control, Slots, PTL

-----------------------------------------------------------------------------
(* The rows only move as the state table allows: every step of Ingest is a
   step of Lifecycle or leaves the rows alone. *)

LEMMA MoveUpload ==
  ASSUME TypeInv, Ctl, NEW s \in Sub, Upload(s)
  PROVE  [L!Next]_row
<1> USE DEF Ctl, TypeInv, Move, SegOps, dbVars, memVars, pollVars, jobVars, runVars, Owe, NoSeg, Free
<1>1. CASE Submit(s)            BY <1>1 DEF Submit, Reserve, L!Next, L!Insert, L!Transition, L!Allowed, L!RowState, Verdicts
<1>2. CASE Refuse(s)            BY <1>2 DEF Refuse
<1>3. CASE Promote(s)           BY <1>3 DEF Promote, Duplicate
<1>4. CASE Insert(s)            BY <1>4 DEF Insert, L!Next, L!Insert, L!Transition, L!Allowed, L!RowState, Verdicts
<1>5. CASE \E v \in Verdicts : Scanned(s, v)
  <2> PICK v \in Verdicts : Scanned(s, v)  BY <1>5
  <2> QED BY DEF Scanned, Apply, ScanOver, Hold, StillHeld, L!Next, L!Insert, L!Transition, L!Allowed, L!RowState, Verdicts
<1>6. CASE RejectAV(s)          BY <1>6 DEF RejectAV, L!Next, L!Insert, L!Transition, L!Allowed, L!RowState, Verdicts
<1>7. CASE QueueJob(s)          BY <1>7 DEF QueueJob
<1> QED BY <1>1, <1>2, <1>3, <1>4, <1>5, <1>6, <1>7 DEF Upload

LEMMA MovePoll ==
  ASSUME TypeInv, Ctl, NEW s \in Sub, Poll(s)
  PROVE  [L!Next]_row
<1> USE DEF Ctl, TypeInv, Move, SegOps, dbVars, memVars, pollVars, jobVars, runVars, Owe, NoSeg, Free
<1>1. CASE RetrySkip(s)         BY <1>1 DEF RetrySkip
<1>2. CASE RetryScan(s)         BY <1>2 DEF RetryScan
<1>3. CASE \E v \in Verdicts : Rescanned(s, v)
  <2> PICK v \in Verdicts : Rescanned(s, v)  BY <1>3
  <2> QED BY DEF Rescanned, Apply, ScanOver, Hold, StillHeld, L!Next, L!Insert, L!Transition, L!Allowed, L!RowState, Verdicts
<1>4. CASE IngestDrop(s)        BY <1>4 DEF IngestDrop
<1>5. CASE IngestFailed(s)      BY <1>5 DEF IngestFailed, L!Next, L!Insert, L!Transition, L!Allowed, L!RowState, Verdicts
<1>6. CASE IngestValidated(s)   BY <1>6 DEF IngestValidated
<1>7. CASE \E clean \in BOOLEAN : Swept(s, clean)
  <2> PICK clean \in BOOLEAN : Swept(s, clean)  BY <1>7
  <2> QED BY DEF Swept, L!Next, L!Insert, L!Transition, L!Allowed, L!RowState, Verdicts
<1>8. CASE Archive(s)           BY <1>8 DEF Archive
<1>9. CASE RequeueSkip(s)       BY <1>9 DEF RequeueSkip
<1>10. CASE RequeueDrop(s)      BY <1>10 DEF RequeueDrop
<1>11. CASE RequeueMark(s)      BY <1>11 DEF RequeueMark, Unanswered
<1>12. CASE RequeueUnlink(s)    BY <1>12 DEF RequeueUnlink, AfterUnlink
<1>13. CASE GiveUp(s)           BY <1>13 DEF GiveUp, Unanswered
<1>14. CASE Unmark(s)           BY <1>14 DEF Unmark
<1>15. CASE Bury(s)             BY <1>15 DEF Bury, L!Next, L!Insert, L!Transition, L!Allowed, L!RowState, Verdicts
<1> QED BY <1>1, <1>2, <1>3, <1>4, <1>5, <1>6, <1>7, <1>8, <1>9, <1>10, <1>11, <1>12, <1>13, <1>14, <1>15 DEF Poll

LEMMA MoveOthers ==
  ASSUME TypeInv, Ctl, PollPass \/ Runner \/ Clock \/ Curator \/ GatewayCrash
  PROVE  [L!Next]_row
<1> USE DEF Ctl, TypeInv, Move, SegOps, dbVars, memVars, pollVars, jobVars, runVars, Owe, NoSeg, Free, gwVars
<1>1. CASE PollPass
  BY <1>1 DEF PollPass, PollStart, RetryEnd, IngestEnd, RequeueEnd
<1>2. CASE Runner
  <2>1. ASSUME NEW s \in Sub, Claim(s) PROVE [L!Next]_row   BY <2>1 DEF Claim
  <2>2. CASE Unpack       BY <2>2 DEF Unpack
  <2>3. CASE ReadFails    BY <2>3 DEF ReadFails
  <2>4. CASE Retire       BY <2>4 DEF Retire
  <2>5. ASSUME NEW o \in Outcomes, Finish(o) PROVE [L!Next]_row   BY <2>5 DEF Finish
  <2>6. CASE Beat         BY <2>6 DEF Beat
  <2>7. CASE RunnerCrash  BY <2>7 DEF RunnerCrash
  <2> QED BY <1>2, <2>1, <2>2, <2>3, <2>4, <2>5, <2>6, <2>7 DEF Runner, RunnerStep
<1>3. CASE Clock
  BY <1>3 DEF Clock, AgePending, AgeRunning
<1>4. CASE Curator
  <2> PICK s \in Sub, to \in {"RETURNED", "REJECTED"} : Decide(s, to)  BY <1>4 DEF Curator
  <2>1. row[s] = "VALIDATED" /\ row' = [row EXCEPT ![s] = to]  BY DEF Decide
  <2> HIDE <1>4 DEF Ctl, TypeInv
  <2> QED BY <2>1 DEF L!Next, L!Transition, L!Allowed, L!RowState
<1>5. CASE GatewayCrash
  BY <1>5 DEF GatewayCrash
<1> QED BY <1>1, <1>2, <1>3, <1>4, <1>5

LEMMA MoveStep == TypeInv /\ Ctl /\ [Next]_vars => [L!Next]_row
<1> SUFFICES ASSUME TypeInv, Ctl, [Next]_vars PROVE [L!Next]_row  OBVIOUS
<1>1. CASE UNCHANGED vars  BY <1>1 DEF vars
<1>2. CASE Next  BY <1>2, MoveUpload, MovePoll, MoveOthers DEF Next
<1> QED BY <1>1, <1>2

(* Neither the poll loop nor a scan ever asks db.transition for a move the table
   of states.py refuses, and no second verdict is applied to a row. *)
THEOREM RowsMoveLegally == Spec => LegalMoves
<1>1. Init => L!Init  BY DEF Init, L!Init
<1>2. TypeInv /\ Ctl /\ [Next]_vars => [L!Next]_(L!vars)  BY MoveStep DEF L!vars
<1> QED BY <1>1, <1>2, Control, PTL DEF Spec, LegalMoves, L!Spec

-----------------------------------------------------------------------------
(* Unique content: the check of Promote still holds when its row is inserted,
   because nothing else inserts a row in between. *)
Unique == /\ UniqueContent
          /\ seg.op = "insert" =>
               \A t \in Sub : row[t] # "none" => content[t] # content[seg.sub]

LEMMA UniqueUpload ==
  ASSUME TypeInv, Ctl, Unique, NEW s \in Sub, Upload(s)
  PROVE  Unique'
<1> USE DEF Unique, UniqueContent, Ctl, TypeInv, Move, SegOps, dbVars, memVars, pollVars, jobVars, runVars, Owe, NoSeg, Free
<1>1. CASE Submit(s)            BY <1>1 DEF Submit, Reserve
<1>2. CASE Refuse(s)            BY <1>2 DEF Refuse
<1>3. CASE Promote(s)           BY <1>3 DEF Promote, Duplicate
<1>4. CASE Insert(s)            BY <1>4 DEF Insert
<1>5. CASE \E v \in Verdicts : Scanned(s, v)
  <2> PICK v \in Verdicts : Scanned(s, v)  BY <1>5
  <2> QED BY DEF Scanned, Apply, ScanOver, Hold, StillHeld
<1>6. CASE RejectAV(s)          BY <1>6 DEF RejectAV
<1>7. CASE QueueJob(s)          BY <1>7 DEF QueueJob
<1> QED BY <1>1, <1>2, <1>3, <1>4, <1>5, <1>6, <1>7 DEF Upload

LEMMA UniquePoll ==
  ASSUME TypeInv, Ctl, Unique, NEW s \in Sub, Poll(s)
  PROVE  Unique'
<1> USE DEF Unique, UniqueContent, Ctl, TypeInv, Move, SegOps, dbVars, memVars, pollVars, jobVars, runVars, Owe, NoSeg, Free
<1>1. CASE RetrySkip(s)         BY <1>1 DEF RetrySkip
<1>2. CASE RetryScan(s)         BY <1>2 DEF RetryScan
<1>3. CASE \E v \in Verdicts : Rescanned(s, v)
  <2> PICK v \in Verdicts : Rescanned(s, v)  BY <1>3
  <2> QED BY DEF Rescanned, Apply, ScanOver, Hold, StillHeld
<1>4. CASE IngestDrop(s)        BY <1>4 DEF IngestDrop
<1>5. CASE IngestFailed(s)      BY <1>5 DEF IngestFailed
<1>6. CASE IngestValidated(s)   BY <1>6 DEF IngestValidated
<1>7. CASE \E clean \in BOOLEAN : Swept(s, clean)
  <2> PICK clean \in BOOLEAN : Swept(s, clean)  BY <1>7
  <2> QED BY DEF Swept
<1>8. CASE Archive(s)           BY <1>8 DEF Archive
<1>9. CASE RequeueSkip(s)       BY <1>9 DEF RequeueSkip
<1>10. CASE RequeueDrop(s)      BY <1>10 DEF RequeueDrop
<1>11. CASE RequeueMark(s)      BY <1>11 DEF RequeueMark, Unanswered
<1>12. CASE RequeueUnlink(s)    BY <1>12 DEF RequeueUnlink, AfterUnlink
<1>13. CASE GiveUp(s)           BY <1>13 DEF GiveUp, Unanswered
<1>14. CASE Unmark(s)           BY <1>14 DEF Unmark
<1>15. CASE Bury(s)             BY <1>15 DEF Bury
<1> QED BY <1>1, <1>2, <1>3, <1>4, <1>5, <1>6, <1>7, <1>8, <1>9, <1>10, <1>11, <1>12, <1>13, <1>14, <1>15 DEF Poll

LEMMA UniqueOthers ==
  ASSUME TypeInv, Ctl, Unique, PollPass \/ Runner \/ Clock \/ Curator \/ GatewayCrash
  PROVE  Unique'
<1> USE DEF Unique, UniqueContent, Ctl, TypeInv, Move, SegOps, dbVars, memVars, pollVars, jobVars, runVars, Owe, NoSeg, Free, gwVars
<1>1. CASE PollPass
  BY <1>1 DEF PollPass, PollStart, RetryEnd, IngestEnd, RequeueEnd
<1>2. CASE Runner
  <2>1. ASSUME NEW s \in Sub, Claim(s) PROVE Unique'   BY <2>1 DEF Claim
  <2>2. CASE Unpack       BY <2>2 DEF Unpack
  <2>3. CASE ReadFails    BY <2>3 DEF ReadFails
  <2>4. CASE Retire       BY <2>4 DEF Retire
  <2>5. ASSUME NEW o \in Outcomes, Finish(o) PROVE Unique'   BY <2>5 DEF Finish
  <2>6. CASE Beat         BY <2>6 DEF Beat
  <2>7. CASE RunnerCrash  BY <2>7 DEF RunnerCrash
  <2> QED BY <1>2, <2>1, <2>2, <2>3, <2>4, <2>5, <2>6, <2>7 DEF Runner, RunnerStep
<1>3. CASE Clock
  BY <1>3 DEF Clock, AgePending, AgeRunning
<1>4. CASE Curator
  BY <1>4 DEF Curator, Decide
<1>5. CASE GatewayCrash
  BY <1>5 DEF GatewayCrash
<1> QED BY <1>1, <1>2, <1>3, <1>4, <1>5

LEMMA UniqueStep == TypeInv /\ Ctl /\ Unique /\ [Next]_vars => Unique'
<1> SUFFICES ASSUME TypeInv, Ctl, Unique, [Next]_vars PROVE Unique'  OBVIOUS
<1>1. CASE UNCHANGED vars  BY <1>1 DEF Unique, UniqueContent, vars
<1>2. CASE Next  BY <1>2, UniqueUpload, UniquePoll, UniqueOthers DEF Next
<1> QED BY <1>1, <1>2

(* No two rows ever carry the same bytes, for any number of concurrent uploads
   (app.py, the duplicate check and the insert of _handle_submit_reserved). *)
THEOREM NoDuplicates == Spec => []UniqueContent
<1>1. Init => Unique  BY DEF Init, Unique, UniqueContent, NoSeg
<1>2. Unique => UniqueContent  BY DEF Unique
<1> QED BY <1>1, <1>2, UniqueStep, Control, PTL DEF Spec

-----------------------------------------------------------------------------
LEMMA CleanUpload ==
  ASSUME TypeInv, Ctl, OnlyCleanQueued, NEW s \in Sub, Upload(s)
  PROVE  OnlyCleanQueued'
<1> USE DEF OnlyCleanQueued, Ctl, TypeInv, Move, SegOps, dbVars, memVars, pollVars, jobVars, runVars, Owe, NoSeg, Free
<1>1. CASE Submit(s)            BY <1>1 DEF Submit, Reserve
<1>2. CASE Refuse(s)            BY <1>2 DEF Refuse
<1>3. CASE Promote(s)           BY <1>3 DEF Promote, Duplicate
<1>4. CASE Insert(s)            BY <1>4 DEF Insert
<1>5. CASE \E v \in Verdicts : Scanned(s, v)
  <2> PICK v \in Verdicts : Scanned(s, v)  BY <1>5
  <2> QED BY DEF Scanned, Apply, ScanOver, Hold, StillHeld
<1>6. CASE RejectAV(s)          BY <1>6 DEF RejectAV
<1>7. CASE QueueJob(s)          BY <1>7 DEF QueueJob
<1> QED BY <1>1, <1>2, <1>3, <1>4, <1>5, <1>6, <1>7 DEF Upload

LEMMA CleanPoll ==
  ASSUME TypeInv, Ctl, OnlyCleanQueued, NEW s \in Sub, Poll(s)
  PROVE  OnlyCleanQueued'
<1> USE DEF OnlyCleanQueued, Ctl, TypeInv, Move, SegOps, dbVars, memVars, pollVars, jobVars, runVars, Owe, NoSeg, Free
<1>1. CASE RetrySkip(s)         BY <1>1 DEF RetrySkip
<1>2. CASE RetryScan(s)         BY <1>2 DEF RetryScan
<1>3. CASE \E v \in Verdicts : Rescanned(s, v)
  <2> PICK v \in Verdicts : Rescanned(s, v)  BY <1>3
  <2> QED BY DEF Rescanned, Apply, ScanOver, Hold, StillHeld
<1>4. CASE IngestDrop(s)        BY <1>4 DEF IngestDrop
<1>5. CASE IngestFailed(s)      BY <1>5 DEF IngestFailed
<1>6. CASE IngestValidated(s)   BY <1>6 DEF IngestValidated
<1>7. CASE \E clean \in BOOLEAN : Swept(s, clean)
  <2> PICK clean \in BOOLEAN : Swept(s, clean)  BY <1>7
  <2> QED BY DEF Swept
<1>8. CASE Archive(s)           BY <1>8 DEF Archive
<1>9. CASE RequeueSkip(s)       BY <1>9 DEF RequeueSkip
<1>10. CASE RequeueDrop(s)      BY <1>10 DEF RequeueDrop
<1>11. CASE RequeueMark(s)      BY <1>11 DEF RequeueMark, Unanswered
<1>12. CASE RequeueUnlink(s)    BY <1>12 DEF RequeueUnlink, AfterUnlink
<1>13. CASE GiveUp(s)           BY <1>13 DEF GiveUp, Unanswered
<1>14. CASE Unmark(s)           BY <1>14 DEF Unmark
<1>15. CASE Bury(s)             BY <1>15 DEF Bury
<1> QED BY <1>1, <1>2, <1>3, <1>4, <1>5, <1>6, <1>7, <1>8, <1>9, <1>10, <1>11, <1>12, <1>13, <1>14, <1>15 DEF Poll

LEMMA CleanOthers ==
  ASSUME TypeInv, Ctl, OnlyCleanQueued, PollPass \/ Runner \/ Clock \/ Curator \/ GatewayCrash
  PROVE  OnlyCleanQueued'
<1> USE DEF OnlyCleanQueued, Ctl, TypeInv, Move, SegOps, dbVars, memVars, pollVars, jobVars, runVars, Owe, NoSeg, Free, gwVars
<1>1. CASE PollPass
  BY <1>1 DEF PollPass, PollStart, RetryEnd, IngestEnd, RequeueEnd
<1>2. CASE Runner
  <2>1. ASSUME NEW s \in Sub, Claim(s) PROVE OnlyCleanQueued'   BY <2>1 DEF Claim
  <2>2. CASE Unpack       BY <2>2 DEF Unpack
  <2>3. CASE ReadFails    BY <2>3 DEF ReadFails
  <2>4. CASE Retire       BY <2>4 DEF Retire
  <2>5. ASSUME NEW o \in Outcomes, Finish(o) PROVE OnlyCleanQueued'   BY <2>5 DEF Finish
  <2>6. CASE Beat         BY <2>6 DEF Beat
  <2>7. CASE RunnerCrash  BY <2>7 DEF RunnerCrash
  <2> QED BY <1>2, <2>1, <2>2, <2>3, <2>4, <2>5, <2>6, <2>7 DEF Runner, RunnerStep
<1>3. CASE Clock
  BY <1>3 DEF Clock, AgePending, AgeRunning
<1>4. CASE Curator
  BY <1>4 DEF Curator, Decide
<1>5. CASE GatewayCrash
  BY <1>5 DEF GatewayCrash
<1> QED BY <1>1, <1>2, <1>3, <1>4, <1>5

LEMMA CleanStep == TypeInv /\ Ctl /\ OnlyCleanQueued /\ [Next]_vars => OnlyCleanQueued'
<1> SUFFICES ASSUME TypeInv, Ctl, OnlyCleanQueued, [Next]_vars PROVE OnlyCleanQueued'  OBVIOUS
<1>1. CASE UNCHANGED vars  BY <1>1 DEF OnlyCleanQueued, vars
<1>2. CASE Next  BY <1>2, CleanUpload, CleanPoll, CleanOthers DEF Next
<1> QED BY <1>1, <1>2

(* The runner never sees bytes the scanner has not called clean, whatever
   crashes and however long a job waits (app.py, _scan_and_advance). *)
THEOREM CleanQueued == Spec => []OnlyCleanQueued
<1>1. Init => OnlyCleanQueued  BY DEF Init, OnlyCleanQueued
<1> QED BY <1>1, CleanStep, Control, PTL DEF Spec

-----------------------------------------------------------------------------
(* Jobs, under the deployed timing (Stalls = FALSE).  A job is in one place at a
   time, a claimed one is never old, and the sweep only removes an old one. *)
JobInv ==
  /\ \A s \in Sub : pending[s] # "old"
  /\ \A s \in Sub : pending[s] = "absent" \/ running[s] = "absent"
  /\ rjob \in Sub => running[rjob] = "young" /\ rpc # "idle"
  /\ seg.op = "requeue" => running[seg.sub] = "old"
  /\ seg.op = "queue" => pending[seg.sub] = "absent" /\ running[seg.sub] = "absent"

LEMMA JobUpload ==
  ASSUME Stalls = FALSE, TypeInv, Ctl, OnlyCleanQueued, JobInv, NEW s \in Sub, Upload(s)
  PROVE  JobInv'
<1> USE DEF JobInv, OnlyCleanQueued, Stale, Ctl, TypeInv, Move, SegOps, Age, Outcomes, dbVars, memVars, pollVars, jobVars, runVars, Owe, NoSeg, Free
<1>1. CASE Submit(s)            BY <1>1 DEF Submit, Reserve
<1>2. CASE Refuse(s)            BY <1>2 DEF Refuse
<1>3. CASE Promote(s)           BY <1>3 DEF Promote, Duplicate
<1>4. CASE Insert(s)            BY <1>4 DEF Insert
<1>5. CASE \E v \in Verdicts : Scanned(s, v)
  <2> PICK v \in Verdicts : Scanned(s, v)  BY <1>5
  <2> QED BY DEF Scanned, Apply, ScanOver, Hold, StillHeld
<1>6. CASE RejectAV(s)          BY <1>6 DEF RejectAV
<1>7. CASE QueueJob(s)          BY <1>7 DEF QueueJob
<1> QED BY <1>1, <1>2, <1>3, <1>4, <1>5, <1>6, <1>7 DEF Upload

LEMMA JobPoll ==
  ASSUME Stalls = FALSE, TypeInv, Ctl, OnlyCleanQueued, JobInv, NEW s \in Sub, Poll(s)
  PROVE  JobInv'
<1> USE DEF JobInv, OnlyCleanQueued, Stale, Ctl, TypeInv, Move, SegOps, Age, Outcomes, dbVars, memVars, pollVars, jobVars, runVars, Owe, NoSeg, Free
<1>1. CASE RetrySkip(s)         BY <1>1 DEF RetrySkip
<1>2. CASE RetryScan(s)         BY <1>2 DEF RetryScan
<1>3. CASE \E v \in Verdicts : Rescanned(s, v)
  <2> PICK v \in Verdicts : Rescanned(s, v)  BY <1>3
  <2> QED BY DEF Rescanned, Apply, ScanOver, Hold, StillHeld
<1>4. CASE IngestDrop(s)        BY <1>4 DEF IngestDrop
<1>5. CASE IngestFailed(s)      BY <1>5 DEF IngestFailed
<1>6. CASE IngestValidated(s)   BY <1>6 DEF IngestValidated
<1>7. CASE \E clean \in BOOLEAN : Swept(s, clean)
  <2> PICK clean \in BOOLEAN : Swept(s, clean)  BY <1>7
  <2> QED BY DEF Swept
<1>8. CASE Archive(s)           BY <1>8 DEF Archive
<1>9. CASE RequeueSkip(s)       BY <1>9 DEF RequeueSkip
<1>10. CASE RequeueDrop(s)      BY <1>10 DEF RequeueDrop
<1>11. CASE RequeueMark(s)      BY <1>11 DEF RequeueMark, Unanswered
<1>12. CASE RequeueUnlink(s)    BY <1>12 DEF RequeueUnlink, AfterUnlink
<1>13. CASE GiveUp(s)           BY <1>13 DEF GiveUp, Unanswered
<1>14. CASE Unmark(s)           BY <1>14 DEF Unmark
<1>15. CASE Bury(s)             BY <1>15 DEF Bury
<1> QED BY <1>1, <1>2, <1>3, <1>4, <1>5, <1>6, <1>7, <1>8, <1>9, <1>10, <1>11, <1>12, <1>13, <1>14, <1>15 DEF Poll

LEMMA JobOthers ==
  ASSUME Stalls = FALSE, TypeInv, Ctl, OnlyCleanQueued, JobInv, PollPass \/ Runner \/ Clock \/ Curator \/ GatewayCrash
  PROVE  JobInv'
<1> USE DEF JobInv, OnlyCleanQueued, Stale, Ctl, TypeInv, Move, SegOps, Age, Outcomes, dbVars, memVars, pollVars, jobVars, runVars, Owe, NoSeg, Free, gwVars
<1>1. CASE PollPass
  BY <1>1 DEF PollPass, PollStart, RetryEnd, IngestEnd, RequeueEnd
<1>2. CASE Runner
  <2>1. ASSUME NEW s \in Sub, Claim(s) PROVE JobInv'   BY <2>1 DEF Claim
  <2>2. CASE Unpack       BY <2>2 DEF Unpack
  <2>3. CASE ReadFails    BY <2>3 DEF ReadFails
  <2>4. CASE Retire       BY <2>4 DEF Retire
  <2>5. ASSUME NEW o \in Outcomes, Finish(o) PROVE JobInv'   BY <2>5 DEF Finish
  <2>6. CASE Beat         BY <2>6 DEF Beat
  <2>7. CASE RunnerCrash  BY <2>7 DEF RunnerCrash
  <2> QED BY <1>2, <2>1, <2>2, <2>3, <2>4, <2>5, <2>6, <2>7 DEF Runner, RunnerStep
<1>3. CASE Clock
  BY <1>3 DEF Clock, AgePending, AgeRunning
<1>4. CASE Curator
  BY <1>4 DEF Curator, Decide
<1>5. CASE GatewayCrash
  BY <1>5 DEF GatewayCrash
<1> QED BY <1>1, <1>2, <1>3, <1>4, <1>5

LEMMA JobStep == Stalls = FALSE /\ TypeInv /\ Ctl /\ OnlyCleanQueued /\ JobInv /\ [Next]_vars => JobInv'
<1> SUFFICES ASSUME Stalls = FALSE, TypeInv, Ctl, OnlyCleanQueued, JobInv, [Next]_vars PROVE JobInv'  OBVIOUS
<1>1. CASE UNCHANGED vars  BY <1>1 DEF JobInv, NoSeg, vars
<1>2. CASE Next  BY <1>2, JobUpload, JobPoll, JobOthers DEF Next
<1> QED BY <1>1, <1>2

LEMMA JobInvariant == Stalls = FALSE => (Spec => []JobInv)
<1> SUFFICES ASSUME Stalls = FALSE PROVE Spec => []JobInv  OBVIOUS
<1>1. Init => JobInv  BY DEF Init, JobInv, NoSeg
<1>2. TypeInv /\ Ctl /\ OnlyCleanQueued /\ JobInv /\ [Next]_vars => JobInv'  BY JobStep
<1> QED BY <1>1, <1>2, Control, CleanQueued, PTL DEF Spec

LiveStep == \A s \in Sub : running[s] # "absent" /\ running'[s] = "absent" /\ rjob = s
                             => rpc = "wrote"

LEMMA LiveUpload ==
  ASSUME TypeInv, Ctl, JobInv, NEW s \in Sub, Upload(s)
  PROVE  LiveStep
<1> USE DEF LiveStep, JobInv, Stale, Ctl, TypeInv, Move, SegOps, Age, Outcomes, dbVars, memVars, pollVars, jobVars, runVars, Owe, NoSeg, Free
<1>1. CASE Submit(s)            BY <1>1 DEF Submit, Reserve
<1>2. CASE Refuse(s)            BY <1>2 DEF Refuse
<1>3. CASE Promote(s)           BY <1>3 DEF Promote, Duplicate
<1>4. CASE Insert(s)            BY <1>4 DEF Insert
<1>5. CASE \E v \in Verdicts : Scanned(s, v)
  <2> PICK v \in Verdicts : Scanned(s, v)  BY <1>5
  <2> QED BY DEF Scanned, Apply, ScanOver, Hold, StillHeld
<1>6. CASE RejectAV(s)          BY <1>6 DEF RejectAV
<1>7. CASE QueueJob(s)          BY <1>7 DEF QueueJob
<1> QED BY <1>1, <1>2, <1>3, <1>4, <1>5, <1>6, <1>7 DEF Upload

LEMMA LivePoll ==
  ASSUME TypeInv, Ctl, JobInv, NEW s \in Sub, Poll(s)
  PROVE  LiveStep
<1> USE DEF LiveStep, JobInv, Stale, Ctl, TypeInv, Move, SegOps, Age, Outcomes, dbVars, memVars, pollVars, jobVars, runVars, Owe, NoSeg, Free
<1>1. CASE RetrySkip(s)         BY <1>1 DEF RetrySkip
<1>2. CASE RetryScan(s)         BY <1>2 DEF RetryScan
<1>3. CASE \E v \in Verdicts : Rescanned(s, v)
  <2> PICK v \in Verdicts : Rescanned(s, v)  BY <1>3
  <2> QED BY DEF Rescanned, Apply, ScanOver, Hold, StillHeld
<1>4. CASE IngestDrop(s)        BY <1>4 DEF IngestDrop
<1>5. CASE IngestFailed(s)      BY <1>5 DEF IngestFailed
<1>6. CASE IngestValidated(s)   BY <1>6 DEF IngestValidated
<1>7. CASE \E clean \in BOOLEAN : Swept(s, clean)
  <2> PICK clean \in BOOLEAN : Swept(s, clean)  BY <1>7
  <2> QED BY DEF Swept
<1>8. CASE Archive(s)           BY <1>8 DEF Archive
<1>9. CASE RequeueSkip(s)       BY <1>9 DEF RequeueSkip
<1>10. CASE RequeueDrop(s)      BY <1>10 DEF RequeueDrop
<1>11. CASE RequeueMark(s)      BY <1>11 DEF RequeueMark, Unanswered
<1>12. CASE RequeueUnlink(s)    BY <1>12 DEF RequeueUnlink, AfterUnlink
<1>13. CASE GiveUp(s)           BY <1>13 DEF GiveUp, Unanswered
<1>14. CASE Unmark(s)           BY <1>14 DEF Unmark
<1>15. CASE Bury(s)             BY <1>15 DEF Bury
<1> QED BY <1>1, <1>2, <1>3, <1>4, <1>5, <1>6, <1>7, <1>8, <1>9, <1>10, <1>11, <1>12, <1>13, <1>14, <1>15 DEF Poll

LEMMA LiveOthers ==
  ASSUME TypeInv, Ctl, JobInv, PollPass \/ Runner \/ Clock \/ Curator \/ GatewayCrash
  PROVE  LiveStep
<1> USE DEF LiveStep, JobInv, Stale, Ctl, TypeInv, Move, SegOps, Age, Outcomes, dbVars, memVars, pollVars, jobVars, runVars, Owe, NoSeg, Free, gwVars
<1>1. CASE PollPass
  BY <1>1 DEF PollPass, PollStart, RetryEnd, IngestEnd, RequeueEnd
<1>2. CASE Runner
  <2>1. ASSUME NEW s \in Sub, Claim(s) PROVE LiveStep   BY <2>1 DEF Claim
  <2>2. CASE Unpack       BY <2>2 DEF Unpack
  <2>3. CASE ReadFails    BY <2>3 DEF ReadFails
  <2>4. CASE Retire       BY <2>4 DEF Retire
  <2>5. ASSUME NEW o \in Outcomes, Finish(o) PROVE LiveStep   BY <2>5 DEF Finish
  <2>6. CASE Beat         BY <2>6 DEF Beat
  <2>7. CASE RunnerCrash  BY <2>7 DEF RunnerCrash
  <2> QED BY <1>2, <2>1, <2>2, <2>3, <2>4, <2>5, <2>6, <2>7 DEF Runner, RunnerStep
<1>3. CASE Clock
  BY <1>3 DEF Clock, AgePending, AgeRunning
<1>4. CASE Curator
  BY <1>4 DEF Curator, Decide
<1>5. CASE GatewayCrash
  BY <1>5 DEF GatewayCrash
<1> QED BY <1>1, <1>2, <1>3, <1>4, <1>5

LEMMA LiveEffect == TypeInv /\ Ctl /\ JobInv /\ [Next]_vars => LiveStep
<1> SUFFICES ASSUME TypeInv, Ctl, JobInv, [Next]_vars PROVE LiveStep  OBVIOUS
<1>1. CASE UNCHANGED vars  BY <1>1 DEF LiveStep, vars
<1>2. CASE Next  BY <1>2, LiveUpload, LivePoll, LiveOthers DEF Next
<1> QED BY <1>1, <1>2

(* As long as no job waits, and no poll pass lasts, twice the timeout, the
   dead-job sweep never takes the running-file of a job being worked on. *)
THEOREM LiveJobsKept == Stalls = FALSE => (Spec => LiveJobKept)
<1> SUFFICES ASSUME Stalls = FALSE PROVE Spec => LiveJobKept  OBVIOUS
<1>1. TypeInv /\ Ctl /\ JobInv /\ [Next]_vars => [LiveStep]_vars  BY LiveEffect
<1> QED BY <1>1, Control, JobInvariant, PTL DEF Spec, LiveJobKept, LiveStep

-----------------------------------------------------------------------------
(* A gateway that is not killed between two of its writes loses no job. *)
Kept ==
  /\ JobNotLost
  /\ rpc = "wrote" /\ row[rjob] = "SCANNED" => done[rjob] # "absent"

LEMMA KeptUpload ==
  ASSUME MaxCrashes = 0, TypeInv, Ctl, OnlyCleanQueued, Kept, NEW s \in Sub, Upload(s)
  PROVE  Kept'
<1> USE DEF Kept, JobNotLost, HasJob, OnlyCleanQueued, Unanswered, Ctl, TypeInv, Move, SegOps, Age, Outcomes, dbVars, memVars, pollVars, jobVars, runVars, Owe, NoSeg, Free
<1>1. CASE Submit(s)            BY <1>1 DEF Submit, Reserve
<1>2. CASE Refuse(s)            BY <1>2 DEF Refuse
<1>3. CASE Promote(s)           BY <1>3 DEF Promote, Duplicate
<1>4. CASE Insert(s)            BY <1>4 DEF Insert
<1>5. CASE \E v \in Verdicts : Scanned(s, v)
  <2> PICK v \in Verdicts : Scanned(s, v)  BY <1>5
  <2> QED BY DEF Scanned, Apply, ScanOver, Hold, StillHeld
<1>6. CASE RejectAV(s)          BY <1>6 DEF RejectAV
<1>7. CASE QueueJob(s)          BY <1>7 DEF QueueJob
<1> QED BY <1>1, <1>2, <1>3, <1>4, <1>5, <1>6, <1>7 DEF Upload

LEMMA KeptPoll ==
  ASSUME MaxCrashes = 0, TypeInv, Ctl, OnlyCleanQueued, Kept, NEW s \in Sub, Poll(s)
  PROVE  Kept'
<1> USE DEF Kept, JobNotLost, HasJob, OnlyCleanQueued, Unanswered, Ctl, TypeInv, Move, SegOps, Age, Outcomes, dbVars, memVars, pollVars, jobVars, runVars, Owe, NoSeg, Free
<1>1. CASE RetrySkip(s)         BY <1>1 DEF RetrySkip
<1>2. CASE RetryScan(s)         BY <1>2 DEF RetryScan
<1>3. CASE \E v \in Verdicts : Rescanned(s, v)
  <2> PICK v \in Verdicts : Rescanned(s, v)  BY <1>3
  <2> QED BY DEF Rescanned, Apply, ScanOver, Hold, StillHeld
<1>4. CASE IngestDrop(s)        BY <1>4 DEF IngestDrop
<1>5. CASE IngestFailed(s)      BY <1>5 DEF IngestFailed
<1>6. CASE IngestValidated(s)   BY <1>6 DEF IngestValidated
<1>7. CASE \E clean \in BOOLEAN : Swept(s, clean)
  <2> PICK clean \in BOOLEAN : Swept(s, clean)  BY <1>7
  <2> QED BY DEF Swept
<1>8. CASE Archive(s)           BY <1>8 DEF Archive
<1>9. CASE RequeueSkip(s)       BY <1>9 DEF RequeueSkip
<1>10. CASE RequeueDrop(s)      BY <1>10 DEF RequeueDrop
<1>11. CASE RequeueMark(s)      BY <1>11 DEF RequeueMark, Unanswered
<1>12. CASE RequeueUnlink(s)    BY <1>12 DEF RequeueUnlink, AfterUnlink
<1>13. CASE GiveUp(s)           BY <1>13 DEF GiveUp, Unanswered
<1>14. CASE Unmark(s)           BY <1>14 DEF Unmark
<1>15. CASE Bury(s)             BY <1>15 DEF Bury
<1> QED BY <1>1, <1>2, <1>3, <1>4, <1>5, <1>6, <1>7, <1>8, <1>9, <1>10, <1>11, <1>12, <1>13, <1>14, <1>15 DEF Poll

LEMMA KeptOthers ==
  ASSUME MaxCrashes = 0, TypeInv, Ctl, OnlyCleanQueued, Kept, PollPass \/ Runner \/ Clock \/ Curator \/ GatewayCrash
  PROVE  Kept'
<1> USE DEF Kept, JobNotLost, HasJob, OnlyCleanQueued, Unanswered, Ctl, TypeInv, Move, SegOps, Age, Outcomes, dbVars, memVars, pollVars, jobVars, runVars, Owe, NoSeg, Free, gwVars
<1>1. CASE PollPass
  BY <1>1 DEF PollPass, PollStart, RetryEnd, IngestEnd, RequeueEnd
<1>2. CASE Runner
  <2>1. ASSUME NEW s \in Sub, Claim(s) PROVE Kept'   BY <2>1 DEF Claim
  <2>2. CASE Unpack       BY <2>2 DEF Unpack
  <2>3. CASE ReadFails    BY <2>3 DEF ReadFails
  <2>4. CASE Retire       BY <2>4 DEF Retire
  <2>5. ASSUME NEW o \in Outcomes, Finish(o) PROVE Kept'   BY <2>5 DEF Finish
  <2>6. CASE Beat         BY <2>6 DEF Beat
  <2>7. CASE RunnerCrash  BY <2>7 DEF RunnerCrash
  <2> QED BY <1>2, <2>1, <2>2, <2>3, <2>4, <2>5, <2>6, <2>7 DEF Runner, RunnerStep
<1>3. CASE Clock
  BY <1>3 DEF Clock, AgePending, AgeRunning
<1>4. CASE Curator
  BY <1>4 DEF Curator, Decide
<1>5. CASE GatewayCrash
  BY <1>5 DEF GatewayCrash
<1> QED BY <1>1, <1>2, <1>3, <1>4, <1>5

LEMMA KeptStep == MaxCrashes = 0 /\ TypeInv /\ Ctl /\ OnlyCleanQueued /\ Kept /\ [Next]_vars => Kept'
<1> SUFFICES ASSUME MaxCrashes = 0, TypeInv, Ctl, OnlyCleanQueued, Kept, [Next]_vars PROVE Kept'  OBVIOUS
<1>1. CASE UNCHANGED vars  BY <1>1 DEF Kept, JobNotLost, HasJob, NoSeg, vars
<1>2. CASE Next  BY <1>2, KeptUpload, KeptPoll, KeptOthers DEF Next
<1> QED BY <1>1, <1>2

(* Through claim, finish, death, requeue and ingest, a row at SCANNED always has
   a job file somewhere that will move it on. *)
THEOREM JobsNotLost == MaxCrashes = 0 => (Spec => []JobNotLost)
<1> SUFFICES ASSUME MaxCrashes = 0 PROVE Spec => []JobNotLost  OBVIOUS
<1>1. Init => Kept  BY DEF Init, Kept, JobNotLost, NoSeg
<1>2. TypeInv /\ Ctl /\ OnlyCleanQueued /\ Kept /\ [Next]_vars => Kept'  BY KeptStep
<1>3. Kept => JobNotLost  BY DEF Kept
<1> QED BY <1>1, <1>2, <1>3, Control, CleanQueued, PTL DEF Spec

-----------------------------------------------------------------------------
(* What is reviewed is whole. *)
Whole ==
  /\ ReviewedIsWhole
  /\ \A s \in Sub : done[s] # "absent" /\ row[s] = "SCANNED" =>
       /\ done[s] = "validated" => pkg[s] = "whole"
       /\ rjob = s => rpc = "wrote"
       /\ pending[s] = "absent" 
       /\ seg.op \in {"queue", "requeue"} => seg.sub # s
       /\ running[s] = "old" =>
            /\ phase # "requeue"
            /\ phase \in {"ingest", "sweep"} => s \in todo \cup {cur}
  /\ phase = "sweep" => done[cur] = "validated"
  /\ phase \notin {"sweep", "rescan"} => cur = NoSub

LEMMA WholeUpload ==
  ASSUME Stalls = FALSE, TypeInv, Ctl, OnlyCleanQueued, JobInv, Whole, NEW s \in Sub, Upload(s)
  PROVE  Whole'
<1> USE DEF Whole, ReviewedIsWhole, JobInv, OnlyCleanQueued, Stale, Ctl, TypeInv, Move, SegOps, Age, Outcomes, dbVars, memVars, pollVars, jobVars, runVars, Owe, NoSeg, Free
<1>1. CASE Submit(s)            BY <1>1 DEF Submit, Reserve
<1>2. CASE Refuse(s)            BY <1>2 DEF Refuse
<1>3. CASE Promote(s)           BY <1>3 DEF Promote, Duplicate
<1>4. CASE Insert(s)            BY <1>4 DEF Insert
<1>5. CASE \E v \in Verdicts : Scanned(s, v)
  <2> PICK v \in Verdicts : Scanned(s, v)  BY <1>5
  <2> QED BY DEF Scanned, Apply, ScanOver, Hold, StillHeld
<1>6. CASE RejectAV(s)          BY <1>6 DEF RejectAV
<1>7. CASE QueueJob(s)          BY <1>7 DEF QueueJob
<1> QED BY <1>1, <1>2, <1>3, <1>4, <1>5, <1>6, <1>7 DEF Upload

LEMMA WholePoll ==
  ASSUME Stalls = FALSE, TypeInv, Ctl, OnlyCleanQueued, JobInv, Whole, NEW s \in Sub, Poll(s)
  PROVE  Whole'
<1> USE DEF Whole, ReviewedIsWhole, JobInv, OnlyCleanQueued, Stale, Ctl, TypeInv, Move, SegOps, Age, Outcomes, dbVars, memVars, pollVars, jobVars, runVars, Owe, NoSeg, Free
<1>1. CASE RetrySkip(s)         BY <1>1 DEF RetrySkip
<1>2. CASE RetryScan(s)         BY <1>2 DEF RetryScan
<1>3. CASE \E v \in Verdicts : Rescanned(s, v)
  <2> PICK v \in Verdicts : Rescanned(s, v)  BY <1>3
  <2> QED BY DEF Rescanned, Apply, ScanOver, Hold, StillHeld
<1>4. CASE IngestDrop(s)        BY <1>4 DEF IngestDrop
<1>5. CASE IngestFailed(s)      BY <1>5 DEF IngestFailed
<1>6. CASE IngestValidated(s)   BY <1>6 DEF IngestValidated
<1>7. CASE \E clean \in BOOLEAN : Swept(s, clean)
  <2> PICK clean \in BOOLEAN : Swept(s, clean)  BY <1>7
  <2> QED BY DEF Swept
<1>8. CASE Archive(s)           BY <1>8 DEF Archive
<1>9. CASE RequeueSkip(s)       BY <1>9 DEF RequeueSkip
<1>10. CASE RequeueDrop(s)      BY <1>10 DEF RequeueDrop
<1>11. CASE RequeueMark(s)      BY <1>11 DEF RequeueMark, Unanswered
<1>12. CASE RequeueUnlink(s)    BY <1>12 DEF RequeueUnlink, AfterUnlink
<1>13. CASE GiveUp(s)           BY <1>13 DEF GiveUp, Unanswered
<1>14. CASE Unmark(s)           BY <1>14 DEF Unmark
<1>15. CASE Bury(s)             BY <1>15 DEF Bury
<1> QED BY <1>1, <1>2, <1>3, <1>4, <1>5, <1>6, <1>7, <1>8, <1>9, <1>10, <1>11, <1>12, <1>13, <1>14, <1>15 DEF Poll

LEMMA WholeOthers ==
  ASSUME Stalls = FALSE, TypeInv, Ctl, OnlyCleanQueued, JobInv, Whole, PollPass \/ Runner \/ Clock \/ Curator \/ GatewayCrash
  PROVE  Whole'
<1> USE DEF Whole, ReviewedIsWhole, JobInv, OnlyCleanQueued, Stale, Ctl, TypeInv, Move, SegOps, Age, Outcomes, dbVars, memVars, pollVars, jobVars, runVars, Owe, NoSeg, Free, gwVars
<1>1. CASE PollPass
  BY <1>1 DEF PollPass, PollStart, RetryEnd, IngestEnd, RequeueEnd
<1>2. CASE Runner
  <2>1. ASSUME NEW s \in Sub, Claim(s) PROVE Whole'   BY <2>1 DEF Claim
  <2>2. CASE Unpack       BY <2>2 DEF Unpack
  <2>3. CASE ReadFails    BY <2>3 DEF ReadFails
  <2>4. CASE Retire       BY <2>4 DEF Retire
  <2>5. ASSUME NEW o \in Outcomes, Finish(o) PROVE Whole'   BY <2>5 DEF Finish
  <2>6. CASE Beat         BY <2>6 DEF Beat
  <2>7. CASE RunnerCrash  BY <2>7 DEF RunnerCrash
  <2> QED BY <1>2, <2>1, <2>2, <2>3, <2>4, <2>5, <2>6, <2>7 DEF Runner, RunnerStep
<1>3. CASE Clock
  BY <1>3 DEF Clock, AgePending, AgeRunning
<1>4. CASE Curator
  BY <1>4 DEF Curator, Decide
<1>5. CASE GatewayCrash
  BY <1>5 DEF GatewayCrash
<1> QED BY <1>1, <1>2, <1>3, <1>4, <1>5

LEMMA WholeStep == Stalls = FALSE /\ TypeInv /\ Ctl /\ OnlyCleanQueued /\ JobInv /\ Whole /\ [Next]_vars => Whole'
<1> SUFFICES ASSUME Stalls = FALSE, TypeInv, Ctl, OnlyCleanQueued, JobInv, Whole, [Next]_vars PROVE Whole'  OBVIOUS
<1>1. CASE UNCHANGED vars  BY <1>1 DEF Whole, ReviewedIsWhole, NoSeg, vars
<1>2. CASE Next  BY <1>2, WholeUpload, WholePoll, WholeOthers DEF Next
<1> QED BY <1>1, <1>2

(* What the curator is shown at VALIDATED is a finished tree that no runner is
   still writing to: no job of it is left, and none can be started. *)
THEOREM ReviewedWhole == Stalls = FALSE => (Spec => []ReviewedIsWhole)
<1> SUFFICES ASSUME Stalls = FALSE PROVE Spec => []ReviewedIsWhole  OBVIOUS
<1>1. Init => Whole  BY DEF Init, Whole, ReviewedIsWhole, NoSeg
<1>2. TypeInv /\ Ctl /\ OnlyCleanQueued /\ JobInv /\ Whole /\ [Next]_vars => Whole'
  BY WholeStep
<1>3. Whole => ReviewedIsWhole  BY DEF Whole
<1> QED BY <1>1, <1>2, <1>3, Control, CleanQueued, JobInvariant, PTL DEF Spec

-----------------------------------------------------------------------------
(* The zip a held row needs, and the two deaths of a job given up. *)
Zips == /\ HeldHasZip
        /\ seg.op = "insert" => seg.sub \in zip

LEMMA ZipUpload ==
  ASSUME MaxCrashes = 0, TypeInv, Ctl, Zips, NEW s \in Sub, Upload(s)
  PROVE  Zips'
<1> USE DEF Zips, HeldHasZip, Ctl, TypeInv, Move, SegOps, Age, Outcomes, dbVars, memVars, pollVars, jobVars, runVars, Owe, NoSeg, Free
<1>1. CASE Submit(s)            BY <1>1 DEF Submit, Reserve
<1>2. CASE Refuse(s)            BY <1>2 DEF Refuse
<1>3. CASE Promote(s)           BY <1>3 DEF Promote, Duplicate
<1>4. CASE Insert(s)            BY <1>4 DEF Insert
<1>5. CASE \E v \in Verdicts : Scanned(s, v)
  <2> PICK v \in Verdicts : Scanned(s, v)  BY <1>5
  <2> QED BY DEF Scanned, Apply, ScanOver, Hold, StillHeld
<1>6. CASE RejectAV(s)          BY <1>6 DEF RejectAV
<1>7. CASE QueueJob(s)          BY <1>7 DEF QueueJob
<1> QED BY <1>1, <1>2, <1>3, <1>4, <1>5, <1>6, <1>7 DEF Upload

LEMMA ZipPoll ==
  ASSUME MaxCrashes = 0, TypeInv, Ctl, Zips, NEW s \in Sub, Poll(s)
  PROVE  Zips'
<1> USE DEF Zips, HeldHasZip, Ctl, TypeInv, Move, SegOps, Age, Outcomes, dbVars, memVars, pollVars, jobVars, runVars, Owe, NoSeg, Free
<1>1. CASE RetrySkip(s)         BY <1>1 DEF RetrySkip
<1>2. CASE RetryScan(s)         BY <1>2 DEF RetryScan
<1>3. CASE \E v \in Verdicts : Rescanned(s, v)
  <2> PICK v \in Verdicts : Rescanned(s, v)  BY <1>3
  <2> QED BY DEF Rescanned, Apply, ScanOver, Hold, StillHeld
<1>4. CASE IngestDrop(s)        BY <1>4 DEF IngestDrop
<1>5. CASE IngestFailed(s)      BY <1>5 DEF IngestFailed
<1>6. CASE IngestValidated(s)   BY <1>6 DEF IngestValidated
<1>7. CASE \E clean \in BOOLEAN : Swept(s, clean)
  <2> PICK clean \in BOOLEAN : Swept(s, clean)  BY <1>7
  <2> QED BY DEF Swept
<1>8. CASE Archive(s)           BY <1>8 DEF Archive
<1>9. CASE RequeueSkip(s)       BY <1>9 DEF RequeueSkip
<1>10. CASE RequeueDrop(s)      BY <1>10 DEF RequeueDrop
<1>11. CASE RequeueMark(s)      BY <1>11 DEF RequeueMark, Unanswered
<1>12. CASE RequeueUnlink(s)    BY <1>12 DEF RequeueUnlink, AfterUnlink
<1>13. CASE GiveUp(s)           BY <1>13 DEF GiveUp, Unanswered
<1>14. CASE Unmark(s)           BY <1>14 DEF Unmark
<1>15. CASE Bury(s)             BY <1>15 DEF Bury
<1> QED BY <1>1, <1>2, <1>3, <1>4, <1>5, <1>6, <1>7, <1>8, <1>9, <1>10, <1>11, <1>12, <1>13, <1>14, <1>15 DEF Poll

LEMMA ZipOthers ==
  ASSUME MaxCrashes = 0, TypeInv, Ctl, Zips, PollPass \/ Runner \/ Clock \/ Curator \/ GatewayCrash
  PROVE  Zips'
<1> USE DEF Zips, HeldHasZip, Ctl, TypeInv, Move, SegOps, Age, Outcomes, dbVars, memVars, pollVars, jobVars, runVars, Owe, NoSeg, Free, gwVars
<1>1. CASE PollPass
  BY <1>1 DEF PollPass, PollStart, RetryEnd, IngestEnd, RequeueEnd
<1>2. CASE Runner
  <2>1. ASSUME NEW s \in Sub, Claim(s) PROVE Zips'   BY <2>1 DEF Claim
  <2>2. CASE Unpack       BY <2>2 DEF Unpack
  <2>3. CASE ReadFails    BY <2>3 DEF ReadFails
  <2>4. CASE Retire       BY <2>4 DEF Retire
  <2>5. ASSUME NEW o \in Outcomes, Finish(o) PROVE Zips'   BY <2>5 DEF Finish
  <2>6. CASE Beat         BY <2>6 DEF Beat
  <2>7. CASE RunnerCrash  BY <2>7 DEF RunnerCrash
  <2> QED BY <1>2, <2>1, <2>2, <2>3, <2>4, <2>5, <2>6, <2>7 DEF Runner, RunnerStep
<1>3. CASE Clock
  BY <1>3 DEF Clock, AgePending, AgeRunning
<1>4. CASE Curator
  BY <1>4 DEF Curator, Decide
<1>5. CASE GatewayCrash
  BY <1>5 DEF GatewayCrash
<1> QED BY <1>1, <1>2, <1>3, <1>4, <1>5

LEMMA ZipStep == MaxCrashes = 0 /\ TypeInv /\ Ctl /\ Zips /\ [Next]_vars => Zips'
<1> SUFFICES ASSUME MaxCrashes = 0, TypeInv, Ctl, Zips, [Next]_vars PROVE Zips'  OBVIOUS
<1>1. CASE UNCHANGED vars  BY <1>1 DEF Zips, HeldHasZip, NoSeg, vars
<1>2. CASE Next  BY <1>2, ZipUpload, ZipPoll, ZipOthers DEF Next
<1> QED BY <1>1, <1>2

(* A row held at RECEIVED still has its zip, so the retry pass can scan it. *)
THEOREM HeldHaveZip == MaxCrashes = 0 => (Spec => []HeldHasZip)
<1> SUFFICES ASSUME MaxCrashes = 0 PROVE Spec => []HeldHasZip  OBVIOUS
<1>1. Init => Zips  BY DEF Init, Zips, HeldHasZip, NoSeg
<1>2. TypeInv /\ Ctl /\ Zips /\ [Next]_vars => Zips'  BY ZipStep
<1>3. Zips => HeldHasZip  BY DEF Zips
<1> QED BY <1>1, <1>2, <1>3, Control, PTL DEF Spec

(* A running-file without a runner is one death; with the marker it is two. *)
Deaths ==
  /\ \A s \in Sub :
       /\ s \in marked => deaths[s] >= 1
       /\ running[s] # "absent" /\ rjob # s => deaths[s] >= 1
       /\ running[s] # "absent" /\ rjob # s /\ s \in marked
            /\ ~(seg.op = "requeue" /\ seg.sub = s)
            => deaths[s] >= 2
  /\ seg.op \in {"unmark", "bury"} => deaths[seg.sub] >= 2

LEMMA DeathUpload ==
  ASSUME Stalls = FALSE, MaxCrashes = 0, TypeInv, JobInv, Deaths, NEW s \in Sub, Upload(s)
  PROVE  Deaths'
<1> USE DEF Deaths, JobInv, Stale, SecondDeath, Ctl, TypeInv, Move, SegOps, Age, Outcomes, dbVars, memVars, pollVars, jobVars, runVars, Owe, NoSeg, Free
<1>1. CASE Submit(s)            BY <1>1 DEF Submit, Reserve
<1>2. CASE Refuse(s)            BY <1>2 DEF Refuse
<1>3. CASE Promote(s)           BY <1>3 DEF Promote, Duplicate
<1>4. CASE Insert(s)            BY <1>4 DEF Insert
<1>5. CASE \E v \in Verdicts : Scanned(s, v)
  <2> PICK v \in Verdicts : Scanned(s, v)  BY <1>5
  <2> QED BY DEF Scanned, Apply, ScanOver, Hold, StillHeld
<1>6. CASE RejectAV(s)          BY <1>6 DEF RejectAV
<1>7. CASE QueueJob(s)          BY <1>7 DEF QueueJob
<1> QED BY <1>1, <1>2, <1>3, <1>4, <1>5, <1>6, <1>7 DEF Upload

LEMMA DeathPoll ==
  ASSUME Stalls = FALSE, MaxCrashes = 0, TypeInv, JobInv, Deaths, NEW s \in Sub, Poll(s)
  PROVE  Deaths'
<1> USE DEF Deaths, JobInv, Stale, SecondDeath, Ctl, TypeInv, Move, SegOps, Age, Outcomes, dbVars, memVars, pollVars, jobVars, runVars, Owe, NoSeg, Free
<1>1. CASE RetrySkip(s)         BY <1>1 DEF RetrySkip
<1>2. CASE RetryScan(s)         BY <1>2 DEF RetryScan
<1>3. CASE \E v \in Verdicts : Rescanned(s, v)
  <2> PICK v \in Verdicts : Rescanned(s, v)  BY <1>3
  <2> QED BY DEF Rescanned, Apply, ScanOver, Hold, StillHeld
<1>4. CASE IngestDrop(s)        BY <1>4 DEF IngestDrop
<1>5. CASE IngestFailed(s)      BY <1>5 DEF IngestFailed
<1>6. CASE IngestValidated(s)   BY <1>6 DEF IngestValidated
<1>7. CASE \E clean \in BOOLEAN : Swept(s, clean)
  <2> PICK clean \in BOOLEAN : Swept(s, clean)  BY <1>7
  <2> QED BY DEF Swept
<1>8. CASE Archive(s)           BY <1>8 DEF Archive
<1>9. CASE RequeueSkip(s)       BY <1>9 DEF RequeueSkip
<1>10. CASE RequeueDrop(s)      BY <1>10 DEF RequeueDrop
<1>11. CASE RequeueMark(s)      BY <1>11 DEF RequeueMark, Unanswered
<1>12. CASE RequeueUnlink(s)    BY <1>12 DEF RequeueUnlink, AfterUnlink
<1>13. CASE GiveUp(s)           BY <1>13 DEF GiveUp, Unanswered
<1>14. CASE Unmark(s)           BY <1>14 DEF Unmark
<1>15. CASE Bury(s)             BY <1>15 DEF Bury
<1> QED BY <1>1, <1>2, <1>3, <1>4, <1>5, <1>6, <1>7, <1>8, <1>9, <1>10, <1>11, <1>12, <1>13, <1>14, <1>15 DEF Poll

LEMMA DeathOthers ==
  ASSUME Stalls = FALSE, MaxCrashes = 0, TypeInv, JobInv, Deaths, PollPass \/ Runner \/ Clock \/ Curator \/ GatewayCrash
  PROVE  Deaths'
<1> USE DEF Deaths, JobInv, Stale, SecondDeath, Ctl, TypeInv, Move, SegOps, Age, Outcomes, dbVars, memVars, pollVars, jobVars, runVars, Owe, NoSeg, Free, gwVars
<1>1. CASE PollPass
  BY <1>1 DEF PollPass, PollStart, RetryEnd, IngestEnd, RequeueEnd
<1>2. CASE Runner
  <2>1. ASSUME NEW s \in Sub, Claim(s) PROVE Deaths'   BY <2>1 DEF Claim
  <2>2. CASE Unpack       BY <2>2 DEF Unpack
  <2>3. CASE ReadFails    BY <2>3 DEF ReadFails
  <2>4. CASE Retire       BY <2>4 DEF Retire
  <2>5. ASSUME NEW o \in Outcomes, Finish(o) PROVE Deaths'   BY <2>5 DEF Finish
  <2>6. CASE Beat         BY <2>6 DEF Beat
  <2>7. CASE RunnerCrash  BY <2>7 DEF RunnerCrash
  <2> QED BY <1>2, <2>1, <2>2, <2>3, <2>4, <2>5, <2>6, <2>7 DEF Runner, RunnerStep
<1>3. CASE Clock
  BY <1>3 DEF Clock, AgePending, AgeRunning
<1>4. CASE Curator
  BY <1>4 DEF Curator, Decide
<1>5. CASE GatewayCrash
  BY <1>5 DEF GatewayCrash
<1> QED BY <1>1, <1>2, <1>3, <1>4, <1>5

LEMMA DeathStep == Stalls = FALSE /\ MaxCrashes = 0 /\ TypeInv /\ JobInv /\ Deaths /\ [Next]_vars => Deaths'
<1> SUFFICES ASSUME Stalls = FALSE, MaxCrashes = 0, TypeInv, JobInv, Deaths, [Next]_vars PROVE Deaths'  OBVIOUS
<1>1. CASE UNCHANGED vars  BY <1>1 DEF Deaths, JobInv, NoSeg, vars
<1>2. CASE Next  BY <1>2, DeathUpload, DeathPoll, DeathOthers DEF Next
<1> QED BY <1>1, <1>2

(* A row is given up as "job died twice" only after two deaths of its runner. *)
THEOREM DiedTwiceMeansTwice ==
  Stalls = FALSE /\ MaxCrashes = 0 => (Spec => []DiedTwice)
<1> SUFFICES ASSUME Stalls = FALSE, MaxCrashes = 0 PROVE Spec => []DiedTwice  OBVIOUS
<1>1. Init => Deaths  BY DEF Init, Deaths, NoSeg, Owe
<1>2. TypeInv /\ JobInv /\ Deaths /\ [Next]_vars => Deaths'  BY DeathStep
<1>3. Deaths => DiedTwice  BY DEF Deaths, DiedTwice, Owe
<1> QED BY <1>1, <1>2, <1>3, Control, JobInvariant, PTL DEF Spec

=============================================================================
