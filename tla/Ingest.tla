------------------------------- MODULE Ingest -------------------------------
(***************************************************************************)
(* The intake pipeline of a submission: the upload handler, the antivirus  *)
(* scan, the poll loop of the gateway (gateway/app.py), the job files      *)
(* (gateway/jobs.py) and the job runner (gateway/runner/runner.py), a      *)
(* process of its own.                                                     *)
(*                                                                         *)
(* The gateway is ONE asyncio event loop.  Its coroutines interleave only  *)
(* at an await, so an action of the gateway is the code between two        *)
(* awaits, guarded by Free.  Where such a stretch leaves several durable   *)
(* effects behind (a row, then a file) it is cut after the first one:      *)
(* `seg` names the effect still owed, no other coroutine runs until it is  *)
(* done, but the runner, the clock and a crash of the gateway can come in  *)
(* between.                                                                *)
(*                                                                         *)
(* A definition whose name begins with Faulty is not part of the model: it *)
(* is the next definition with a plausible bug, and shows that the         *)
(* property named beside it notices that bug.                              *)
(***************************************************************************)
EXTENDS Naturals, FiniteSets

CONSTANTS Sub,          \* submission ids (db.new_id)
          NoSub,        \* no submission
          Content,      \* the distinct byte contents of uploaded zips
          MaxInflight,  \* AUSMT_MAX_INFLIGHT
          Stalls,       \* may a job wait, or a poll pass last, 2 x timeout?
          MaxDeaths,    \* bound on runner crashes per job
          MaxCrashes    \* bound on gateway crashes

ASSUME IngestAssumption == /\ IsFiniteSet(Sub)
                           /\ NoSub \notin Sub
                           /\ MaxInflight \in Nat \ {0}
                           /\ Stalls \in BOOLEAN
                           /\ MaxDeaths \in Nat
                           /\ MaxCrashes \in Nat

VARIABLES
  row,        \* [Sub -> state of the row, "none" without one]       (SQLite)
  content,    \* [Sub -> content of incoming/<id>.zip; also zip_sha256 of its row]
  zip,        \* the ids whose incoming/<id>.zip exists
  req,        \* [Sub -> where the upload handler of this id is]     (memory)
  reserved,   \* Gateway._reserved                                   (memory)
  scanning,   \* Gateway._scanning                                   (memory)
  seg,        \* the durable effect the running stretch still owes   (memory)
  phase,      \* where the poll loop is                              (memory)
  todo,       \* what the phase of the poll pass has still to visit  (memory)
  cur,        \* the submission it awaits a scan for                 (memory)
  pending,    \* [Sub -> age of jobs/pending/<id>.json]
  running,    \* [Sub -> age of jobs/running/<id>.json]
  marked,     \* the ids whose jobs/running/<id>.requeued exists
  done,       \* [Sub -> outcome in jobs/done/<id>.json]
  pkg,        \* [Sub -> the tree quarantine/<id>/package]
  rpc,        \* where the runner is
  rjob,       \* the job it has claimed
  deaths,     \* [Sub -> how often a runner died on this job]        (history)
  crashes     \* how often the gateway crashed                       (bound)

dbVars  == <<row, content>>
memVars == <<req, reserved, scanning, seg>>
pollVars == <<phase, todo, cur>>
jobVars == <<pending, running, marked, done>>
runVars == <<pkg, rpc, rjob, deaths>>
vars == <<row, content, zip, req, reserved, scanning, seg, phase, todo, cur,
          pending, running, marked, done, pkg, rpc, rjob, deaths, crashes>>

L == INSTANCE Lifecycle

NoSeg == [op |-> "none", sub |-> NoSub]
Owe(op, s) == [op |-> op, sub |-> s]
Free == seg = NoSeg                    \* no coroutine is between two awaits

(* Database.count_inflight: rows not in a terminal state *)
Inflight == {s \in Sub : row[s] \notin L!Terminal \cup {"none"}}

Init == /\ row = [s \in Sub |-> "none"]
        /\ content \in [Sub -> Content]
        /\ zip = {}
        /\ req = [s \in Sub |-> "idle"]
        /\ reserved = 0
        /\ scanning = {}
        /\ seg = NoSeg
        /\ phase = "sleep"
        /\ todo = {}
        /\ cur = NoSub
        /\ pending = [s \in Sub |-> "absent"]
        /\ running = [s \in Sub |-> "absent"]
        /\ marked = {}
        /\ done = [s \in Sub |-> "absent"]
        /\ pkg = [s \in Sub |-> "absent"]
        /\ rpc = "idle"
        /\ rjob = NoSub
        /\ deaths = [s \in Sub |-> 0]
        /\ crashes \in 0..MaxCrashes

Move(s, to) == row' = [row EXCEPT ![s] = to]

-----------------------------------------------------------------------------
(* The upload handler.  `content` is chosen in Init: what the client of this
   id will send. *)

\* the durable count alone, blind to uploads between check and insert: CapacityRespected
FaultyHasRoom == Cardinality(Inflight) < MaxInflight
HasRoom == Cardinality(Inflight) + reserved < MaxInflight

Reserve == reserved' = reserved + 1

(* handle_submit: the cap is checked and a slot reserved with no await between *)
Submit(s) ==
  /\ Free
  /\ req[s] = "idle" /\ row[s] = "none" /\ s \notin zip
  /\ HasRoom
  /\ Reserve
  /\ req' = [req EXCEPT ![s] = "body"]
  /\ UNCHANGED <<dbVars, zip, scanning, seg, pollVars, jobVars, runVars, crashes>>

(* any early return of _handle_submit_reserved: the reservation is released *)
Refuse(s) ==
  /\ Free
  /\ req[s] = "body"
  /\ reserved' = reserved - 1
  /\ req' = [req EXCEPT ![s] = "idle"]
  /\ UNCHANGED <<dbVars, zip, scanning, seg, pollVars, jobVars, runVars, crashes>>

\* only work in progress counts as a duplicate: UniqueContent
FaultyDuplicate(s) == \E t \in Inflight : content[t] = content[s]
(* find_duplicate_by_sha: any row, finished or not, with these bytes *)
Duplicate(s) == \E t \in Sub : row[t] # "none" /\ content[t] = content[s]

(* after the last await of the body: duplicate check, then the rename ... *)
Promote(s) ==
  /\ Free
  /\ req[s] = "body"
  /\ ~Duplicate(s)
  /\ zip' = zip \cup {s}
  /\ seg' = Owe("insert", s)
  /\ UNCHANGED <<dbVars, req, reserved, scanning, pollVars, jobVars, runVars, crashes>>

(* ... then insert_submission, then _scan_and_advance up to its first await *)
Insert(s) ==
  /\ seg = Owe("insert", s)
  /\ Move(s, "RECEIVED")
  /\ scanning' = scanning \cup {s}
  /\ req' = [req EXCEPT ![s] = "scan"]
  /\ seg' = NoSeg
  /\ UNCHANGED <<content, zip, reserved, pollVars, jobVars, runVars, crashes>>

\* the row is not read again after the scan: OnlyCleanQueued, LegalMoves
FaultyStillHeld(s) == TRUE
StillHeld(s) == row[s] = "RECEIVED"

\* an unanswered scan stays registered as running: EventuallyAnswered
FaultyScanOver(s, verdict) ==
  scanning' = IF verdict = "error" THEN scanning ELSE scanning \ {s}
ScanOver(s, verdict) == scanning' = scanning \ {s}

\* the zip of an unanswered scan is cleaned up: HeldHasZip
FaultyHold(s) == zip' = zip \ {s} /\ UNCHANGED <<row, seg>>
Hold(s) == UNCHANGED <<row, zip, seg>>

(* _scan_and_advance after its awaits: a verdict is applied only to a row
   still at RECEIVED; a ScanError holds the row where it is *)
Apply(s, verdict) ==
  /\ ScanOver(s, verdict)
  /\ \/ /\ verdict = "error" \/ ~StillHeld(s)
        /\ Hold(s)
     \/ /\ verdict = "clean" /\ StillHeld(s)
        /\ Move(s, "SCANNED")
        /\ seg' = Owe("queue", s)
        /\ UNCHANGED zip
     \/ /\ verdict = "hit" /\ StillHeld(s)
        /\ zip' = zip \ {s}
        /\ seg' = Owe("reject", s)
        /\ UNCHANGED row

(* the inline scan answers, and the handler returns 201 and its reservation *)
Scanned(s, verdict) ==
  /\ Free
  /\ req[s] = "scan"
  /\ Apply(s, verdict)
  /\ req' = [req EXCEPT ![s] = "idle"]
  /\ reserved' = reserved - 1
  /\ UNCHANGED <<content, pollVars, jobVars, runVars, crashes>>

(* jobs.write_pending, after the transition or the unlink that precedes it *)
QueueJob(s) ==
  /\ seg = Owe("queue", s)
  /\ pending' = [pending EXCEPT ![s] = "young"]
  /\ seg' = NoSeg
  /\ UNCHANGED <<dbVars, zip, req, reserved, scanning, pollVars, running, marked,
                 done, runVars, crashes>>

RejectAV(s) ==
  /\ seg = Owe("reject", s)
  /\ Move(s, "REJECTED_AV")
  /\ seg' = NoSeg
  /\ UNCHANGED <<content, zip, req, reserved, scanning, pollVars, jobVars, runVars,
                 crashes>>

-----------------------------------------------------------------------------
(* The poll loop: poll_once, again and again. *)

(* _retry_held reads the rows at RECEIVED once, as the pass begins *)
PollStart ==
  /\ Free /\ phase = "sleep"
  /\ phase' = "retry"
  /\ todo' = {s \in Sub : row[s] = "RECEIVED"}
  /\ UNCHANGED <<dbVars, zip, memVars, cur, jobVars, runVars, crashes>>

RetrySkip(s) ==
  /\ Free /\ phase = "retry" /\ s \in todo
  /\ s \in scanning \/ s \notin zip
  /\ todo' = todo \ {s}
  /\ UNCHANGED <<dbVars, zip, memVars, phase, cur, jobVars, runVars, crashes>>

RetryScan(s) ==
  /\ Free /\ phase = "retry" /\ s \in todo
  /\ s \notin scanning /\ s \in zip
  /\ scanning' = scanning \cup {s}
  /\ todo' = todo \ {s}
  /\ phase' = "rescan" /\ cur' = s
  /\ UNCHANGED <<dbVars, zip, req, reserved, seg, jobVars, runVars, crashes>>

Rescanned(s, verdict) ==
  /\ Free /\ phase = "rescan" /\ cur = s
  /\ Apply(s, verdict)
  /\ phase' = "retry" /\ cur' = NoSub
  /\ UNCHANGED <<content, req, reserved, todo, jobVars, runVars, crashes>>

(* _ingest_done lists jobs/done once *)
RetryEnd ==
  /\ Free /\ phase = "retry" /\ todo = {}
  /\ phase' = "ingest"
  /\ todo' = {s \in Sub : done[s] # "absent"}
  /\ UNCHANGED <<dbVars, zip, memVars, cur, jobVars, runVars, crashes>>

(* a done-file whose row is not at SCANNED is dropped *)
IngestDrop(s) ==
  /\ Free /\ phase = "ingest" /\ s \in todo
  /\ row[s] # "SCANNED"
  /\ done' = [done EXCEPT ![s] = "absent"]
  /\ todo' = todo \ {s}
  /\ UNCHANGED <<dbVars, zip, memVars, phase, cur, pending, running, marked, runVars,
                 crashes>>

IngestFailed(s) ==
  /\ Free /\ phase = "ingest" /\ s \in todo
  /\ row[s] = "SCANNED" /\ done[s] = "quarantined"
  /\ Move(s, "QUARANTINED")
  /\ seg' = Owe("archive", s)
  /\ todo' = todo \ {s}
  /\ UNCHANGED <<content, zip, req, reserved, scanning, phase, cur, jobVars, runVars,
                 crashes>>

(* _apply_done on a validated job awaits _post_unpack_sweep ... *)
IngestValidated(s) ==
  /\ Free /\ phase = "ingest" /\ s \in todo
  /\ row[s] = "SCANNED" /\ done[s] = "validated"
  /\ todo' = todo \ {s}
  /\ phase' = "sweep" /\ cur' = s
  /\ UNCHANGED <<dbVars, zip, memVars, jobVars, runVars, crashes>>

(* ... which answers clean, or names a hit or a file it could not scan *)
Swept(s, clean) ==
  /\ Free /\ phase = "sweep" /\ cur = s
  /\ Move(s, IF clean THEN "VALIDATED" ELSE "QUARANTINED")
  /\ seg' = Owe("archive", s)
  /\ phase' = "ingest" /\ cur' = NoSub
  /\ UNCHANGED <<content, zip, req, reserved, scanning, todo, jobVars, runVars, crashes>>

(* _archive_done, with no await since the transition *)
Archive(s) ==
  /\ seg = Owe("archive", s)
  /\ done' = [done EXCEPT ![s] = "absent"]
  /\ seg' = NoSeg
  /\ UNCHANGED <<dbVars, zip, req, reserved, scanning, pollVars, pending, running,
                 marked, runVars, crashes>>

(* _requeue_dead lists jobs/running once *)
IngestEnd ==
  /\ Free /\ phase = "ingest" /\ todo = {}
  /\ phase' = "requeue"
  /\ todo' = {s \in Sub : running[s] # "absent"}
  /\ UNCHANGED <<dbVars, zip, memVars, cur, jobVars, runVars, crashes>>

\* every running-file is taken for dead: LiveJobKept
FaultyStale(s) == running[s] # "absent"
Stale(s) == running[s] = "old"

\* the job of a row already answered is run again: ReviewedIsWhole
FaultyUnanswered(s) == TRUE
Unanswered(s) == row[s] = "SCANNED"

\* the first death already counts as the second: DiedTwice
FaultySecondDeath(s) == TRUE
SecondDeath(s) == s \in marked

(* a file gone since (stat raises) or touched within 2 x timeout is left alone *)
RequeueSkip(s) ==
  /\ Free /\ phase = "requeue" /\ s \in todo
  /\ ~Stale(s)
  /\ todo' = todo \ {s}
  /\ UNCHANGED <<dbVars, zip, memVars, phase, cur, jobVars, runVars, crashes>>

RequeueDrop(s) ==
  /\ Free /\ phase = "requeue" /\ s \in todo
  /\ Stale(s) /\ ~Unanswered(s)
  /\ running' = [running EXCEPT ![s] = "absent"]
  /\ todo' = todo \ {s}
  /\ UNCHANGED <<dbVars, zip, memVars, phase, cur, pending, marked, done, runVars,
                 crashes>>

(* the first time: marker, unlink of the running-file, write_pending *)
RequeueMark(s) ==
  /\ Free /\ phase = "requeue" /\ s \in todo
  /\ Stale(s) /\ Unanswered(s) /\ ~SecondDeath(s)
  /\ marked' = marked \cup {s}
  /\ todo' = todo \ {s}
  /\ seg' = Owe("requeue", s)
  /\ UNCHANGED <<dbVars, zip, req, reserved, scanning, phase, cur, pending, running,
                 done, runVars, crashes>>

\* the running-file goes, but no pending-file replaces it: JobNotLost
FaultyAfterUnlink(s) == NoSeg
AfterUnlink(s) == Owe("queue", s)

RequeueUnlink(s) ==
  /\ seg = Owe("requeue", s)
  /\ running' = [running EXCEPT ![s] = "absent"]
  /\ seg' = AfterUnlink(s)
  /\ UNCHANGED <<dbVars, zip, req, reserved, scanning, pollVars, pending, marked, done,
                 runVars, crashes>>

(* the second time: unlink, unlink of the marker, QUARANTINED "job died twice" *)
GiveUp(s) ==
  /\ Free /\ phase = "requeue" /\ s \in todo
  /\ Stale(s) /\ Unanswered(s) /\ SecondDeath(s)
  /\ running' = [running EXCEPT ![s] = "absent"]
  /\ todo' = todo \ {s}
  /\ seg' = Owe("unmark", s)
  /\ UNCHANGED <<dbVars, zip, req, reserved, scanning, phase, cur, pending, marked, done,
                 runVars, crashes>>

Unmark(s) ==
  /\ seg = Owe("unmark", s)
  /\ marked' = marked \ {s}
  /\ seg' = Owe("bury", s)
  /\ UNCHANGED <<dbVars, zip, req, reserved, scanning, pollVars, pending, running, done,
                 runVars, crashes>>

Bury(s) ==
  /\ seg = Owe("bury", s)
  /\ Move(s, "QUARANTINED")
  /\ seg' = NoSeg
  /\ UNCHANGED <<content, zip, req, reserved, scanning, pollVars, jobVars, runVars,
                 crashes>>

RequeueEnd ==
  /\ Free /\ phase = "requeue" /\ todo = {}
  /\ phase' = "sleep"
  /\ UNCHANGED <<dbVars, zip, memVars, todo, cur, jobVars, runVars, crashes>>

(* handle_curator_action return | reject, by way of _simple_transition *)
Decide(s, to) ==
  /\ Free
  /\ row[s] = "VALIDATED"
  /\ Move(s, to)
  /\ UNCHANGED <<content, zip, memVars, pollVars, jobVars, runVars, crashes>>

-----------------------------------------------------------------------------
(* The runner: one thread, one job at a time. *)

gwVars == <<dbVars, zip, memVars, pollVars, crashes>>

(* claim_one: the rename keeps the mtime of the pending-file *)
Claim(s) ==
  /\ rpc = "idle" /\ pending[s] # "absent"
  /\ running' = [running EXCEPT ![s] = pending[s]]
  /\ pending' = [pending EXCEPT ![s] = "absent"]
  /\ rpc' = "claimed" /\ rjob' = s
  /\ UNCHANGED <<gwVars, marked, done, pkg, deaths>>

(* process_job reads the running-file, starts the heartbeat and begins to unpack
   over whatever tree is there *)
Unpack ==
  /\ rpc = "claimed" /\ running[rjob] # "absent"
  /\ rpc' = "work"
  /\ pkg' = [pkg EXCEPT ![rjob] = "partial"]
  /\ UNCHANGED <<gwVars, jobVars, rjob, deaths>>

(* the running-file is gone before it is read: the runner dies on the read *)
ReadFails ==
  /\ rpc = "claimed" /\ running[rjob] = "absent"
  /\ rpc' = "idle" /\ rjob' = NoSub
  /\ UNCHANGED <<gwVars, jobVars, pkg, deaths>>

(* _Heartbeat._run touches the running-file, if it is still there *)
Beat ==
  /\ rpc = "work" /\ running[rjob] = "old"
  /\ running' = [running EXCEPT ![rjob] = "young"]
  /\ UNCHANGED <<gwVars, pending, marked, done, runVars>>

(* _do_work returns and the done-file is written ... *)
Finish(outcome) ==
  /\ rpc = "work"
  /\ outcome = "validated" => rjob \in zip
  /\ done' = [done EXCEPT ![rjob] = outcome]
  /\ pkg' = [pkg EXCEPT ![rjob] = IF outcome = "validated" THEN "whole" ELSE @]
  /\ rpc' = "wrote"
  /\ UNCHANGED <<gwVars, pending, running, marked, rjob, deaths>>

(* ... and then the running-file is unlinked *)
Retire ==
  /\ rpc = "wrote"
  /\ running' = [running EXCEPT ![rjob] = "absent"]
  /\ rpc' = "idle" /\ rjob' = NoSub
  /\ UNCHANGED <<gwVars, pending, marked, done, pkg, deaths>>

(* the process dies (OOM kill, reboot, an unhandled error) and is restarted *)
RunnerCrash ==
  /\ rpc # "idle" /\ deaths[rjob] < MaxDeaths
  /\ deaths' = [deaths EXCEPT ![rjob] = @ + 1]
  /\ rpc' = "idle" /\ rjob' = NoSub
  /\ UNCHANGED <<gwVars, jobVars, pkg>>

-----------------------------------------------------------------------------
(* Time: a file is "old" once its mtime lies 2 x AUSMT_JOB_TIMEOUT_S back, or
   will before the first heartbeat could touch it.  A job lasts at most one
   timeout, so a running-file only ages when no runner works on it. *)

AgePending(s) ==
  /\ Stalls
  /\ pending[s] = "young"
  /\ pending' = [pending EXCEPT ![s] = "old"]
  /\ UNCHANGED <<gwVars, running, marked, done, runVars>>

AgeRunning(s) ==
  /\ running[s] = "young" /\ s # rjob
  /\ Stalls \/ phase = "sleep"
  /\ running' = [running EXCEPT ![s] = "old"]
  /\ UNCHANGED <<gwVars, pending, marked, done, runVars>>

(* the gateway process dies and is restarted: what it held in memory is lost *)
GatewayCrash ==
  /\ crashes < MaxCrashes
  /\ crashes' = crashes + 1
  /\ req' = [s \in Sub |-> "idle"]
  /\ reserved' = 0
  /\ scanning' = {}
  /\ seg' = NoSeg
  /\ phase' = "sleep" /\ todo' = {} /\ cur' = NoSub
  /\ UNCHANGED <<dbVars, zip, jobVars, runVars>>

-----------------------------------------------------------------------------
Verdicts == {"clean", "hit", "error"}
Outcomes == {"validated", "quarantined"}

Upload(s) == \/ Submit(s) \/ Refuse(s) \/ Promote(s) \/ Insert(s)
             \/ \E v \in Verdicts : Scanned(s, v)
             \/ RejectAV(s) \/ QueueJob(s)

Poll(s) == \/ RetrySkip(s) \/ RetryScan(s)
           \/ \E v \in Verdicts : Rescanned(s, v)
           \/ IngestDrop(s) \/ IngestFailed(s) \/ IngestValidated(s)
           \/ \E clean \in BOOLEAN : Swept(s, clean)
           \/ Archive(s)
           \/ RequeueSkip(s) \/ RequeueDrop(s) \/ RequeueMark(s) \/ RequeueUnlink(s)
           \/ GiveUp(s) \/ Unmark(s) \/ Bury(s)

PollPass == PollStart \/ RetryEnd \/ IngestEnd \/ RequeueEnd

RunnerStep == \/ \E s \in Sub : Claim(s)
              \/ Unpack \/ ReadFails \/ Retire
              \/ \E o \in Outcomes : Finish(o)

Runner == RunnerStep \/ Beat \/ RunnerCrash

Clock == \E s \in Sub : AgePending(s) \/ AgeRunning(s)

Curator == \E s \in Sub, to \in {"RETURNED", "REJECTED"} : Decide(s, to)

Next == \/ \E s \in Sub : Upload(s) \/ Poll(s)
        \/ PollPass \/ Runner \/ Clock \/ Curator \/ GatewayCrash

Spec == Init /\ [][Next]_vars

(* Fairness.  The service manager keeps both processes running, so the poll
   loop and the runner each take a step they can take; the stretch of code that
   is running is finished; the loop's ready queue is served in turn, so an
   inline scan that has answered is resumed although the poll loop keeps coming
   in between; time passes; and a scanner that is asked again and again some
   day gives a verdict.  Nobody is obliged to upload, to decide, or to crash. *)
Owed(s) == \/ Insert(s) \/ QueueJob(s) \/ RejectAV(s) \/ Archive(s)
           \/ RequeueUnlink(s) \/ Unmark(s) \/ Bury(s)

Fairness == /\ WF_vars(\E s \in Sub : Owed(s))
            /\ WF_vars(PollPass \/ \E s \in Sub : Poll(s))
            /\ WF_vars(RunnerStep)
            /\ \A s \in Sub :
                  /\ SF_vars(\E v \in Verdicts : Scanned(s, v))
                  /\ SF_vars(\E v \in {"clean", "hit"} : Rescanned(s, v))
                  /\ SF_vars(AgeRunning(s))

FairSpec == Spec /\ Fairness

-----------------------------------------------------------------------------
Age == {"absent", "young", "old"}
SegOps == {"insert", "queue", "reject", "archive", "requeue", "unmark", "bury"}

(* Every variable has the type its declaration says. *)
TypeOK ==
  /\ row \in [Sub -> L!RowState \cup {"none"}]
  /\ content \in [Sub -> Content]
  /\ zip \subseteq Sub
  /\ req \in [Sub -> {"idle", "body", "scan"}]
  /\ reserved \in Nat
  /\ scanning \subseteq Sub
  /\ seg \in {NoSeg} \cup [op : SegOps, sub : Sub]
  /\ phase \in {"sleep", "retry", "rescan", "ingest", "sweep", "requeue"}
  /\ todo \subseteq Sub
  /\ cur \in Sub \cup {NoSub}
  /\ pending \in [Sub -> Age]
  /\ running \in [Sub -> Age]
  /\ marked \subseteq Sub
  /\ done \in [Sub -> Outcomes \cup {"absent"}]
  /\ pkg \in [Sub -> {"absent", "partial", "whole"}]
  /\ rpc \in {"idle", "claimed", "work", "wrote"}
  /\ rjob \in Sub \cup {NoSub}
  /\ deaths \in [Sub -> Nat]
  /\ crashes \in Nat

(* The in-flight cap holds however many uploads are between their cap check
   and their insert (app.py 175-191: the reservation closes that window). *)
CapacityRespected == Cardinality(Inflight) <= MaxInflight

(* No two rows ever carry the same bytes, whatever became of the first
   (db.find_duplicate_by_sha, and the check-then-insert of app.py 281-296). *)
UniqueContent ==
  \A s, t \in Sub : row[s] # "none" /\ row[t] # "none" /\ content[s] = content[t]
                      => s = t

(* The runner is only ever handed bytes the scanner called clean: no job file
   exists for a row that is still held, was refused, or does not exist. *)
OnlyCleanQueued ==
  \A s \in Sub : \/ pending[s] # "absent" \/ running[s] # "absent"
                  \/ done[s] # "absent" \/ rjob = s
                  => row[s] \notin {"none", "RECEIVED", "REJECTED_AV"}

HasJob(s) == pending[s] # "absent" \/ running[s] # "absent" \/ done[s] # "absent"

(* A row at SCANNED always has a job file somewhere that will move it on: no
   order of claim, requeue, finish and ingest loses the job. *)
JobNotLost == \A s \in Sub : row[s] = "SCANNED" /\ seg.sub # s => HasJob(s)

(* A row held at RECEIVED still has the zip the retry pass needs. *)
HeldHasZip == \A s \in Sub : row[s] = "RECEIVED" /\ seg.sub # s => s \in zip

(* What a curator is shown at VALIDATED is a finished tree no runner is still
   writing to. *)
ReviewedIsWhole ==
  \A s \in Sub : row[s] = "VALIDATED"
                  => pkg[s] = "whole" /\ (rjob = s => rpc = "wrote")
                     /\ pending[s] = "absent"

(* A row is given up as "job died twice" only after two deaths of its runner
   (_requeue_dead, app.py 451-455). *)
DiedTwice == \A s \in Sub : seg = Owe("bury", s) => deaths[s] >= 2

(* The dead-job sweep takes away the running-file of a job only when no runner
   is working on it (process_job's heartbeat, runner.py 159-161). *)
LiveJobKept ==
  [][\A s \in Sub : running[s] # "absent" /\ running'[s] = "absent" /\ rjob = s
                     => rpc = "wrote"]_vars

(* Every state the pipeline asks db.transition for is one the table allows
   from where the row is: IllegalTransition is never raised by the poll loop
   or a scan, and no second verdict is applied (states.py 44-63). *)
LegalMoves == L!Spec

(* An accepted upload does not stay in the machine's hands: it is rejected,
   quarantined, or put before a curator, whatever dies, ages or is run twice
   (app.py 391-492).  The one way out is a gateway that died between two durable
   writes of this very row: the zip is gone and the row still held, or the row at
   SCANNED and no job queued. *)
Stranded(s) ==
  /\ crashes > 0 /\ seg.sub # s
  /\ (row[s] = "RECEIVED" /\ s \notin zip) \/ (row[s] = "SCANNED" /\ ~HasJob(s))
Answered(s) == row[s] \notin {"RECEIVED", "SCANNED"}
EventuallyAnswered == \A s \in Sub : ~Answered(s) ~> Answered(s) \/ Stranded(s)
=============================================================================
