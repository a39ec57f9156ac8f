------------------------------- MODULE Publish -------------------------------
(***************************************************************************)
(* Publishing an approved submission: the curator actions and the publish   *)
(* task of gateway/app.py, and the git sequence of gateway/publish.py on    *)
(* the surveys-live checkout with its rollback.                             *)
(*                                                                         *)
(* A publish runs in a thread under PUBLISH_LOCK; the event loop, the poll  *)
(* loop, the reconcile agent's pull (a process of the host) and pushes of   *)
(* other people to origin interleave with it, so every git command is a     *)
(* step of its own.  A ref is the sequence of commits it leads to; a commit *)
(* is the submission its message names, the attempt it was made in (no two  *)
(* commits have one hash) and the packages that are in it.                  *)
(***************************************************************************)
EXTENDS Naturals, Sequences, FiniteSets

CONSTANTS Sub,            \* submission ids
          NoSub,          \* no submission
          Slug,           \* survey slugs
          RollbackFails,  \* may a command of _rollback fail or time out?
          MaxAttempts,    \* bound on approvals and retries per submission
          MaxRemote,      \* bound on commits that others push to origin
          MaxCrashes      \* bound on gateway crashes

ASSUME PublishAssumption == /\ NoSub \notin Sub
                            /\ RollbackFails \in BOOLEAN
                            /\ MaxAttempts \in Nat
                            /\ MaxRemote \in Nat
                            /\ MaxCrashes \in Nat

VARIABLES
  row,         \* [Sub -> state of the row]                            (SQLite)
  slug,        \* [Sub -> slug of the row, set when it was validated]   (SQLite)
  confirm,     \* [Sub -> did the curator confirm "updates existing survey"?]
  queued,      \* the publish tasks that wait for PUBLISH_LOCK         (memory)
  publishing,  \* Gateway._publishing                                  (memory)
  holder,      \* the submission whose task holds PUBLISH_LOCK         (memory)
  step,        \* the command that task is about to run                (memory)
  pre,         \* PreState.ref of that task                            (memory)
  head,        \* the branch checked out: "main" or "submit"
  main,        \* the local branch main
  tip,         \* the local branch submit/<slug>-<id>
  work,        \* the packages that differ between working tree and HEAD
  origin,      \* main at the remote
  attempts,    \* [Sub -> number of approvals and retries]              (bound)
  remote,      \* number of commits others pushed                       (bound)
  crashes      \* number of gateway crashes                             (bound)

memVars == <<queued, publishing, holder>>
gitVars == <<head, main, tip, work>>
bounds  == <<attempts, remote, crashes>>
vars == <<row, slug, confirm, queued, publishing, holder, step, pre, head, main, tip,
          work, origin, attempts, remote, crashes>>

L == INSTANCE Lifecycle

-----------------------------------------------------------------------------
(* Git. *)

Package(s, whole, added) == [sub |-> s, whole |-> whole, added |-> added]
Commit(s, n, files) == [by |-> s, try |-> n, files |-> files]
Other == Commit(NoSub, 0, {})          \* a commit that is not the gateway's

Prefix(r, q) == Len(r) <= Len(q) /\ SubSeq(q, 1, Len(r)) = r

Touches(c, sl) == \E p \in c.files : slug[p.sub] = sl
Present(ref, sl) == \E i \in 1..Len(ref) : Touches(ref[i], sl)

\* is the tree of s what the ref last recorded under its slug?
Current(ref, s) ==
  \E i \in 1..Len(ref) : /\ \E p \in ref[i].files : p.sub = s /\ p.whole
                         /\ \A j \in (i + 1)..Len(ref) : ~Touches(ref[j], slug[s])

HeadRef == IF head = "main" THEN main ELSE tip

(* checkout -f and reset --hard drop what differs from HEAD, but for a new
   directory that was never added *)
Untracked == {p \in work : ~p.added /\ ~Present(HeadRef, slug[p.sub])}

-----------------------------------------------------------------------------
Root == <<Other>>

Init == /\ row = [s \in Sub |-> "VALIDATED"]
        /\ slug \in [Sub -> Slug]
        /\ confirm = [s \in Sub |-> FALSE]
        /\ queued = {} /\ publishing = {}
        /\ holder = NoSub /\ step = "idle" /\ pre = Root
        /\ head = "main" /\ main = Root /\ tip = Root /\ work = {}
        /\ origin = Root
        /\ attempts = [s \in Sub |-> 0] /\ remote = 0 /\ crashes = 0

Move(s, to) == row' = [row EXCEPT ![s] = to]

(* _begin_publish, for approve and for retry: the state is checked and moved, and
   the task created, with no await between *)
BeginPublish(s, from, overwrite) ==
  /\ row[s] = from
  /\ attempts[s] < MaxAttempts
  /\ attempts' = [attempts EXCEPT ![s] = @ + 1]
  /\ Move(s, "PUBLISHING")
  /\ confirm' = [confirm EXCEPT ![s] = overwrite]
  /\ publishing' = publishing \cup {s}
  /\ queued' = queued \cup {s}
  /\ UNCHANGED <<slug, holder, step, pre, gitVars, origin, remote, crashes>>

Approve(s, overwrite) == BeginPublish(s, "VALIDATED", overwrite)
Retry(s, overwrite) == BeginPublish(s, "PUBLISH_FAILED", overwrite)

(* handle_curator_action return | reject *)
Decide(s, to) ==
  /\ row[s] = "VALIDATED"
  /\ Move(s, to)
  /\ UNCHANGED <<slug, confirm, memVars, step, pre, gitVars, origin, bounds>>

(* _run_publish enters PUBLISH_LOCK *)
Acquire(s) ==
  /\ holder = NoSub /\ s \in queued
  /\ holder' = s /\ queued' = queued \ {s} /\ step' = "preflight"
  /\ UNCHANGED <<row, slug, confirm, publishing, pre, gitVars, origin, bounds>>

\* the branch is looked at, the state of the working tree is not: OriginExact
FaultyCleanOnMain == head = "main"
CleanOnMain == head = "main" /\ work = {}

(* preflight: clean, on main; the ref is captured *)
Preflight ==
  /\ step = "preflight"
  /\ CleanOnMain
  /\ pre' = main
  /\ step' = "stage"
  /\ UNCHANGED <<row, slug, confirm, memVars, gitVars, origin, bounds>>

(* validate_slug or a command of preflight fails, or the checkout is not clean
   and on main: nothing was touched, nothing is rolled back *)
PreflightFails ==
  /\ step = "preflight"
  /\ step' = "failed"
  /\ UNCHANGED <<row, slug, confirm, memVars, pre, gitVars, origin, bounds>>

\* an existing survey is replaced whether or not the curator said so: ReplacedOnlyConfirmed
FaultyCollides(s) == FALSE
Collides(s) == Present(HeadRef, slug[s]) /\ ~confirm[s]

(* stage_package: a survey that exists is only replaced if confirmed; the copy
   starts ... *)
Stage ==
  /\ step = "stage"
  /\ ~Collides(holder)
  /\ work' = work \cup {Package(holder, FALSE, FALSE)}
  /\ step' = "copy"
  /\ UNCHANGED <<row, slug, confirm, memVars, pre, head, main, tip, origin, bounds>>

(* ... and is complete: no difference if HEAD already holds this very package *)
Copied ==
  /\ step = "copy"
  /\ LET rest == work \ {Package(holder, FALSE, FALSE)}
     IN  work' = IF Current(HeadRef, holder) THEN rest
                 ELSE rest \cup {Package(holder, TRUE, FALSE)}
  /\ step' = "branch"
  /\ UNCHANGED <<row, slug, confirm, memVars, pre, head, main, tip, origin, bounds>>

(* git checkout -B submit/<slug>-<id> *)
Branch ==
  /\ step = "branch"
  /\ tip' = HeadRef /\ head' = "submit"
  /\ step' = "add"
  /\ UNCHANGED <<row, slug, confirm, memVars, pre, main, work, origin, bounds>>

(* git add surveys *)
Add ==
  /\ step = "add"
  /\ work' = {[p EXCEPT !.added = TRUE] : p \in work}
  /\ step' = "commit"
  /\ UNCHANGED <<row, slug, confirm, memVars, pre, head, main, tip, origin, bounds>>

(* git commit: fails when there is nothing to commit *)
CommitWork ==
  /\ step = "commit"
  /\ work # {}
  /\ tip' = Append(tip, Commit(holder, attempts[holder], work))
  /\ work' = {}
  /\ step' = "main"
  /\ UNCHANGED <<row, slug, confirm, memVars, pre, head, main, origin, bounds>>

(* git checkout main *)
CheckoutMain ==
  /\ step = "main"
  /\ head' = "main"
  /\ step' = "merge"
  /\ UNCHANGED <<row, slug, confirm, memVars, pre, main, tip, work, origin, bounds>>

(* git merge --ff-only *)
Merge ==
  /\ step = "merge"
  /\ Prefix(main, tip)
  /\ main' = tip
  /\ step' = "push"
  /\ UNCHANGED <<row, slug, confirm, memVars, pre, head, tip, work, origin, bounds>>

(* git push origin main: accepted, though the answer may not come back *)
Push ==
  /\ step = "push"
  /\ Prefix(origin, main)
  /\ origin' = main
  /\ step' \in {"pushed", "undo1"}
  /\ UNCHANGED <<row, slug, confirm, memVars, pre, gitVars, bounds>>

\* the result of the push is not looked at: AtOrigin
FaultyRejected == "pushed"
Rejected == "undo1"

PushRejected ==
  /\ step = "push"
  /\ step' = Rejected
  /\ UNCHANGED <<row, slug, confirm, memVars, pre, gitVars, origin, bounds>>

(* any other command of stage_and_commit refuses, fails or raises *)
Fails ==
  /\ step \in {"stage", "copy", "branch", "add", "commit", "main", "merge"}
  /\ step' = "undo1"
  /\ UNCHANGED <<row, slug, confirm, memVars, pre, gitVars, origin, bounds>>

-----------------------------------------------------------------------------
(* _rollback: checkout -f main, reset --hard to the captured ref, clean -fd. *)

UndoCheckout ==
  /\ step = "undo1"
  /\ head' = "main"
  /\ work' = Untracked
  /\ step' = "undo2"
  /\ UNCHANGED <<row, slug, confirm, memVars, pre, main, tip, origin, bounds>>

\* reset --hard without the ref: OnTrack, PushesOwn
FaultyResetTo == HeadRef
ResetTo == pre

UndoReset ==
  /\ step = "undo2"
  /\ IF head = "main" THEN main' = ResetTo /\ UNCHANGED tip
                      ELSE tip' = ResetTo /\ UNCHANGED main
  /\ work' = Untracked
  /\ step' = "undo3"
  /\ UNCHANGED <<row, slug, confirm, memVars, pre, head, origin, bounds>>

\* untracked directories are left behind: NotWedged
FaultyCleaned == work
Cleaned == {}

UndoClean ==
  /\ step = "undo3"
  /\ work' = Cleaned
  /\ step' = "failed"
  /\ UNCHANGED <<row, slug, confirm, memVars, pre, head, main, tip, origin, bounds>>

(* a command of the rollback fails and the next one runs; or it times out, and
   the exception ends the rollback *)
UndoFails ==
  /\ RollbackFails
  /\ \/ step = "undo1" /\ step' \in {"undo2", "failed"}
     \/ step = "undo2" /\ step' \in {"undo3", "failed"}
     \/ step = "undo3" /\ step' = "failed"
  /\ UNCHANGED <<row, slug, confirm, memVars, pre, gitVars, origin, bounds>>

-----------------------------------------------------------------------------
Done(s) == publishing' = publishing \ {s}

(* the end of _run_publish: the last transition, and the finally clauses *)
Finish(from, to) ==
  /\ step = from
  /\ Move(holder, to)
  /\ Done(holder)
  /\ holder' = NoSub /\ step' = "idle"
  /\ UNCHANGED <<slug, confirm, queued, pre, gitVars, origin, bounds>>

Published == Finish("pushed", "PUBLISHED")
Failed == Finish("failed", "PUBLISH_FAILED")

\* a publish that is under way is taken for an interrupted one: RowsMove
FaultyInterrupted(s) == row[s] = "PUBLISHING"
\* an interrupted publish is never noticed: EventuallyDecided
FaultyUnnoticed(s) == FALSE
Interrupted(s) == row[s] = "PUBLISHING" /\ s \notin publishing

(* _reconcile_publishing, in the poll loop *)
Reconcile(s) ==
  /\ Interrupted(s)
  /\ Move(s, "PUBLISH_FAILED")
  /\ UNCHANGED <<slug, confirm, memVars, step, pre, gitVars, origin, bounds>>

(* the gateway dies and is restarted: the lock, the tasks and _publishing go *)
GatewayCrash ==
  /\ crashes < MaxCrashes
  /\ crashes' = crashes + 1
  /\ queued' = {} /\ publishing' = {} /\ holder' = NoSub /\ step' = "idle"
  /\ UNCHANGED <<row, slug, confirm, pre, gitVars, origin, attempts, remote>>

-----------------------------------------------------------------------------
(* Others at work on the repository. *)

(* somebody else pushes to origin *)
RemoteCommit ==
  /\ remote < MaxRemote
  /\ remote' = remote + 1
  /\ origin' = Append(origin, Other)
  /\ UNCHANGED <<row, slug, confirm, memVars, step, pre, gitVars, attempts, crashes>>

(* git pull --ff-only of the reconcile agent, on the same checkout: it refuses
   on a branch without upstream, on diverged branches, and over local changes *)
Pull ==
  /\ head = "main"
  /\ main # origin /\ Prefix(main, origin)
  /\ \A i \in (Len(main) + 1)..Len(origin), p \in work : ~Touches(origin[i], slug[p.sub])
  /\ main' = origin
  /\ UNCHANGED <<row, slug, confirm, memVars, step, pre, head, tip, work, origin, bounds>>

(* an operator clears a checkout the pre-flight refuses *)
Repair ==
  /\ holder = NoSub /\ ~CleanOnMain
  /\ head' = "main" /\ work' = {}
  /\ UNCHANGED <<row, slug, confirm, memVars, step, pre, main, tip, origin, bounds>>

-----------------------------------------------------------------------------
Curator == \E s \in Sub : \/ \E overwrite \in BOOLEAN :
                                Approve(s, overwrite) \/ Retry(s, overwrite)
                          \/ \E to \in {"RETURNED", "REJECTED"} : Decide(s, to)

Command == \/ Preflight \/ PreflightFails
           \/ Stage \/ Copied \/ Branch \/ Add \/ CommitWork \/ CheckoutMain \/ Merge
           \/ Push \/ PushRejected \/ Fails
           \/ UndoCheckout \/ UndoReset \/ UndoClean \/ UndoFails

Task == Command \/ Published \/ Failed

Gateway == Task \/ \E s \in Sub : Acquire(s) \/ Reconcile(s)

Others == RemoteCommit \/ Pull \/ Repair

Next == Curator \/ Gateway \/ GatewayCrash \/ Others

Spec == Init /\ [][Next]_vars

(* Fairness: a git command ends (its timeout is 300 s), asyncio.Lock is handed on
   in the order of arrival, and the poll loop keeps polling.  No curator, no
   operator and nobody else is obliged to act. *)
FairSpec == /\ Spec
            /\ WF_vars(Task)
            /\ \A s \in Sub : SF_vars(Acquire(s)) /\ WF_vars(Reconcile(s))

-----------------------------------------------------------------------------
Steps == {"idle", "preflight", "stage", "copy", "branch", "add", "commit", "main",
          "merge", "push", "pushed", "undo1", "undo2", "undo3", "failed"}
Packages == [sub : Sub, whole : BOOLEAN, added : BOOLEAN]
Commits == [by : Sub \cup {NoSub}, try : Nat, files : SUBSET Packages]

(* Types, and the bookkeeping of the lock: _publishing names exactly the tasks
   that wait for the lock or hold it. *)
TypeOK ==
  /\ row \in [Sub -> L!RowState]
  /\ slug \in [Sub -> Slug]
  /\ confirm \in [Sub -> BOOLEAN]
  /\ queued \subseteq Sub
  /\ holder \in Sub \cup {NoSub}
  /\ publishing = queued \cup ({holder} \ {NoSub})
  /\ step \in Steps
  /\ holder = NoSub <=> step = "idle"
  /\ head \in {"main", "submit"}
  /\ pre \in Seq(Commits) /\ main \in Seq(Commits) /\ tip \in Seq(Commits)
  /\ origin \in Seq(Commits)
  /\ work \subseteq Packages
  /\ attempts \in [Sub -> Nat] /\ remote \in Nat /\ crashes \in Nat

In(ref, s) == \E i \in 1..Len(ref) : ref[i].by = s

(* PUBLISHED means committed to main and pushed (publish.py 4-5). *)
AtOrigin == \A s \in Sub : row[s] = "PUBLISHED" => In(origin, s)

(* Every pushed commit is exactly the whole package of the submission it names:
   nothing half-copied, nothing a neighbour left in the checkout. *)
OriginExact ==
  \A i \in 1..Len(origin) :
     origin[i].by # NoSub => origin[i].files = {Package(origin[i].by, TRUE, TRUE)}

(* When no publish runs, the next pre-flight does not refuse (publish.py 17-20). *)
NotWedged == holder = NoSub => CleanOnMain

(* When no publish runs, main has nothing origin lacks, so the pull of the
   reconcile agent fast-forwards and no later push carries a failed publish. *)
OnTrack == holder = NoSub => Prefix(main, origin)

(* A submission reaches origin only by its own publish (publish.py 16: "no
   partial publish; a PUBLISH_FAILED submission leaves surveys-live ... the
   pre-state"). *)
PushesOwn ==
  [][\A s \in Sub : ~In(origin, s) /\ In(origin', s) => holder = s]_vars

(* A survey at origin is replaced by another submission only if the curator of
   that submission confirmed it, whatever is pulled or pushed between the check
   and the push (publish.py 171-174). *)
ReplacedOnlyConfirmed ==
  [][\A s, t \in Sub : /\ s # t /\ slug[s] = slug[t]
                       /\ Current(origin, t) /\ Current(origin, s)'
                       => confirm[s]]_vars

(* The rows move as states.py allows: no task and no poll pass asks for a move
   that another has overtaken. *)
RowsMove == [][L!Next]_row

(* A publish ends: the row does not stay at PUBLISHING, whatever fails and
   however often the gateway dies (app.py 2667-2671). *)
EventuallyDecided == \A s \in Sub : row[s] = "PUBLISHING" ~> row[s] # "PUBLISHING"
=============================================================================
