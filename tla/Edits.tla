------------------------------- MODULE Edits --------------------------------
(***************************************************************************)
(* Changes to published surveys: metadata edits, station removals,          *)
(* collection batches and retirements (gateway/app.py), the file queue on   *)
(* which the gateway asks the runner to compute and validate the new bytes  *)
(* (gateway/metaedit.py, gateway/runner/edit.py), and the commit under      *)
(* PUBLISH_LOCK (gateway/publish.py).                                       *)
(*                                                                         *)
(* A request handler is a process of its own (its blocking parts run in a   *)
(* thread); the runner, the reconcile agent's pull and other people's       *)
(* pushes interleave with it.  The runner reads the same working tree the   *)
(* commit writes.  The bytes of a survey.yaml are the changes it records:   *)
(* the same patch on the same bytes gives the same bytes, which is all the  *)
(* hash comparison relies on.  The commands of _rollback, one by one and    *)
(* failing, are in Publish.                                                 *)
(***************************************************************************)
EXTENDS Naturals, Sequences, FiniteSets

CONSTANTS Change,       \* the changes curators have in mind
          Slug,         \* surveys
          Station,      \* EDI files of a survey
          Outside,      \* a change made by somebody else, through git
          Gone,         \* the content of a survey that was retired
          Handler,      \* requests that may be in progress at one time
          None,         \* nobody, nothing
          Wanted,       \* what the curators may want: a set of functions from changes to orders
          MaxAsked,     \* bound on requests
          MaxFaults     \* bound on commits of others, lost answers and crashes together

ASSUME EditsAssumption == /\ Outside \notin Change
                          /\ None \notin Handler \cup Change \cup Slug
                          /\ Gone \notin [notes : Seq(Change \cup {Outside}), edis : SUBSET Station]
                          /\ IsFiniteSet(Slug) /\ Slug # {} /\ Station # {}
                          /\ MaxAsked \in Nat /\ MaxFaults \in Nat

VARIABLES
  order,     \* [Change -> what the curator wants: kind, surveys, stations; is it valid?]
  shown,     \* [Change -> the previews shown: survey -> new bytes]     (browser)
  call,      \* [Handler -> its request: the step it is at, ...]        (memory)
  lock,      \* the handler that holds PUBLISH_LOCK                     (memory)
  asked,     \* number of requests so far; each has one id to enqueue under
  pending,   \* jobs/edit/pending                                       (disk)
  done,      \* jobs/edit/done: results                                 (disk)
  runner,    \* the job the runner works on, what is left, what it has  (memory)
  head,      \* the branch checked out: "main" or "change"
  main,      \* the local branch main
  tip,       \* the local branch of the change
  tree,      \* the working tree: [Slug -> content]
  pre,       \* PreState.ref of the commit under way                    (memory)
  origin,    \* main at the remote
  remote,    \* number of commits others pushed                         (bound)
  lost,      \* number of pushes accepted without an answer             (bound)
  crashes    \* number of crashes                                       (bound)

queue == <<pending, done>>
git   == <<head, main, tip, tree>>
faults == <<remote, lost, crashes>>
MayFail == remote + lost + crashes < MaxFaults
vars  == <<order, shown, call, lock, asked, pending, done, runner, head, main,
           tip, tree, pre, origin, remote, lost, crashes>>

-----------------------------------------------------------------------------
Last(ref) == ref[Len(ref)]
At(h, step) == call[h].at = step
Order(h) == order[call[h].change]
Prefix(r, q) == Len(r) <= Len(q) /\ SubSeq(q, 1, Len(r)) = r
Records(notes, c) == \E i \in 1..Len(notes) : notes[i] = c

Commit(c, content) == [by |-> c, corpus |-> content]
HeadRef == IF head = "main" THEN main ELSE tip
NoRef == <<>>        \* a branch that was deleted or is not looked at again, a ref not captured
CleanOnMain == head = "main" /\ tree = Last(main).corpus

(* list_published_slugs *)
Published == {s \in Slug : tree[s] # Gone}

Idle == [at |-> "idle", change |-> None, page |-> <<>>, left |-> {}, job |-> 0]
NoJob == [id |-> 0, change |-> None, left |-> {}, bytes |-> <<>>]

Ledger == INSTANCE Ledger WITH log <- origin

ASSUME WantedAssumption == Wanted \subseteq [Change -> Ledger!Orders]

Init == /\ order \in Wanted
        /\ shown \in Ledger!FirstPages
        /\ call = [h \in Handler |-> Idle] /\ lock = None /\ asked = 0
        /\ pending = {} /\ done = {} /\ runner = NoJob
        /\ tree = [s \in Slug |-> Ledger!New]
        /\ main = <<Commit(Outside, tree)>>
        /\ head = "main" /\ tip = NoRef /\ pre = NoRef /\ origin = main
        /\ remote = 0 /\ lost = 0 /\ crashes = 0

-----------------------------------------------------------------------------
(* The file queue, gateway side. *)

\* the file is named after who asks, not after the request: OwnAnswer
FaultyJobId(h) == h
JobId(h) == asked + 1

Awaited == {call[h].job : h \in Handler}
Stale == {f \in pending \cup done : f.id \notin Awaited}

(* default_edit_runner: the janitor removes what is an hour old, which nobody
   waits for any more (a request gives up after two minutes), and the job is
   enqueued *)
Enqueue(h, c) ==
  \E old \in {{}, Stale} : /\ pending' = (pending \ old) \cup {[id |-> call'[h].job, change |-> c]}
                           /\ done' = done \ old

\* a request that is refused keeps PUBLISH_LOCK: TypeOK
FaultyEnd(h) == call' = [call EXCEPT ![h] = Idle] /\ UNCHANGED lock
(* the request is over; a handler that holds PUBLISH_LOCK leaves it *)
End(h) == /\ call' = [call EXCEPT ![h] = Idle]
          /\ lock' = IF lock = h THEN None ELSE lock

Go(h, step) == call' = [call EXCEPT ![h].at = step] /\ UNCHANGED lock

-----------------------------------------------------------------------------
(* Requests. *)

Begin(h, step, c, p) ==
  /\ At(h, "idle") /\ asked < MaxAsked
  /\ asked' = asked + 1
  /\ call' = [call EXCEPT ![h] = [at |-> step, change |-> c, page |-> p, left |-> {}, job |-> JobId(h)]]

Exists(c) == \A s \in order[c].on : tree[s] # Gone

(* handle_edit_preview, handle_stations_preview, handle_collection_preview *)
Preview(h, c) ==
  /\ order[c].kind # "retire"
  /\ order[c].kind # "collection" => Exists(c)
  /\ Begin(h, "preview", c, <<>>)
  /\ Enqueue(h, c)
  /\ UNCHANGED <<order, shown, lock, runner, git, pre, origin, faults>>

(* handle_edit_confirm, handle_stations_confirm: the job is run again, before the
   lock is taken *)
Confirm(h, c, p) ==
  /\ p \in shown[c]
  /\ order[c].kind # "collection" /\ Exists(c)
  /\ Begin(h, "confirm", c, p)
  /\ Enqueue(h, c)
  /\ UNCHANGED <<order, shown, lock, runner, git, pre, origin, faults>>

(* handle_collection_publish *)
ConfirmBatch(h, c, p) ==
  /\ p \in shown[c]
  /\ order[c].kind = "collection"
  /\ Begin(h, "wait", c, p)
  /\ UNCHANGED <<order, shown, lock, queue, runner, git, pre, origin, faults>>

(* handle_survey_retire: the fast guard, outside the lock *)
Retire(h, c) ==
  /\ order[c].kind = "retire" /\ Exists(c) /\ Cardinality(Published) > 1
  /\ Begin(h, "wait", c, <<>>)
  /\ UNCHANGED <<order, shown, lock, queue, runner, git, pre, origin, faults>>

(* PUBLISH_LOCK is entered; a collection batch is only now computed again *)
Acquire(h) ==
  /\ At(h, "wait") /\ lock = None
  /\ lock' = h
  /\ IF Order(h).kind = "collection"
     THEN /\ call' = [call EXCEPT ![h].at = "confirm"]
          /\ Enqueue(h, call[h].change)
     ELSE /\ call' = [call EXCEPT ![h].at = "preflight"]
          /\ UNCHANGED queue
  /\ UNCHANGED <<order, shown, asked, runner, git, pre, origin, faults>>

Result(h) == {r \in done : r.id = call[h].job}

(* the preview page is rendered, or the refusal *)
Shown(h) ==
  /\ At(h, "preview")
  /\ \E r \in Result(h) :
       /\ done' = done \ {r}
       /\ shown' = IF r.ok /\ DOMAIN r.bytes # {}
                   THEN [shown EXCEPT ![call[h].change] = @ \cup {r.bytes}] ELSE shown
  /\ End(h)
  /\ UNCHANGED <<order, asked, pending, runner, git, pre, origin, faults>>

\* the bytes computed again are not compared with those previewed: Implements
FaultyConfirmed(h, r) == r.ok /\ (Order(h).kind # "collection" => ~r.fail)
(* the confirm goes on if the job gives the bytes the curator saw; the verdict on a
   batch is looked at later *)
Confirmed(h, r) == /\ r.ok /\ (Order(h).kind # "collection" => ~r.fail)
                   /\ r.bytes = call[h].page

Answered(h) ==
  /\ At(h, "confirm")
  /\ \E r \in Result(h) :
       /\ done' = done \ {r}
       /\ IF Confirmed(h, r)
          THEN /\ call' = [call EXCEPT ![h].at = IF lock = h THEN "preflight" ELSE "wait",
                                       ![h].page = r.bytes]
               /\ UNCHANGED lock
          ELSE End(h)
  /\ UNCHANGED <<order, shown, asked, pending, runner, git, pre, origin, faults>>

Withdrawn(files, id) == {f \in files : f.id # id}

(* no result within two minutes: the queue entries are unlinked, and a result the
   runner writes later stays in done/ for the janitor *)
Timeout(h) ==
  /\ At(h, "preview") \/ At(h, "confirm")
  /\ pending' = Withdrawn(pending, call[h].job)
  /\ done' = {r \in done : r.id # call[h].job}
  /\ End(h)
  /\ UNCHANGED <<order, shown, asked, runner, git, pre, origin, faults>>

-----------------------------------------------------------------------------
(* The runner: one job at a time, to the end. *)

(* claim_edit_job: the rename is the lock *)
Claim ==
  /\ runner = NoJob
  /\ \E j \in pending :
       /\ pending' = pending \ {j}
       /\ runner' = [id |-> j.id, change |-> j.change, left |-> order[j.change].on, bytes |-> <<>>]
  /\ UNCHANGED <<order, shown, call, lock, asked, done, git, pre, origin, faults>>

(* does the job refuse the survey as it finds it?  run_merge_job: no survey, no
   change; run_remove_stations_job: no such file, none left; a batch: no survey *)
Refused(c, s) ==
  \/ tree[s] = Gone
  \/ order[c].kind = "edit" /\ Records(tree[s].notes, c)
  \/ order[c].kind = "stations" /\ ~(order[c].drop \subseteq tree[s].edis /\ order[c].drop # tree[s].edis)

\* a member of a batch that already is as wanted gets no new bytes
Unchanged(c, s) == order[c].kind = "collection" /\ Records(tree[s].notes, c)

\* the validator is run on the package as patched
Fails(notes) == \E i \in 1..Len(notes) : notes[i] \in Change /\ ~order[notes[i]].valid

Replying(j, ok, bytes) ==
  [id |-> j.id, change |-> j.change, ok |-> ok, bytes |-> bytes,
   fail |-> \E s \in DOMAIN bytes : Fails(bytes[s])]

(* a survey is read from the working tree, patched and validated *)
Compute(s) ==
  /\ s \in runner.left
  /\ ~Refused(runner.change, s)
  /\ runner' = [runner EXCEPT
       !.left = @ \ {s},
       !.bytes = IF Unchanged(runner.change, s) THEN @
                 ELSE [t \in DOMAIN @ \cup {s} |->
                         IF t = s THEN Append(tree[s].notes, runner.change) ELSE @[t]]]
  /\ UNCHANGED <<order, shown, call, lock, asked, queue, git, pre, origin, faults>>

(* process_edit_job: the result is written, whole, and the running file unlinked.
   An EditError, an unreadable job (its file was unlinked by a request that gave up)
   and any exception become a result that is not ok *)
Reply ==
  /\ runner # NoJob
  /\ \/ runner.left = {} /\ done' = done \cup {Replying(runner, TRUE, runner.bytes)}
     \/ runner.left # {} /\ done' = done \cup {Replying(runner, FALSE, <<>>)}
  /\ runner' = NoJob
  /\ UNCHANGED <<order, shown, call, lock, asked, pending, git, pre, origin, faults>>

-----------------------------------------------------------------------------
(* The commit, under PUBLISH_LOCK.  Each action is the step its handler is at. *)

Kind(h) == Order(h).kind

Step(h, at, next) == lock = h /\ At(h, at) /\ Go(h, next)

NotGit == UNCHANGED <<order, shown, asked, queue, runner, faults>>

(* preflight: clean and on main; the ref is captured *)
Preflight(h) ==
  /\ Step(h, "preflight", "guard")
  /\ CleanOnMain
  /\ pre' = main
  /\ NotGit /\ UNCHANGED <<git, origin>>

\* the last survey is only looked for before the lock is taken: NotEmptied
FaultyNotLast == TRUE
NotLast == Cardinality(Published) > 1

(* the guards read the working tree under the lock: the survey exists, so do the
   files to remove, one of which remains, and the corpus is not emptied; a batch
   with a failing member is blocked, all of it *)
Guard(h) ==
  LET o == Order(h) IN
  /\ \A s \in o.on : tree[s] # Gone
  /\ o.kind = "stations" => \A s \in o.on : o.drop \subseteq tree[s].edis /\ o.drop # tree[s].edis
  /\ o.kind = "retire" => NotLast
  /\ o.kind = "collection" => /\ DOMAIN call[h].page # {}
                              /\ \A s \in DOMAIN call[h].page : ~Fails(call[h].page[s])

Guarded(h) ==
  /\ lock = h /\ At(h, "guard") /\ Guard(h)
  /\ call' = [call EXCEPT ![h].at = IF Kind(h) = "edit" THEN "write" ELSE "branch",
                          ![h].left = DOMAIN call[h].page]
  /\ UNCHANGED lock
  /\ NotGit /\ UNCHANGED <<git, pre, origin>>

(* the preflight or a guard refuses: nothing was touched *)
Refuse(h) ==
  /\ lock = h /\ (At(h, "preflight") \/ (At(h, "guard") /\ ~Guard(h)))
  /\ End(h) /\ pre' = NoRef
  /\ NotGit /\ UNCHANGED <<git, origin>>

(* git checkout -B of the branch of the change *)
Branch(h) ==
  /\ Step(h, "branch", CASE Kind(h) = "edit" -> "commit"
                         [] Kind(h) = "collection" -> "write"
                         [] OTHER -> "rm")
  /\ tip' = HeadRef /\ head' = "change"
  /\ NotGit /\ UNCHANGED <<main, tree, pre, origin>>

(* git rm: of EDI files, or of a whole survey *)
Remove(h) ==
  /\ Step(h, "rm", IF Kind(h) = "retire" THEN "commit" ELSE "write")
  /\ \A s \in Order(h).on :
       /\ tree[s] # Gone
       /\ Kind(h) = "stations" => Order(h).drop \subseteq tree[s].edis
  /\ tree' = [s \in Slug |-> IF s \notin Order(h).on THEN tree[s]
                             ELSE IF Kind(h) = "retire" THEN Gone
                             ELSE [tree[s] EXCEPT !.edis = @ \ Order(h).drop]]
  /\ NotGit /\ UNCHANGED <<head, main, tip, pre, origin>>

\* the patch is applied once more instead of the confirmed bytes: RecordedOnce
FaultyWritten(h, s) == Append(tree[s].notes, call[h].change)
Written(h, s) == call[h].page[s]

(* survey.yaml is written; an edit does so before it branches, a batch survey by
   survey *)
Write(h) ==
  /\ lock = h /\ At(h, "write")
  /\ \E s \in call[h].left :
       /\ tree[s] # Gone
       /\ tree' = [tree EXCEPT ![s].notes = Written(h, s)]
       /\ call' = [call EXCEPT ![h].at = IF Kind(h) = "edit" THEN "branch" ELSE "commit",
                               ![h].left = @ \ {s}]
  /\ UNCHANGED lock
  /\ NotGit /\ UNCHANGED <<head, main, tip, pre, origin>>

\* each member of a batch is merged when it is committed: Implements
FaultyNextAfterCommit(h) == "main"
NextAfterCommit(h) == IF call[h].left # {} THEN "write" ELSE "main"

(* git add, git commit: fails when there is nothing to commit *)
CommitWork(h) ==
  /\ Step(h, "commit", NextAfterCommit(h))
  /\ tree # Last(tip).corpus
  /\ tip' = Append(tip, Commit(call[h].change, tree))
  /\ NotGit /\ UNCHANGED <<head, main, tree, pre, origin>>

CheckoutMain(h) ==
  /\ Step(h, "main", "merge")
  /\ head' = "main" /\ tree' = Last(main).corpus
  /\ NotGit /\ UNCHANGED <<main, tip, pre, origin>>

(* git merge --ff-only *)
Merge(h) ==
  /\ Step(h, "merge", "push")
  /\ Prefix(main, tip)
  /\ main' = tip /\ tree' = Last(tip).corpus
  /\ NotGit /\ UNCHANGED <<head, tip, pre, origin>>

(* git push origin main: accepted, and the curator is told; or the answer is lost *)
Push(h) ==
  /\ lock = h /\ At(h, "push")
  /\ Prefix(origin, main)
  /\ origin' = main
  /\ \/ End(h) /\ pre' = NoRef /\ tip' = NoRef /\ UNCHANGED lost
     \/ MayFail /\ lost' = lost + 1 /\ Go(h, "undo") /\ UNCHANGED <<pre, tip>>
  /\ UNCHANGED <<order, shown, asked, queue, runner, head, main, tree, remote, crashes>>

(* a command refuses, fails, raises or times out *)
CommandFails(h) ==
  /\ lock = h
  /\ call[h].at \in {"write", "branch", "rm", "commit", "main", "merge", "push"}
  /\ Go(h, "undo")
  /\ NotGit /\ UNCHANGED <<git, pre, origin>>

\* the branch is left and nothing is reset: CleanAtRest
FaultyRestored == Last(main).corpus
Restored == Last(pre).corpus

(* _rollback, and the refusal: the branch is deleted *)
Rollback(h) ==
  /\ lock = h /\ At(h, "undo")
  /\ head' = "main" /\ main' = pre /\ tree' = Restored
  /\ End(h) /\ tip' = NoRef /\ pre' = NoRef
  /\ NotGit /\ UNCHANGED origin

-----------------------------------------------------------------------------
(* Crashes, and others at work on the repository. *)

(* the gateway dies with its requests, whose files stay in the queue *)
GatewayCrash ==
  /\ MayFail
  /\ crashes' = crashes + 1
  /\ call' = [h \in Handler |-> Idle] /\ lock' = None /\ pre' = NoRef
  /\ tip' = IF head = "main" THEN NoRef ELSE tip
  /\ UNCHANGED <<order, shown, asked, queue, runner, head, main, tree, origin, remote, lost>>

(* the runner dies: an edit job is not queued again *)
RunnerCrash ==
  /\ MayFail /\ runner # NoJob
  /\ crashes' = crashes + 1
  /\ runner' = NoJob
  /\ UNCHANGED <<order, shown, call, lock, asked, queue, git, pre, origin, remote, lost>>

(* somebody else pushes a change of a survey *)
RemoteCommit(s) ==
  /\ MayFail
  /\ Last(origin).corpus[s] # Gone
  /\ remote' = remote + 1
  /\ origin' = Append(origin, Commit(Outside,
                 [Last(origin).corpus EXCEPT ![s].notes = Append(@, Outside)]))
  /\ UNCHANGED <<order, shown, call, lock, asked, queue, runner, git, pre, lost, crashes>>

(* git pull --ff-only of the reconcile agent: refuses to overwrite local changes *)
Pull ==
  LET now == Last(main).corpus
      new == Last(origin).corpus
      moved == {s \in Slug : now[s] # new[s]}
  IN /\ head = "main" /\ main # origin /\ Prefix(main, origin)
     /\ \A s \in moved : tree[s] = now[s]
     /\ main' = origin
     /\ tree' = [s \in Slug |-> IF s \in moved THEN new[s] ELSE tree[s]]
     /\ UNCHANGED <<order, shown, call, lock, asked, queue, runner, head, tip, pre, origin,
                    faults>>

(* an operator clears a checkout the preflight refuses *)
Repair ==
  /\ lock = None /\ ~CleanOnMain
  /\ head' = "main" /\ tree' = Last(main).corpus /\ tip' = NoRef
  /\ UNCHANGED <<order, shown, call, lock, asked, queue, runner, main, pre, origin, faults>>

-----------------------------------------------------------------------------
Request(h) == \E c \in Change :
  \/ Preview(h, c) \/ Retire(h, c)
  \/ \E p \in shown[c] : Confirm(h, c, p) \/ ConfirmBatch(h, c, p)

Await(h) == Shown(h) \/ Answered(h) \/ Timeout(h)

Committing(h) == \/ Preflight(h) \/ Guarded(h) \/ Refuse(h)
              \/ Branch(h) \/ Remove(h) \/ Write(h) \/ CommitWork(h) \/ CheckoutMain(h)
              \/ Merge(h) \/ Push(h) \/ CommandFails(h) \/ Rollback(h)

Runner == Claim \/ Reply \/ \E s \in Slug : Compute(s)

Others == Pull \/ Repair \/ \E s \in Slug : RemoteCommit(s)

Next == \/ \E h \in Handler : Request(h) \/ Acquire(h) \/ Await(h) \/ Committing(h)
        \/ Runner \/ GatewayCrash \/ RunnerCrash \/ Others

Spec == Init /\ [][Next]_vars

-----------------------------------------------------------------------------
Notes == Seq(Change \cup {Outside})
Contents == [notes : Notes, edis : SUBSET Station] \cup {Gone}
IsBytes(b) == DOMAIN b \subseteq Slug /\ \A s \in DOMAIN b : b[s] \in Notes
IsRef(r) == \/ r = NoRef
            \/ \A i \in 1..Len(r) : /\ r[i].by \in Change \cup {Outside}
                                    /\ r[i].corpus \in [Slug -> Contents]
IsJob(j) == j.id \in 1..asked /\ j.change \in Change
InCommit == {"preflight", "guard", "branch", "rm", "write", "commit", "main", "merge",
             "push", "undo"}

(* Types; only the holder of PUBLISH_LOCK is in a commit, and a batch holds it while
   it is computed again. *)
TypeOK ==
  /\ order \in [Change -> Ledger!Orders]
  /\ \A c \in Change : \A p \in shown[c] : IsBytes(p)
  /\ lock \in Handler \cup {None}
  /\ \A h \in Handler :
       /\ call[h].at \in {"idle", "preview", "confirm", "wait"} \cup InCommit
       /\ IsBytes(call[h].page) /\ call[h].left \subseteq Slug /\ call[h].job \in 0..asked
       /\ At(h, "idle") => call[h] = Idle
       /\ At(h, "idle") \/ call[h].change \in Change
       /\ (lock = h) <=> \/ call[h].at \in InCommit
                         \/ (At(h, "confirm") /\ Kind(h) = "collection")
  /\ \A j \in pending \cup done : IsJob(j)
  /\ \A r \in done : IsBytes(r.bytes)
  /\ runner = NoJob \/ (IsJob(runner) /\ IsBytes(runner.bytes))
  /\ head \in {"main", "change"} /\ tree \in [Slug -> Contents]
  /\ IsRef(main) /\ IsRef(tip) /\ IsRef(pre) /\ IsRef(origin)
  /\ main # NoRef /\ origin # NoRef /\ (head = "change" => tip # NoRef)
  /\ remote \in Nat /\ lost \in Nat /\ crashes \in Nat

(* A request takes only the answer to its own question, however many of its
   predecessors gave up while the runner was at work (metaedit.py 71-103). *)
OwnAnswer == \A h \in Handler : \A r \in Result(h) : r.change = call[h].change

(* Two removals never empty the corpus, nor a survey of its stations (app.py 2332-2341,
   publish.py 262-264): not as long as the answers to pushes arrive ... *)
NothingEmptied == \E s \in Slug : Last(origin).corpus[s] # Gone
                  /\ \A t \in Slug : LET now == Last(origin).corpus[t]
                                     IN  now # Gone => now.edis # {}
NotEmptied == lost = 0 => NothingEmptied

(* No survey records an edit or a batch twice, though it is confirmed twice from one
   page, or again after its push landed unnoticed.  (A removal of stations is refused for
   the files that are gone, not for a note, and the note of one that failed may stay in
   bytes another request read meanwhile.) *)
Again(notes, i, j) == i # j /\ notes[i] = notes[j]
                      /\ notes[i] \in Change /\ order[notes[i]].kind # "stations"
RecordedOnce ==
  \A s \in Slug : LET now == Last(origin).corpus[s] IN
    now # Gone => \A i, j \in 1..Len(now.notes) : ~Again(now.notes, i, j)

(* With nobody in a commit the checkout is clean and on main, whatever failed, unless
   the gateway died in one. *)
CleanAtRest == crashes = 0 /\ lock = None => CleanOnMain

(* The corpus at origin changes by whole, valid changes as their previews showed them:
   the abstract specification. *)
Implements == Ledger!Spec

(* A change of a survey that reached origin stays until the survey is retired: a
   concurrent edit "would change the bytes and invalidate the preview"
   (publish.py 245-248). *)
NoLostEdit ==
  [][\A s \in Slug :
       LET old == Last(origin).corpus[s]  new == Last(origin').corpus[s]
       IN  old # Gone /\ new # Gone =>
             \A i \in 1..Len(old.notes) : Records(new.notes, old.notes[i])]_vars
=============================================================================
