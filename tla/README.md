# AusMT in TLA+

AusMT takes survey packages from submitters, checks them, has a curator publish
them to a git repository (`surveys-live`), builds a static site from that
repository, serves the build and copies it to a public replica.  The modules here
model the part of it that keeps state and runs concurrently, TLC checks small
instances, and TLAPS proves the safety promises of all of them for every instance: of
intake, keys, publishing, editing, serving, replica, releases and analytics.

All paths below are relative to `src/`.

## 1. The system

| part | state it keeps | operations | talks to |
|---|---|---|---|
| submission state machine (`gateway/states.py`, `gateway/db.py`) | one row per submission in SQLite: state, zip hash, slug; an audit log | `insert_submission`, `transition` (refuses a move outside `ALLOWED`) | written by the gateway only |
| upload intake and antivirus (`gateway/app.py` 160-445, `upload.py`, `clamd.py`) | `_reserved`, `_scanning` in memory; `incoming/<id>.zip` | `handle_submit`, `_scan_and_advance`, `_retry_held` | clamd (may be down, slow, late) |
| job queue (`gateway/jobs.py`, `app.py` 370-500) | `jobs/pending`, `jobs/running` (their mtimes count), `jobs/done`, `<id>.requeued` markers | `write_pending`, `_ingest_done`, `_post_unpack_sweep`, `_requeue_dead`, `_archive_done` | the runner, through the directories alone |
| job runner (`gateway/runner/runner.py`) | the job it has claimed; `quarantine/<id>/package` | `claim_one`, `process_job`, `_Heartbeat` | a process of its own, restarted by its service manager |
| publishing (`gateway/app.py` 2540-2700, `gateway/publish.py`) | `PUBLISH_LOCK`, `_publishing` in memory; the `surveys-live` checkout; origin | approve, retry, return, reject, `_run_publish`, `_rollback`, `_reconcile_publishing` | git; the checkout is shared with the reconcile agent |
| metadata, station, collection edits, retirement (`app.py` 1840-2390, `publish.py`) | the same checkout and lock; the browser holds the hash of what was previewed | preview, confirm, retire | as publishing, and the edit queue |
| edit queue (`gateway/metaedit.py`, `gateway/runner/edit.py`) | `jobs/edit/pending`, `running`, `done` | enqueue, poll, timeout with unlink, janitor; claim, compute, reply | gateway and runner, through files |
| serve reconciliation (`deploy/scripts/reconcile.sh`, `deploy/Makefile`) | `site-data/builds`, the link `site-data/current`, `rebuild.request`, `pause.flag`, `rollback.pin`, `reconcile-status.json` | prune, pull, drift check, holds, build, verify, swap | origin, the checkout, the host actions agent |
| host actions agent (`deploy/scripts/actions.sh`) | intent files, `actions.lock` | rollback: repoint `current`, write the pin | reconcile, which holds another lock |
| replica (`deploy/scripts/publish.sh`, `receive-build.sh`) | on the replica: builds with sidecars, `current`, `published.json` | send, verify, swap, record, prune | ssh; started by reconcile and by hand |
| uploader keys and self-service issue (`app.py` 1161-1212, 2741-2849, `db.py` 516-642) | `uploader_keys` (allowance, expiry, revocation), `key_request_log` | authorise, spend, create, revoke, request by mail | the upload handler; requests run in threads |
| curator authentication | sessions, one-time-code steps | login, confirm | SQLite |
| build cache (`engine/extract/cache.py`) | content-addressed entries, hard links | put, get, link | parallel builds |
| releases (`engine/extract/cut_release.py`) | `releases/<tag>`, `releases/releases.json` | cut from `current`, stamp a DOI later | run by hand, beside the passes that prune builds |
| URLs, station ids (`engine/extract/*`) | registries | pure functions over earlier registries | the build |
| usage analytics (`deploy/frontdoor/`, `deploy/scripts/aggregate_stats.py`) | the front door's log and its rolls, their copies on the box, `stats.json`, `daily_archive.jsonl` | roll, pull (hourly), fold (daily), append | three processes on timers, with no lock between them |
| science code, page rendering, portal, monitoring | — | — | — |

How they interact.  The gateway is one asyncio event loop in one process (it must
be run with one worker: `app.py` 2673-2676); only publishing leaves the loop for a
thread.  It shares *files* with the runner, *the checkout* with the reconcile agent
and *origin* with everybody.  The reconcile agent builds from that checkout and shares
*the builds and the link* with the actions agent.  Nothing but the rename of a file is
atomic between processes, and no lock is shared between them.

What is hard, and what correctness means:

* **intake** – many uploads in flight in one loop with awaits in between, an inline
  scan and a poll-loop scan of one row, a job file that moves between three
  directories while a sweep judges it by its mtime.  Correct: the cap holds, no bytes
  are taken in twice, nothing unscanned reaches the runner, no job is lost or run over
  a package under review, rows move as the table allows, and every accepted upload is
  answered.
* **keys** – an upload is authorised before its body is received and charged after its
  row is inserted, in three statements that may each fail; requests for a key run in
  threads, and midnight falls anywhere.  Correct: a key is good for its allowance, and
  the caps of a day hold.
* **publishing** – nine git commands that each may fail, a rollback that may fail,
  a push whose answer may be lost, pulls and foreign pushes in between, a restart
  anywhere.  Correct: `PUBLISHED` means at origin, origin only ever receives whole
  packages under their own publish, a survey is replaced only on confirmation, a
  failed publish leaves nothing behind, and each publish ends.
* **editing** – a preview and its confirm are two requests, minutes apart; the bytes are
  computed by another process from the same working tree the commit writes; requests
  give up while the runner works for them; guards are read outside the lock and again
  inside it.  Correct: what lands is what was previewed, whole and valid; a request
  gets the answer to its own question; removals do not empty the corpus; a failed
  commit leaves the checkout as it found it.
* **serving** – two agents that swap the same link under different locks, a build that
  reads a tree being published to, passes killed anywhere.  Correct: what visitors get
  is there and was verified, a rollback stands, no published edit stays unserved, and
  the portal catches up.
* **replica** – transfers cut anywhere, two senders at a time.  Correct: the public site
  is a whole build, the record names it, and it catches up with the curation host.
* **releases** – a cut copies a build which nothing protects from being pruned, then
  writes three documents, and may be killed between any two.  Correct: a listed release
  is one whole build, its documents agree, and a failed cut does not block its tag.
* **analytics** – a log that is rolled while it is copied and copied while it is read, a
  day that is folded once and never again, figures of a download that a later line may
  revise, a watermark that is lost with `stats.json`.  Correct: totals, months, days and
  archive agree with the lines counted, a day that was copied in time is counted whole, and
  as long as `stats.json` can be read it is counted once, and archived once.

`PROJECT.json` lists the hazards, each at its line with the properties that cover it.

## 2. The modules

| module | what it is |
|---|---|
| `Lifecycle` | the abstract specification: one row per submission, moved by `Insert` and `Transition` as `states.ALLOWED` says |
| `Ingest` | upload, scan, poll loop, job files, runner, time, crashes |
| `IngestProofs` | the theorems about `Ingest` |
| `Keys` | keys, their allowances and the caps of a day; extends `Ingest` |
| `KeysProofs` | the theorems about `Keys`; extends `IngestProofs` |
| `Publish` | curator actions, the publish task command by command, rollback, restart, other users of the checkout and of origin |
| `PublishProofs` | the theorems about `Publish` |
| `Ledger` | the abstract specification of the edits: main at origin grows by whole, valid, previewed changes |
| `Edits` | edit requests, the edit queue, the runner's edit jobs, the commit paths; implements `Ledger` |
| `EditsProofs` | the theorems about `Edits`, the refinement of `Ledger` among them |
| `Serve` | the reconcile agent, its builds, the rollback of the actions agent |
| `ServeProofs` | the theorems about `Serve` |
| `Replica` | `publish.sh` and `receive-build.sh`; extends `Serve` |
| `ReplicaProofs` | the theorems about `Replica`; extends `ServeProofs` |
| `Releases` | `cut_release.py`; extends `Replica` |
| `ReleasesProofs` | the theorems about `Releases`; extends `ReplicaProofs` |
| `Stats` | the front door's log, the pull, the daily fold and the archive |
| `StatsProofs` | the theorems about `Stats` |
| `MCIngest`, `MCKeys`, `MCPublish`, `MCEdits`, `MCServe`, `MCStats` | what TLC needs: symmetry sets, the choice of curators' wishes, the sharing out of bounds |

A definition called `Faulty...` is not part of a model.  It is the definition after it
with a plausible bug, and the property named in its comment is the one that notices.

### Ingest

*Atomicity.*  A gateway action is the code between two awaits (`Free` guards it).
Where such a stretch leaves two durable effects behind, it is cut after the first:
`seg` names what is still owed.  No other coroutine runs in the gap, but the runner,
the clock and a crash do.  Examples: rename of the upload then `insert_submission`
(`Promote`, `Insert`); `transition` to SCANNED then `write_pending` (`Apply`,
`QueueJob`); marker, unlink, `write_pending` of a requeue (`RequeueMark`,
`RequeueUnlink`, `QueueJob`); unlink of an infected zip then `transition`
(`Apply`, `RejectAV`).

*The poll pass* is `PollStart`, then `phase` retry → ingest → requeue → sleep.  Each
phase reads its list once (`todo`) as the code does and visits the entries in any
order; the code sorts them, so the model allows more.  `rescan` and `sweep` are the two
awaits inside the pass, and uploads interleave there.

*The runner* is `Claim` (a rename, which keeps the mtime), `Unpack` or `ReadFails`,
`Beat`, `Finish` (done-file), `Retire` (unlink), with `RunnerCrash` anywhere.  What the
validator and the preview decide is a choice of outcome; only a validated outcome needs
the zip.

*Time.*  A job file is `young` or `old`, old meaning that the sweep takes it for dead
now, or will before a heartbeat could touch it.  The heartbeat period (30 s) is a
fraction of the timeout, and the whole job is bounded by the deadline, so a
running-file ages only when no runner works on it.  `Stalls` says whether a job may
wait in `pending/`, or a pass last, longer than 2 × `AUSMT_JOB_TIMEOUT_S`; normal
operation is `Stalls = FALSE`.

*Left out*: the parsing of the multipart body and the zip inspection (one `Refuse`),
disk headroom, e-mail; the state directory's own failures (a full disk).  Uploader keys
and the per-day cap are added by `Keys`.

### Keys

Every step of `Keys` is a step of `Ingest` or leaves its variables alone.  `KSubmit` adds
the two guards (`Authorised`, `DayRoom`) to the arrival of an upload, and `KInsert`,
`Spend` the charge that follows the insert with no await in between; `spend` is the
upload still to be charged.  `Spend` is one statement of SQL which stops at zero.
`SpendFails` is swallowed by the handler.  `StampFails` is not: the handler ends with an
error, the row stays at RECEIVED and the poll loop takes it up.  A request for a key is a
thread: the day is read in `Begin`, the counts and the row of the log are one transaction
under the database's lock (`Permit`), the key another (`Mint`).  `Midnight` may fall
between any of them.  `slips` is a history variable, the uploads a key was not charged
for.

*Left out*: the note on a key and the mail.  The cap by client ip is one more count of
the same form.

### Publish

A ref is the sequence of commits it leads to; a commit names its submission, carries the
attempt it was made in (a second commit of the same package has another hash), and holds
packages.  A package in the working tree is `whole` or half-copied, and `added` or not.
`head`, `main`, `tip` (the submission branch), `work` and `origin` are the repository;
every git command of `stage_and_commit` and `_rollback` is an action, because pulls,
pushes, the poll loop and crashes come in between.  `Fails` is any exception of a
command; `Push` may succeed at origin and report failure.  `Pull` is the reconcile
agent's `git pull --ff-only`, `RemoteCommit` a maintainer's push, `Repair` an operator
who clears a checkout that the pre-flight refuses.  git itself is external and is
modelled by the documented effect of the commands used; each command is one step,
because git's own index lock makes a second command on the same checkout fail, and any
command may fail (`Fails`).

*Left out*: the e-mail after publishing.  The edits take the same lock and use the
same rollback; they are `Edits`.

### Edits and Ledger

*The data.*  The bytes of a `survey.yaml` are the list of the changes its release notes
record.  That is enough because the code only ever compares bytes (or their hash), and
a patch is deterministic: the same patch on the same bytes gives the same bytes on the
same day.  A survey is that list and its set of EDI files, or `Gone`.  What a curator
wants of a change (`order`: kind, surveys, stations to drop, and whether the validator
accepts it) is chosen once, at the start.

*A request handler* is a record in `call` with the step it is at.  The handlers really
run side by side: their blocking parts are in threads.  `Preview` and `Confirm` enqueue
a job and wait for it (`Shown`, `Answered`) or give up (`Timeout`); a collection batch
takes `PUBLISH_LOCK` first and is computed again under it.  A confirm goes on only if
the bytes computed anew are those previewed.  The commit is one action per command,
in the order each of the four commit functions has: an edit writes before it branches,
the others branch first; a batch writes survey by survey and commits after each.
Every command may fail (`CommandFails`), the push may land unnoticed, and `Rollback`
is one step here since `Publish` has it command by command.

*The queue* is `pending` and `done`.  `jobs/edit/running` is no variable: nothing ever
reads it, so a job the runner has claimed is known to the runner alone and is lost with
it.  Names are drawn fresh per request (a uuid; `JobId`).

*`Ledger`* says what a reader of origin sees: a log of commits that only ever grows, by
whole changes (`Land`) or by commits of others (`Elsewhere`).  Each change writes the
bytes of one of its previews and nothing else, drops the files it names, and is valid.
`Edits` is shown to implement it under `log <- origin`.  What a push appends is not
always one commit: a batch is one per survey, and after a crash between merge and push a
commit that was left behind is taken along (what `publish_ahead` shows).  `WholeSince`
therefore asks for places to cut the new commits at, such that from each cut to the next
it is one whole change.

### Serve

A commit is the set of changes in it; a build holds the set of changes in the tree it
read (`has`) and the commit it names (`at`).  The two differ when a publish moves the
tree between `Discover` and `Label`; `Verify` is the digest gate of `verify.py`.  The
publish is three steps (staged, landed, pushed or undone) that stand for `Publish` and
`Edits`; foreign commits come with `Pull`.  A pass is one action per thing another
process may see or change in between: which build to keep (`Begin`), prune and read the
flags, pull, decide, build, swap, prune, report.  `Outcome` is the chain of holds in
the order of the script.  `Terminate` is the timeout of the unit, which runs the trap;
`Die` is a host that goes down, which runs nothing.  The actions agent is
`TakeRollback`, `Repoint`, `WritePin`, under a lock of its own.

`torn` is a history variable: a rollback overlapped a pass, was cut off before its pin,
or chose a build that never passed verification (the inventory lists every directory).
The code promises nothing then, and the model shows that it cannot: see the remarks
below.

### Replica

A run of `publish.sh` is a record in `send`, one for the agent and one for an operator;
the receiver it calls over ssh is the later steps of the same record.  `Host(Step)` is
the composition: a step of `Serve`, after which the agent owes a publish if the pass
settled what is served, and no pass starts before that publish has ended, because it
runs under `reconcile.lock`.  `store` holds for each name how much of the build arrived
and whether its sidecar did.  `Cut` is a lost connection or a killed process at any
step; `cut` remembers one between the swap and the record.

### Releases

A run of the tool is the record `tool`, which says what it read and the step it is at; a
step is one write, or one thing read while a pass may prune.  A build never changes, so
what a copy of it can lack is the part that was pruned before it was reached:
`CopyDocs` fails without its documents, `CopyBundles` copies what is there, and
`VerifyBundles` compares it with the manifest read when the cut began.  `Backfill` enters
the same three writes (release.json, index, DataCite record) with a DOI.  `Stop` is a run
killed, or a write that fails, half-way into a document if it was writing one; then
nothing removes the directory, and the history variable `stopped` has the tag until a
later run on it ends.  The DOI of a release is its tag.

*Left out*: two operators at the tool at once (the index is rewritten without a lock), and
the licence texts beside the bundles, which the manifest does not claim and the check
therefore does not miss.

### Stats

A line of the access log is a number; `log` says on what day it was written and what was
asked.  `coming` is what the clients will ask for, chosen at the start.  A file is the
sequence of its lines: `live` and `rolls` at the front door, `boxLive` and `boxRolls` on
the box.  `RollUp` renames the live file and drops the oldest roll beyond `RollKeep`.  A
pull lists the rolls, copies them in the order of their names and the live file last, each
copy in one step because rsync writes aside and renames.  The fold lists the copies, reads
one after the other, and then replaces `stats.json` in one step (`os.replace`); the append
to the archive follows and may be cut off (`FoldCut`), within a line too (`torn`).

A fold that cannot read `stats.json`, or finds it cut short or no object, does not stop: it
goes on from the empty skeleton, without a watermark (`FoldStartLost`, `_load_json` and
`_coerce_prev`), and what it writes is a new beginning.  `Prev` is the book a fold goes on
from.  The days of before that the box's copies still have are folded again and appended to
the archive again, beside the rows of before, which nothing rewrites.

`Aggregate` is the fold itself.  `Used` picks the lines of days that are over and above
the watermark, and `Tally` is the loop over them, with `Count` for its body: a line lands
in the totals, its month, its day and the archive row of this run (`Landing`), and `seen`
is the dedupe of the day.  `Closed` is what follows the loop: distinct networks, their
peak in a month, exports and active days.  `Figure` is the definition all of it is checked
against, from the lines counted since the present `stats.json` began (`folded`, a history
variable; `Past` is what a fold adds to) and without any order among them.  Loops are recursive functions (`Tally`, `Total`), so that they can be proved about.

A pull is `smooth` if the front door did not roll while it ran, nothing it had listed was
gone, and it was not cut off; a fold is `sound` if a smooth pull that began on the day of
the fold was the last, none ran since the fold began, and no file was skipped.  `unsure`
has the days whose archive row was lost, and `era` says how many rows the archive held when
the present `stats.json` began, so that `Recent` is what was archived since.  These are
history: the code knows none of them.

*Left out*: places, the split by survey, dataset, format and collection (more rows and
columns, bumped in the same way), the box's own log, which is written in place, gzipped
rolls, the age limit of rolls (which drops the oldest, as the count does), and the reading
of files older than today's schema.

## 3. The runs

| run | question | bounds |
|---|---|---|
| `ingest_safety` | all safety promises of the intake when no gateway dies | 3 uploads, 3 contents, cap 2, 2 runner deaths per job |
| `ingest_answer` | is every accepted upload answered, crashes and unbounded waiting included | 2 uploads, cap 2, `Stalls`; or 1 upload, 1 gateway crash, 1 death of the runner |
| `ingest_stall` *(violation)* | is a slow job never requeued | 1 upload, `Stalls` |
| `keys_safety` | do allowances and daily caps hold | 3 uploads against a cap of two, under one mailed key of allowance 1 or under the operator's with 2 a day, or 3 requests by 2 addresses; 1 midnight, 1 failing statement, 1 gateway crash |
| `publish_safety` | do checkout, origin and rows agree when commands fail | 2 submissions, any slugs, 2 attempts each, 1 foreign push |
| `publish_crash` | what survives crashes and failing rollbacks; does a publish end | 2 submissions of one slug, 2 attempts each, 1 crash |
| `publish_ahead` *(violation)* | does a failed publish stay out of origin | 2 submissions, 1 attempt each, 1 crash |
| `edit_safety` | do edits land whole, valid, as previewed, once; do requests get their own answers | 2 surveys of 2 stations, 2 changes out of nine pairs of rivals, 2 handlers, 2 requests after the first pages, 1 fault (foreign push, lost answer, crash of gateway or runner) |
| `edit_lost` *(violation)* | does an edit stay when another is confirmed beside it | 2 edits of one survey, 2 requests, no fault |
| `serve_safety` | is what is served, sent and cited whole, does a rollback stand, do portal and replica catch up | an edit and a new survey, 3 builds, 1 kept, 2 presses of a button, 1 fault, 1 publish by hand, 1 cut connection, 2 releases, 3 runs of the tool, 1 of them stopped; shared out as below |
| `stats_safety` | are the figures those of the lines, is a day counted whole, once, and archived once since the present `stats.json` began | 4 plans of 2 requests by 2 networks (one file alone and in an export; a file no longer served; hand-offs; a crawler), 3 days in 2 months, 1 roll kept, a window of 1 day, 1 fault (a cut, an unreadable log file or `stats.json`); any number of pulls and folds |
| `serve_stale` *(violation)* | is the corpus served when a pass says noop | an edit and a new survey, 3 builds, no press, no fault |

Why the bounds suffice.  *Intake*: three uploads against a cap of two make the cap,
and a reservation beside two rows, bite; three contents let any two of them agree; two
deaths are the first and the second of `_requeue_dead`; two crashes allow a crash in
the recovery from a crash.  For safety the proofs below remove the bounds.
`ingest_answer` shares its bounds out: crashes and deaths to one upload, stalls and
failing scans to two.
*Keys*: two uploads in the air when the last unit is spent are what overspends a key; a
third finds it exhausted.  Every other client has something else to send, since
duplicates are the matter of `ingest_safety`.
*Publishing*: the lock admits one task, so two submissions are one that leaves
something behind and one that finds it; two attempts are a publish and its retry; slugs
are chosen freely in the initial state so the two may collide or not; one foreign commit
may land before, between or after the commands.
*Editing*: the hazards are of two changes, and a curator may have had any previews open
at the start (`FirstPages`), so two requests are two confirms, or a preview and a
confirm that race.  The nine pairs (`Rivals`) are those in which one change matters to
the other: the same survey, both of its stations, both surveys of the corpus, a batch
the validator fails.  One fault meets every step of either.
*Serving*: three builds are one served, one kept, one under way.  A press, a fault and a
change multiply, so `Spent` shares the bounds out between behaviours: an edit with two
presses (a rollback and the rebuild that ends it), an edit with a press and a fault, or
both changes with a press.  With a replica, an edit, a cut, and a press or a publish by
hand.  With the release tool, an edit and three runs of it (a release, one after it, and
the DOI of either), or one that may stop while a pass prunes; or no change and two runs,
one of which may stop and the other finds what it left.  Serving starts with nothing built,
so a rollback needs two builds first, and the third is the pass that must not move it.

*Analytics*: two lines are a day split over a roll and a live file, or two days, or the
two legs of one download; three days in two months are a day folded late, a month with
two days in it, and a day that has left the window.  Pulls and folds need no bound,
because repeating one changes nothing; which is what the run shows of the fold.  A
`stats.json` is lost once and without another fault, after folds of one day or two whose
lines the box has or no longer has; the proofs have any number of losses and faults
together.

*Deadlock.*  The intake and analytics runs check it: the poll loop and the timers always
have a step.  In `Publish`
all submissions may be decided for good, in `Edits` and `Serve` the bounds on requests
and builds may be used up while somebody waits, and then nothing is left to do, so
their cfgs turn the check off.

*Symmetry* is used in safety runs only.

*Mutants.*  Each property of each passing run is broken by at least one `Faulty...`
definition; `PROJECT.json` lists the pairs.

### Fairness

`Ingest!Fairness`: a stretch of code that runs is finished; the poll loop and the
runner each take a step they can take, because the service manager restarts both
(`restart:` in the compose file, `run_forever`); the loop's ready queue is served in
turn, so an inline scan that has answered is resumed (strong, since the poll loop's
own stretches disable it in between); time passes; and a scanner that is asked again and
again some day gives a verdict.  Without the last one a row is held for ever, which is
what the code promises ("unreachable ⇒ hold").  Uploaders, curators and crashes are
under no fairness.

`Publish!FairSpec`: a git command ends (`real_git_runner` has a timeout),
`asyncio.Lock` is handed on in order of arrival, the poll loop keeps polling.

`Replica!RFairSpec`: timers start passes again and again, and a pass takes its steps,
because its git commands and the unit have timeouts; a publish in `surveys-live` ends
(as `Publish` shows); a run of `publish.sh` ends, because ssh gives up on a dead
connection and `flock -w` on a lock.  The actions agent, curators, operators and faults
are under no fairness.  The two liveness properties take their premise from the
curators (`Converges`: nobody pauses for ever; `CatchesUp`: what is served stays).
`Edits` has no liveness property: every wait in it ends with `Timeout`, by
construction.

### What the violations show

1. `ingest_stall`.  `claim_one` renames the pending-file and keeps its mtime; the first
   heartbeat comes after 30 s, the gateway polls every 5 s.  A job that waited longer
   than twice the timeout is swept as dead right after it was claimed, and runs twice –
   against the heartbeat's comment "never re-queues a legitimately SLOW job"
   (`gateway/runner/runner.py` 159-161).
2. `publish_ahead`.  "A PUBLISH_FAILED submission leaves surveys-live byte-for-byte the
   pre-state" (`gateway/publish.py` 16-17).  A gateway that dies after the merge and
   before the push leaves `main` ahead of origin, clean and on `main`; the next publish
   passes its pre-flight and pushes both.
3. `edit_lost`.  A concurrent edit "would change the bytes and invalidate the preview"
   (`gateway/publish.py` 245-248), but the bytes are computed again before
   `PUBLISH_LOCK` is taken.  Two edits of one survey confirmed side by side both match
   their previews, and the second commit writes a `survey.yaml` that never saw the
   first.  A batch, computed under the lock, is not affected.
4. `serve_stale`.  The agent "closes the published-not-served gap with no human in the
   loop" (`deploy/scripts/reconcile.sh` 3-6).  A survey that lands after the build has
   listed the packages and before it reads the commit is in the commit and not in the
   build; the digest gate compares only surveys that are in the build; every later pass
   finds `Built = main` and says noop.  A changed survey is caught (`EditsServed`).

Further remarks, which no run pins down on its own.  Of intake: "Directories are ground
truth" (`gateway/db.py` 1, `deploy/README.md` 585), but a gateway that dies between the
commit of SCANNED and `write_pending` leaves a row no pass looks at again, and it holds a
slot of the cap (`JobNotLost` needs `MaxCrashes = 0`); `app.py` 147-148 says
that every row a restart forgets is one "the next pass picks up", which is not so for a
row whose infected zip was unlinked before the crash (`HeldHasZip` needs
`MaxCrashes = 0`); a crash between the requeue marker and the unlink makes one death
count as two (`DiedTwice` likewise); after a push whose answer was lost, the retry is
refused because the survey exists or because there is nothing to commit, until someone
confirms an update or clears it by hand.

Of the edits: the guard that keeps the last survey (`app.py` 2332-2341) reads the local
checkout, so after a push that landed unnoticed and was rolled back locally, a second
retirement can empty origin (`NotEmptied` needs `lost = 0`); a rollback restores the
checkout byte for byte, but not what was read from it: the runner reads `survey.yaml` from
the working tree and knows of no lock (`gateway/runner/edit.py` 1186), so bytes computed
for a preview and again for its confirm while another edit is written and about to fail
agree, and the commit of one edit records another for which there is no commit; such a
trace of a removal of stations lets the same removal be recorded twice, which is why
`RecordedOnce` is about edits and batches; the patch writes today's date, so a preview
confirmed after midnight is refused as stale, which the model, with one day, does not show.

Of keys: a key can be overspent by one upload less than the in-flight cap admits
(`AllowanceBound` is tight), although the mail says that it "allows up to" its allowance
(`gateway/mailer.py` 68) and `db.py` 573-579 that two uploads cannot both spend the last
one, which is true of the statement and not of the check before it;
`stamp_uploader_key_used` says that a failure must never fail the submit, and its caller
has no `try`; a request for a key that began before midnight is counted on one day and
logged on the next, so a day's log may hold more than its cap.

Of releases: the comment "leave nothing half-cut behind" (`cut_release.py` 548-550) holds
for the errors it catches; a run that is killed, or finds the index unreadable after
release.json was written, leaves a directory that makes every later cut of the tag fail.

Of analytics: `ausmt-frontdoor-logs.timer` says that "what matters is that the last pull
before 03:35 has run" and that "the fold is idempotent, so a catch-up run cannot
double-count".  The fold is, but a pull that is still running after a roll, or was cut
off, leaves the new roll beside the old copy of the live file, with the same lines:
visits, API requests, hand-offs and bytes count twice.  A roll between the listing and the
copying leaves them in neither, and the day is folded without them for good.  `DayWhole`
without its condition fails both ways.  The fold may start as late as 04:05
(`RandomizedDelaySec`), beside the pull of 04:00.  The archive "cannot corrupt what is
already there" (`aggregate_stats.py` 1836); a line torn by a full disk takes the first row
of the next append with it, on one line that is no JSON.

A day is in the archive at most once only as long as `stats.json` can be read: after it could
not, the days of before that the logs still hold are there twice, and out of order.
`_coerce_prev` (992-995) owns up to the restart ("worst case, cumulative counts restart; the
daily tail re-accrues"), but not to what it does to a file that is never rewritten, of which
`append_daily_archive` says that the order of the two writes "is what makes a duplicate
impossible" (1837) and `deploy/README.md` 1098 promises "one line per day".  The same goes for
"re-runs never double-count" (54): the new figures count nothing twice, but a day that the
logs still have in part is folded in part, and the months of before are gone.  `CountsExact`
and `ArchivedOnce` therefore speak of the present `stats.json`, and `DayWhole` excepts the
fold that lost it.

Of serving: `reconcile.sh` 187-188 says that the prune "can never delete what is being
served", and a rollback that repoints between the prune's reading of `current` and its
`rm` makes it do so; `gateway/curatorpage.py` 4491-4493 speaks of "an already-verified
retained build", and the inventory lists any directory, one whose build failed included;
a rollback during a reconcile build is undone by the build's swap while its pin stands,
and the passes after it are held as pinned to a build that is not served; an agent that
dies between repoint and pin leaves a rollback which the next pass holds as "already
attempted" rather than by a pin.  All of these are behaviours of `Serve` with `torn`
set.  A `make rebuild-data` run by hand takes `reconcile.lock` but moves `current` under
a standing pin without a word; it is not modelled.

## 4. What is proved

`IngestProofs`, for every set of submissions, contents, caps and bounds:

| theorem | statement | needs |
|---|---|---|
| `Types` | `Spec => []TypeOK` | |
| `Capacity` | `Spec => []CapacityRespected` | |
| `NoDuplicates` | `Spec => []UniqueContent` | |
| `CleanQueued` | `Spec => []OnlyCleanQueued` | |
| `RowsMoveLegally` | `Spec => LegalMoves`: `Ingest` implements `Lifecycle` | |
| `ReviewedWhole` | `Spec => []ReviewedIsWhole` | `Stalls = FALSE` |
| `LiveJobsKept` | `Spec => LiveJobKept` | `Stalls = FALSE` |
| `JobsNotLost` | `Spec => []JobNotLost` | `MaxCrashes = 0` |
| `HeldHaveZip` | `Spec => []HeldHasZip` | `MaxCrashes = 0` |
| `DiedTwiceMeansTwice` | `Spec => []DiedTwice` | both |

The two hypotheses are not conveniences: `ingest_stall` is the counterexample without
the first, and the crash after SCANNED (section 3) without the second.  `TypeOK` of
`Ingest` and of `Publish` is proved, and therefore not among the properties of the runs.
`IngestAssumption` adds only that the set of ids is finite, that the cap is positive and
that the bounds are naturals.

The argument.  None of these is inductive as it stands.  Two facts carry the rest:

* `Ctl` says what is known while a coroutine is suspended or a stretch is cut: a row
  being scanned inline is in `scanning`, an owed effect belongs to a row in the state
  the first effect left it in, `rescan` and `sweep` hold a row nobody else moves.
* `SlotInv` says that `reserved` is the number of uploads under way, and that rows in
  flight together with uploads that have no row yet never exceed the cap.  The cap
  needs both: the code adds `count_inflight()` and `_reserved`, and between the insert
  and the answer an upload is counted in both, which is safe and never less.

On top of them: `Unique` (adds the promoted upload to the rows), `JobInv` (job files
only for rows past the scan), `Kept` (a claimed job's file exists and is young),
`Whole` (nothing can run again once a row is answered), `Zips`, `Deaths` (a marker
counts a death).  Each has an initial lemma, a lemma per action that touches it, and a
temporal step.

`PublishProofs`, for every set of submissions and slugs and every number of attempts
and of foreign commits:

| theorem | statement | needs |
|---|---|---|
| `Types` | `Spec => []TypeOK` | |
| `RowsMoveLegally` | `Spec => RowsMove` | |
| `PublishedAtOrigin` | `Spec => []AtOrigin` | |
| `OriginIsExact` | `Spec => []OriginExact` | |
| `NeverWedged` | `Spec => []NotWedged` | `MaxCrashes = 0`, `~RollbackFails` |
| `StaysOnTrack` | `Spec => []OnTrack` | the same |
| `PushOnlyOwn` | `Spec => PushesOwn` | the same |
| `ReplacedConfirmed` | `Spec => ReplacedOnlyConfirmed` | the same |

The first four hold across crashes and failing rollbacks.  `publish_ahead` is the
counterexample to `PushesOwn` with one crash; a rollback that fails leaves the checkout
where it stopped, which is what `NotWedged` and `OnTrack` deny.

The argument.  `Book`: a task stands for a row at PUBLISHING, so no second task of the
same row appears, and the lock's bookkeeping is inductive.  `Reached` follows the
submission of the task through tip, main and origin; a pull or a foreign push only
extends what it is in (`PrefixIn`, `AppendIn`).  `Exact`: the pre-flight finds a clean
tree and nobody else writes into it while the lock is held, so the commit holds what
was copied.  `Tracking`: what the checkout looks like at each command, and that the
captured ref stays a prefix of origin, so going back to it is always safe.
`Candidate`: a commit that origin lacks is the task's own, and was confirmed or finds
nothing of its survey below it; a pull between the check and the branch cannot bring the
survey in, because git refuses to overwrite the package being copied.  `OriginMoves`
lists what a step may do to origin, and the two action properties follow from it.

`KeysProofs`, for every set of uploads, keys, addresses and requests, and every allowance
and cap:

| theorem | statement | needs |
|---|---|---|
| `KeysRefineIngest` | `KSpec => Spec` of `Ingest` | |
| `KeysTypes` | `KSpec => []KTypeOK` | |
| `AllowanceIsBounded` | `KSpec => []AllowanceBound` | |
| `DailyCapsHold` | `KSpec => []DailyCaps` | |

The argument.  The first theorem makes every invariant of `IngestProofs` one of `Keys`,
and the other two need `SlotInv` of them.  `Account` is the account of one key, in two
halves, because a key is looked at before an upload is received and charged after its
row is written.  While submissions are left, the uploads accepted are paid for, or owed
by the handler between insert and charge (`Pending`), or counted in `slips`.  Once none
are left nobody new is let in, and whoever may still be accepted (`Beginning`) is in
flight beside the row whose charge was the last: at most `MaxInflight - 1` of them, by
`SlotInv`.  The bound is the sum, and it is reached.  `DayRows` counts, with the rows of
the current day, the uploads that may still come to it, since the check counts both.
`DayAsks` counts the requests logged on the day they began: a request that logs on the
same day found room for itself in the transaction that logs it, and one that began
earlier is not in the count.

`EditsProofs`, for every set of surveys, stations, changes and handlers and every number of
requests, foreign commits, lost answers and crashes:

| theorem | statement | needs |
|---|---|---|
| `Types` | `Spec => []TypeOK` | |
| `AnswersAreOwn` | `Spec => []OwnAnswer` | |
| `EditsAreRecordedOnce` | `Spec => []RecordedOnce` | |
| `RestIsClean` | `Spec => []CleanAtRest` | no gateway crash (in the property) |
| `RemovalsLeaveSome` | `Spec => []NotEmptied` | no lost answer (in the property) |
| `EditsImplementLedger` | `Spec => Implements`: `Edits` implements `Ledger` | |

`EditsAssumption` and `WantedAssumption` ask for finitely many surveys, at least one of
them and one station, names that differ, and changes of the form `Ledger!Orders`.

The argument.  `Book` is what all of them rest on.  It says which step a handler that
holds the lock, or waits for it, may be at (`Control`); that a number is drawn before it
is in a file (`Numbered`) and that the job, the result and the request of one number are
about one change (`Owned`), which is `OwnAnswer`; that a page names only surveys of its
change and records it there, and that whoever is past the confirm holds a page that was
shown (`Pages`); and which branch is checked out at which step (`Places`).  On top of
it:

* `Resting`: at the steps on `main` the tree is the head of `main`, which a
  rollback must restore;
* `OnceInv`: no notes *anywhere* record an edit or a batch twice: in pages, results,
  the runner's hands, the tree and every commit of every ref.  Less is not inductive,
  since any of these may become any other;
* `KeptInv` (`lost = 0`): the guards read the local checkout, so it must be alike to
  origin in what is retired and which stations are left.  Commits that origin has beyond
  `main` are foreign ones (`BehindOrigin`), which retire nothing, and the commits on a branch are all of the
  gateway (`OwnTip`), so a push of them is the removal that was guarded (`Removable`);
* `Working`: how far a commit has got.  A tree in which some of a page is written
  (`Partial`), a branch with some surveys of a batch committed (`Batched`), and, from the
  last command of the commit on, a branch that is one whole change from whichever commit
  `main` has (`Merging`);
* `Aheads`: what `main`, and the ref captured by the pre-flight, have beyond origin is cut
  into whole changes (`WholeFrom`), whatever crashes left there.  Cuts of one ref and of
  one more change join (`Cut`), a pull and a foreign push keep them.

`LedgerStep` then maps each step: a push to `Land`, a foreign commit to `Elsewhere`, a
rendered preview to `Show`, everything else to a stutter.  `Working` and `Aheads` were
checked by TLC on small instances before they were proved.

`ServeProofs`, `ReplicaProofs`, `ReleasesProofs`, for every set of changes, numbers of
builds kept, tags, publishes by hand, cuts and stops:

| theorem | statement | needs |
|---|---|---|
| `ServeProofs!Types` | `Spec => []TypeOK` of `Serve` | |
| `ServedIsWhole` | `Spec => []ServedWhole` | no torn rollback (in the property) |
| `PinIsHonoured` | `Spec => []PinHonoured` | the same |
| `EditsAreServed` | `Spec => []EditsServed` | |
| `ReplicaRefinesServe` | `RSpec => Spec` of `Serve` | |
| `ReplicaTypes` | `RSpec => []RTypeOK` | |
| `ReplicaIsWhole` | `RSpec => []ReplicaWhole` | |
| `RecordIsTrue` | `RSpec => []RecordTrue` | |
| `ReleasesRefineReplica` | `RelSpec => RSpec` of `Replica` | |
| `ReleasesTypes` | `RelSpec => []RelTypeOK` | |
| `ReleasesAreWhole` | `RelSpec => []ReleaseWhole` | |
| `DocumentsAgree` | `RelSpec => []DocsAgree` | |

The two refinements say that the compositions take nothing away from what is proved of
their parts: `ServedWhole`, `PinHonoured` and `EditsServed` hold under `RelSpec`, which is
where the run checks them.

The argument.  `ServedInv`: what a pass remembered as current still is when it prunes,
and what it swaps in was verified; a prune keeps it (`NewestKept`).  `PinInv`: a pass
past its reading of the pin knows whether there is one, and builds only if there is
none; the agent is between its two writes only while no pass has read.  `EditInv`: an
edit in the commit a verified build is labelled with, which the build did not read, was
undone before the build was verified, and is never made again, so that a head with the
edit in it is not taken for built.  `RInv`: what a receive swaps in arrived whole, and
between the swap and the record of the one receiver that holds the lock, nobody else
records.  `RelInv` has `Sourced` (what is said of a release names the build that was
copied and the run that did it), `Progress` (what the run under way has written so far)
and `Finished`, whose part about the newest older release is the reason for `late` and
for the number each run carries.

`StatsProofs`, for any traffic, every number of days, rolls kept, failures and kills, and
every size of the month and of the window:

| theorem | statement |
|---|---|
| `FilesInOrder` | `StatsSpec => []WholeInv` |
| `DaysWhole` | `StatsSpec => DayWhole` |
| `FiguresExact` | `StatsSpec => []CountsExact` |
| `DaysArchivedOnce` | `StatsSpec => []ArchivedOnce` |

The argument.  `WholeInv` follows the lines through the files: rolls and copies are runs
of the log that do not overlap (`Filed`), after a smooth pull the box has each line of the
days before it once (`Pulled`), and a sound fold has read, in order, what it no longer
lists (`Folding`).  `DaysWhole` is then a matter of what a fold reads when nothing is left
to read, and of the watermark, which no line counted is above (`Logged`).  A fold that lost
`stats.json` goes by another watermark (`Prev`, `OfPrev`), and yet ends no earlier than the
lost one stood, because a fold under way began on a day after it (`Folding`).

`CountsExact` is inductive once rows are known to hold numbers (`RowsTyped`), but one step
of it is a whole fold, a loop of any length, over the book that was read or over none
(`Based`: either is exact for the lines `Past`).  `Tallied` is the invariant of that loop: after
each line the rows state the sums of the figures of the lines so far, `seen` has the
downloads of the days under way with their class, and the sets of networks are those of the
lines.  `CountStep` is one round.  In it, `FigureGrows` says what one more line does to each
figure of its day, `AfterSay` what `Count` does to each row, and `SumGains` that the two
agree, also for a download that moves between the classes and changes two measures at once.
`ClosedRow` is the part after the loop, where sums, cardinalities and the peak of a month
are joined with those of the days before; no day of a run is a day of an earlier one.

`Archiving` strengthens `ArchivedOnce` with the rows on their way to the archive: they state
their figures too (`ArchiveRow`) and come after all that was archived since the present
`stats.json` began (`Recent`), because a fold writes only days above a watermark which is
above every day counted since then.  TLC checked `Archiving` and
`WholeInv` on the instance of the run before they were proved.

The loops need induction, and the induction theorems of the library take an operator as a
parameter.  `NatSetInduction` does without: it speaks of the *set* of numbers up to which a
claim holds, as a set comprehension, which covers a loop whose steps a recursive function
lists.  `TotalSteps` and `TallySteps` say that the two functions exist and are their steps.

Only model-checked:

* liveness (`EventuallyAnswered`, `EventuallyDecided`, `Converges`, `CatchesUp`), which
  is out of the prover's reach because it needs fairness and `ENABLED`;
* the properties of the violation runs, which are false.

## 5. What is not modelled, and the plan

* **Curator authentication.**  Every handler that reads and then consumes a one-time
  code or a session does so without an await in between (`app.py` 3149-3165, 3243,
  3397), so nothing interleaves; what remains is arithmetic on a clock and one
  statement of SQL.
* **Build cache.**  Entries are written aside and renamed, and verified when read.  A
  wrong hit would have to pass the digest gate, which `Serve` has as `Fresh`.
* **URL registry, station ids.**  Pure functions over text registries; what
  is interesting in them is strings.
* **Portal build, science code, format readers, pages, front end.**  A sequential batch
  of numerical and textual work: no concurrency, and no state that outlives it.  Only
  the order in which it reads the packages and the commit is in `Serve`.  These files
  are most of the repository's lines.
* **Monitoring, backup, update, provisioning.**  Host scripts that share nothing with
  what is modelled but the lock.
* Within modelled components: removals (`rm -rf`, `git rm`) are one step on the
  curation host, so an `rsync --delete` from a build half removed is not covered, nor
  are hosts without `flock`.

Of the plan, one module was not written: `Pipeline`, `Ingest` and `Publish` over one set
of rows, where what is published is what was reviewed.  The two meet in the row alone: a
row enters `Publish` at VALIDATED, `ReviewedIsWhole` says that its package is whole
for as long as it stays there if no job stalls, and both are shown to move rows as the
table allows.
