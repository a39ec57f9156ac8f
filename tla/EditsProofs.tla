----------------------------- MODULE EditsProofs -----------------------------
(***************************************************************************)
(* Proofs about Edits, for every set of surveys, stations, changes and      *)
(* handlers, every number of requests, commits of others, lost answers and  *)
(* crashes.                                                                 *)
(***************************************************************************)
EXTENDS Edits, SequenceTheorems, FiniteSetTheorems, TLAPS

-----------------------------------------------------------------------------
(* Types, closed under every step: pages are functions from surveys to notes, refs are
   sequences of commits, a job is asked for before it is anywhere. *)
Steps == {"idle", "preview", "confirm", "wait"} \cup InCommit
Bytes == UNION {[D -> Notes] : D \in SUBSET Slug}
Calls == [at : Steps, change : Change \cup {None}, page : Bytes, left : SUBSET Slug, job : Nat]
Jobs == [id : Nat, change : Change]
Works == [id : Nat, change : Change \cup {None}, left : SUBSET Slug, bytes : Bytes]
Results == [id : Nat, change : Change, ok : BOOLEAN, bytes : Bytes, fail : BOOLEAN]
Corpora == [Slug -> Contents]
Commits == [by : Change \cup {Outside}, corpus : Corpora]

Typed ==
  /\ order \in [Change -> Ledger!Orders]
  /\ shown \in [Change -> SUBSET Bytes]
  /\ call \in [Handler -> Calls]
  /\ lock \in Handler \cup {None} /\ asked \in Nat
  /\ pending \subseteq Jobs /\ done \subseteq Results /\ runner \in Works
  /\ head \in {"main", "change"} /\ tree \in Corpora
  /\ main \in Seq(Commits) /\ tip \in Seq(Commits)
  /\ pre \in Seq(Commits) /\ origin \in Seq(Commits)
  /\ remote \in Nat /\ lost \in Nat /\ crashes \in Nat

(* What a handler holds at each step of its request. *)
Holds(h) == \/ call[h].at \in InCommit
            \/ At(h, "confirm") /\ Kind(h) = "collection"
Begun == InCommit \ {"preflight"}

Steady(h) ==
  /\ At(h, "idle") => call[h] = Idle
  /\ ~At(h, "idle") => call[h].change \in Change
  /\ (lock = h) <=> Holds(h)
  /\ call[h].left \subseteq DOMAIN call[h].page
  /\ call[h].at \in Begun => pre # NoRef

Control ==
  /\ \A h \in Handler : Steady(h)
  /\ main # NoRef /\ origin # NoRef
  /\ head = "change" => tip # NoRef

(* A job has an id of its own, from 1 to asked. *)
Numbered ==
  /\ \A h \in Handler : ~At(h, "idle") => call[h].job \in 1..asked
  /\ \A j \in pending \cup done : j.id \in 1..asked
  /\ runner # NoJob => runner.id \in 1..asked /\ runner.change \in Change

Owned ==
  \A h \in Handler :
    /\ \A j \in pending \cup done \cup {runner} :
         j.id = call[h].job => j.change = call[h].change
    /\ \A g \in Handler : call[g].job = call[h].job => call[g].change = call[h].change

(* A page of a change is about surveys the change is about, and each survey on it
   records the change; a retirement has none.  Who goes on after a preview does so with a
   page that was shown, and commits only what is valid. *)
Partway(c, b) == DOMAIN b \subseteq order[c].on /\ \A s \in DOMAIN b : Records(b[s], c)
ShownWell == \A c \in Change : /\ order[c].kind = "retire" => shown[c] = {}
                               /\ \A p \in shown[c] : DOMAIN p # {} /\ Partway(c, p)
QueuedWell ==
  /\ \A j \in pending : order[j.change].kind # "retire"
  /\ \A r \in done : /\ r.fail <=> \E s \in DOMAIN r.bytes : Fails(r.bytes[s])
                     /\ Partway(r.change, r.bytes) /\ order[r.change].kind # "retire"
  /\ runner # NoJob => /\ order[runner.change].kind # "retire"
                       /\ Partway(runner.change, runner.bytes)
                       /\ runner.left \subseteq order[runner.change].on
Told(h) == IF Kind(h) = "retire" THEN call[h].page = <<>>
                                 ELSE call[h].page \in shown[call[h].change]
Settled(h) == \/ call[h].at \in InCommit \ {"preflight", "guard", "undo"}
              \/ call[h].at \in {"wait", "preflight", "guard"} /\ Kind(h) # "collection"
Informed(h) == /\ ~At(h, "idle") /\ ~At(h, "preview") => Told(h)
               /\ call[h].at \in {"preview", "confirm"} => Kind(h) # "retire"
               /\ Settled(h) => Order(h).valid
Pages == ShownWell /\ QueuedWell /\ \A h \in Handler : Informed(h)

(* Which branch is checked out, and what kind of change takes which steps. *)
InBranch(h) == \/ call[h].at \in {"rm", "commit", "main"}
               \/ (At(h, "write") /\ Kind(h) # "edit")
Placed(h) ==
  /\ InBranch(h) => head = "change"
  /\ \/ call[h].at \in {"guard", "branch", "merge", "push"}
     \/ At(h, "write") /\ Kind(h) = "edit"
     => head = "main"
  /\ At(h, "rm") => Kind(h) \in {"stations", "retire"}
  /\ At(h, "write") => Kind(h) # "retire"
  /\ At(h, "branch") /\ Kind(h) = "edit" => call[h].left = {}
  /\ At(h, "commit") /\ Kind(h) # "collection" => call[h].left = {}
Places == \A h \in Handler : Placed(h)

(* Where the checkout is clean. *)
OnMain(h) == call[h].at \in {"guard", "merge", "push"}
             \/ (Kind(h) = "edit" /\ At(h, "write"))
             \/ (Kind(h) # "edit" /\ At(h, "branch"))
Resting ==
  /\ \A h \in Handler : lock = h /\ OnMain(h) => CleanOnMain
  /\ \A h \in Handler : lock = h /\ call[h].at \in {"confirm", "preflight"} /\ crashes = 0
                          => CleanOnMain
  /\ lock = None /\ crashes = 0 => CleanOnMain

Singly(notes) == \A i, j \in 1..Len(notes) : ~Again(notes, i, j)
PageOnce(b) == \A s \in DOMAIN b : Singly(b[s])
CorpusOnce(corpus) == \A s \in Slug : corpus[s] # Gone => Singly(corpus[s].notes)
RefOnce(r) == \A i \in 1..Len(r) : CorpusOnce(r[i].corpus)

OnceInv ==
  /\ \A c \in Change : \A p \in shown[c] : PageOnce(p)
  /\ \A h \in Handler : PageOnce(call[h].page)
  /\ \A r \in done : PageOnce(r.bytes)
  /\ PageOnce(runner.bytes)
  /\ CorpusOnce(tree)
  /\ RefOnce(main) /\ RefOnce(tip) /\ RefOnce(pre) /\ RefOnce(origin)

(* Retirements and removals. *)
Fine(corpus) == /\ \E s \in Slug : corpus[s] # Gone
                /\ \A s \in Slug : corpus[s] # Gone => corpus[s].edis # {}
Alike(x, y) == \A s \in Slug : /\ (x[s] = Gone) <=> (y[s] = Gone)
                               /\ x[s] # Gone => x[s].edis = y[s].edis
FineRef(r) == r # NoRef => Fine(Last(r).corpus)
BehindOrigin(r) ==
  r # NoRef /\ Prefix(r, origin) =>
    /\ Alike(Last(r).corpus, Last(origin).corpus)
    /\ \A i \in Len(r)+1..Len(origin) : origin[i].by = Outside
Tipped(h) == InBranch(h) \/ At(h, "merge")
Above == \A i \in Len(main)+1..Len(tip) : tip[i].by \in Change
OwnTip == \A h \in Handler : lock = h /\ Tipped(h) => Above
Removable(h) ==
  /\ Kind(h) = "retire" => \E s \in Slug \ Order(h).on : tree[s] # Gone
  /\ Kind(h) = "stations" => \A s \in Order(h).on : tree[s] # Gone =>
                               tree[s].edis \ Order(h).drop # {}
FineRefs == FineRef(main) /\ FineRef(tip) /\ FineRef(pre) /\ FineRef(origin)
Behind == BehindOrigin(main) /\ BehindOrigin(pre)
Removing == \A h \in Handler : lock = h /\ call[h].at \in {"branch", "rm"} => Removable(h)
KeptInv == lost = 0 => Fine(tree) /\ FineRefs /\ Behind /\ Removing

(* Whole changes (Ledger!Lands and Ledger!WholeSince, of given orders and previews): what
   main has beyond the origin, and what a commit under way has made. *)
Landing(o, sh, x, y) ==
  \E c \in Change :
    /\ o[c].valid
    /\ \E p \in (IF o[c].kind = "retire" THEN {<<>>} ELSE sh[c]) :
         LET on == IF o[c].kind = "retire" THEN o[c].on ELSE DOMAIN p IN
         /\ \A s \in on : x[s] # Gone
         /\ y = [s \in Slug |->
                   IF s \notin on THEN x[s]
                   ELSE IF o[c].kind = "retire" THEN Gone
                   ELSE [notes |-> p[s], edis |-> x[s].edis \ o[c].drop]]
Cut(o, sh, r, cuts) ==
  /\ Len(r) \in cuts
  /\ \A i, j \in cuts : Ledger!Consecutive(i, j, cuts) => Landing(o, sh, r[i].corpus, r[j].corpus)
WholeFrom(o, sh, r, n) ==
  \E cuts \in SUBSET (n..Len(r)) : n \in cuts /\ Cut(o, sh, r, cuts)
AheadOf(o, sh, r, q) ==
  Prefix(q, r) => /\ WholeFrom(o, sh, r, Len(q))
                  /\ \A i \in Len(q)+1..Len(r) : r[i].by \in Change
Aheads ==
  /\ AheadOf(order, shown, main, origin)
  /\ pre # NoRef => AheadOf(order, shown, pre, origin) /\ Len(pre) <= Len(main)

(* x is y with page p written on the surveys of ss. *)
WrittenTo(p, x, y, ss) ==
  \A s \in Slug : IF s \in ss
                  THEN y[s] # Gone /\ x[s] = [notes |-> p[s], edis |-> y[s].edis]
                  ELSE x[s] = y[s]
Partial(p, x, y) == \E ss \in SUBSET (DOMAIN p) : WrittenTo(p, x, y, ss)

(* x is y without the files that are dropped. *)
Removed(on, drop, x, y) ==
  \A s \in Slug : IF s \in on
                  THEN y[s] # Gone /\ x[s] = [notes |-> y[s].notes, edis |-> y[s].edis \ drop]
                  ELSE x[s] = y[s]

(* A batch has written what it has not left, since commit b, which main has. *)
Batched(p, left, m, r, t) == \E b \in 1..Len(r) :
  /\ b <= Len(m)
  /\ \A k \in b..Len(r) : Partial(p, r[k].corpus, r[b].corpus)
  /\ WrittenTo(p, t, r[b].corpus, DOMAIN p \ left)

(* The change is whole, from whichever commit main has: what is merged. *)
Merging(o, sh, m, r) == \E b \in 1..Len(r) :
  /\ b <= Len(m)
  /\ \A k \in b..Len(r)-1 : Landing(o, sh, r[k].corpus, Last(r).corpus)

Work(h) ==
  /\ At(h, "branch") /\ Kind(h) = "edit" => Partial(call[h].page, tree, Last(main).corpus)
  /\ At(h, "branch") /\ Kind(h) = "collection" => call[h].left = DOMAIN call[h].page
  /\ At(h, "rm") => tree = Last(tip).corpus
  /\ At(h, "write") /\ Kind(h) = "stations"
        => Removed(Order(h).on, Order(h).drop, tree, Last(tip).corpus)
  /\ At(h, "commit") /\ Kind(h) # "collection" /\ tree # Last(tip).corpus
        => Landing(order, shown, Last(tip).corpus, tree)
  /\ InBranch(h) /\ ~At(h, "main") /\ Kind(h) # "collection" => Len(tip) <= Len(main)
  /\ call[h].at \in {"write", "commit"} /\ Kind(h) = "collection"
        => Batched(call[h].page, call[h].left, main, tip, tree)
  /\ call[h].at \in {"main", "merge"} => Merging(order, shown, main, tip)
Working == \A h \in Handler : lock = h => Work(h)

-----------------------------------------------------------------------------
(* Pages, surveys and refs. *)

LEMMA EmptyPage == <<>> \in Bytes /\ DOMAIN <<>> = {}
<1>1. <<>> = [s \in {} |-> s]  OBVIOUS
<1>2. [s \in {} |-> s] \in [{} -> Notes]  OBVIOUS
<1>3. {} \in SUBSET Slug  OBVIOUS
<1> QED BY <1>1, <1>2, <1>3 DEF Bytes

LEMMA PageType ==
  ASSUME NEW p \in Bytes
  PROVE  /\ DOMAIN p \subseteq Slug
         /\ \A s \in DOMAIN p : p[s] \in Notes
BY DEF Bytes

LEMMA PageIn ==
  ASSUME NEW D \in SUBSET Slug, NEW p \in [D -> Notes]
  PROVE  p \in Bytes
BY DEF Bytes

LEMMA SurveyType ==
  /\ \A x \in Contents : x # Gone => x.notes \in Notes /\ x.edis \in SUBSET Station
  /\ \A n \in Notes, e \in SUBSET Station : [notes |-> n, edis |-> e] \in Contents
  /\ Gone \in Contents
BY DEF Contents

(* A survey with other notes, or without some of its files. *)
LEMMA SurveyExcept ==
  ASSUME NEW x \in Contents, x # Gone, NEW n, NEW e
  PROVE  /\ [x EXCEPT !.notes = n] = [notes |-> n, edis |-> x.edis]
         /\ [x EXCEPT !.edis = e] = [notes |-> x.notes, edis |-> e]
BY DEF Contents

LEMMA LastType ==
  ASSUME NEW r \in Seq(Commits), r # NoRef
  PROVE  /\ Len(r) \in Nat \ {0} /\ Last(r) \in Commits /\ Last(r).corpus \in Corpora
         /\ Last(r) = r[Len(r)]
<1>1. Len(r) \in Nat \ {0}  BY EmptySeq DEF NoRef
<1>2. r[Len(r)] \in Commits  BY <1>1, ElementOfSeq
<1>3. \A e \in Commits : e.corpus \in Corpora  BY DEF Commits
<1> QED BY <1>1, <1>2, <1>3 DEF Last

LEMMA EntryType ==
  ASSUME NEW r \in Seq(Commits), NEW i \in 1..Len(r)
  PROVE  r[i] \in Commits /\ r[i].corpus \in Corpora /\ r[i].by \in Change \cup {Outside}
<1>1. r[i] \in Commits  BY ElementOfSeq
<1>2. \A e \in Commits : e.corpus \in Corpora /\ e.by \in Change \cup {Outside}  BY DEF Commits
<1> QED BY <1>1, <1>2

LEMMA CommitType ==
  ASSUME NEW c \in Change \cup {Outside}, NEW t \in Corpora
  PROVE  Commit(c, t) \in Commits /\ Commit(c, t).by = c /\ Commit(c, t).corpus = t
BY DEF Commit, Commits

LEMMA AppendRef ==
  ASSUME NEW r \in Seq(Commits), NEW e \in Commits
  PROVE  /\ Append(r, e) \in Seq(Commits) /\ Append(r, e) # NoRef
         /\ Len(Append(r, e)) = Len(r) + 1 /\ Last(Append(r, e)) = e
         /\ \A i \in 1..Len(r) : Append(r, e)[i] = r[i]
BY AppendProperties DEF NoRef, Last

LEMMA NoRefType == NoRef \in Seq(Commits) /\ Len(NoRef) = 0
BY DEF NoRef

-----------------------------------------------------------------------------
(* What a step of a request does to call. *)

LEMMA NoneApart == None \notin Handler /\ None \notin Change /\ None \notin Slug
BY EditsAssumption

LEMMA IdleType == Idle \in Calls
BY EmptyPage DEF Idle, Calls, Steps

LEMMA SetCall ==
  ASSUME NEW f \in [Handler -> Calls], NEW h \in Handler, NEW c \in Calls, NEW g,
         g = [f EXCEPT ![h] = c]
  PROVE  /\ g \in [Handler -> Calls] /\ g[h] = c
         /\ \A k \in Handler : k # h => g[k] = f[k]
OBVIOUS

LEMMA SetAt ==
  ASSUME NEW f \in [Handler -> Calls], NEW h \in Handler, NEW x \in Steps, NEW g,
         g = [f EXCEPT ![h].at = x]
  PROVE  /\ g \in [Handler -> Calls]
         /\ g[h].at = x /\ g[h].change = f[h].change /\ g[h].page = f[h].page
         /\ g[h].left = f[h].left /\ g[h].job = f[h].job
         /\ \A k \in Handler : k # h => g[k] = f[k]
<1> DEFINE c == [at |-> x, change |-> f[h].change, page |-> f[h].page, left |-> f[h].left,
                 job |-> f[h].job]
<1>1. f[h] \in Calls  OBVIOUS
<1>2. [f[h] EXCEPT !.at = x] = c  BY <1>1 DEF Calls
<1>3. c \in Calls  BY <1>1 DEF Calls
<1>4. g = [f EXCEPT ![h] = c]  BY <1>2
<1>5. /\ c.at = x /\ c.change = f[h].change /\ c.page = f[h].page
      /\ c.left = f[h].left /\ c.job = f[h].job
  OBVIOUS
<1> HIDE DEF c
<1>6. /\ g \in [Handler -> Calls] /\ g[h] = c
      /\ \A k \in Handler : k # h => g[k] = f[k]
  BY <1>3, <1>4
<1> QED BY <1>5, <1>6

LEMMA CallExcept ==
  ASSUME NEW c \in Calls, NEW x
  PROVE  /\ \A p : [[c EXCEPT !.at = x] EXCEPT !.page = p]
                   = [at |-> x, change |-> c.change, page |-> p, left |-> c.left, job |-> c.job]
         /\ \A l : [[c EXCEPT !.at = x] EXCEPT !.left = l]
                   = [at |-> x, change |-> c.change, page |-> c.page, left |-> l, job |-> c.job]
<1> DEFINE d == [at |-> x, change |-> c.change, page |-> c.page, left |-> c.left, job |-> c.job]
<1>1. [c EXCEPT !.at = x] = d  BY DEF Calls
<1>2. ASSUME NEW p
      PROVE  [d EXCEPT !.page = p]
             = [at |-> x, change |-> c.change, page |-> p, left |-> c.left, job |-> c.job]
  OBVIOUS
<1>3. ASSUME NEW l
      PROVE  [d EXCEPT !.left = l]
             = [at |-> x, change |-> c.change, page |-> c.page, left |-> l, job |-> c.job]
  OBVIOUS
<1> QED BY <1>1, <1>2, <1>3

(* A new request, one that goes on, one that is over. *)
LEMMA BeginCall ==
  ASSUME Typed, NEW h \in Handler, NEW x \in Steps, NEW c \in Change, NEW p \in Bytes,
         Begin(h, x, c, p)
  PROVE  /\ call' \in [Handler -> Calls] /\ asked' = asked + 1 /\ asked' \in Nat
         /\ At(h, "idle")
         /\ call'[h].at = x /\ call'[h].change = c /\ call'[h].page = p
         /\ call'[h].left = {} /\ call'[h].job = asked + 1
         /\ \A k \in Handler : k # h => call'[k] = call[k]
<1> DEFINE d == [at |-> x, change |-> c, page |-> p, left |-> {}, job |-> JobId(h)]
<1>1. asked \in Nat /\ call \in [Handler -> Calls]  BY DEF Typed
<1>2. call' = [call EXCEPT ![h] = d] /\ asked' = asked + 1 /\ At(h, "idle")  BY DEF Begin
<1>3. d \in Calls  BY <1>1 DEF Calls, JobId
<1>4. d.at = x /\ d.change = c /\ d.page = p /\ d.left = {} /\ d.job = asked + 1  BY DEF JobId
<1> HIDE DEF d
<1> QED BY <1>1, <1>2, <1>3, <1>4

LEMMA GoCall ==
  ASSUME Typed, NEW h \in Handler, NEW x \in Steps, Go(h, x)
  PROVE  /\ call' \in [Handler -> Calls] /\ lock' = lock
         /\ call'[h].at = x /\ call'[h].change = call[h].change
         /\ call'[h].page = call[h].page /\ call'[h].left = call[h].left
         /\ call'[h].job = call[h].job
         /\ \A k \in Handler : k # h => call'[k] = call[k]
<1>1. call \in [Handler -> Calls]  BY DEF Typed
<1>2. call' = [call EXCEPT ![h].at = x] /\ lock' = lock  BY DEF Go
<1> QED BY <1>1, <1>2, SetAt

LEMMA EndCall ==
  ASSUME Typed, NEW h \in Handler, End(h)
  PROVE  /\ call' \in [Handler -> Calls] /\ call'[h] = Idle
         /\ \A k \in Handler : k # h => call'[k] = call[k]
         /\ lock' \in Handler \cup {None} /\ lock' # h
         /\ \A k \in Handler : k # h => (lock' = k <=> lock = k)
         /\ lock = h => lock' = None
         /\ lock # h => lock' = lock
<1>1. call \in [Handler -> Calls] /\ lock \in Handler \cup {None}  BY DEF Typed
<1>2. /\ call' \in [Handler -> Calls] /\ call'[h] = Idle
      /\ \A k \in Handler : k # h => call'[k] = call[k]
  BY <1>1, IdleType, SetCall DEF End
<1> QED BY <1>1, <1>2, NoneApart DEF End

LEMMA IdleFields ==
  /\ Idle.at = "idle" /\ Idle.change = None /\ Idle.page = <<>> /\ Idle.left = {}
  /\ Idle.job = 0
BY DEF Idle

(* A request that goes on to step x, with page p and surveys l left to write. *)
Moves(h, x, p, l) ==
  /\ call' \in [Handler -> Calls]
  /\ call'[h].at = x /\ call'[h].change = call[h].change
  /\ call'[h].page = p /\ call'[h].left = l /\ call'[h].job = call[h].job
  /\ \A k \in Handler : k # h => call'[k] = call[k]

LEMMA ToMoves ==
  ASSUME call \in [Handler -> Calls], NEW h \in Handler, NEW x \in Steps, NEW p \in Bytes,
         NEW l \in SUBSET Slug,
         call' = [call EXCEPT ![h] = [at |-> x, change |-> call[h].change, page |-> p, left |-> l,
                                      job |-> call[h].job]]
  PROVE  Moves(h, x, p, l)
<1> DEFINE d == [at |-> x, change |-> call[h].change, page |-> p, left |-> l, job |-> call[h].job]
<1>1. d \in Calls  BY DEF Calls
<1>2. /\ d.at = x /\ d.change = call[h].change /\ d.page = p /\ d.left = l
      /\ d.job = call[h].job
  OBVIOUS
<1>3. call' = [call EXCEPT ![h] = d]  OBVIOUS
<1> HIDE DEF d
<1> QED BY <1>1, <1>2, <1>3 DEF Moves

LEMMA StepCall ==
  ASSUME Typed, NEW h \in Handler, NEW at, NEW x \in Steps, Step(h, at, x)
  PROVE  lock = h /\ At(h, at) /\ lock' = lock /\ Moves(h, x, call[h].page, call[h].left)
<1>1. lock = h /\ At(h, at) /\ Go(h, x)  BY DEF Step
<1> QED BY <1>1, GoCall DEF Moves

LEMMA AcquireCall ==
  ASSUME Typed, NEW h \in Handler, Acquire(h)
  PROVE  /\ At(h, "wait") /\ lock = None /\ lock' = h
         /\ Kind(h) = "collection" => Moves(h, "confirm", call[h].page, call[h].left)
         /\ Kind(h) # "collection" => Moves(h, "preflight", call[h].page, call[h].left)
<1>1. call \in [Handler -> Calls]  BY DEF Typed
<1>2. At(h, "wait") /\ lock = None /\ lock' = h  BY DEF Acquire
<1>3. ASSUME NEW x \in {"confirm", "preflight"}, call' = [call EXCEPT ![h].at = x]
      PROVE  Moves(h, x, call[h].page, call[h].left)
  <2>1. x \in Steps  BY DEF Steps, InCommit
  <2> QED BY <1>1, <1>3, <2>1, SetAt DEF Moves
<1> QED BY <1>2, <1>3 DEF Acquire, Kind

LEMMA AnsweredCall ==
  ASSUME Typed, NEW h \in Handler, Answered(h)
  PROVE  \E r \in Result(h) :
           /\ r \in Results /\ done' = done \ {r}
           /\ \/ /\ Confirmed(h, r) /\ lock' = lock
                 /\ Moves(h, IF lock = h THEN "preflight" ELSE "wait", call[h].page, call[h].left)
              \/ ~Confirmed(h, r) /\ End(h)
<1>1. PICK r \in Result(h) :
        /\ done' = done \ {r}
        /\ IF Confirmed(h, r)
           THEN /\ call' = [call EXCEPT ![h].at = IF lock = h THEN "preflight" ELSE "wait",
                                        ![h].page = r.bytes]
                /\ UNCHANGED lock
           ELSE End(h)
  BY DEF Answered
<1>2. call \in [Handler -> Calls] /\ r \in Results  BY DEF Typed, Result
<1>3. CASE Confirmed(h, r)
  <2> DEFINE x == IF lock = h THEN "preflight" ELSE "wait"
  <2>1. /\ call' = [call EXCEPT ![h] = [[call[h] EXCEPT !.at = x] EXCEPT !.page = r.bytes]]
        /\ lock' = lock
    BY <1>1, <1>2, <1>3
  <2>2. x \in Steps  BY DEF Steps, InCommit
  <2>3. r.bytes \in Bytes  BY <1>2 DEF Results
  <2>4. r.bytes = call[h].page  BY <1>3 DEF Confirmed
  <2> HIDE DEF x
  <2>5. call[h] \in Calls /\ call[h].left \in SUBSET Slug  BY <1>2 DEF Calls
  <2>6. call' = [call EXCEPT ![h] = [at |-> x, change |-> call[h].change, page |-> r.bytes,
                                     left |-> call[h].left, job |-> call[h].job]]
    BY <2>1, <2>5, CallExcept
  <2>7. Moves(h, x, call[h].page, call[h].left)
    BY <1>2, <2>2, <2>3, <2>4, <2>5, <2>6, ToMoves
  <2> QED BY <1>1, <1>2, <1>3, <2>1, <2>7 DEF x
<1>4. CASE ~Confirmed(h, r)  BY <1>1, <1>2, <1>4
<1> QED BY <1>3, <1>4

LEMMA GuardedCall ==
  ASSUME Typed, NEW h \in Handler, Guarded(h)
  PROVE  /\ lock = h /\ At(h, "guard") /\ Guard(h) /\ lock' = lock
         /\ Moves(h, IF Kind(h) = "edit" THEN "write" ELSE "branch", call[h].page,
                  DOMAIN call[h].page)
<1> DEFINE x == IF Kind(h) = "edit" THEN "write" ELSE "branch"
           l == DOMAIN call[h].page
<1>1. x \in Steps  BY DEF Steps, InCommit
<1>2. call \in [Handler -> Calls]  BY DEF Typed
<1>3. l \in SUBSET Slug  BY <1>2, PageType DEF Calls
<1>4. call' = [call EXCEPT ![h] = [[call[h] EXCEPT !.at = x] EXCEPT !.left = l]]
  BY <1>2 DEF Guarded
<1>5. lock = h /\ At(h, "guard") /\ Guard(h) /\ lock' = lock  BY DEF Guarded
<1> HIDE DEF x, l
<1>6. call[h] \in Calls /\ call[h].page \in Bytes  BY <1>2 DEF Calls
<1>7. call' = [call EXCEPT ![h] = [at |-> x, change |-> call[h].change, page |-> call[h].page,
                                   left |-> l, job |-> call[h].job]]
  BY <1>4, <1>6, CallExcept
<1>8. Moves(h, x, call[h].page, l)  BY <1>1, <1>2, <1>3, <1>6, <1>7, ToMoves
<1> QED BY <1>5, <1>8 DEF x, l

LEMMA WriteCall ==
  ASSUME Typed, Control, NEW h \in Handler, Write(h)
  PROVE  /\ lock = h /\ At(h, "write") /\ lock' = lock
         /\ \E s \in call[h].left :
              /\ s \in Slug /\ s \in DOMAIN call[h].page /\ tree[s] # Gone
              /\ [notes |-> call[h].page[s], edis |-> tree[s].edis] \in Contents
              /\ tree' = [tree EXCEPT ![s] = [notes |-> call[h].page[s], edis |-> tree[s].edis]]
              /\ Moves(h, IF Kind(h) = "edit" THEN "branch" ELSE "commit", call[h].page,
                       call[h].left \ {s})
<1>1. PICK s \in call[h].left :
        /\ tree[s] # Gone
        /\ tree' = [tree EXCEPT ![s].notes = Written(h, s)]
        /\ call' = [call EXCEPT ![h].at = IF Kind(h) = "edit" THEN "branch" ELSE "commit",
                                ![h].left = @ \ {s}]
  BY DEF Write
<1>2. call \in [Handler -> Calls]  BY DEF Typed
<1>3. s \in Slug /\ s \in DOMAIN call[h].page /\ call[h].page \in Bytes
  BY <1>1, <1>2 DEF Calls, Control, Steady
<1>4. /\ tree' = [tree EXCEPT ![s] = [notes |-> Written(h, s), edis |-> tree[s].edis]]
      /\ [notes |-> Written(h, s), edis |-> tree[s].edis] \in Contents
  <2>1. tree[s] \in Contents  BY <1>3 DEF Typed, Corpora
  <2>2. Written(h, s) \in Notes  BY <1>3, PageType DEF Written
  <2> QED BY <1>1, <2>1, <2>2, SurveyType, SurveyExcept
<1>5. Moves(h, IF Kind(h) = "edit" THEN "branch" ELSE "commit", call[h].page, call[h].left \ {s})
  <2> DEFINE x == IF Kind(h) = "edit" THEN "branch" ELSE "commit"
             l == call[h].left \ {s}
  <2>1. x \in Steps  BY DEF Steps, InCommit
  <2>2. l \in SUBSET Slug  BY <1>2 DEF Calls
  <2>3. call' = [call EXCEPT ![h] = [[call[h] EXCEPT !.at = x] EXCEPT !.left = l]]
    BY <1>1, <1>2
  <2> HIDE DEF x, l
  <2>4. call[h] \in Calls /\ call[h].page \in Bytes  BY <1>2 DEF Calls
  <2>5. call' = [call EXCEPT ![h] = [at |-> x, change |-> call[h].change, page |-> call[h].page,
                                     left |-> l, job |-> call[h].job]]
    BY <2>3, <2>4, CallExcept
  <2>6. Moves(h, x, call[h].page, l)  BY <1>2, <2>1, <2>2, <2>4, <2>5, ToMoves
  <2> QED BY <2>6 DEF x, l
<1>6. lock = h /\ At(h, "write") /\ lock' = lock  BY DEF Write
<1> QED BY <1>1, <1>3, <1>4, <1>5, <1>6 DEF Written

(* What waits in the queue after a request is added. *)
LEMMA EnqueueTypes ==
  ASSUME Typed, NEW h \in Handler, NEW c \in Change, call'[h].job \in Nat, Enqueue(h, c)
  PROVE  /\ pending' \subseteq Jobs /\ done' \subseteq done
         /\ \A j \in pending' : j \in pending \/ (j.id = call'[h].job /\ j.change = c)
<1> DEFINE new == [id |-> call'[h].job, change |-> c]
<1>1. new \in Jobs /\ new.id = call'[h].job /\ new.change = c  BY DEF Jobs
<1>2. PICK old \in {{}, Stale} : /\ pending' = (pending \ old) \cup {new}
                                 /\ done' = done \ old
  BY DEF Enqueue
<1>3. pending \subseteq Jobs  BY DEF Typed
<1> HIDE DEF new
<1> QED BY <1>1, <1>2, <1>3

LEMMA NoJobType ==
  /\ NoJob \in Works
  /\ NoJob.id = 0 /\ NoJob.change = None /\ NoJob.left = {} /\ NoJob.bytes = <<>>
BY EmptyPage DEF NoJob, Works

(* A survey is added to the bytes computed. *)
LEMMA ComputeType ==
  ASSUME Typed, NEW s \in Slug, Compute(s), runner.change \in Change
  PROVE  /\ runner' \in Works /\ runner'.id = runner.id /\ runner'.change = runner.change
         /\ runner'.left = runner.left \ {s}
         /\ \/ runner'.bytes = runner.bytes
            \/ /\ ~Unchanged(runner.change, s) /\ DOMAIN runner'.bytes = DOMAIN runner.bytes \cup {s}
               /\ runner'.bytes[s] = Append(tree[s].notes, runner.change)
               /\ \A t \in DOMAIN runner.bytes : t # s => runner'.bytes[t] = runner.bytes[t]
         /\ s \in runner.left /\ ~Refused(runner.change, s)
<1> DEFINE old == runner.bytes
           D == DOMAIN old \cup {s}
           new == [t \in D |-> IF t = s THEN Append(tree[s].notes, runner.change) ELSE old[t]]
           b == IF Unchanged(runner.change, s) THEN old ELSE new
           w == [id |-> runner.id, change |-> runner.change, left |-> runner.left, bytes |-> old]
           w1 == [id |-> runner.id, change |-> runner.change, left |-> runner.left \ {s},
                  bytes |-> old]
           w2 == [id |-> runner.id, change |-> runner.change, left |-> runner.left \ {s},
                  bytes |-> b]
<1>1. /\ s \in runner.left /\ ~Refused(runner.change, s)
      /\ runner' = [runner EXCEPT !.left = @ \ {s}, !.bytes = b]
  BY DEF Compute
<1>2. runner \in Works /\ runner = w /\ old \in Bytes /\ runner.left \in SUBSET Slug
      /\ runner.id \in Nat
  BY DEF Typed, Works
<1>3. tree[s] \in Contents /\ tree[s] # Gone  BY <1>1 DEF Typed, Corpora, Refused
<1>4. Append(tree[s].notes, runner.change) \in Notes
  BY <1>3, SurveyType, AppendProperties DEF Notes
<1>5. new \in Bytes
  <2>1. DOMAIN old \subseteq Slug /\ \A t \in DOMAIN old : old[t] \in Notes  BY <1>2, PageType
  <2>2. new \in [D -> Notes]  BY <1>4, <2>1
  <2> QED BY <2>1, <2>2, PageIn
<1>6. b \in Bytes  BY <1>2, <1>5
<1>7. runner' = w2
  <2>1. \A v : [w EXCEPT !.left = v] = [id |-> runner.id, change |-> runner.change, left |-> v,
                                        bytes |-> old]
    OBVIOUS
  <2>2. [w EXCEPT !.left = runner.left \ {s}] = w1  BY <2>1
  <2>3. \A v : [w1 EXCEPT !.bytes = v] = [id |-> runner.id, change |-> runner.change,
                                          left |-> runner.left \ {s}, bytes |-> v]
    OBVIOUS
  <2>4. [w1 EXCEPT !.bytes = b] = w2  BY <2>3
  <2>5. runner' = [[runner EXCEPT !.left = runner.left \ {s}] EXCEPT !.bytes = b]
    BY <1>1, Zenon
  <2> HIDE DEF w, w1, w2, b
  <2> QED BY <1>2, <2>2, <2>4, <2>5
<1>8. /\ w2 \in Works /\ w2.id = runner.id /\ w2.change = runner.change
      /\ w2.left = runner.left \ {s} /\ w2.bytes = b
  <2> HIDE DEF b
  <2> QED BY <1>2, <1>6 DEF Works
<1>9. \/ b = old
      \/ /\ ~Unchanged(runner.change, s) /\ DOMAIN b = D
         /\ b[s] = Append(tree[s].notes, runner.change)
         /\ \A t \in DOMAIN old : t # s => b[t] = old[t]
  OBVIOUS
<1> HIDE DEF b, w2, new
<1> QED BY <1>1, <1>7, <1>8, <1>9

Book == Typed /\ Control /\ Numbered /\ Owned /\ Pages /\ Places

LEMMA PairType == ASSUME NEW r \in Results PROVE r.bytes \in Bytes /\ r.change \in Change
BY DEF Results

LEMMA InitTyped == Init => Typed
<1> SUFFICES ASSUME Init PROVE Typed
  OBVIOUS
<1>1. order \in [Change -> Ledger!Orders]  BY WantedAssumption DEF Init
<1>2. shown \in [Change -> SUBSET Bytes]
  <2>1. PICK open \in SUBSET {c \in Change : order[c].kind # "retire"} :
          shown = [c \in Change |-> IF c \in open THEN {[s \in order[c].on |-> <<c>>]} ELSE {}]
    BY DEF Init, Ledger!FirstPages
  <2>2. ASSUME NEW c \in Change  PROVE [s \in order[c].on |-> <<c>>] \in Bytes
    <3>1. order[c].on \in SUBSET Slug  BY <1>1 DEF Ledger!Orders
    <3>2. <<c>> \in Notes  BY DEF Notes
    <3>3. [s \in order[c].on |-> <<c>>] \in [order[c].on -> Notes]  BY <3>2
    <3> QED BY <3>1, <3>3, PageIn
  <2> QED BY <2>1, <2>2
<1>3. call \in [Handler -> Calls]  BY IdleType DEF Init
<1>4. tree \in Corpora
  <2>1. Ledger!New \in Contents
    <3>1. <<>> \in Notes  BY DEF Notes
    <3> QED BY <3>1, SurveyType DEF Ledger!New
  <2> QED BY <2>1 DEF Init, Corpora
<1>5. main \in Seq(Commits) /\ origin \in Seq(Commits)
  <2>1. Commit(Outside, tree) \in Commits  BY <1>4, CommitType
  <2> QED BY <2>1 DEF Init
<1> QED BY <1>1, <1>2, <1>3, <1>4, <1>5, NoJobType, NoRefType DEF Init, Typed

LEMMA TypedStep == Book /\ [Next]_vars => Typed'
<1> SUFFICES ASSUME Book, [Next]_vars PROVE Typed'
  OBVIOUS
<1> USE DEF git, queue, faults
<1>0. Typed /\ Control /\ Numbered  BY DEF Book
<1>1. ASSUME NEW h \in Handler, NEW c \in Change, Preview(h, c)  PROVE Typed'
  <2>1. Begin(h, "preview", c, <<>>) /\ Enqueue(h, c)  BY <1>1 DEF Preview
  <2>2. "preview" \in Steps  BY DEF Steps
  <2>3. call' \in [Handler -> Calls] /\ asked' \in Nat /\ call'[h].job \in Nat
    BY <1>0, <2>1, <2>2, BeginCall, EmptyPage DEF Calls
  <2>4. pending' \subseteq Jobs /\ done' \subseteq done  BY <1>0, <2>1, <2>3, EnqueueTypes
  <2> QED BY <1>0, <1>1, <2>3, <2>4 DEF Preview, Typed
<1>2. ASSUME NEW h \in Handler, NEW c \in Change, NEW p \in shown[c], Confirm(h, c, p)
      PROVE  Typed'
  <2>1. Begin(h, "confirm", c, p) /\ Enqueue(h, c)  BY <1>2 DEF Confirm
  <2>2. "confirm" \in Steps /\ p \in Bytes  BY <1>0 DEF Steps, Typed
  <2>3. call' \in [Handler -> Calls] /\ asked' \in Nat /\ call'[h].job \in Nat
    BY <1>0, <2>1, <2>2, BeginCall DEF Calls
  <2>4. pending' \subseteq Jobs /\ done' \subseteq done  BY <1>0, <2>1, <2>3, EnqueueTypes
  <2> QED BY <1>0, <1>2, <2>3, <2>4 DEF Confirm, Typed
<1>3. ASSUME NEW h \in Handler, NEW c \in Change, NEW p \in shown[c], ConfirmBatch(h, c, p)
      PROVE  Typed'
  <2>1. Begin(h, "wait", c, p)  BY <1>3 DEF ConfirmBatch
  <2>2. "wait" \in Steps /\ p \in Bytes  BY <1>0 DEF Steps, Typed
  <2>3. call' \in [Handler -> Calls] /\ asked' \in Nat  BY <1>0, <2>1, <2>2, BeginCall
  <2> QED BY <1>0, <1>3, <2>3 DEF ConfirmBatch, Typed
<1>4. ASSUME NEW h \in Handler, NEW c \in Change, Retire(h, c)  PROVE Typed'
  <2>1. Begin(h, "wait", c, <<>>)  BY <1>4 DEF Retire
  <2>2. "wait" \in Steps  BY DEF Steps
  <2>3. call' \in [Handler -> Calls] /\ asked' \in Nat  BY <1>0, <2>1, <2>2, BeginCall, EmptyPage
  <2> QED BY <1>0, <1>4, <2>3 DEF Retire, Typed
<1>5. ASSUME NEW h \in Handler, Acquire(h)  PROVE Typed'
  <2>1. call' \in [Handler -> Calls] /\ lock' = h  BY <1>0, <1>5, AcquireCall DEF Moves
  <2>2. call[h].change \in Change  BY <1>0, <1>5 DEF Acquire, At, Control, Steady
  <2>3. pending' \subseteq Jobs /\ done' \subseteq Results
    <3>1. call'[h].job \in Nat  BY <2>1 DEF Calls
    <3>2. CASE Enqueue(h, call[h].change)
      BY <1>0, <2>2, <3>1, <3>2, EnqueueTypes DEF Typed
    <3>3. CASE UNCHANGED queue  BY <1>0, <3>3 DEF Typed
    <3> QED BY <1>5, <3>2, <3>3 DEF Acquire
  <2> QED BY <1>0, <1>5, <2>1, <2>3 DEF Acquire, Typed
<1>6. ASSUME NEW h \in Handler, Shown(h)  PROVE Typed'
  <2>1. PICK r \in Result(h) :
          /\ done' = done \ {r}
          /\ shown' = IF r.ok /\ DOMAIN r.bytes # {}
                      THEN [shown EXCEPT ![call[h].change] = @ \cup {r.bytes}] ELSE shown
    BY <1>6 DEF Shown
  <2>2. r.bytes \in Bytes  BY <1>0, <2>1, PairType DEF Result, Typed
  <2>3. shown' \in [Change -> SUBSET Bytes]  BY <1>0, <2>1, <2>2 DEF Typed
  <2>4. call' \in [Handler -> Calls] /\ lock' \in Handler \cup {None}
    BY <1>0, <1>6, EndCall DEF Shown
  <2> QED BY <1>0, <1>6, <2>1, <2>3, <2>4 DEF Shown, Typed
<1>7. ASSUME NEW h \in Handler, Answered(h)  PROVE Typed'
  <2>1. PICK r \in Result(h) :
          /\ done' = done \ {r}
          /\ \/ /\ lock' = lock
                /\ Moves(h, IF lock = h THEN "preflight" ELSE "wait", call[h].page, call[h].left)
             \/ End(h)
    BY <1>0, <1>7, AnsweredCall
  <2>2. call' \in [Handler -> Calls] /\ lock' \in Handler \cup {None}
    BY <1>0, <2>1, EndCall DEF Moves, Typed
  <2> QED BY <1>0, <1>7, <2>1, <2>2 DEF Answered, Typed
<1>8. ASSUME NEW h \in Handler, Timeout(h)  PROVE Typed'
  <2>1. call' \in [Handler -> Calls] /\ lock' \in Handler \cup {None}
    BY <1>0, <1>8, EndCall DEF Timeout
  <2> QED BY <1>0, <1>8, <2>1 DEF Timeout, Typed, Withdrawn
<1>9. CASE Claim
  <2>1. PICK j \in pending : /\ pending' = pending \ {j}
                             /\ runner' = [id |-> j.id, change |-> j.change,
                                           left |-> order[j.change].on, bytes |-> <<>>]
    BY <1>9 DEF Claim
  <2>2. j.id \in Nat /\ j.change \in Change  BY <1>0 DEF Typed, Jobs
  <2>3. order[j.change].on \in SUBSET Slug  BY <1>0, <2>2 DEF Typed, Ledger!Orders
  <2>4. runner' \in Works  BY <2>1, <2>2, <2>3, EmptyPage DEF Works
  <2> QED BY <1>0, <1>9, <2>1, <2>4 DEF Claim, Typed
<1>10. ASSUME NEW s \in Slug, Compute(s)  PROVE Typed'
  <2>1. runner # NoJob  BY <1>10, NoJobType DEF Compute
  <2>2. runner' \in Works  BY <1>0, <1>10, <2>1, ComputeType DEF Numbered
  <2> QED BY <1>0, <1>10, <2>2 DEF Compute, Typed
<1>11. CASE Reply
  <2>1. ASSUME NEW ok \in BOOLEAN, NEW b \in Bytes
        PROVE  Replying(runner, ok, b) \in Results
    <3>1. runner.id \in Nat /\ runner.change \in Change
      BY <1>0, <1>11 DEF Reply, Typed, Works, Numbered
    <3>2. (\E s \in DOMAIN b : Fails(b[s])) \in BOOLEAN  OBVIOUS
    <3> QED BY <3>1, <3>2 DEF Replying, Results
  <2>2. runner.bytes \in Bytes  BY <1>0 DEF Typed, Works
  <2>3. done' \subseteq Results
    <3>1. Replying(runner, TRUE, runner.bytes) \in Results  BY <2>1, <2>2
    <3>2. Replying(runner, FALSE, <<>>) \in Results  BY <2>1, EmptyPage
    <3>3. done' \subseteq done \cup {Replying(runner, TRUE, runner.bytes),
                                    Replying(runner, FALSE, <<>>)}
      BY <1>11 DEF Reply
    <3> QED BY <1>0, <3>1, <3>2, <3>3 DEF Typed
  <2>4. runner' \in Works  BY <1>11, NoJobType DEF Reply
  <2> QED BY <1>0, <1>11, <2>3, <2>4 DEF Reply, Typed
<1>12. ASSUME NEW h \in Handler, Preflight(h)  PROVE Typed'
  <2>1. call' \in [Handler -> Calls] /\ lock' = lock
    BY <1>0, <1>12, GoCall DEF Preflight, Step, Steps, InCommit
  <2> QED BY <1>0, <1>12, <2>1 DEF Preflight, NotGit, Typed
<1>13. ASSUME NEW h \in Handler, Guarded(h)  PROVE Typed'
  <2>1. call' \in [Handler -> Calls]  BY <1>0, <1>13, GuardedCall DEF Moves
  <2> QED BY <1>0, <1>13, <2>1 DEF Guarded, NotGit, Typed
<1>14. ASSUME NEW h \in Handler, Refuse(h)  PROVE Typed'
  <2>1. call' \in [Handler -> Calls] /\ lock' \in Handler \cup {None}
    BY <1>0, <1>14, EndCall DEF Refuse
  <2> QED BY <1>0, <1>14, <2>1, NoRefType DEF Refuse, NotGit, Typed
<1>15. ASSUME NEW h \in Handler, Branch(h)  PROVE Typed'
  <2> DEFINE x == CASE Kind(h) = "edit" -> "commit" [] Kind(h) = "collection" -> "write"
                    [] OTHER -> "rm"
  <2>1. x \in Steps  BY DEF Steps, InCommit
  <2>2. Go(h, x)  BY <1>15 DEF Branch, Step
  <2> HIDE DEF x
  <2>3. call' \in [Handler -> Calls] /\ lock' = lock  BY <1>0, <2>1, <2>2, GoCall
  <2>4. tip' \in Seq(Commits)  BY <1>0, <1>15 DEF Branch, HeadRef, Typed
  <2> QED BY <1>0, <1>15, <2>3, <2>4 DEF Branch, NotGit, Typed
<1>16. ASSUME NEW h \in Handler, Remove(h)  PROVE Typed'
  <2> DEFINE x == IF Kind(h) = "retire" THEN "commit" ELSE "write"
  <2>1. x \in Steps  BY DEF Steps, InCommit
  <2>2. Go(h, x)  BY <1>16 DEF Remove, Step
  <2> HIDE DEF x
  <2>3. call' \in [Handler -> Calls] /\ lock' = lock  BY <1>0, <2>1, <2>2, GoCall
  <2>4. tree' \in Corpora
    <3>1. ASSUME NEW s \in Slug, tree[s] # Gone
          PROVE  [tree[s] EXCEPT !.edis = @ \ Order(h).drop] \in Contents
      <4>1. tree[s] \in Contents  BY <1>0 DEF Typed, Corpora
      <4>2. tree[s].edis \ Order(h).drop \in SUBSET Station /\ tree[s].notes \in Notes
        BY <3>1, <4>1, SurveyType
      <4>3. [tree[s] EXCEPT !.edis = @ \ Order(h).drop]
              = [notes |-> tree[s].notes, edis |-> tree[s].edis \ Order(h).drop]
        BY <3>1, <4>1, SurveyExcept
      <4>4. [notes |-> tree[s].notes, edis |-> tree[s].edis \ Order(h).drop] \in Contents
        BY <4>2, SurveyType
      <4> QED BY <4>3, <4>4
    <3>2. \A s \in Order(h).on : tree[s] # Gone  BY <1>16 DEF Remove
    <3>3. \A s \in Slug : tree[s] \in Contents  BY <1>0 DEF Typed, Corpora
    <3>4. \A s \in Slug :
            (IF s \notin Order(h).on THEN tree[s]
             ELSE IF Kind(h) = "retire" THEN Gone
             ELSE [tree[s] EXCEPT !.edis = @ \ Order(h).drop]) \in Contents
      BY <3>1, <3>2, <3>3, SurveyType
    <3> QED BY <1>16, <3>4 DEF Remove, Corpora
  <2> QED BY <1>0, <1>16, <2>3, <2>4 DEF Remove, NotGit, Typed
<1>17. ASSUME NEW h \in Handler, Write(h)  PROVE Typed'
  <2>1. PICK s \in Slug :
          /\ [notes |-> call[h].page[s], edis |-> tree[s].edis] \in Contents
          /\ tree' = [tree EXCEPT ![s] = [notes |-> call[h].page[s], edis |-> tree[s].edis]]
          /\ call' \in [Handler -> Calls]
    BY <1>0, <1>17, WriteCall DEF Moves
  <2>2. tree' \in Corpora  BY <1>0, <2>1 DEF Typed, Corpora
  <2> QED BY <1>0, <1>17, <2>1, <2>2 DEF Write, NotGit, Typed
<1>18. ASSUME NEW h \in Handler, CommitWork(h)  PROVE Typed'
  <2>1. NextAfterCommit(h) \in Steps  BY DEF NextAfterCommit, Steps, InCommit
  <2>2. call' \in [Handler -> Calls] /\ lock' = lock
    BY <1>0, <1>18, <2>1, GoCall DEF CommitWork, Step
  <2>3. call[h].change \in Change  BY <1>0, <1>18 DEF CommitWork, Step, At, Control, Steady
  <2>4. Commit(call[h].change, tree) \in Commits  BY <1>0, <2>3, CommitType DEF Typed
  <2>5. tip' \in Seq(Commits)  BY <1>0, <1>18, <2>4, AppendRef DEF CommitWork, Typed
  <2> QED BY <1>0, <1>18, <2>2, <2>5 DEF CommitWork, NotGit, Typed
<1>19. ASSUME NEW h \in Handler, CheckoutMain(h)  PROVE Typed'
  <2>1. call' \in [Handler -> Calls] /\ lock' = lock
    BY <1>0, <1>19, GoCall DEF CheckoutMain, Step, Steps, InCommit
  <2>2. tree' \in Corpora  BY <1>0, <1>19, LastType DEF CheckoutMain, Typed, Control
  <2> QED BY <1>0, <1>19, <2>1, <2>2 DEF CheckoutMain, NotGit, Typed
<1>20. ASSUME NEW h \in Handler, Merge(h)  PROVE Typed'
  <2>1. call' \in [Handler -> Calls] /\ lock' = lock
    BY <1>0, <1>20, GoCall DEF Merge, Step, Steps, InCommit
  <2>2. tip # NoRef  BY <1>0, <1>20, LastType, NoRefType DEF Merge, Prefix, Control, Typed
  <2>3. tree' \in Corpora  BY <1>0, <1>20, <2>2, LastType DEF Merge, Typed
  <2> QED BY <1>0, <1>20, <2>1, <2>3 DEF Merge, NotGit, Typed
<1>21. ASSUME NEW h \in Handler, Push(h)  PROVE Typed'
  <2>1. call' \in [Handler -> Calls] /\ lock' \in Handler \cup {None} /\ lost' \in Nat
        /\ pre' \in Seq(Commits) /\ tip' \in Seq(Commits)
    <3>1. CASE End(h) /\ pre' = NoRef /\ tip' = NoRef /\ UNCHANGED lost
      BY <1>0, <3>1, EndCall, NoRefType DEF Typed
    <3>2. CASE lost' = lost + 1 /\ Go(h, "undo") /\ UNCHANGED <<pre, tip>>
      BY <1>0, <3>2, GoCall DEF Typed, Steps, InCommit
    <3> QED BY <1>21, <3>1, <3>2 DEF Push
  <2> QED BY <1>0, <1>21, <2>1 DEF Push, Typed
<1>22. ASSUME NEW h \in Handler, CommandFails(h)  PROVE Typed'
  <2>1. call' \in [Handler -> Calls] /\ lock' = lock
    BY <1>0, <1>22, GoCall DEF CommandFails, Steps, InCommit
  <2> QED BY <1>0, <1>22, <2>1 DEF CommandFails, NotGit, Typed
<1>23. ASSUME NEW h \in Handler, Rollback(h)  PROVE Typed'
  <2>1. call' \in [Handler -> Calls] /\ lock' \in Handler \cup {None}
    BY <1>0, <1>23, EndCall DEF Rollback
  <2>2. pre # NoRef  BY <1>0, <1>23 DEF Rollback, At, Control, Steady, Begun, InCommit
  <2>3. tree' \in Corpora  BY <1>0, <1>23, <2>2, LastType DEF Rollback, Restored, Typed
  <2> QED BY <1>0, <1>23, <2>1, <2>3, NoRefType DEF Rollback, NotGit, Typed
<1>24. CASE GatewayCrash
  <2>1. call' \in [Handler -> Calls]  BY <1>24, IdleType DEF GatewayCrash
  <2> QED BY <1>0, <1>24, <2>1, NoRefType DEF GatewayCrash, Typed
<1>25. CASE RunnerCrash
  BY <1>0, <1>25, NoJobType DEF RunnerCrash, Typed
<1>26. ASSUME NEW s \in Slug, RemoteCommit(s)  PROVE Typed'
  <2> DEFINE now == Last(origin).corpus
             new == [now EXCEPT ![s].notes = Append(@, Outside)]
  <2>1. now \in Corpora  BY <1>0, LastType DEF Typed, Control
  <2>2. now[s] # Gone /\ now[s] \in Contents  BY <1>26, <2>1 DEF RemoteCommit, Corpora
  <2>3. Append(now[s].notes, Outside) \in Notes
    BY <2>2, SurveyType, AppendProperties DEF Notes
  <2>4. new = [now EXCEPT ![s] = [notes |-> Append(now[s].notes, Outside), edis |-> now[s].edis]]
    BY <2>1, <2>2, SurveyExcept
  <2>5. new \in Corpora
    <3>1. [notes |-> Append(now[s].notes, Outside), edis |-> now[s].edis] \in Contents
      BY <2>2, <2>3, SurveyType
    <3> HIDE DEF now, new
    <3> QED BY <2>1, <2>4, <3>1 DEF Corpora
  <2>6. Commit(Outside, new) \in Commits  BY <2>5, CommitType
  <2>7. origin' = Append(origin, Commit(Outside, new))  BY <1>26 DEF RemoteCommit
  <2> HIDE DEF new
  <2>8. origin' \in Seq(Commits)  BY <1>0, <2>6, <2>7, AppendRef DEF Typed
  <2> QED BY <1>0, <1>26, <2>8 DEF RemoteCommit, Typed
<1>27. CASE Pull
  <2> DEFINE now == Last(main).corpus
             new == Last(origin).corpus
             moved == {s \in Slug : now[s] # new[s]}
  <2>1. new \in Corpora /\ tree \in Corpora  BY <1>0, LastType DEF Typed, Control
  <2>2. tree' = [s \in Slug |-> IF s \in moved THEN new[s] ELSE tree[s]] /\ main' = origin
    BY <1>27 DEF Pull
  <2> HIDE DEF now, new, moved
  <2>3. tree' \in Corpora  BY <2>1, <2>2 DEF Corpora
  <2> QED BY <1>0, <1>27, <2>2, <2>3 DEF Pull, Typed
<1>28. CASE Repair
  <2>1. tree' \in Corpora  BY <1>0, <1>28, LastType DEF Repair, Typed, Control
  <2> QED BY <1>0, <1>28, <2>1, NoRefType DEF Repair, Typed
<1>29. CASE UNCHANGED vars
  BY <1>0, <1>29 DEF Typed, vars
<1> QED BY <1>1, <1>2, <1>3, <1>4, <1>5, <1>6, <1>7, <1>8, <1>9, <1>10, <1>11, <1>12,
           <1>13, <1>14, <1>15, <1>16, <1>17, <1>18, <1>19, <1>20, <1>21, <1>22, <1>23,
           <1>24, <1>25, <1>26, <1>27, <1>28, <1>29
        DEF Next, Request, Await, Committing, Runner, Others

-----------------------------------------------------------------------------
(* The lock is held by the one request that is in a commit. *)

(* A handler that a step does not touch. *)
LEMMA OtherSteady ==
  ASSUME NEW k \in Handler, Steady(k), call'[k] = call[k], order' = order,
         lock' = k <=> lock = k, pre' = pre \/ pre' # NoRef \/ lock # k
  PROVE  Steady(k)'
BY DEF Steady, At, Holds, Kind, Order, Begun

LEMMA AfterEnd ==
  ASSUME Typed, \A k \in Handler : Steady(k), NEW h \in Handler, End(h), order' = order,
         pre' = pre \/ (pre' = NoRef /\ lock = h)
  PROVE  \A k \in Handler : Steady(k)'
<1>1. /\ call'[h] = Idle /\ lock' # h
      /\ \A k \in Handler : k # h => call'[k] = call[k] /\ (lock' = k <=> lock = k)
  BY EndCall
<1>2. Steady(h)'
  BY <1>1, IdleFields DEF Steady, At, Holds, Begun, InCommit
<1>3. ASSUME NEW k \in Handler, k # h  PROVE Steady(k)'  BY <1>1, <1>3, OtherSteady
<1> QED BY <1>2, <1>3

(* A request that goes on to another step. *)
LEMMA AfterMove ==
  ASSUME Typed, \A k \in Handler : Steady(k), NEW h \in Handler, ~At(h, "idle"), order' = order,
         NEW x \in Steps \ {"idle"}, NEW l, l \subseteq DOMAIN call[h].page,
         Moves(h, x, call[h].page, l),
         \A k \in Handler : k # h => (lock' = k <=> lock = k),
         lock' = h <=> (x \in InCommit \/ (x = "confirm" /\ Kind(h) = "collection")),
         pre' = pre \/ pre' # NoRef, x \in Begun => pre' # NoRef
  PROVE  \A k \in Handler : Steady(k)'
<1>1. Steady(h)'
  BY DEF Steady, At, Holds, Kind, Order, Moves, Begun
<1>2. ASSUME NEW k \in Handler, k # h  PROVE Steady(k)'
  BY <1>2, OtherSteady DEF Moves
<1> QED BY <1>1, <1>2

(* A request that begins. *)
LEMMA AfterBegin ==
  ASSUME Typed, \A k \in Handler : Steady(k), NEW h \in Handler, NEW c \in Change, NEW p \in Bytes,
         NEW x \in {"preview", "confirm", "wait"}, Begin(h, x, c, p),
         x = "confirm" => order[c].kind # "collection",
         order' = order, lock' = lock, pre' = pre
  PROVE  \A k \in Handler : Steady(k)'
<1>0. x \in Steps  BY DEF Steps
<1>1. /\ At(h, "idle")
      /\ call'[h].at = x /\ call'[h].change = c /\ call'[h].page = p /\ call'[h].left = {}
      /\ \A k \in Handler : k # h => call'[k] = call[k]
  BY <1>0, BeginCall
<1>2. Steady(h)'
  BY <1>1 DEF Steady, At, Holds, Kind, Order, Begun, InCommit
<1>3. ASSUME NEW k \in Handler, k # h  PROVE Steady(k)'  BY <1>1, <1>3, OtherSteady
<1> QED BY <1>2, <1>3

LEMMA InitControl == Init => Control /\ Numbered
<1> SUFFICES ASSUME Init PROVE Control /\ Numbered
  OBVIOUS
<1>1. \A h \in Handler : Steady(h)
  BY NoneApart, IdleFields DEF Init, Steady, At, Holds, Begun, InCommit
<1>2. main # NoRef /\ origin # NoRef /\ head = "main"  BY DEF Init, NoRef
<1>3. Numbered  BY IdleFields DEF Init, Numbered, At
<1> QED BY <1>1, <1>2, <1>3 DEF Control

LEMMA ControlStep == Book /\ [Next]_vars => Control'
<1> SUFFICES ASSUME Book, [Next]_vars PROVE Control'
  OBVIOUS
<1> USE DEF git, queue, faults
<1>0. Typed /\ Control /\ Numbered /\ Places /\ \A k \in Handler : Steady(k)
  BY DEF Book, Control
<1>a. ASSUME \A k \in Handler : Steady(k)', UNCHANGED <<head, main, tip, origin>>
      PROVE  Control'
  BY <1>0, <1>a DEF Control
<1>1. ASSUME NEW h \in Handler, NEW c \in Change, Preview(h, c)  PROVE Control'
  BY <1>0, <1>1, <1>a, AfterBegin, EmptyPage DEF Preview
<1>2. ASSUME NEW h \in Handler, NEW c \in Change, NEW p \in shown[c], Confirm(h, c, p)
      PROVE  Control'
  <2>1. p \in Bytes  BY <1>0 DEF Typed
  <2> QED BY <1>0, <1>2, <1>a, <2>1, AfterBegin DEF Confirm
<1>3. ASSUME NEW h \in Handler, NEW c \in Change, NEW p \in shown[c], ConfirmBatch(h, c, p)
      PROVE  Control'
  <2>1. p \in Bytes  BY <1>0 DEF Typed
  <2> QED BY <1>0, <1>3, <1>a, <2>1, AfterBegin DEF ConfirmBatch
<1>4. ASSUME NEW h \in Handler, NEW c \in Change, Retire(h, c)  PROVE Control'
  BY <1>0, <1>4, <1>a, AfterBegin, EmptyPage DEF Retire
<1>5. ASSUME NEW h \in Handler, Acquire(h)  PROVE Control'
  <2> DEFINE x == IF Kind(h) = "collection" THEN "confirm" ELSE "preflight"
  <2>1. At(h, "wait") /\ lock = None /\ lock' = h /\ Moves(h, x, call[h].page, call[h].left)
    BY <1>0, <1>5, AcquireCall
  <2>2. x \in Steps \ {"idle"} /\ x \notin Begun /\ call[h].left \subseteq DOMAIN call[h].page
    BY <1>0 DEF Steps, InCommit, Begun, Steady
  <2>3. lock' = h <=> (x \in InCommit \/ (x = "confirm" /\ Kind(h) = "collection"))
    BY <2>1 DEF InCommit
  <2> HIDE DEF x
  <2> QED BY <1>0, <1>5, <1>a, <2>1, <2>2, <2>3, NoneApart, AfterMove DEF Acquire, At
<1>6. ASSUME NEW h \in Handler, Shown(h)  PROVE Control'
  BY <1>0, <1>6, <1>a, AfterEnd DEF Shown
<1>7. ASSUME NEW h \in Handler, Answered(h)  PROVE Control'
  <2> DEFINE x == IF lock = h THEN "preflight" ELSE "wait"
  <2>1. CASE lock' = lock /\ Moves(h, x, call[h].page, call[h].left)
    <3>1. x \in Steps \ {"idle"} /\ x \notin Begun /\ call[h].left \subseteq DOMAIN call[h].page
      BY <1>0 DEF Steps, InCommit, Begun, Steady
    <3>2. lock' = h <=> (x \in InCommit \/ (x = "confirm" /\ Kind(h) = "collection"))
      BY <2>1 DEF InCommit
    <3> HIDE DEF x
    <3> QED BY <1>0, <1>7, <1>a, <2>1, <3>1, <3>2, AfterMove DEF Answered, At
  <2>2. CASE End(h)  BY <1>0, <1>7, <1>a, <2>2, AfterEnd DEF Answered
  <2> QED BY <1>0, <1>7, <2>1, <2>2, AnsweredCall
<1>8. ASSUME NEW h \in Handler, Timeout(h)  PROVE Control'
  BY <1>0, <1>8, <1>a, AfterEnd DEF Timeout
<1>9. ASSUME Runner \/ RunnerCrash  PROVE Control'
  <2>1. UNCHANGED <<order, call, lock, pre, head, main, tip, origin>>
    BY <1>9 DEF Runner, RunnerCrash, Claim, Reply, Compute
  <2> QED BY <1>0, <1>a, <2>1, OtherSteady
<1>b. ASSUME NEW h \in Handler, NEW at, NEW x \in InCommit, Step(h, at, x), at # "idle",
             order' = order, pre' = pre \/ pre' # NoRef, x \in Begun => pre' # NoRef
      PROVE  \A k \in Handler : Steady(k)'
  <2>1. x \in Steps \ {"idle"}  BY DEF Steps, InCommit
  <2>2. lock = h /\ At(h, at) /\ lock' = lock /\ Moves(h, x, call[h].page, call[h].left)
    BY <1>0, <1>b, <2>1, StepCall
  <2>3. call[h].left \subseteq DOMAIN call[h].page  BY <1>0 DEF Steady
  <2> QED BY <1>0, <1>b, <2>1, <2>2, <2>3, AfterMove DEF At
<1>12. ASSUME NEW h \in Handler, Preflight(h)  PROVE Control'
  <2>1. main # NoRef  BY <1>0 DEF Control
  <2>2. Step(h, "preflight", "guard") /\ pre' = main /\ order' = order
    BY <1>12 DEF Preflight, NotGit
  <2>3. \A k \in Handler : Steady(k)'  BY <1>b, <2>1, <2>2 DEF InCommit
  <2> QED BY <1>12, <1>a, <2>3 DEF Preflight
<1>13. ASSUME NEW h \in Handler, Guarded(h)  PROVE Control'
  <2> DEFINE x == IF Kind(h) = "edit" THEN "write" ELSE "branch"
  <2>1. /\ lock = h /\ At(h, "guard") /\ lock' = lock
        /\ Moves(h, x, call[h].page, DOMAIN call[h].page)
    BY <1>0, <1>13, GuardedCall
  <2>2. x \in Steps \ {"idle"} /\ x \in InCommit  BY DEF Steps, InCommit
  <2>3. pre # NoRef  BY <1>0, <2>1 DEF Steady, At, Begun, InCommit
  <2> HIDE DEF x
  <2> QED BY <1>0, <1>13, <1>a, <2>1, <2>2, <2>3, AfterMove DEF Guarded, NotGit, At
<1>14. ASSUME NEW h \in Handler, Refuse(h)  PROVE Control'
  BY <1>0, <1>14, <1>a, AfterEnd DEF Refuse, NotGit
<1>c. \A h \in Handler : lock = h /\ call[h].at \in Begun => pre # NoRef  BY <1>0 DEF Steady
<1>15. ASSUME NEW h \in Handler, Branch(h)  PROVE Control'
  <2> DEFINE x == CASE Kind(h) = "edit" -> "commit" [] Kind(h) = "collection" -> "write"
                    [] OTHER -> "rm"
  <2>1. Step(h, "branch", x) /\ x \in InCommit  BY <1>15 DEF Branch, InCommit
  <2>2. pre # NoRef  BY <1>c, <2>1 DEF Step, At, Begun, InCommit
  <2> HIDE DEF x
  <2>3. \A k \in Handler : Steady(k)'  BY <1>b, <1>15, <2>1, <2>2 DEF Branch, NotGit
  <2> QED BY <1>0, <1>15, <2>3 DEF Branch, Control, HeadRef, Typed
<1>16. ASSUME NEW h \in Handler, Remove(h)  PROVE Control'
  <2> DEFINE x == IF Kind(h) = "retire" THEN "commit" ELSE "write"
  <2>1. Step(h, "rm", x) /\ x \in InCommit  BY <1>16 DEF Remove, InCommit
  <2>2. pre # NoRef  BY <1>c, <2>1 DEF Step, At, Begun, InCommit
  <2> HIDE DEF x
  <2>3. \A k \in Handler : Steady(k)'  BY <1>b, <1>16, <2>1, <2>2 DEF Remove, NotGit
  <2> QED BY <1>16, <1>a, <2>3 DEF Remove
<1>17. ASSUME NEW h \in Handler, Write(h)  PROVE Control'
  <2> DEFINE x == IF Kind(h) = "edit" THEN "branch" ELSE "commit"
  <2>1. /\ lock = h /\ At(h, "write") /\ lock' = lock
        /\ \E s \in call[h].left : Moves(h, x, call[h].page, call[h].left \ {s})
    BY <1>0, <1>17, WriteCall
  <2>2. x \in Steps \ {"idle"} /\ x \in InCommit  BY DEF Steps, InCommit
  <2>3. pre # NoRef  BY <1>c, <2>1 DEF At, Begun, InCommit
  <2>4. call[h].left \subseteq DOMAIN call[h].page  BY <1>0 DEF Steady
  <2> HIDE DEF x
  <2>5. PICK s \in call[h].left : Moves(h, x, call[h].page, call[h].left \ {s})  BY <2>1
  <2>6. call[h].left \ {s} \subseteq DOMAIN call[h].page  BY <2>4
  <2>7. \A k \in Handler : Steady(k)'
    BY <1>0, <1>17, <2>1, <2>2, <2>3, <2>5, <2>6, AfterMove DEF Write, NotGit, At
  <2> QED BY <1>17, <1>a, <2>7 DEF Write
<1>18. ASSUME NEW h \in Handler, CommitWork(h)  PROVE Control'
  <2> DEFINE x == NextAfterCommit(h)
  <2>1. Step(h, "commit", x) /\ x \in InCommit  BY <1>18 DEF CommitWork, InCommit, NextAfterCommit
  <2>2. pre # NoRef  BY <1>c, <2>1 DEF Step, At, Begun, InCommit
  <2> HIDE DEF x
  <2>3. \A k \in Handler : Steady(k)'  BY <1>b, <1>18, <2>1, <2>2 DEF CommitWork, NotGit
  <2>4. call[h].change \in Change  BY <1>0, <2>1 DEF Step, At, Steady
  <2>5. tip' # NoRef
    <3>1. Commit(call[h].change, tree) \in Commits  BY <1>0, <2>4, CommitType DEF Typed
    <3> QED BY <1>0, <1>18, <3>1, AppendRef DEF CommitWork, Typed
  <2> QED BY <1>0, <1>18, <2>3, <2>5 DEF CommitWork, Control
<1>19. ASSUME NEW h \in Handler, CheckoutMain(h)  PROVE Control'
  <2>1. Step(h, "main", "merge") /\ order' = order /\ pre' = pre  BY <1>19 DEF CheckoutMain, NotGit
  <2>2. pre # NoRef  BY <1>c, <2>1 DEF Step, At, Begun, InCommit
  <2>3. \A k \in Handler : Steady(k)'  BY <1>b, <2>1, <2>2 DEF InCommit
  <2> QED BY <1>0, <1>19, <2>3 DEF CheckoutMain, Control
<1>20. ASSUME NEW h \in Handler, Merge(h)  PROVE Control'
  <2>1. Step(h, "merge", "push") /\ order' = order /\ pre' = pre  BY <1>20 DEF Merge, NotGit
  <2>2. pre # NoRef  BY <1>c, <2>1 DEF Step, At, Begun, InCommit
  <2>3. \A k \in Handler : Steady(k)'  BY <1>b, <2>1, <2>2 DEF InCommit
  <2>4. tip # NoRef  BY <1>0, <1>20, LastType, NoRefType DEF Merge, Prefix, Control, Typed
  <2> QED BY <1>0, <1>20, <2>3, <2>4 DEF Merge, Control
<1>21. ASSUME NEW h \in Handler, Push(h)  PROVE Control'
  <2>1. lock = h /\ At(h, "push") /\ order' = order /\ main' = main /\ head' = head /\ origin' = main
    BY <1>21 DEF Push
  <2>2. pre # NoRef  BY <1>c, <2>1 DEF At, Begun, InCommit
  <2>3. CASE End(h) /\ pre' = NoRef /\ tip' = NoRef
    <3>1. \A k \in Handler : Steady(k)'  BY <1>0, <2>1, <2>3, AfterEnd
    <3>2. head = "main"  BY <1>0, <2>1 DEF At, Places, Placed
    <3> QED BY <1>0, <2>1, <2>3, <3>1, <3>2 DEF Control
  <2>4. CASE Go(h, "undo") /\ UNCHANGED <<pre, tip>>
    <3>1. Step(h, "push", "undo")  BY <2>1, <2>4 DEF Step
    <3>2. \A k \in Handler : Steady(k)'  BY <1>b, <2>1, <2>2, <2>4, <3>1 DEF InCommit
    <3> QED BY <1>0, <2>1, <2>4, <3>2 DEF Control
  <2> QED BY <1>21, <2>3, <2>4 DEF Push
<1>22. ASSUME NEW h \in Handler, CommandFails(h)  PROVE Control'
  <2>1. /\ lock = h /\ Go(h, "undo") /\ order' = order /\ pre' = pre
        /\ call[h].at \in Begun /\ call[h].at # "idle"
    BY <1>22 DEF CommandFails, NotGit, Begun, InCommit
  <2>2. Step(h, call[h].at, "undo")  BY <2>1 DEF Step, At
  <2>3. pre # NoRef  BY <1>c, <2>1
  <2>4. \A k \in Handler : Steady(k)'  BY <1>b, <2>1, <2>2, <2>3 DEF InCommit
  <2> QED BY <1>22, <1>a, <2>4 DEF CommandFails
<1>23. ASSUME NEW h \in Handler, Rollback(h)  PROVE Control'
  <2>1. lock = h /\ At(h, "undo")  BY <1>23 DEF Rollback
  <2>2. pre # NoRef  BY <1>c, <2>1 DEF At, Begun, InCommit
  <2>3. \A k \in Handler : Steady(k)'  BY <1>0, <1>23, <2>1, AfterEnd DEF Rollback, NotGit
  <2> QED BY <1>0, <1>23, <2>2, <2>3 DEF Rollback, Control
<1>24. CASE GatewayCrash
  <2>1. \A k \in Handler : Steady(k)'
    BY <1>24, IdleFields, NoneApart DEF GatewayCrash, Steady, At, Holds, Begun, InCommit
  <2> QED BY <1>0, <1>24, <2>1 DEF GatewayCrash, Control
<1>25. ASSUME NEW s \in Slug, RemoteCommit(s)  PROVE Control'
  <2>1. \A k \in Handler : Steady(k)'  BY <1>0, <1>25, OtherSteady DEF RemoteCommit
  <2>2. origin' \in Seq(Commits) /\ Len(origin') = Len(origin) + 1
    <3>1. origin' \in Seq(Commits)  BY TypedStep, <1>0 DEF Typed
    <3>2. Len(origin') = Len(origin) + 1  BY <1>0, <1>25, AppendProperties DEF RemoteCommit, Typed
    <3> QED BY <3>1, <3>2
  <2> QED BY <1>0, <1>25, <2>1, <2>2, NoRefType DEF RemoteCommit, Control
<1>26. CASE Pull
  <2>1. \A k \in Handler : Steady(k)'  BY <1>0, <1>26, OtherSteady DEF Pull
  <2> QED BY <1>0, <1>26, <2>1 DEF Pull, Control
<1>27. CASE Repair
  <2>1. \A k \in Handler : Steady(k)'  BY <1>0, <1>27, OtherSteady DEF Repair
  <2> QED BY <1>0, <1>27, <2>1 DEF Repair, Control
<1>28. CASE UNCHANGED vars
  <2>1. \A k \in Handler : Steady(k)'  BY <1>0, <1>28, OtherSteady DEF vars
  <2> QED BY <1>28, <1>a, <2>1 DEF vars
<1> QED BY <1>1, <1>2, <1>3, <1>4, <1>5, <1>6, <1>7, <1>8, <1>9, <1>12,
           <1>13, <1>14, <1>15, <1>16, <1>17, <1>18, <1>19, <1>20, <1>21, <1>22, <1>23,
           <1>24, <1>25, <1>26, <1>27, <1>28
        DEF Next, Request, Await, Committing, Others

-----------------------------------------------------------------------------
(* Which branch is checked out at which step. *)

(* Who does not hold the lock is at no step of a commit. *)
LEMMA NotHolding ==
  ASSUME NEW k \in Handler, Steady(k), lock # k
  PROVE  call[k].at \notin InCommit /\ Placed(k)
BY DEF Steady, Holds, Placed, InBranch, InCommit, At

LEMMA SamePlaces ==
  ASSUME Control, Control', Places, head' = head, order' = order,
         \A k \in Handler : lock' = k => call'[k] = call[k]
  PROVE  Places'
<1>1. ASSUME NEW k \in Handler  PROVE Placed(k)'
  <2>1. CASE lock' = k  BY <2>1 DEF Places, Placed, InBranch, At, Kind, Order
  <2>2. CASE lock' # k
    <3>1. call'[k].at \notin InCommit  BY <2>2 DEF Control, Steady, Holds
    <3> QED BY <3>1 DEF Placed, InBranch, InCommit, At
  <2> QED BY <2>1, <2>2
<1> QED BY <1>1 DEF Places

(* Only the holder of the lock matters. *)
LEMMA HolderPlaces ==
  ASSUME Control', NEW h \in Handler, lock' = h, Placed(h)'
  PROVE  Places'
<1>1. ASSUME NEW k \in Handler, k # h  PROVE Placed(k)'
  <2>1. call'[k].at \notin InCommit  BY <1>1 DEF Control, Steady, Holds
  <2> QED BY <2>1 DEF Placed, InBranch, InCommit, At
<1> QED BY <1>1 DEF Places

LEMMA InitPlaces == Init => Places
BY IdleFields DEF Init, Places, Placed, InBranch, At

(* All changes but batches are about one survey: it is all there is to write. *)
LEMMA OneSurvey ==
  ASSUME order \in [Change -> Ledger!Orders], NEW c \in Change, order[c].kind # "collection"
  PROVE  \E s \in Slug : order[c].on = {s}
<1>1. \A o \in Ledger!Orders : o.kind # "collection" => \E s \in Slug : o.on = {s}
  BY DEF Ledger!Orders
<1> QED BY <1>1

LEMMA OneLeft ==
  ASSUME Typed, Control, Pages, NEW h \in Handler, call[h].at \notin {"idle", "preview"},
         Kind(h) # "collection", NEW s \in call[h].left
  PROVE  call[h].left \ {s} = {} /\ Order(h).on = {s} /\ DOMAIN call[h].page = {s}
<1>1. call[h].change \in Change  BY DEF Control, Steady, At
<1>2. PICK t \in Slug : Order(h).on = {t}  BY <1>1, OneSurvey DEF Typed, Kind, Order
<1>3. call[h].left \subseteq DOMAIN call[h].page  BY DEF Control, Steady
<1>4. DOMAIN call[h].page \subseteq Order(h).on
  <2>1. CASE Kind(h) = "retire"  BY <2>1, EmptyPage DEF Pages, Informed, Told, At
  <2>2. CASE Kind(h) # "retire"
    BY <1>1, <2>2 DEF Pages, Informed, Told, At, ShownWell, Partway, Order
  <2> QED BY <2>1, <2>2
<1> QED BY <1>2, <1>3, <1>4

LEMMA PlacesStep == Book /\ [Next]_vars => Places'
<1> SUFFICES ASSUME Book, [Next]_vars PROVE Places'
  OBVIOUS
<1> USE DEF git, queue, faults
<1>0. Typed /\ Control /\ Numbered /\ Pages /\ Places /\ Control'
  BY ControlStep DEF Book
<1>s. ASSUME NEW h \in Handler, NEW at, NEW x \in InCommit, Step(h, at, x)
      PROVE  /\ lock = h /\ call[h].at = at /\ lock' = h /\ call'[h].at = x
             /\ call'[h].change = call[h].change /\ call'[h].left = call[h].left
  <2>1. x \in Steps  BY DEF Steps
  <2> QED BY <1>0, <1>s, <2>1, StepCall DEF Moves, At
<1>1. ASSUME NEW h \in Handler, Request(h)  PROVE Places'
  <2>1. head' = head /\ order' = order /\ lock' = lock
    BY <1>1 DEF Request, Preview, Confirm, ConfirmBatch, Retire
  <2>2. At(h, "idle")
    <3>1. PICK c \in Change : \/ Preview(h, c) \/ Retire(h, c)
                              \/ \E p \in shown[c] : Confirm(h, c, p) \/ ConfirmBatch(h, c, p)
      BY <1>1 DEF Request
    <3>2. CASE Preview(h, c)  BY <3>2 DEF Preview, Begin
    <3>3. CASE Retire(h, c)  BY <3>3 DEF Retire, Begin
    <3>4. ASSUME NEW p \in shown[c], Confirm(h, c, p) \/ ConfirmBatch(h, c, p)
          PROVE  At(h, "idle")
      BY <3>4 DEF Confirm, ConfirmBatch, Begin
    <3> QED BY <3>1, <3>2, <3>3, <3>4
  <2>3. lock # h  BY <1>0, <2>2 DEF At, Control, Steady, Holds, InCommit
  <2>4. \A k \in Handler : lock' = k => call'[k] = call[k]
    <3>1. \A x, c, p : Begin(h, x, c, p) => \A k \in Handler : k # h => call'[k] = call[k]
      BY <1>0 DEF Begin, Typed
    <3>2. PICK c \in Change : \/ Preview(h, c) \/ Retire(h, c)
                              \/ \E p \in shown[c] : Confirm(h, c, p) \/ ConfirmBatch(h, c, p)
      BY <1>1 DEF Request
    <3>3. \A k \in Handler : k # h => call'[k] = call[k]
      <4>1. CASE Preview(h, c)  BY <3>1, <4>1 DEF Preview
      <4>2. CASE Retire(h, c)  BY <3>1, <4>2 DEF Retire
      <4>3. ASSUME NEW p \in shown[c], Confirm(h, c, p) \/ ConfirmBatch(h, c, p)
            PROVE  \A k \in Handler : k # h => call'[k] = call[k]
        BY <3>1, <4>3 DEF Confirm, ConfirmBatch
      <4> QED BY <3>2, <4>1, <4>2, <4>3
    <3> QED BY <2>1, <2>3, <3>3
  <2> QED BY <1>0, <2>1, <2>4, SamePlaces
<1>2. ASSUME NEW h \in Handler, Acquire(h)  PROVE Places'
  <2>1. lock' = h /\ call'[h].at \in {"confirm", "preflight"}
    BY <1>0, <1>2, AcquireCall DEF Moves
  <2>2. Placed(h)'  BY <2>1 DEF Placed, InBranch, At
  <2> QED BY <1>0, <2>1, <2>2, HolderPlaces
<1>3. ASSUME NEW h \in Handler, Await(h)  PROVE Places'
  <2>1. head' = head /\ order' = order  BY <1>3 DEF Await, Shown, Answered, Timeout
  <2>2. CASE End(h)
    <3>1. \A k \in Handler : lock' = k => call'[k] = call[k]  BY <1>0, <2>2, EndCall
    <3> QED BY <1>0, <2>1, <3>1, SamePlaces
  <2>3. CASE Answered(h) /\ ~End(h)
    <3>1. lock' = lock
          /\ Moves(h, IF lock = h THEN "preflight" ELSE "wait", call[h].page, call[h].left)
      BY <1>0, <2>3, AnsweredCall
    <3>2. CASE lock = h
      <4>1. Placed(h)'  BY <3>1, <3>2 DEF Placed, InBranch, At, Moves
      <4> QED BY <1>0, <3>1, <3>2, <4>1, HolderPlaces
    <3>3. CASE lock # h
      <4>1. \A k \in Handler : lock' = k => call'[k] = call[k]  BY <3>1, <3>3 DEF Moves
      <4> QED BY <1>0, <2>1, <4>1, SamePlaces
    <3> QED BY <3>2, <3>3
  <2> QED BY <1>3, <2>2, <2>3 DEF Await, Shown, Timeout
<1>4. ASSUME Runner \/ RunnerCrash \/ (\E s \in Slug : RemoteCommit(s)) \/ UNCHANGED vars
      PROVE  Places'
  <2>1. UNCHANGED <<order, call, lock, head>>
    BY <1>4 DEF Runner, RunnerCrash, Claim, Reply, Compute, RemoteCommit, vars
  <2> QED BY <1>0, <2>1, SamePlaces
<1>5. ASSUME NEW h \in Handler, Preflight(h)  PROVE Places'
  <2>1. Step(h, "preflight", "guard") /\ head' = "main"  BY <1>5 DEF Preflight, CleanOnMain
  <2>2. lock' = h /\ call'[h].at = "guard"  BY <1>s, <2>1 DEF InCommit
  <2>3. Placed(h)'  BY <2>1, <2>2 DEF Placed, InBranch, At
  <2> QED BY <1>0, <2>2, <2>3, HolderPlaces
<1>6. ASSUME NEW h \in Handler, Guarded(h)  PROVE Places'
  <2>1. /\ lock = h /\ At(h, "guard") /\ lock' = lock
        /\ Moves(h, IF Kind(h) = "edit" THEN "write" ELSE "branch", call[h].page,
                 DOMAIN call[h].page)
    BY <1>0, <1>6, GuardedCall
  <2>2. head' = head /\ order' = order /\ head = "main"
    BY <1>0, <1>6, <2>1 DEF Guarded, NotGit, Places, Placed, At
  <2>3. Kind(h)' = Kind(h)  BY <2>1, <2>2 DEF Moves, Kind, Order
  <2>4. Placed(h)'  BY <2>1, <2>2, <2>3 DEF Placed, InBranch, At, Moves
  <2> QED BY <1>0, <2>1, <2>4, HolderPlaces
<1>7. ASSUME NEW h \in Handler, Refuse(h) \/ Rollback(h)  PROVE Places'
  <2>1. End(h) /\ lock = h  BY <1>7 DEF Refuse, Rollback
  <2>2. \A k \in Handler : lock' # k  BY <1>0, <2>1, EndCall, NoneApart
  <2> QED BY <1>0, <2>2 DEF Places, Placed, InBranch, At, Control, Steady, Holds, InCommit
<1>8. ASSUME NEW h \in Handler, Branch(h)  PROVE Places'
  <2> DEFINE x == CASE Kind(h) = "edit" -> "commit" [] Kind(h) = "collection" -> "write"
                    [] OTHER -> "rm"
  <2>1. Step(h, "branch", x) /\ x \in InCommit /\ head' = "change" /\ order' = order
    BY <1>8 DEF Branch, InCommit, NotGit
  <2>2. /\ Kind(h) \in {"edit", "stations", "collection", "retire"}
        /\ x \in {"commit", "write", "rm"}
        /\ x = "write" => Kind(h) = "collection"
        /\ x = "rm" => Kind(h) \in {"stations", "retire"}
    <3>1. call[h].change \in Change  BY <1>0, <2>1 DEF Control, Steady, Step, At
    <3> QED BY <1>0, <3>1 DEF Typed, Ledger!Orders, Kind, Order
  <2> HIDE DEF x
  <2>3. /\ lock' = h /\ call'[h].at = x /\ call'[h].change = call[h].change
        /\ call'[h].left = call[h].left /\ call[h].at = "branch"
    BY <1>s, <2>1
  <2>4. x = "commit" => Kind(h) = "edit" /\ call[h].left = {}
    <3>1. x = "commit" => Kind(h) = "edit"  BY <2>2 DEF x
    <3> QED BY <1>0, <2>3, <3>1 DEF Places, Placed, At
  <2>5. Placed(h)'  BY <2>1, <2>2, <2>3, <2>4 DEF Placed, InBranch, At, Kind, Order
  <2> QED BY <1>0, <2>3, <2>5, HolderPlaces
<1>9. ASSUME NEW h \in Handler, Remove(h)  PROVE Places'
  <2> DEFINE x == IF Kind(h) = "retire" THEN "commit" ELSE "write"
  <2>1. Step(h, "rm", x) /\ x \in InCommit /\ head' = head /\ order' = order
    BY <1>9 DEF Remove, InCommit, NotGit
  <2>2. /\ lock' = h /\ call'[h].at = x /\ call'[h].change = call[h].change
        /\ call'[h].left = call[h].left /\ call[h].at = "rm"
    BY <1>s, <2>1
  <2>3. Kind(h) \in {"stations", "retire"} /\ head = "change"
    BY <1>0, <2>2 DEF Places, Placed, InBranch, At
  <2>4. Kind(h) = "retire" => call[h].left = {}
    <3>1. Kind(h) = "retire" => call[h].page = <<>>
      BY <1>0, <2>2 DEF Pages, Informed, Told, At
    <3> QED BY <1>0, <3>1, EmptyPage DEF Control, Steady
  <2>5. x = "write" => Kind(h) # "retire"  BY DEF x
  <2>6. x = "commit" => Kind(h) = "retire"  BY DEF x
  <2>7. x \in {"write", "commit"}  BY DEF x
  <2>8. Placed(h)'
    BY <2>1, <2>2, <2>3, <2>4, <2>5, <2>6, <2>7 DEF Placed, InBranch, At, Kind, Order
  <2> QED BY <1>0, <2>2, <2>8, HolderPlaces
<1>10. ASSUME NEW h \in Handler, Write(h)  PROVE Places'
  <2>1. /\ lock = h /\ At(h, "write") /\ lock' = lock
        /\ call'[h].at = IF Kind(h) = "edit" THEN "branch" ELSE "commit"
        /\ call'[h].change = call[h].change
        /\ \E s \in call[h].left : call'[h].left = call[h].left \ {s}
    BY <1>0, <1>10, WriteCall DEF Moves
  <2>2. head' = head /\ order' = order  BY <1>10 DEF Write, NotGit
  <2>3. Kind(h) # "collection" => call'[h].left = {}
    BY <1>0, <2>1, OneLeft DEF At
  <2>4. Kind(h) # "retire"  BY <1>0, <2>1 DEF Places, Placed, At
  <2>5. Kind(h)' = Kind(h)  BY <2>1, <2>2 DEF Kind, Order
  <2>6. Placed(h)'
    BY <1>0, <2>1, <2>2, <2>3, <2>4, <2>5 DEF Places, Placed, InBranch, At
  <2> QED BY <1>0, <2>1, <2>6, HolderPlaces
<1>11. ASSUME NEW h \in Handler, CommitWork(h)  PROVE Places'
  <2> DEFINE x == NextAfterCommit(h)
  <2>1. Step(h, "commit", x) /\ x \in {"write", "main"} /\ head' = head /\ order' = order
    BY <1>11 DEF CommitWork, NextAfterCommit, NotGit
  <2>2. /\ lock' = h /\ call'[h].at = x /\ call'[h].change = call[h].change
        /\ call[h].at = "commit"
    <3> HIDE DEF x
    <3> QED BY <1>s, <2>1 DEF InCommit
  <2>3. x = "write" => Kind(h) = "collection"
    BY <1>0, <2>2 DEF NextAfterCommit, Places, Placed, At
  <2> HIDE DEF x
  <2>4. Placed(h)'
    BY <1>0, <2>1, <2>2, <2>3 DEF Places, Placed, InBranch, At, Kind, Order
  <2> QED BY <1>0, <2>2, <2>4, HolderPlaces
<1>12. ASSUME NEW h \in Handler, CheckoutMain(h)  PROVE Places'
  <2>1. Step(h, "main", "merge") /\ head' = "main"  BY <1>12 DEF CheckoutMain
  <2>2. lock' = h /\ call'[h].at = "merge"  BY <1>s, <2>1 DEF InCommit
  <2>3. Placed(h)'  BY <2>1, <2>2 DEF Placed, InBranch, At
  <2> QED BY <1>0, <2>2, <2>3, HolderPlaces
<1>13. ASSUME NEW h \in Handler, Merge(h)  PROVE Places'
  <2>1. Step(h, "merge", "push") /\ head' = head  BY <1>13 DEF Merge
  <2>2. lock' = h /\ call'[h].at = "push" /\ call[h].at = "merge"  BY <1>s, <2>1 DEF InCommit
  <2>3. Placed(h)'  BY <1>0, <2>1, <2>2 DEF Places, Placed, InBranch, At
  <2> QED BY <1>0, <2>2, <2>3, HolderPlaces
<1>14. ASSUME NEW h \in Handler, Push(h)  PROVE Places'
  <2>1. lock = h /\ head' = head /\ order' = order  BY <1>14 DEF Push
  <2>2. CASE End(h)
    <3>1. \A k \in Handler : lock' # k  BY <1>0, <2>1, <2>2, EndCall, NoneApart
    <3> QED BY <1>0, <2>1, <3>1, SamePlaces
  <2>3. CASE Go(h, "undo")
    <3>1. lock' = h /\ call'[h].at = "undo"  BY <1>0, <2>1, <2>3, GoCall DEF Steps, InCommit
    <3>2. Placed(h)'  BY <3>1 DEF Placed, InBranch, At
    <3> QED BY <1>0, <3>1, <3>2, HolderPlaces
  <2> QED BY <1>14, <2>2, <2>3 DEF Push
<1>15. ASSUME NEW h \in Handler, CommandFails(h)  PROVE Places'
  <2>1. lock' = h /\ call'[h].at = "undo"
    BY <1>0, <1>15, GoCall DEF CommandFails, Steps, InCommit
  <2>2. Placed(h)'  BY <2>1 DEF Placed, InBranch, At
  <2> QED BY <1>0, <2>1, <2>2, HolderPlaces
<1>16. CASE GatewayCrash
  BY <1>16, IdleFields DEF GatewayCrash, Places, Placed, InBranch, At
<1>17. CASE Pull
  BY <1>0, <1>17, SamePlaces DEF Pull
<1>18. CASE Repair
  <2>1. \A k \in Handler : lock' # k  BY <1>18, NoneApart DEF Repair
  <2> QED BY <1>0, <2>1 DEF Places, Placed, InBranch, At, Control, Steady, Holds, InCommit
<1> QED BY <1>1, <1>2, <1>3, <1>4, <1>5, <1>6, <1>7, <1>8, <1>9, <1>10, <1>11, <1>12,
           <1>13, <1>14, <1>15, <1>16, <1>17, <1>18
        DEF Next, Committing, Others

-----------------------------------------------------------------------------
(* A request and what it has in the queue. *)

Entries == pending \cup done \cup {runner}

(* Ids of requests and of entries. *)
LEMMA Ids ==
  ASSUME Typed, Control, Numbered
  PROVE  /\ \A k \in Handler : call[k].job \in 0..asked
         /\ \A k \in Handler : call[k].job = 0 => call[k].change = None
         /\ \A j \in Entries : j.id \in 0..asked
         /\ \A j \in Entries : j.id = 0 => j.change = None
<1>1. asked \in Nat  BY DEF Typed
<1>2. ASSUME NEW k \in Handler
      PROVE  call[k].job \in 0..asked /\ (call[k].job = 0 => call[k].change = None)
  BY <1>1, IdleFields DEF Control, Steady, Numbered
<1>3. ASSUME NEW j \in Entries
      PROVE  j.id \in 0..asked /\ (j.id = 0 => j.change = None)
  BY <1>1, NoJobType DEF Numbered, Entries
<1> QED BY <1>2, <1>3

LEMMA InitOwned == Init => Owned
BY IdleFields, NoJobType DEF Init, Owned

(* No new request and no new entry. *)
LEMMA SameAsked ==
  ASSUME Typed, Control, Numbered, Owned, Control', asked' = asked,
         \A k \in Handler : \/ call'[k] = Idle
                            \/ /\ call'[k].job = call[k].job /\ call'[k].change = call[k].change
                               /\ ~At(k, "idle"),
         \A j \in Entries' : j = NoJob \/ \E i \in Entries : j.id = i.id /\ j.change = i.change,
         \A j \in (pending \cup done)' : \E i \in Entries : j.id = i.id /\ i # NoJob,
         runner' # NoJob => \E i \in Entries : runner'.id = i.id /\ i # NoJob /\ runner'.change \in Change
  PROVE  Numbered' /\ Owned'
<1>1. \A j \in Entries : j # NoJob => j.id \in 1..asked
  BY NoJobType DEF Numbered, Entries
<1>2. Numbered'
  BY <1>1, IdleFields DEF Numbered, At
<1>3. Owned'
  <2>1. ASSUME NEW k \in Handler, NEW j \in Entries', j.id = call'[k].job
        PROVE  j.change = call'[k].change
    <3>1. CASE j = NoJob
      <4>1. CASE call'[k] = Idle  BY <3>1, <4>1, IdleFields, NoJobType
      <4>2. CASE call'[k].job = call[k].job /\ call'[k].change = call[k].change
        BY <2>1, <3>1, <4>2, Ids, NoJobType
      <4> QED BY <4>1, <4>2
    <3>2. CASE \E i \in Entries : j.id = i.id /\ j.change = i.change
      <4>1. PICK i \in Entries : j.id = i.id /\ j.change = i.change  BY <3>2
      <4>2. CASE call'[k] = Idle  BY <2>1, <4>1, <4>2, IdleFields, Ids
      <4>3. CASE call'[k].job = call[k].job /\ call'[k].change = call[k].change
        BY <2>1, <4>1, <4>3 DEF Owned, Entries
      <4> QED BY <4>2, <4>3
    <3> QED BY <3>1, <3>2
  <2>2. ASSUME NEW k \in Handler, NEW g \in Handler, call'[g].job = call'[k].job
        PROVE  call'[g].change = call'[k].change
    BY <2>2, Ids, IdleFields DEF Owned
  <2> QED BY <2>1, <2>2 DEF Owned, Entries
<1> QED BY <1>2, <1>3

(* A new request, with or without an entry. *)
LEMMA NewAsked ==
  ASSUME Typed, Control, Numbered, Owned, NEW h \in Handler, NEW c \in Change, NEW x \in Steps,
         NEW p \in Bytes, Begin(h, x, c, p), runner' = runner, done' \subseteq done,
         \A j \in pending' : j \in pending \/ (j.id = call'[h].job /\ j.change = c)
  PROVE  Numbered' /\ Owned'
<1>1. /\ asked \in Nat /\ asked' = asked + 1
      /\ call'[h].change = c /\ call'[h].job = asked + 1
      /\ \A k \in Handler : k # h => call'[k] = call[k]
  BY BeginCall DEF Typed
<1>2. Numbered'
  BY <1>1 DEF Numbered, At
<1>3. \A j \in Entries' : j \in Entries \/ (j.id = asked + 1 /\ j.change = c)
  BY <1>1 DEF Entries
<1>4. Owned'
  <2>1. ASSUME NEW k \in Handler, NEW j \in Entries', j.id = call'[k].job
        PROVE  j.change = call'[k].change
    <3>1. CASE k = h  BY <1>1, <1>3, <2>1, <3>1, Ids
    <3>2. CASE k # h /\ j \in Entries  BY <1>1, <2>1, <3>2 DEF Owned, Entries
    <3>3. CASE k # h /\ j.id = asked + 1
      <4>1. call[k].job \in 0..asked  BY Ids
      <4>2. call'[k] = call[k]  BY <1>1, <3>3
      <4>3. call[k].job = asked + 1  BY <2>1, <3>3, <4>2
      <4> QED BY <1>1, <4>1, <4>3
    <3> QED BY <1>3, <3>1, <3>2, <3>3
  <2>2. ASSUME NEW k \in Handler, NEW g \in Handler, call'[g].job = call'[k].job
        PROVE  call'[g].change = call'[k].change
    <3>1. CASE k # h /\ g # h  BY <1>1, <2>2, <3>1 DEF Owned
    <3>2. CASE k = h \/ g = h  BY <1>1, <2>2, <3>2, Ids
    <3> QED BY <3>1, <3>2
  <2> QED BY <2>1, <2>2 DEF Owned, Entries
<1> QED BY <1>2, <1>4

LEMMA AskedStep == Book /\ [Next]_vars => Numbered' /\ Owned'
<1> SUFFICES ASSUME Book, [Next]_vars PROVE Numbered' /\ Owned'
  OBVIOUS
<1> USE DEF git, queue, faults
<1>0. Typed /\ Control /\ Numbered /\ Owned /\ Control'
  BY ControlStep DEF Book
<1>k. /\ runner # NoJob => runner.change \in Change
      /\ \A j \in pending \cup done : j # NoJob /\ j \in Entries
      /\ \A j \in pending : j.change \in Change
  BY <1>0, NoJobType DEF Numbered, Entries, Typed, Jobs
(* the queue as it is, or with less in it *)
<1>q. ASSUME asked' = asked, pending' \subseteq pending, done' \subseteq done,
             runner' = runner \/ runner' = NoJob,
             \A k \in Handler : \/ call'[k] = Idle
                                \/ /\ call'[k].job = call[k].job /\ call'[k].change = call[k].change
                                   /\ ~At(k, "idle")
      PROVE  Numbered' /\ Owned'
  <2>1. \A j \in Entries' : j = NoJob \/ \E i \in Entries : j.id = i.id /\ j.change = i.change
    BY <1>q DEF Entries
  <2>2. \A j \in (pending \cup done)' : \E i \in Entries : j.id = i.id /\ i # NoJob
    BY <1>q, <1>k
  <2>3. runner' # NoJob => \E i \in Entries : runner'.id = i.id /\ i # NoJob /\ runner'.change \in Change
    BY <1>q, <1>k DEF Entries
  <2> QED BY <1>0, <1>q, <2>1, <2>2, <2>3, SameAsked
<1>c. ASSUME call' = call  PROVE \A k \in Handler :
             \/ call'[k] = Idle
             \/ call'[k].job = call[k].job /\ call'[k].change = call[k].change /\ ~At(k, "idle")
  BY <1>0, <1>c DEF Control, Steady
<1>m. ASSUME NEW h \in Handler, NEW x \in Steps, NEW p, NEW l, Moves(h, x, p, l), ~At(h, "idle")
      PROVE  \A k \in Handler :
             \/ call'[k] = Idle
             \/ call'[k].job = call[k].job /\ call'[k].change = call[k].change /\ ~At(k, "idle")
  BY <1>0, <1>m DEF Control, Steady, Moves
<1>e. ASSUME NEW h \in Handler, End(h)
      PROVE  \A k \in Handler :
             \/ call'[k] = Idle
             \/ call'[k].job = call[k].job /\ call'[k].change = call[k].change /\ ~At(k, "idle")
  BY <1>0, <1>e, EndCall DEF Control, Steady
<1>g. ASSUME NEW h \in Handler, NEW x \in Steps, Go(h, x), ~At(h, "idle")
      PROVE  \A k \in Handler :
             \/ call'[k] = Idle
             \/ call'[k].job = call[k].job /\ call'[k].change = call[k].change /\ ~At(k, "idle")
  BY <1>0, <1>g, <1>m, GoCall DEF Moves
<1>1. ASSUME NEW h \in Handler, NEW c \in Change, Preview(h, c)  PROVE Numbered' /\ Owned'
  <2>1. Begin(h, "preview", c, <<>>) /\ Enqueue(h, c) /\ runner' = runner  BY <1>1 DEF Preview
  <2>2. "preview" \in Steps  BY DEF Steps
  <2>3. call'[h].job \in Nat  BY <1>0, <2>1, <2>2, BeginCall, EmptyPage DEF Calls
  <2> QED BY <1>0, <2>1, <2>2, <2>3, EmptyPage, EnqueueTypes, NewAsked
<1>2. ASSUME NEW h \in Handler, NEW c \in Change, NEW p \in shown[c], Confirm(h, c, p)
      PROVE  Numbered' /\ Owned'
  <2>1. Begin(h, "confirm", c, p) /\ Enqueue(h, c) /\ runner' = runner  BY <1>2 DEF Confirm
  <2>2. "confirm" \in Steps /\ p \in Bytes  BY <1>0 DEF Steps, Typed
  <2>3. call'[h].job \in Nat  BY <1>0, <2>1, <2>2, BeginCall DEF Calls
  <2> QED BY <1>0, <2>1, <2>2, <2>3, EnqueueTypes, NewAsked
<1>3. ASSUME NEW h \in Handler, NEW c \in Change, NEW p \in shown[c], ConfirmBatch(h, c, p)
      PROVE  Numbered' /\ Owned'
  <2>1. "wait" \in Steps /\ p \in Bytes  BY <1>0 DEF Steps, Typed
  <2> QED BY <1>0, <1>3, <2>1, NewAsked DEF ConfirmBatch
<1>4. ASSUME NEW h \in Handler, NEW c \in Change, Retire(h, c)  PROVE Numbered' /\ Owned'
  <2>1. "wait" \in Steps  BY DEF Steps
  <2> QED BY <1>0, <1>4, <2>1, EmptyPage, NewAsked DEF Retire
<1>5. ASSUME NEW h \in Handler, Acquire(h)  PROVE Numbered' /\ Owned'
  <2>1. /\ At(h, "wait")
        /\ \E x \in Steps : Moves(h, x, call[h].page, call[h].left)
    BY <1>0, <1>5, AcquireCall DEF Steps, InCommit
  <2>2. \A k \in Handler :
             \/ call'[k] = Idle
             \/ call'[k].job = call[k].job /\ call'[k].change = call[k].change /\ ~At(k, "idle")
    BY <1>m, <2>1 DEF At
  <2>3. asked' = asked /\ runner' = runner  BY <1>5 DEF Acquire
  <2>4. CASE UNCHANGED queue  BY <1>q, <2>2, <2>3, <2>4
  <2>5. CASE Enqueue(h, call[h].change)
    <3>1. call[h].change \in Change /\ call[h].job \in 1..asked
      BY <1>0, <2>1 DEF At, Control, Steady, Numbered
    <3>2. call'[h].job = call[h].job  BY <2>1 DEF Moves
    <3>3. call'[h].job \in Nat /\ asked \in Nat  BY <1>0, <3>1, <3>2 DEF Typed
    <3>4. /\ done' \subseteq done
          /\ \A j \in pending' : j \in pending \/ (j.id = call[h].job /\ j.change = call[h].change)
      BY <1>0, <2>5, <3>1, <3>2, <3>3, EnqueueTypes
    <3>5. Numbered'
      BY <1>0, <2>2, <2>3, <3>1, <3>4, IdleFields DEF Numbered, At
    <3>6. Owned'
      <4>1. ASSUME NEW k \in Handler, NEW j \in Entries', j.id = call'[k].job
            PROVE  j.change = call'[k].change
        <5>1. CASE j \in Entries
          <6>1. CASE call'[k] = Idle  BY <1>0, <4>1, <5>1, <6>1, IdleFields, Ids
          <6>2. CASE call'[k].job = call[k].job /\ call'[k].change = call[k].change
            BY <1>0, <4>1, <5>1, <6>2 DEF Owned, Entries
          <6> QED BY <2>2, <6>1, <6>2
        <5>2. CASE j.id = call[h].job /\ j.change = call[h].change
          <6>1. CASE call'[k] = Idle
            <7>1. call[h].job = 0  BY <4>1, <5>2, <6>1, IdleFields
            <7> QED BY <3>1, <3>3, <7>1
          <6>2. CASE call'[k].job = call[k].job /\ call'[k].change = call[k].change
            BY <1>0, <4>1, <5>2, <6>2 DEF Owned
          <6> QED BY <2>2, <6>1, <6>2
        <5> QED BY <2>3, <3>4, <5>1, <5>2 DEF Entries
      <4>2. ASSUME NEW k \in Handler, NEW g \in Handler, call'[g].job = call'[k].job
            PROVE  call'[g].change = call'[k].change
        BY <1>0, <2>2, <4>2, Ids, IdleFields DEF Owned
      <4> QED BY <4>1, <4>2 DEF Owned, Entries
    <3> QED BY <3>5, <3>6
  <2> QED BY <1>5, <2>4, <2>5 DEF Acquire
<1>6. ASSUME NEW h \in Handler, Await(h)  PROVE Numbered' /\ Owned'
  <2>1. asked' = asked /\ pending' \subseteq pending /\ done' \subseteq done /\ runner' = runner
    BY <1>6 DEF Await, Shown, Answered, Timeout, Withdrawn
  <2>2. CASE End(h)  BY <1>e, <1>q, <2>1, <2>2
  <2>3. CASE Answered(h) /\ ~End(h)
    <3>1. \E x \in Steps : Moves(h, x, call[h].page, call[h].left)
      BY <1>0, <2>3, AnsweredCall DEF Steps, InCommit
    <3> QED BY <1>m, <1>q, <2>1, <2>3, <3>1 DEF Answered, At
  <2> QED BY <1>6, <2>2, <2>3 DEF Await, Shown, Timeout
<1>7. CASE Claim
  <2>1. PICK j \in pending : /\ pending' = pending \ {j}
                             /\ runner' = [id |-> j.id, change |-> j.change,
                                           left |-> order[j.change].on, bytes |-> <<>>]
    BY <1>7 DEF Claim
  <2>2. UNCHANGED <<call, asked, done>> /\ runner'.id = j.id /\ runner'.change = j.change
    BY <1>7, <2>1 DEF Claim
  <2>3. \A i \in Entries' : i = NoJob \/ \E k \in Entries : i.id = k.id /\ i.change = k.change
    BY <2>1, <2>2 DEF Entries
  <2>4. \A i \in (pending \cup done)' : \E k \in Entries : i.id = k.id /\ k # NoJob
    BY <1>k, <2>1, <2>2
  <2>5. \E i \in Entries : runner'.id = i.id /\ i # NoJob /\ runner'.change \in Change
    BY <1>k, <2>1, <2>2
  <2> QED BY <1>0, <1>c, <2>2, <2>3, <2>4, <2>5, SameAsked
<1>8. ASSUME NEW s \in Slug, Compute(s)  PROVE Numbered' /\ Owned'
  <2>1. runner # NoJob  BY <1>8, NoJobType DEF Compute
  <2>2. runner'.id = runner.id /\ runner'.change = runner.change
    BY <1>0, <1>8, <1>k, <2>1, ComputeType
  <2>3. UNCHANGED <<call, asked, pending, done>>  BY <1>8 DEF Compute
  <2>4. \A i \in Entries' : i = NoJob \/ \E k \in Entries : i.id = k.id /\ i.change = k.change
    BY <2>2, <2>3 DEF Entries
  <2>5. \A i \in (pending \cup done)' : \E k \in Entries : i.id = k.id /\ k # NoJob
    BY <1>k, <2>3
  <2>6. \E i \in Entries : runner'.id = i.id /\ i # NoJob /\ runner'.change \in Change
    BY <1>k, <2>1, <2>2 DEF Entries
  <2> QED BY <1>0, <1>c, <2>3, <2>4, <2>5, <2>6, SameAsked
<1>9. CASE Reply
  <2>1. /\ UNCHANGED <<call, asked, pending>> /\ runner # NoJob /\ runner' = NoJob
        /\ \A r \in done' : r \in done \/ (r.id = runner.id /\ r.change = runner.change)
    BY <1>9 DEF Reply, Replying
  <2>2. \A i \in Entries' : i = NoJob \/ \E k \in Entries : i.id = k.id /\ i.change = k.change
    BY <2>1 DEF Entries
  <2>3. \A i \in (pending \cup done)' : \E k \in Entries : i.id = k.id /\ k # NoJob
    BY <1>k, <2>1 DEF Entries
  <2> QED BY <1>0, <1>c, <2>1, <2>2, <2>3, SameAsked
<1>10. ASSUME NEW h \in Handler, Committing(h)  PROVE Numbered' /\ Owned'
  <2>1. asked' = asked /\ pending' = pending /\ done' = done /\ runner' = runner
    BY <1>10 DEF Committing, Preflight, Guarded, Refuse, Branch, Remove, Write, CommitWork,
                 CheckoutMain, Merge, Push, CommandFails, Rollback, NotGit
  <2>2. CASE End(h)  BY <1>e, <1>q, <2>1, <2>2
  <2>3. CASE Guarded(h)
    <3>1. At(h, "guard") /\ \E x \in Steps : \E l : Moves(h, x, call[h].page, l)
      <4>1. (IF Kind(h) = "edit" THEN "write" ELSE "branch") \in Steps  BY DEF Steps, InCommit
      <4> QED BY <1>0, <2>3, <4>1, GuardedCall
    <3> QED BY <1>m, <1>q, <2>1, <3>1 DEF At
  <2>4. CASE Write(h)
    <3>1. At(h, "write") /\ \E x \in Steps : \E l : Moves(h, x, call[h].page, l)
      <4>1. (IF Kind(h) = "edit" THEN "branch" ELSE "commit") \in Steps  BY DEF Steps, InCommit
      <4> QED BY <1>0, <2>4, <4>1, WriteCall
    <3> QED BY <1>m, <1>q, <2>1, <3>1 DEF At
  <2>5. CASE ~End(h) /\ ~Guarded(h) /\ ~Write(h)
    <3>1. ~At(h, "idle") /\ \E x \in Steps : Go(h, x)
      <4>1. \E x \in {"guard", "commit", "write", "rm", "main", "merge", "push", "undo"} : Go(h, x)
        BY <1>10, <2>5 DEF Committing, Preflight, Refuse, Branch, Remove, CommitWork,
                 CheckoutMain, Merge, Push, CommandFails, Rollback, Step, NextAfterCommit
      <4>2. ~At(h, "idle")
        BY <1>10, <2>5 DEF Committing, Preflight, Refuse, Branch, Remove, CommitWork,
                 CheckoutMain, Merge, Push, CommandFails, Rollback, Step, At
      <4> QED BY <4>1, <4>2 DEF Steps, InCommit
    <3> QED BY <1>g, <1>q, <2>1, <3>1
  <2> QED BY <2>2, <2>3, <2>4, <2>5
<1>11. CASE GatewayCrash
  <2>1. /\ asked' = asked /\ pending' = pending /\ done' = done /\ runner' = runner
        /\ \A k \in Handler : call'[k] = Idle
    BY <1>11 DEF GatewayCrash
  <2> QED BY <1>q, <2>1
<1>12. ASSUME RunnerCrash \/ Others \/ UNCHANGED vars  PROVE Numbered' /\ Owned'
  <2>1. /\ asked' = asked /\ pending' = pending /\ done' = done
        /\ runner' = runner \/ runner' = NoJob
        /\ call' = call
    BY <1>12 DEF RunnerCrash, Others, Pull, Repair, RemoteCommit, vars
  <2> QED BY <1>q, <1>c, <2>1
<1> QED BY <1>1, <1>2, <1>3, <1>4, <1>5, <1>6, <1>7, <1>8, <1>9, <1>10, <1>11, <1>12
        DEF Next, Request, Runner

-----------------------------------------------------------------------------
(* Pages: what was shown, what is computed, what is confirmed. *)

LEMMA RecordsAppend ==
  ASSUME NEW n \in Notes, NEW c \in Change \cup {Outside}
  PROVE  /\ Append(n, c) \in Notes /\ Records(Append(n, c), c)
         /\ \A d : Records(n, d) => Records(Append(n, c), d)
<1>1. /\ Append(n, c) \in Notes /\ Len(Append(n, c)) = Len(n) + 1 /\ Len(n) \in Nat
      /\ \A i \in 1..Len(n) : Append(n, c)[i] = n[i]
      /\ Append(n, c)[Len(n)+1] = c
  BY AppendProperties, LenProperties DEF Notes
<1>2. Len(n)+1 \in 1..Len(Append(n, c)) /\ 1..Len(n) \subseteq 1..Len(Append(n, c))
  BY <1>1
<1> QED BY <1>1, <1>2 DEF Records

LEMMA OrderTypes ==
  ASSUME order \in [Change -> Ledger!Orders], NEW c \in Change
  PROVE  /\ order[c].kind \in {"edit", "stations", "collection", "retire"}
         /\ order[c].on \in SUBSET Slug /\ order[c].on # {} /\ order[c].drop \in SUBSET Station
         /\ order[c].kind = "retire" => order[c].valid
         /\ order[c].kind # "stations" => order[c].drop = {}
<1>1. \A o \in Ledger!Orders :
        /\ o.kind \in {"edit", "stations", "collection", "retire"}
        /\ o.on \in SUBSET Slug /\ o.on # {} /\ o.drop \in SUBSET Station
        /\ o.kind = "retire" => o.valid
        /\ o.kind # "stations" => o.drop = {}
  BY DEF Ledger!Orders
<1> QED BY <1>1

(* The verdict of the validator on bytes that record a change is its verdict on the
   change. *)
LEMMA NotFailed ==
  ASSUME NEW c \in Change, NEW b, Partway(c, b), DOMAIN b # {}, \A s \in DOMAIN b : ~Fails(b[s])
  PROVE  order[c].valid
<1>1. PICK s \in DOMAIN b : TRUE  OBVIOUS
<1>2. PICK i \in 1..Len(b[s]) : b[s][i] = c  BY DEF Partway, Records
<1> QED BY <1>2 DEF Fails

LEMMA EmptyPartway == \A c \in Change : Partway(c, <<>>)
BY EmptyPage DEF Partway

LEMMA InitPages == Init => Pages
<1> SUFFICES ASSUME Init PROVE Pages
  OBVIOUS
<1>1. order \in [Change -> Ledger!Orders]  BY WantedAssumption DEF Init
<1>2. ShownWell
  <2>1. PICK open \in SUBSET {c \in Change : order[c].kind # "retire"} :
          shown = [c \in Change |-> IF c \in open THEN {[s \in order[c].on |-> <<c>>]} ELSE {}]
    BY DEF Init, Ledger!FirstPages
  <2>2. ASSUME NEW c \in Change
        PROVE  DOMAIN [s \in order[c].on |-> <<c>>] # {} /\ Partway(c, [s \in order[c].on |-> <<c>>])
    <3>1. order[c].on # {}  BY <1>1, OrderTypes
    <3>2. Records(<<c>>, c)  BY DEF Records
    <3> QED BY <3>1, <3>2 DEF Partway
  <2> QED BY <2>1, <2>2 DEF ShownWell
<1>3. QueuedWell  BY NoJobType DEF Init, QueuedWell
<1>4. \A h \in Handler : Informed(h)
  BY IdleFields DEF Init, Informed, Settled, At, InCommit
<1> QED BY <1>2, <1>3, <1>4 DEF Pages

(* Only a preview adds to what was shown, and what it adds was computed for the change. *)
LEMMA ShownStep ==
  Book /\ [Next]_vars => order' = order /\ (\A c \in Change : shown[c] \subseteq shown'[c]) /\ ShownWell'
<1> SUFFICES ASSUME Book, [Next]_vars
             PROVE  order' = order /\ (\A c \in Change : shown[c] \subseteq shown'[c]) /\ ShownWell'
  OBVIOUS
<1>0. Typed /\ Control /\ Numbered /\ Owned /\ Pages  BY DEF Book
<1>1. order' = order /\ (shown' = shown \/ \E h \in Handler : Shown(h))
  <2>1. CASE \E h \in Handler : Request(h)
    BY <2>1 DEF Request, Preview, Confirm, ConfirmBatch, Retire
  <2>2. CASE \E h \in Handler : Acquire(h) \/ Await(h)
    BY <2>2 DEF Await, Acquire, Shown, Answered, Timeout
  <2>3. CASE \E h \in Handler : Committing(h)
    BY <2>3 DEF Committing, Preflight, Guarded, Refuse, Branch, Remove, Write, CommitWork,
                 CheckoutMain, Merge, Push, CommandFails, Rollback, NotGit
  <2>4. CASE Runner \/ RunnerCrash
    BY <2>4 DEF Runner, RunnerCrash, Claim, Reply, Compute
  <2>5. CASE GatewayCrash \/ Others \/ UNCHANGED vars
    BY <2>5 DEF GatewayCrash, Others, Pull, Repair, RemoteCommit, vars
  <2> QED BY <2>1, <2>2, <2>3, <2>4, <2>5 DEF Next
<1>2. CASE shown' = shown
  BY <1>0, <1>1, <1>2 DEF Pages, ShownWell, Partway
<1>3. ASSUME NEW h \in Handler, Shown(h)
      PROVE  (\A c \in Change : shown[c] \subseteq shown'[c]) /\ ShownWell'
  <2>1. PICK r \in Result(h) :
          shown' = IF r.ok /\ DOMAIN r.bytes # {}
                   THEN [shown EXCEPT ![call[h].change] = @ \cup {r.bytes}] ELSE shown
    BY <1>3 DEF Shown
  <2>2. r \in done /\ r.change = call[h].change /\ r \in Results
    BY <1>0, <2>1 DEF Result, Owned, Typed
  <2>3. call[h].change \in Change  BY <2>2, PairType
  <2>4. Partway(call[h].change, r.bytes) /\ order[call[h].change].kind # "retire"
    BY <1>0, <2>2 DEF Pages, QueuedWell
  <2>5. shown \in [Change -> SUBSET Bytes]  BY <1>0 DEF Typed
  <2>6. CASE shown' = shown  BY <1>2, <2>6
  <2>7. CASE DOMAIN r.bytes # {} /\ shown' = [shown EXCEPT ![call[h].change] = @ \cup {r.bytes}]
    <3>1. \A c \in Change : shown[c] \subseteq shown'[c]  BY <2>3, <2>5, <2>7
    <3>2. \A c \in Change : c # call[h].change => shown'[c] = shown[c]  BY <2>3, <2>5, <2>7
    <3>3. shown'[call[h].change] = shown[call[h].change] \cup {r.bytes}  BY <2>3, <2>5, <2>7
    <3>4. ASSUME NEW c \in Change
          PROVE  /\ order[c].kind = "retire" => shown'[c] = {}
                 /\ \A p \in shown'[c] : DOMAIN p # {} /\ Partway(c, p)
      BY <1>0, <2>4, <2>7, <3>2, <3>3 DEF Pages, ShownWell
    <3> QED BY <1>1, <3>1, <3>4 DEF ShownWell, Partway
  <2> QED BY <2>1, <2>6, <2>7
<1> QED BY <1>1, <1>2, <1>3

(* The queue: what is asked for, taken up, computed, answered. *)
LEMMA QueueStep == Book /\ [Next]_vars => QueuedWell'
<1> SUFFICES ASSUME Book, [Next]_vars PROVE QueuedWell'
  OBVIOUS
<1> USE DEF queue
<1>0. Typed /\ Control /\ Numbered /\ Pages /\ QueuedWell /\ ShownWell /\ order' = order
  BY ShownStep DEF Book, Pages
<1>q. ASSUME done' \subseteq done, runner' = runner \/ runner' = NoJob,
             \A j \in pending' : j \in pending \/ order[j.change].kind # "retire"
      PROVE  QueuedWell'
  BY <1>0, <1>q DEF QueuedWell, Partway, Fails
<1>1. ASSUME NEW h \in Handler, Request(h)  PROVE QueuedWell'
  <2>1. PICK c \in Change : \/ Preview(h, c) \/ Retire(h, c)
                            \/ \E p \in shown[c] : Confirm(h, c, p) \/ ConfirmBatch(h, c, p)
    BY <1>1 DEF Request
  <2>2. ASSUME Enqueue(h, c), NEW x \in Steps, NEW p \in Bytes, Begin(h, x, c, p)
        PROVE  done' \subseteq done /\ \A j \in pending' : j \in pending \/ j.change = c
    <3>1. call'[h].job \in Nat  BY <1>0, <2>2, BeginCall DEF Calls
    <3> QED BY <1>0, <2>2, <3>1, EnqueueTypes
  <2>3. CASE Preview(h, c)
    <3>1. "preview" \in Steps /\ order[c].kind # "retire" /\ runner' = runner
          /\ Begin(h, "preview", c, <<>>) /\ Enqueue(h, c)
      BY <2>3 DEF Steps, Preview
    <3> QED BY <1>q, <2>2, <3>1, EmptyPage
  <2>4. CASE Retire(h, c)  BY <1>q, <2>4 DEF Retire
  <2>5. ASSUME NEW p \in shown[c], Confirm(h, c, p)  PROVE QueuedWell'
    <3>1. "confirm" \in Steps /\ p \in Bytes /\ order[c].kind # "retire" /\ runner' = runner
          /\ Begin(h, "confirm", c, p) /\ Enqueue(h, c)
      BY <1>0, <2>5 DEF Steps, Confirm, ShownWell, Typed
    <3> QED BY <1>q, <2>2, <3>1
  <2>6. ASSUME NEW p \in shown[c], ConfirmBatch(h, c, p)  PROVE QueuedWell'
    BY <1>q, <2>6 DEF ConfirmBatch
  <2> QED BY <2>1, <2>3, <2>4, <2>5, <2>6
<1>2. ASSUME NEW h \in Handler, Acquire(h)  PROVE QueuedWell'
  <2>1. CASE UNCHANGED queue  BY <1>2, <1>q, <2>1 DEF Acquire
  <2>2. CASE Enqueue(h, call[h].change) /\ Kind(h) = "collection"
    <3>1. call[h].change \in Change  BY <1>0, <1>2 DEF Acquire, At, Control, Steady
    <3>2. call'[h].job \in Nat  BY <1>0, <1>2, AcquireCall DEF Moves, Calls
    <3>3. done' \subseteq done /\ \A j \in pending' : j \in pending \/ j.change = call[h].change
      BY <1>0, <2>2, <3>1, <3>2, EnqueueTypes
    <3> QED BY <1>2, <1>q, <2>2, <3>3 DEF Acquire, Kind, Order
  <2> QED BY <1>2, <2>1, <2>2 DEF Acquire, Kind
<1>3. ASSUME NEW h \in Handler, Await(h)  PROVE QueuedWell'
  BY <1>3, <1>q DEF Await, Shown, Answered, Timeout, Withdrawn
<1>4. ASSUME NEW h \in Handler, Committing(h)  PROVE QueuedWell'
  BY <1>4, <1>q DEF Committing, Preflight, Guarded, Refuse, Branch, Remove, Write, CommitWork,
                 CheckoutMain, Merge, Push, CommandFails, Rollback, NotGit
<1>5. CASE Claim
  <2>1. PICK j \in pending : /\ pending' = pending \ {j}
                             /\ runner' = [id |-> j.id, change |-> j.change,
                                           left |-> order[j.change].on, bytes |-> <<>>]
    BY <1>5 DEF Claim
  <2>2. /\ runner'.change = j.change /\ runner'.left = order[j.change].on
        /\ runner'.bytes = <<>> /\ done' = done
    BY <1>5, <2>1 DEF Claim
  <2>3. j.change \in Change  BY <1>0 DEF Typed, Jobs
  <2>4. order[j.change].kind # "retire" /\ Partway(j.change, <<>>)
    BY <1>0, <2>3, EmptyPartway DEF QueuedWell
  <2> QED BY <1>0, <2>1, <2>2, <2>4 DEF QueuedWell, Partway, Fails
<1>6. ASSUME NEW s \in Slug, Compute(s)  PROVE QueuedWell'
  <2> DEFINE c == runner.change
             b == runner.bytes
  <2>1. runner # NoJob  BY <1>6, NoJobType DEF Compute
  <2>2. /\ c \in Change /\ order[c].kind # "retire" /\ Partway(c, b)
        /\ runner.left \subseteq order[c].on
    BY <1>0, <2>1 DEF QueuedWell, Numbered
  <2>3. /\ runner'.change = c /\ runner'.left \subseteq runner.left
        /\ s \in runner.left /\ ~Refused(c, s)
        /\ \/ runner'.bytes = b
           \/ /\ DOMAIN runner'.bytes = DOMAIN b \cup {s}
              /\ runner'.bytes[s] = Append(tree[s].notes, c)
              /\ \A t \in DOMAIN b : t # s => runner'.bytes[t] = b[t]
    BY <1>0, <1>6, <2>2, ComputeType
  <2>4. Records(Append(tree[s].notes, c), c)
    <3>1. tree[s] \in Contents /\ tree[s] # Gone  BY <1>0, <2>3 DEF Typed, Corpora, Refused
    <3> QED BY <2>2, <3>1, SurveyType, RecordsAppend
  <2>5. Partway(c, runner'.bytes)  BY <2>2, <2>3, <2>4 DEF Partway
  <2>6. runner'.left \subseteq order[c].on  BY <2>2, <2>3
  <2>7. UNCHANGED <<pending, done, order>>  BY <1>6 DEF Compute
  <2> QED BY <1>0, <2>2, <2>3, <2>5, <2>6, <2>7 DEF QueuedWell, Partway, Fails
<1>7. CASE Reply
  <2>1. /\ runner # NoJob /\ runner' = NoJob /\ pending' = pending
        /\ \E ok \in BOOLEAN, b \in {runner.bytes, <<>>} : done' = done \cup {Replying(runner, ok, b)}
    BY <1>7 DEF Reply
  <2>2. PICK ok \in BOOLEAN, b \in {runner.bytes, <<>>} : done' = done \cup {Replying(runner, ok, b)}
    BY <2>1
  <2>3. /\ runner.change \in Change /\ order[runner.change].kind # "retire"
        /\ Partway(runner.change, b)
    BY <1>0, <2>1, EmptyPartway DEF QueuedWell, Numbered
  <2>4. /\ Replying(runner, ok, b).change = runner.change
        /\ Replying(runner, ok, b).bytes = b
        /\ Replying(runner, ok, b).fail <=> \E s \in DOMAIN b : Fails(b[s])
    BY DEF Replying
  <2> HIDE DEF Replying
  <2> QED BY <1>0, <2>1, <2>2, <2>3, <2>4 DEF QueuedWell, Partway, Fails
<1>8. ASSUME RunnerCrash \/ GatewayCrash \/ Others \/ UNCHANGED vars  PROVE QueuedWell'
  BY <1>8, <1>q DEF RunnerCrash, GatewayCrash, Others, Pull, Repair, RemoteCommit, vars
<1> QED BY <1>1, <1>2, <1>3, <1>4, <1>5, <1>6, <1>7, <1>8 DEF Next, Runner

LEMMA InformedStep == Book /\ [Next]_vars => \A k \in Handler : Informed(k)'
<1> SUFFICES ASSUME Book, [Next]_vars, NEW k \in Handler PROVE Informed(k)'
  OBVIOUS
<1>0. /\ Typed /\ Control /\ Numbered /\ Owned /\ QueuedWell /\ ShownWell /\ order' = order
      /\ Informed(k) /\ Steady(k) /\ \A c \in Change : shown[c] \subseteq shown'[c]
  BY ShownStep DEF Book, Pages, Control
<1>a. CASE call'[k] = call[k]
  BY <1>0, <1>a DEF Informed, Told, Settled, At, Kind, Order, Steady
<1>b. CASE call'[k] = Idle
  BY <1>b, IdleFields DEF Informed, Settled, At, InCommit
(* a step of its own *)
<1>m. ASSUME NEW x, NEW l, Moves(k, x, call[k].page, l), x \notin {"idle", "preview"},
             ~At(k, "idle"), ~At(k, "preview"),
             x = "confirm" => Kind(k) # "retire",
             \/ x \in {"confirm", "undo"}
             \/ x \in {"wait", "preflight", "guard"} /\ Kind(k) = "collection"
             \/ Order(k).valid
      PROVE  Informed(k)'
  <2>1. /\ call'[k].at = x /\ call'[k].change = call[k].change /\ call'[k].page = call[k].page
        /\ call[k].change \in Change
    BY <1>0, <1>m DEF Moves, Steady
  <2>2. Kind(k)' = Kind(k) /\ Order(k)' = Order(k)  BY <1>0, <2>1 DEF Kind, Order
  <2>3. Told(k)  BY <1>0, <1>m DEF Informed
  <2>4. Told(k)'  BY <1>0, <2>1, <2>2, <2>3 DEF Told
  <2>5. Settled(k)' => Order(k).valid  BY <1>m, <2>1, <2>2 DEF Settled, At, InCommit
  <2> QED BY <1>m, <2>1, <2>2, <2>4, <2>5 DEF Informed, At
<1>1. ASSUME NEW h \in Handler, Request(h)  PROVE Informed(k)'
  <2>1. PICK c \in Change : \/ Preview(h, c) \/ Retire(h, c)
                            \/ \E p \in shown[c] : Confirm(h, c, p) \/ ConfirmBatch(h, c, p)
    BY <1>1 DEF Request
  <2>2. ASSUME NEW x \in Steps, NEW p \in Bytes, Begin(h, x, c, p)
        PROVE  /\ k # h => Informed(k)'
               /\ call'[h].at = x /\ call'[h].change = c /\ call'[h].page = p
    BY <1>0, <1>a, <2>2, BeginCall
  <2>3. CASE Preview(h, c)
    <3>1. "preview" \in Steps /\ order[c].kind # "retire" /\ Begin(h, "preview", c, <<>>)
      BY <2>3 DEF Steps, Preview
    <3>2. call'[h].at = "preview" /\ call'[h].change = c /\ (k # h => Informed(k)')
      BY <2>2, <3>1, EmptyPage
    <3> QED BY <1>0, <3>1, <3>2 DEF Informed, Settled, At, Kind, Order, InCommit
  <2>4. CASE Retire(h, c)
    <3>1. "wait" \in Steps /\ order[c].kind = "retire" /\ Begin(h, "wait", c, <<>>)
      BY <2>4 DEF Steps, Retire
    <3>2. call'[h].at = "wait" /\ call'[h].change = c /\ call'[h].page = <<>> /\ (k # h => Informed(k)')
      BY <2>2, <3>1, EmptyPage
    <3>3. order[c].valid  BY <1>0, <3>1, OrderTypes DEF Typed
    <3> QED BY <1>0, <3>1, <3>2, <3>3 DEF Informed, Told, Settled, At, Kind, Order, InCommit
  <2>5. ASSUME NEW p \in shown[c], Confirm(h, c, p)  PROVE Informed(k)'
    <3>1. "confirm" \in Steps /\ p \in Bytes /\ order[c].kind # "retire" /\ Begin(h, "confirm", c, p)
      BY <1>0, <2>5 DEF Steps, Confirm, ShownWell, Typed
    <3>2. call'[h].at = "confirm" /\ call'[h].change = c /\ call'[h].page = p /\ (k # h => Informed(k)')
      BY <2>2, <3>1
    <3>3. p \in shown'[c]  BY <1>0
    <3> QED BY <1>0, <3>1, <3>2, <3>3 DEF Informed, Told, Settled, At, Kind, Order, InCommit
  <2>6. ASSUME NEW p \in shown[c], ConfirmBatch(h, c, p)  PROVE Informed(k)'
    <3>1. "wait" \in Steps /\ p \in Bytes /\ order[c].kind = "collection" /\ Begin(h, "wait", c, p)
      BY <1>0, <2>6 DEF Steps, ConfirmBatch, Typed
    <3>2. call'[h].at = "wait" /\ call'[h].change = c /\ call'[h].page = p /\ (k # h => Informed(k)')
      BY <2>2, <3>1
    <3>3. p \in shown'[c]  BY <1>0
    <3> QED BY <1>0, <3>1, <3>2, <3>3 DEF Informed, Told, Settled, At, Kind, Order, InCommit
  <2> QED BY <2>1, <2>3, <2>4, <2>5, <2>6
<1>2. ASSUME NEW h \in Handler, Acquire(h)  PROVE Informed(k)'
  <2>1. /\ At(h, "wait")
        /\ Kind(h) = "collection" => Moves(h, "confirm", call[h].page, call[h].left)
        /\ Kind(h) # "collection" => Moves(h, "preflight", call[h].page, call[h].left)
    BY <1>0, <1>2, AcquireCall
  <2>2. CASE k # h  BY <1>a, <2>1, <2>2 DEF Moves
  <2>3. CASE k = h
    <3>1. Kind(h) # "collection" => Order(h).valid  BY <1>0, <2>1, <2>3 DEF Informed, Settled, At
    <3> QED BY <1>m, <2>1, <2>3, <3>1 DEF At
  <2> QED BY <2>2, <2>3
<1>e. ASSUME NEW h \in Handler, End(h)  PROVE Informed(k)'
  BY <1>0, <1>a, <1>b, <1>e, EndCall
<1>3. ASSUME NEW h \in Handler, Await(h)  PROVE Informed(k)'
  <2>1. CASE End(h)  BY <1>e, <2>1
  <2>2. CASE Answered(h) /\ ~End(h)
    <3>1. PICK r \in Result(h) :
            /\ r \in Results /\ Confirmed(h, r)
            /\ Moves(h, IF lock = h THEN "preflight" ELSE "wait", call[h].page, call[h].left)
      BY <1>0, <2>2, AnsweredCall
    <3>2. CASE k # h  BY <1>a, <3>1, <3>2 DEF Moves
    <3>3. CASE k = h
      <4>1. At(h, "confirm") /\ call[h].change \in Change
        BY <1>0, <2>2, <3>3 DEF Answered, At, Steady
      <4>2. CASE Kind(h) = "collection"  BY <1>m, <3>1, <3>3, <4>1, <4>2 DEF At
      <4>3. CASE Kind(h) # "collection"
        <5>1. call[h].page \in shown[call[h].change]
          BY <1>0, <3>3, <4>1 DEF Informed, Told, At
        <5>2. Partway(call[h].change, call[h].page) /\ DOMAIN call[h].page # {}
          BY <1>0, <4>1, <5>1 DEF ShownWell
        <5>3. \A s \in DOMAIN call[h].page : ~Fails(call[h].page[s])
          BY <1>0, <3>1, <4>3 DEF Confirmed, Kind, Result, QueuedWell
        <5>4. Order(h).valid  BY <4>1, <5>2, <5>3, NotFailed DEF Order
        <5> QED BY <1>m, <3>1, <3>3, <4>1, <5>4 DEF At
      <4> QED BY <4>2, <4>3
    <3> QED BY <3>2, <3>3
  <2> QED BY <1>3, <2>1, <2>2 DEF Await, Shown, Timeout
<1>4. ASSUME Runner \/ RunnerCrash \/ Others \/ UNCHANGED vars  PROVE Informed(k)'
  <2>1. call' = call
    BY <1>4 DEF Runner, RunnerCrash, Claim, Reply, Compute, Others, Pull, Repair, RemoteCommit, vars
  <2> QED BY <1>a, <2>1
<1>5. CASE GatewayCrash  BY <1>5, <1>b DEF GatewayCrash
(* in a commit *)
<1>g. ASSUME NEW h \in Handler, NEW at, NEW x \in InCommit, Step(h, at, x),
             at \in InCommit, at \in {"preflight", "guard"} => x \in {"guard", "undo"},
             at # "undo"
      PROVE  Informed(k)'
  <2>1. x \in Steps  BY DEF Steps
  <2>2. At(h, at) /\ Moves(h, x, call[h].page, call[h].left)  BY <1>0, <1>g, <2>1, StepCall
  <2>3. CASE k # h  BY <1>a, <2>2, <2>3 DEF Moves
  <2>4. CASE k = h
    <3>1. at \notin {"preflight", "guard"} \/ Kind(h) # "collection" => Order(h).valid
      BY <1>0, <1>g, <2>2, <2>4 DEF Informed, Settled, At
    <3> QED BY <1>g, <1>m, <2>2, <2>4, <3>1 DEF At, InCommit
  <2> QED BY <2>3, <2>4
<1>6. ASSUME NEW h \in Handler, Preflight(h)  PROVE Informed(k)'
  BY <1>6, <1>g DEF Preflight, InCommit
<1>7. ASSUME NEW h \in Handler, Guarded(h)  PROVE Informed(k)'
  <2> DEFINE x == IF Kind(h) = "edit" THEN "write" ELSE "branch"
  <2>1. /\ At(h, "guard") /\ Guard(h) /\ Moves(h, x, call[h].page, DOMAIN call[h].page)
    BY <1>0, <1>7, GuardedCall
  <2>2. CASE k # h  BY <1>a, <2>1, <2>2 DEF Moves
  <2>3. CASE k = h
    <3>1. call[h].change \in Change  BY <1>0, <2>1, <2>3 DEF Steady, At
    <3>2. CASE Kind(h) # "collection"
      <4>1. Order(h).valid  BY <1>0, <2>1, <2>3, <3>2 DEF Informed, Settled, At
      <4>2. x \notin {"idle", "preview", "confirm"}  OBVIOUS
      <4> HIDE DEF x
      <4> QED BY <1>m, <2>1, <2>3, <4>1, <4>2 DEF At
    <3>3. CASE Kind(h) = "collection"
      <4>1. call[h].page \in shown[call[h].change]
        BY <1>0, <2>1, <2>3, <3>3 DEF Informed, Told, At
      <4>2. Partway(call[h].change, call[h].page) /\ DOMAIN call[h].page # {}
        BY <1>0, <3>1, <4>1 DEF ShownWell
      <4>3. \A s \in DOMAIN call[h].page : ~Fails(call[h].page[s])
        BY <2>1, <3>3 DEF Guard, Kind
      <4>4. Order(h).valid  BY <3>1, <4>2, <4>3, NotFailed DEF Order
      <4>5. x \notin {"idle", "preview", "confirm"}  OBVIOUS
      <4> HIDE DEF x
      <4> QED BY <1>m, <2>1, <2>3, <4>4, <4>5 DEF At
    <3> QED BY <3>2, <3>3
  <2> QED BY <2>2, <2>3
<1>8. ASSUME NEW h \in Handler, Refuse(h) \/ Rollback(h)  PROVE Informed(k)'
  BY <1>8, <1>e DEF Refuse, Rollback
<1>9. ASSUME NEW h \in Handler, Branch(h)  PROVE Informed(k)'
  <2>1. \E x \in {"commit", "write", "rm"} : Step(h, "branch", x)  BY <1>9 DEF Branch
  <2> QED BY <1>g, <2>1 DEF InCommit
<1>10. ASSUME NEW h \in Handler, Remove(h)  PROVE Informed(k)'
  <2>1. \E x \in {"commit", "write"} : Step(h, "rm", x)  BY <1>10 DEF Remove
  <2> QED BY <1>g, <2>1 DEF InCommit
<1>11. ASSUME NEW h \in Handler, Write(h)  PROVE Informed(k)'
  <2>1. /\ At(h, "write")
        /\ \E s \in call[h].left :
             Moves(h, IF Kind(h) = "edit" THEN "branch" ELSE "commit", call[h].page, call[h].left \ {s})
    BY <1>0, <1>11, WriteCall DEF Book
  <2>2. PICK x \in {"branch", "commit"} : \E l : Moves(h, x, call[h].page, l)  BY <2>1
  <2>3. CASE k # h  BY <1>a, <2>2, <2>3 DEF Moves
  <2>4. CASE k = h
    <3>1. Order(h).valid  BY <1>0, <2>1, <2>4 DEF Informed, Settled, At, InCommit
    <3> QED BY <1>m, <2>1, <2>2, <2>4, <3>1 DEF At
  <2> QED BY <2>3, <2>4
<1>12. ASSUME NEW h \in Handler, CommitWork(h)  PROVE Informed(k)'
  <2>1. \E x \in {"write", "main"} : Step(h, "commit", x)  BY <1>12 DEF CommitWork, NextAfterCommit
  <2> QED BY <1>g, <2>1 DEF InCommit
<1>13. ASSUME NEW h \in Handler, CheckoutMain(h)  PROVE Informed(k)'
  BY <1>13, <1>g DEF CheckoutMain, InCommit
<1>14. ASSUME NEW h \in Handler, Merge(h)  PROVE Informed(k)'
  BY <1>14, <1>g DEF Merge, InCommit
<1>15. ASSUME NEW h \in Handler, Push(h)  PROVE Informed(k)'
  <2>1. End(h) \/ Step(h, "push", "undo")  BY <1>15 DEF Push, Step
  <2> QED BY <1>g, <1>e, <2>1 DEF InCommit
<1>16. ASSUME NEW h \in Handler, CommandFails(h)  PROVE Informed(k)'
  <2>1. Step(h, call[h].at, "undo") /\ call[h].at \in InCommit \ {"undo"}
    BY <1>16 DEF CommandFails, Step, At, InCommit
  <2> QED BY <1>g, <2>1 DEF InCommit
<1> QED BY <1>1, <1>2, <1>3, <1>4, <1>5, <1>6, <1>7, <1>8, <1>9, <1>10, <1>11, <1>12, <1>13,
           <1>14, <1>15, <1>16
        DEF Next, Committing

-----------------------------------------------------------------------------
(* The bookkeeping of requests, jobs and pages is an invariant. *)

LEMMA BookStep == Book /\ [Next]_vars => Book'
BY TypedStep, ControlStep, PlacesStep, AskedStep, ShownStep, QueueStep, InformedStep
   DEF Book, Pages

LEMMA Bookkeeping == Spec => []Book
<1>1. Init => Book
  BY InitTyped, InitControl, InitPlaces, InitOwned, InitPages DEF Book
<1> QED BY <1>1, BookStep, PTL DEF Spec

(* Type correctness, for every value of the constants: among them that only the holder of
   PUBLISH_LOCK is in a commit, and that a batch holds it while it is computed again
   (gateway/app.py). *)
THEOREM Types == Spec => []TypeOK
<1>1. \A b \in Bytes : IsBytes(b)  BY PageType DEF IsBytes
<1>2. \A r \in Seq(Commits) : IsRef(r)
  BY EntryType DEF IsRef, Corpora
<1>3. Book => TypeOK
  <2> SUFFICES ASSUME Book PROVE TypeOK
    OBVIOUS
  <2>0. Typed /\ Control /\ Numbered  BY DEF Book
  <2>1. \A c \in Change : \A p \in shown[c] : IsBytes(p)  BY <1>1, <2>0 DEF Typed
  <2>2. ASSUME NEW h \in Handler
        PROVE  /\ call[h].at \in {"idle", "preview", "confirm", "wait"} \cup InCommit
               /\ IsBytes(call[h].page) /\ call[h].left \subseteq Slug /\ call[h].job \in 0..asked
               /\ At(h, "idle") => call[h] = Idle
               /\ At(h, "idle") \/ call[h].change \in Change
               /\ (lock = h) <=> \/ call[h].at \in InCommit
                                 \/ (At(h, "confirm") /\ Kind(h) = "collection")
    <3>1. call[h] \in Calls  BY <2>0 DEF Typed
    <3>2. call[h].at \in Steps /\ IsBytes(call[h].page) /\ call[h].left \subseteq Slug
      BY <1>1, <3>1 DEF Calls
    <3>3. call[h].job \in 0..asked  BY <2>0, Ids
    <3>4. Steady(h)  BY <2>0 DEF Control
    <3> QED BY <3>2, <3>3, <3>4 DEF Steady, Steps, Holds
  <2>3. \A j \in pending \cup done : IsJob(j)
    BY <2>0 DEF Numbered, IsJob, Typed, Jobs, Results
  <2>4. \A r \in done : IsBytes(r.bytes)  BY <1>1, <2>0 DEF Typed, Results
  <2>5. runner = NoJob \/ (IsJob(runner) /\ IsBytes(runner.bytes))
    BY <1>1, <2>0 DEF Numbered, IsJob, Typed, Works
  <2> QED BY <1>2, <2>0, <2>1, <2>2, <2>3, <2>4, <2>5 DEF Typed, TypeOK, Control, Corpora
<1> QED BY <1>3, Bookkeeping, PTL

(* A request takes only the answer to its own question, however many of its predecessors
   gave up while the runner was at work (gateway/metaedit.py 71-103): every entry of the
   queue with the id of a request is about its change. *)
THEOREM AnswersAreOwn == Spec => []OwnAnswer
<1>1. Book => OwnAnswer  BY DEF Book, Owned, OwnAnswer, Result
<1> QED BY <1>1, Bookkeeping, PTL

-----------------------------------------------------------------------------
(* The checkout at rest. *)

LEMMA SameClean ==
  ASSUME UNCHANGED <<head, main, tree>>
  PROVE  CleanOnMain' = CleanOnMain
BY DEF CleanOnMain, Last

(* The checkout as it was, held by whom it was. *)
LEMMA SameResting ==
  ASSUME Resting, UNCHANGED <<order, head, main, tree, lock>>, crashes' = 0 => crashes = 0,
         \A k \in Handler : lock = k => call'[k] = call[k]
  PROVE  Resting'
<1>1. CleanOnMain' = CleanOnMain  BY SameClean
<1>2. \A k \in Handler : lock' = k => OnMain(k)' = OnMain(k) /\ call'[k].at = call[k].at
  BY DEF OnMain, At, Kind, Order
<1> HIDE DEF CleanOnMain
<1> QED BY <1>1, <1>2 DEF Resting

LEMMA CleanResting == ASSUME CleanOnMain' PROVE Resting'
BY DEF Resting

(* In the middle of a commit. *)
LEMMA BusyResting ==
  ASSUME NEW h \in Handler, lock' = h, ~OnMain(h)', call'[h].at \notin {"confirm", "preflight"}
  PROVE  Resting'
BY NoneApart DEF Resting

(* The holder of the lock leaves it, or goes on to a step after which it looks again. *)
LEMMA LeaveResting ==
  ASSUME NEW h \in Handler, crashes' = 0 => CleanOnMain',
         lock' = None \/ (lock' = h /\ call'[h].at \in {"confirm", "preflight"})
  PROVE  Resting'
BY NoneApart DEF Resting, OnMain, At

LEMMA InitResting == Init => Resting
<1> SUFFICES ASSUME Init PROVE Resting
  OBVIOUS
<1>1. Len(main) = 1 /\ main[1] = Commit(Outside, tree)  BY DEF Init
<1>2. CleanOnMain  BY <1>1 DEF Init, CleanOnMain, Last, Commit
<1> QED BY <1>2 DEF Resting

LEMMA RestingStep == Book /\ Resting /\ [Next]_vars => Resting'
<1> SUFFICES ASSUME Book, Resting, [Next]_vars PROVE Resting'
  OBVIOUS
<1> USE DEF git, queue, faults
<1>0. Typed /\ Control /\ Places /\ Control' /\ order' = order
  BY ControlStep, ShownStep DEF Book
<1>1. ASSUME NEW h \in Handler, Request(h)  PROVE Resting'
  <2>1. PICK c \in Change : \/ Preview(h, c) \/ Retire(h, c)
                            \/ \E p \in shown[c] : Confirm(h, c, p) \/ ConfirmBatch(h, c, p)
    BY <1>1 DEF Request
  <2>2. \A x, p : Begin(h, x, c, p) => At(h, "idle") /\ \A k \in Handler : k # h => call'[k] = call[k]
    BY <1>0 DEF Begin, Typed
  <2>3. /\ UNCHANGED <<order, head, main, tree, lock, crashes>>
        /\ \E x, p : Begin(h, x, c, p)
    <3>1. CASE Preview(h, c)  BY <3>1 DEF Preview
    <3>2. CASE Retire(h, c)  BY <3>2 DEF Retire
    <3>3. ASSUME NEW p \in shown[c], Confirm(h, c, p) \/ ConfirmBatch(h, c, p)
          PROVE  /\ UNCHANGED <<order, head, main, tree, lock, crashes>>
                 /\ \E x : Begin(h, x, c, p)
      BY <3>3 DEF Confirm, ConfirmBatch
    <3> QED BY <2>1, <3>1, <3>2, <3>3
  <2>4. At(h, "idle") /\ \A k \in Handler : k # h => call'[k] = call[k]  BY <2>2, <2>3
  <2>5. lock # h  BY <1>0, <2>4 DEF At, Control, Steady, Holds, InCommit
  <2> QED BY <2>3, <2>4, <2>5, SameResting
<1>2. ASSUME NEW h \in Handler, Acquire(h)  PROVE Resting'
  <2>1. lock = None /\ lock' = h /\ call'[h].at \in {"confirm", "preflight"}
    BY <1>0, <1>2, AcquireCall DEF Moves
  <2>2. UNCHANGED <<head, main, tree, crashes>>  BY <1>2 DEF Acquire
  <2>3. crashes' = 0 => CleanOnMain'  BY <2>1, <2>2, SameClean DEF Resting
  <2> QED BY <2>1, <2>3, LeaveResting
<1>3. ASSUME NEW h \in Handler, Await(h)  PROVE Resting'
  <2>1. UNCHANGED <<order, head, main, tree, crashes>>
    BY <1>3 DEF Await, Shown, Answered, Timeout
  <2>2. call[h].at \in {"preview", "confirm"}  BY <1>3 DEF Await, Shown, Answered, Timeout, At
  <2>3. /\ \A k \in Handler : k # h => call'[k] = call[k]
        /\ lock # h => lock' = lock
        /\ lock = h => lock' = None \/ (lock' = h /\ call'[h].at = "preflight")
    <3>1. CASE End(h)  BY <1>0, <3>1, EndCall
    <3>2. CASE Answered(h) /\ ~End(h)  BY <1>0, <3>2, AnsweredCall DEF Moves
    <3> QED BY <1>3, <3>1, <3>2 DEF Await, Shown, Timeout
  <2>4. CASE lock # h  BY <2>1, <2>3, <2>4, SameResting
  <2>5. CASE lock = h
    <3>1. At(h, "confirm")  BY <1>0, <2>2, <2>5 DEF At, Control, Steady, Holds, InCommit
    <3>2. crashes' = 0 => CleanOnMain'  BY <2>1, <2>5, <3>1, SameClean DEF Resting, At
    <3> QED BY <2>3, <2>5, <3>2, LeaveResting
  <2> QED BY <2>4, <2>5
<1>4. ASSUME Runner \/ RunnerCrash \/ (\E s \in Slug : RemoteCommit(s)) \/ UNCHANGED vars
      PROVE  Resting'
  <2>1. UNCHANGED <<order, call, lock, head, main, tree>> /\ (crashes' = 0 => crashes = 0)
    <3>1. CASE RunnerCrash  BY <1>0, <3>1 DEF RunnerCrash, Typed
    <3>2. CASE Runner  BY <3>2 DEF Runner, Claim, Reply, Compute
    <3>3. CASE (\E s \in Slug : RemoteCommit(s)) \/ UNCHANGED vars
      BY <3>3 DEF RemoteCommit, vars
    <3> QED BY <1>4, <3>1, <3>2, <3>3
  <2> QED BY <2>1, SameResting
<1>s. ASSUME NEW h \in Handler, NEW at, NEW x \in InCommit, Step(h, at, x)
      PROVE  /\ lock = h /\ call[h].at = at /\ lock' = h /\ call'[h].at = x
             /\ call'[h].change = call[h].change /\ Kind(h)' = Kind(h)
  <2>1. x \in Steps  BY DEF Steps
  <2> QED BY <1>0, <1>s, <2>1, StepCall DEF Moves, At, Kind, Order
<1>5. ASSUME NEW h \in Handler, Preflight(h)  PROVE Resting'
  BY <1>5, SameClean, CleanResting DEF Preflight
<1>6. ASSUME NEW h \in Handler, Guarded(h) \/ Refuse(h)  PROVE Resting'
  <2>1. /\ lock = h /\ UNCHANGED <<head, main, tree, crashes>>
        /\ call[h].at \in {"guard", "preflight"}
    BY <1>6 DEF Guarded, Refuse, NotGit, At
  <2>2. CASE call[h].at = "guard"
    BY <2>1, <2>2, SameClean, CleanResting DEF Resting, OnMain
  <2>3. CASE Refuse(h) /\ call[h].at = "preflight"
    <3>1. lock' = None  BY <1>0, <2>1, <2>3, EndCall DEF Refuse
    <3>2. crashes' = 0 => CleanOnMain'  BY <2>1, <2>3, SameClean DEF Resting
    <3> QED BY <3>1, <3>2, LeaveResting
  <2> QED BY <1>6, <2>1, <2>2, <2>3 DEF Guarded, At
<1>7. ASSUME NEW h \in Handler, Branch(h)  PROVE Resting'
  <2>1. PICK x \in {"commit", "write", "rm"} : Step(h, "branch", x) /\ (x = "write" => Kind(h) # "edit")
    BY <1>7 DEF Branch
  <2>2. lock' = h /\ call'[h].at = x /\ Kind(h)' = Kind(h)  BY <1>s, <2>1 DEF InCommit
  <2>3. ~OnMain(h)'  BY <2>1, <2>2 DEF OnMain, At
  <2> QED BY <2>2, <2>3, BusyResting
<1>8. ASSUME NEW h \in Handler, Remove(h)  PROVE Resting'
  <2>1. PICK x \in {"commit", "write"} : Step(h, "rm", x)  BY <1>8 DEF Remove
  <2>2. lock' = h /\ call[h].at = "rm" /\ call'[h].at = x /\ Kind(h)' = Kind(h)
    BY <1>s, <2>1 DEF InCommit
  <2>3. Kind(h) # "edit"  BY <1>0, <2>2 DEF Places, Placed, At
  <2>4. ~OnMain(h)'  BY <2>1, <2>2, <2>3 DEF OnMain, At
  <2> QED BY <2>2, <2>4, BusyResting
<1>9. ASSUME NEW h \in Handler, Write(h)  PROVE Resting'
  <2>1. /\ lock' = h /\ call'[h].change = call[h].change
        /\ call'[h].at = IF Kind(h) = "edit" THEN "branch" ELSE "commit"
    BY <1>0, <1>9, WriteCall DEF Moves
  <2>2. Kind(h)' = Kind(h)  BY <1>0, <2>1 DEF Kind, Order
  <2>3. ~OnMain(h)'  BY <2>1, <2>2 DEF OnMain, At
  <2> QED BY <2>1, <2>3, BusyResting
<1>10. ASSUME NEW h \in Handler, CommitWork(h)  PROVE Resting'
  <2>1. PICK x \in {"write", "main"} : Step(h, "commit", x) /\ (x = "write" => call[h].left # {})
    BY <1>10 DEF CommitWork, NextAfterCommit
  <2>2. lock' = h /\ call[h].at = "commit" /\ call'[h].at = x /\ Kind(h)' = Kind(h)
    BY <1>s, <2>1 DEF InCommit
  <2>3. x = "write" => Kind(h) = "collection"  BY <1>0, <2>1, <2>2 DEF Places, Placed, At
  <2>4. ~OnMain(h)'  BY <2>1, <2>2, <2>3 DEF OnMain, At
  <2> QED BY <2>2, <2>4, BusyResting
<1>11. ASSUME NEW h \in Handler, CheckoutMain(h)  PROVE Resting'
  <2>1. CleanOnMain'  BY <1>11 DEF CheckoutMain, CleanOnMain, Last
  <2> QED BY <2>1, CleanResting
<1>12. ASSUME NEW h \in Handler, Merge(h)  PROVE Resting'
  <2>1. head = "main"  BY <1>0, <1>12 DEF Merge, Step, Places, Placed, At
  <2>2. CleanOnMain'  BY <1>12, <2>1 DEF Merge, CleanOnMain, Last
  <2> QED BY <2>2, CleanResting
<1>13. ASSUME NEW h \in Handler, Push(h)  PROVE Resting'
  <2>1. lock = h /\ At(h, "push") /\ UNCHANGED <<head, main, tree>>  BY <1>13 DEF Push
  <2>2. CleanOnMain  BY <2>1 DEF Resting, OnMain, At
  <2> QED BY <2>1, <2>2, SameClean, CleanResting
<1>14. ASSUME NEW h \in Handler, CommandFails(h)  PROVE Resting'
  <2>1. lock' = h /\ call'[h].at = "undo"
    BY <1>0, <1>14, GoCall DEF CommandFails, Steps, InCommit
  <2>2. ~OnMain(h)'  BY <2>1 DEF OnMain, At
  <2> QED BY <2>1, <2>2, BusyResting
<1>15. ASSUME NEW h \in Handler, Rollback(h)  PROVE Resting'
  <2>1. CleanOnMain'  BY <1>15 DEF Rollback, Restored, CleanOnMain, Last
  <2> QED BY <2>1, CleanResting
<1>16. CASE GatewayCrash
  <2>1. crashes' # 0 /\ lock' = None  BY <1>0, <1>16 DEF GatewayCrash, Typed
  <2> QED BY <2>1, NoneApart DEF Resting
<1>17. CASE Pull
  <2> DEFINE now == Last(main).corpus
             new == Last(origin).corpus
  <2>1. /\ head' = head /\ UNCHANGED <<order, call, lock, crashes>>
        /\ main' = origin
        /\ tree' = [s \in Slug |-> IF s \in {t \in Slug : now[t] # new[t]} THEN new[s] ELSE tree[s]]
    BY <1>17 DEF Pull
  <2>2. now \in Corpora /\ new \in Corpora  BY <1>0, LastType DEF Typed, Control
  <2>3. CleanOnMain => CleanOnMain'
    <3>1. ASSUME CleanOnMain  PROVE tree' = Last(origin).corpus
      <4>1. tree = now  BY <3>1 DEF CleanOnMain
      <4>2. tree' = new  BY <2>1, <2>2, <4>1 DEF Corpora
      <4> QED BY <4>2
    <3> QED BY <2>1, <3>1 DEF CleanOnMain, Last
  <2>4. \A k \in Handler : OnMain(k)' = OnMain(k)  BY <2>1 DEF OnMain, At, Kind, Order
  <2> QED BY <2>1, <2>3, <2>4 DEF Resting
<1>18. CASE Repair
  <2>1. CleanOnMain'  BY <1>18 DEF Repair, CleanOnMain, Last
  <2> QED BY <2>1, CleanResting
<1> QED BY <1>1, <1>2, <1>3, <1>4, <1>5, <1>6, <1>7, <1>8, <1>9, <1>10, <1>11, <1>12,
           <1>13, <1>14, <1>15, <1>16, <1>17, <1>18
        DEF Next, Committing, Others

LEMMA Rests == Spec => []Resting
BY InitResting, RestingStep, Bookkeeping, PTL DEF Spec

(* Whatever failed, the checkout is clean and on main when nobody holds PUBLISH_LOCK, unless
   the gateway died in a commit (gateway/publish.py 239-258). *)
THEOREM RestIsClean == Spec => []CleanAtRest
<1>1. Resting => CleanAtRest  BY DEF Resting, CleanAtRest
<1> QED BY <1>1, Rests, PTL

-----------------------------------------------------------------------------
(* What a survey records, it records once. *)

LEMMA SameSingly ==
  ASSUME order' = order, NEW n
  PROVE  Singly(n)' <=> Singly(n)
BY DEF Singly, Again

(* One more change: a removal of stations, somebody else's, or one that is not there. *)
LEMMA SinglyAppend ==
  ASSUME NEW n \in Notes, NEW c \in Change \cup {Outside}, Singly(n),
         c \in Change => order[c].kind = "stations" \/ ~Records(n, c)
  PROVE  Singly(Append(n, c))
<1> DEFINE m == Append(n, c)
<1>1. /\ Len(n) \in Nat /\ Len(m) = Len(n) + 1
      /\ \A i \in 1..Len(n) : m[i] = n[i]
      /\ m[Len(n)+1] = c
  BY AppendProperties, LenProperties DEF Notes
<1> HIDE DEF m
<1>2. ASSUME NEW i \in 1..Len(m), NEW j \in 1..Len(m), Again(m, i, j), i < j
      PROVE  FALSE
  <2>1. i \in 1..Len(n) /\ m[i] = n[i]  BY <1>1, <1>2
  <2>2. CASE j \in 1..Len(n)
    BY <1>1, <1>2, <2>1, <2>2 DEF Singly, Again
  <2>3. CASE j = Len(n)+1
    <3>1. n[i] = c /\ c \in Change /\ order[c].kind # "stations"
      BY <1>1, <1>2, <2>1, <2>3 DEF Again
    <3> QED BY <2>1, <3>1 DEF Records
  <2> QED BY <1>1, <2>2, <2>3
<1>3. ASSUME NEW i \in 1..Len(m), NEW j \in 1..Len(m), Again(m, i, j)
      PROVE  FALSE
  <2>1. Again(m, j, i) /\ (i < j \/ j < i)  BY <1>1, <1>3 DEF Again
  <2> QED BY <1>2, <1>3, <2>1
<1> QED BY <1>3 DEF Singly, m

LEMMA RefOnceAppend ==
  ASSUME NEW r \in Seq(Commits), NEW e \in Commits, RefOnce(r), CorpusOnce(e.corpus)
  PROVE  RefOnce(Append(r, e))
<1>1. /\ Len(Append(r, e)) = Len(r) + 1 /\ Len(r) \in Nat
      /\ \A i \in 1..Len(r) : Append(r, e)[i] = r[i]
      /\ Append(r, e)[Len(r)+1] = e
  BY AppendProperties, LenProperties
<1>2. ASSUME NEW i \in 1..Len(Append(r, e))  PROVE CorpusOnce(Append(r, e)[i].corpus)
  <2>1. i \in 1..Len(r) \/ i = Len(r)+1  BY <1>1
  <2> QED BY <1>1, <2>1 DEF RefOnce
<1> QED BY <1>2 DEF RefOnce

LEMMA LastOnce ==
  ASSUME NEW r \in Seq(Commits), r # NoRef, RefOnce(r)
  PROVE  CorpusOnce(Last(r).corpus)
BY LastType DEF RefOnce

LEMMA NoRefOnce == RefOnce(NoRef)
BY NoRefType DEF RefOnce

LEMMA EmptyOnce == PageOnce(<<>>)
BY EmptyPage DEF PageOnce

(* The parts of OnceInv. *)
PagesOnce == /\ \A c \in Change : \A p \in shown[c] : PageOnce(p)
             /\ \A h \in Handler : PageOnce(call[h].page)
             /\ \A r \in done : PageOnce(r.bytes)
             /\ PageOnce(runner.bytes)
RefsOnce == RefOnce(main) /\ RefOnce(tip) /\ RefOnce(pre) /\ RefOnce(origin)

LEMMA OnceParts == OnceInv <=> PagesOnce /\ CorpusOnce(tree) /\ RefsOnce
BY DEF OnceInv, PagesOnce, RefsOnce

LEMMA SameOnce ==
  ASSUME order' = order
  PROVE  /\ \A b : PageOnce(b)' <=> PageOnce(b)
         /\ \A x : CorpusOnce(x)' <=> CorpusOnce(x)
         /\ \A r : RefOnce(r)' <=> RefOnce(r)
<1>1. \A n : Singly(n)' <=> Singly(n)  BY SameSingly
<1> QED BY <1>1 DEF PageOnce, CorpusOnce, RefOnce

LEMMA InitOnce == Init => OnceInv
<1> SUFFICES ASSUME Init PROVE OnceInv
  OBVIOUS
<1>1. Singly(<<>>)  BY DEF Singly
<1>2. CorpusOnce(tree)  BY <1>1 DEF Init, CorpusOnce, Ledger!New
<1>3. RefOnce(main)
  <2>1. Len(main) = 1 /\ main[1].corpus = tree  BY DEF Init, Commit
  <2> QED BY <1>2, <2>1 DEF RefOnce
<1>4. \A c \in Change : \A p \in shown[c] : PageOnce(p)
  <2>1. PICK open \in SUBSET {c \in Change : order[c].kind # "retire"} :
          shown = [c \in Change |-> IF c \in open THEN {[s \in order[c].on |-> <<c>>]} ELSE {}]
    BY DEF Init, Ledger!FirstPages
  <2>2. \A c : Singly(<<c>>)  BY DEF Singly, Again
  <2>3. \A c \in Change : PageOnce([s \in order[c].on |-> <<c>>])  BY <2>2 DEF PageOnce
  <2> QED BY <2>1, <2>3
<1> QED BY <1>2, <1>3, <1>4, EmptyOnce, NoRefOnce, IdleFields, NoJobType DEF Init, OnceInv

(* The runner appends the change only where it is not recorded, unless it is a removal of
   stations. *)
LEMMA ComputeOnce ==
  ASSUME Typed, NEW s \in Slug, Compute(s), runner.change \in Change,
         order[runner.change].kind # "retire", PageOnce(runner.bytes), CorpusOnce(tree)
  PROVE  PageOnce(runner'.bytes)
<1> DEFINE c == runner.change
           b == runner.bytes
<1>1. /\ ~Refused(c, s)
      /\ \/ runner'.bytes = b
         \/ /\ ~Unchanged(c, s) /\ DOMAIN runner'.bytes = DOMAIN b \cup {s}
            /\ runner'.bytes[s] = Append(tree[s].notes, c)
            /\ \A t \in DOMAIN b : t # s => runner'.bytes[t] = b[t]
  BY ComputeType
<1>2. tree[s] \in Contents /\ tree[s] # Gone  BY <1>1 DEF Typed, Corpora, Refused
<1>3. tree[s].notes \in Notes /\ Singly(tree[s].notes)
  BY <1>2, SurveyType DEF CorpusOnce
<1>4. ~Unchanged(c, s) => order[c].kind = "stations" \/ ~Records(tree[s].notes, c)
  <2>1. order[c].kind \in {"edit", "stations", "collection"}  BY OrderTypes DEF Typed
  <2> QED BY <1>1, <2>1 DEF Unchanged, Refused
<1>5. ~Unchanged(c, s) => Singly(Append(tree[s].notes, c))
  BY <1>3, <1>4, SinglyAppend
<1> QED BY <1>1, <1>5 DEF PageOnce

LEMMA PagesOnceStep == Book /\ OnceInv /\ [Next]_vars => PagesOnce'
<1> SUFFICES ASSUME Book, OnceInv, [Next]_vars PROVE PagesOnce'
  OBVIOUS
<1> USE DEF queue
<1>0. /\ Typed /\ Control /\ Numbered /\ QueuedWell /\ order' = order /\ PagesOnce
      /\ CorpusOnce(tree)
  BY ShownStep, OnceParts DEF Book, Pages
<1>a. ASSUME shown' = shown, done' \subseteq done, runner' = runner \/ runner' = NoJob,
             \A k \in Handler : \/ call'[k].page = call[k].page \/ call'[k] = Idle
                                \/ \E c \in Change : call'[k].page \in shown[c] \cup {<<>>}
      PROVE  PagesOnce'
  <2>1. \A c \in Change : \A p \in shown'[c] : PageOnce(p)  BY <1>0, <1>a DEF PagesOnce
  <2>2. \A k \in Handler : PageOnce(call'[k].page)
    BY <1>0, <1>a, EmptyOnce, IdleFields DEF PagesOnce
  <2>3. (\A r \in done' : PageOnce(r.bytes)) /\ PageOnce(runner'.bytes)
    BY <1>0, <1>a, EmptyOnce, NoJobType DEF PagesOnce
  <2> QED BY <1>0, <2>1, <2>2, <2>3, SameOnce DEF PagesOnce
<1>e. ASSUME NEW h \in Handler, End(h)
      PROVE  \A k \in Handler : call'[k].page = call[k].page \/ call'[k] = Idle
  BY <1>0, <1>e, EndCall
<1>1. ASSUME NEW h \in Handler, Request(h)  PROVE PagesOnce'
  <2>1. PICK c \in Change : \/ Preview(h, c) \/ Retire(h, c)
                            \/ \E p \in shown[c] : Confirm(h, c, p) \/ ConfirmBatch(h, c, p)
    BY <1>1 DEF Request
  <2>2. ASSUME NEW x \in Steps, NEW p \in Bytes, p \in shown[c] \cup {<<>>}, Begin(h, x, c, p)
        PROVE  \A k \in Handler : \/ call'[k].page = call[k].page \/ call'[k] = Idle
                                  \/ \E d \in Change : call'[k].page \in shown[d] \cup {<<>>}
    BY <1>0, <2>2, BeginCall
  <2>3. shown' = shown /\ runner' = runner
    BY <2>1 DEF Preview, Retire, Confirm, ConfirmBatch
  <2>4. done' \subseteq done
    BY <2>1 DEF Preview, Retire, Confirm, ConfirmBatch, Enqueue
  <2>5. \E x \in Steps, p \in Bytes : p \in shown[c] \cup {<<>>} /\ Begin(h, x, c, p)
    <3>1. CASE Preview(h, c) \/ Retire(h, c)
      BY <3>1, EmptyPage DEF Preview, Retire, Steps
    <3>2. ASSUME NEW p \in shown[c], Confirm(h, c, p) \/ ConfirmBatch(h, c, p)
          PROVE  \E x \in Steps : Begin(h, x, c, p)
      BY <3>2 DEF Confirm, ConfirmBatch, Steps
    <3>3. \A p \in shown[c] : p \in Bytes  BY <1>0 DEF Typed
    <3> QED BY <2>1, <3>1, <3>2, <3>3
  <2> QED BY <1>a, <2>2, <2>3, <2>4, <2>5
<1>2. ASSUME NEW h \in Handler, Acquire(h)  PROVE PagesOnce'
  <2>1. \A k \in Handler : call'[k].page = call[k].page  BY <1>0, <1>2, AcquireCall DEF Moves
  <2> QED BY <1>2, <1>a, <2>1 DEF Acquire, Enqueue
<1>3. ASSUME NEW h \in Handler, Answered(h) \/ Timeout(h)  PROVE PagesOnce'
  <2>1. shown' = shown /\ done' \subseteq done /\ runner' = runner
    BY <1>3 DEF Answered, Timeout
  <2>2. CASE End(h)  BY <1>a, <1>e, <2>1, <2>2
  <2>3. CASE Answered(h) /\ ~End(h)
    <3>1. \A k \in Handler : call'[k].page = call[k].page
      BY <1>0, <2>3, AnsweredCall DEF Moves
    <3> QED BY <1>a, <2>1, <3>1
  <2> QED BY <1>3, <2>2, <2>3 DEF Timeout
<1>4. ASSUME NEW h \in Handler, Shown(h)  PROVE PagesOnce'
  <2>1. PICK r \in Result(h) :
          /\ done' = done \ {r}
          /\ shown' = IF r.ok /\ DOMAIN r.bytes # {}
                      THEN [shown EXCEPT ![call[h].change] = @ \cup {r.bytes}] ELSE shown
    BY <1>4 DEF Shown
  <2>2. PageOnce(r.bytes)  BY <1>0, <2>1 DEF Result, PagesOnce
  <2>3. \A c \in Change : \A p \in shown'[c] : p \in shown[c] \/ p = r.bytes
    BY <1>0, <2>1 DEF Typed
  <2>4. \A c \in Change : \A p \in shown'[c] : PageOnce(p)  BY <1>0, <2>2, <2>3 DEF PagesOnce
  <2>5. \A k \in Handler : PageOnce(call'[k].page)
    BY <1>0, <1>4, <1>e, EmptyOnce, IdleFields DEF PagesOnce, Shown
  <2>6. (\A q \in done' : PageOnce(q.bytes)) /\ PageOnce(runner'.bytes)
    BY <1>0, <1>4, <2>1 DEF PagesOnce, Shown
  <2> QED BY <1>0, <2>4, <2>5, <2>6, SameOnce DEF PagesOnce
<1>5. ASSUME NEW h \in Handler, Committing(h)  PROVE PagesOnce'
  <2>1. shown' = shown /\ done' = done /\ runner' = runner
    BY <1>5 DEF Committing, Preflight, Guarded, Refuse, Branch, Remove, Write, CommitWork,
                 CheckoutMain, Merge, Push, CommandFails, Rollback, NotGit
  <2>2. CASE End(h)  BY <1>a, <1>e, <2>1, <2>2
  <2>3. CASE Guarded(h) \/ Write(h)
    <3>1. \A k \in Handler : call'[k].page = call[k].page
      BY <1>0, <2>3, GuardedCall, WriteCall DEF Moves
    <3> QED BY <1>a, <2>1, <3>1
  <2>4. CASE ~End(h) /\ ~Guarded(h) /\ ~Write(h)
    <3>1. PICK x \in {"guard", "commit", "write", "rm", "main", "merge", "push", "undo"} : Go(h, x)
      BY <1>5, <2>4 DEF Committing, Preflight, Refuse, Branch, Remove, CommitWork,
               CheckoutMain, Merge, Push, CommandFails, Rollback, Step, NextAfterCommit
    <3>2. x \in Steps  BY DEF Steps, InCommit
    <3>3. \A k \in Handler : call'[k].page = call[k].page  BY <1>0, <3>1, <3>2, GoCall
    <3> QED BY <1>a, <2>1, <3>3
  <2> QED BY <2>2, <2>3, <2>4
<1>6. CASE Claim
  <2>1. shown' = shown /\ call' = call /\ done' = done /\ runner'.bytes = <<>>
    BY <1>6 DEF Claim
  <2> QED BY <1>0, <2>1, EmptyOnce, SameOnce DEF PagesOnce
<1>7. ASSUME NEW s \in Slug, Compute(s)  PROVE PagesOnce'
  <2>1. shown' = shown /\ call' = call /\ done' = done /\ runner # NoJob
    BY <1>7, NoJobType DEF Compute
  <2>2. PageOnce(runner'.bytes)
    BY <1>0, <1>7, <2>1, ComputeOnce DEF PagesOnce, QueuedWell, Numbered
  <2> QED BY <1>0, <2>1, <2>2, SameOnce DEF PagesOnce
<1>8. CASE Reply
  <2>1. /\ shown' = shown /\ call' = call /\ runner' = NoJob
        /\ \A r \in done' : r \in done \/ r.bytes \in {runner.bytes, <<>>}
    BY <1>8 DEF Reply, Replying
  <2>2. (\A r \in done' : PageOnce(r.bytes)) /\ PageOnce(runner'.bytes)
    BY <1>0, <2>1, EmptyOnce, NoJobType DEF PagesOnce
  <2> QED BY <1>0, <2>1, <2>2, SameOnce DEF PagesOnce
<1>9. ASSUME RunnerCrash \/ GatewayCrash \/ Others \/ UNCHANGED vars  PROVE PagesOnce'
  <2>1. /\ shown' = shown /\ done' = done /\ (runner' = runner \/ runner' = NoJob)
        /\ \A k \in Handler : call'[k] = call[k] \/ call'[k] = Idle
    BY <1>9 DEF RunnerCrash, GatewayCrash, Others, Pull, Repair, RemoteCommit, vars
  <2> QED BY <1>a, <2>1
<1> QED BY <1>1, <1>2, <1>3, <1>4, <1>5, <1>6, <1>7, <1>8, <1>9 DEF Next, Await, Runner

LEMMA RefsOnceStep == Book /\ OnceInv /\ [Next]_vars => (CorpusOnce(tree) /\ RefsOnce)'
<1> SUFFICES ASSUME Book, OnceInv, [Next]_vars PROVE (CorpusOnce(tree) /\ RefsOnce)'
  OBVIOUS
<1> USE DEF git, queue, faults
<1>0. /\ Typed /\ Control /\ order' = order /\ PagesOnce
      /\ CorpusOnce(tree) /\ RefsOnce
  BY ShownStep, OnceParts DEF Book
<1>a. ASSUME CorpusOnce(tree'), RefOnce(main'), RefOnce(tip'), RefOnce(pre'), RefOnce(origin')
      PROVE  (CorpusOnce(tree) /\ RefsOnce)'
  BY <1>0, <1>a, SameOnce DEF RefsOnce
<1>b. RefOnce(main) /\ RefOnce(tip) /\ RefOnce(pre) /\ RefOnce(origin)  BY <1>0 DEF RefsOnce
<1>l. CorpusOnce(Last(main).corpus) /\ CorpusOnce(Last(origin).corpus)
  BY <1>0, <1>b, LastOnce DEF Typed, Control
<1>1. ASSUME NEW h \in Handler, Request(h) \/ Acquire(h) \/ Await(h)
      PROVE  (CorpusOnce(tree) /\ RefsOnce)'
  <2>1. UNCHANGED <<tree, main, tip, pre, origin>>
    BY <1>1 DEF Request, Preview, Retire, Confirm, ConfirmBatch, Acquire, Await, Shown, Answered,
                Timeout
  <2> QED BY <1>0, <1>a, <1>b, <2>1
<1>2. ASSUME Runner \/ RunnerCrash \/ UNCHANGED vars  PROVE (CorpusOnce(tree) /\ RefsOnce)'
  <2>1. UNCHANGED <<tree, main, tip, pre, origin>>
    BY <1>2 DEF Runner, Claim, Reply, Compute, RunnerCrash, vars
  <2> QED BY <1>0, <1>a, <1>b, <2>1
<1>3. ASSUME NEW h \in Handler, Preflight(h) \/ Guarded(h) \/ Refuse(h) \/ CommandFails(h)
      PROVE  (CorpusOnce(tree) /\ RefsOnce)'
  <2>1. UNCHANGED <<tree, main, tip, origin>> /\ pre' \in {pre, main, NoRef}
    BY <1>3 DEF Preflight, Guarded, Refuse, CommandFails
  <2> QED BY <1>0, <1>a, <1>b, <2>1, NoRefOnce
<1>4. ASSUME NEW h \in Handler, Branch(h)  PROVE (CorpusOnce(tree) /\ RefsOnce)'
  <2>1. UNCHANGED <<tree, main, pre, origin>> /\ tip' \in {main, tip}
    BY <1>4 DEF Branch, HeadRef
  <2> QED BY <1>0, <1>a, <1>b, <2>1
<1>5. ASSUME NEW h \in Handler, Remove(h)  PROVE (CorpusOnce(tree) /\ RefsOnce)'
  <2>1. UNCHANGED <<main, tip, pre, origin>>
        /\ tree' = [s \in Slug |-> IF s \notin Order(h).on THEN tree[s]
                                   ELSE IF Kind(h) = "retire" THEN Gone
                                   ELSE [tree[s] EXCEPT !.edis = @ \ Order(h).drop]]
        /\ \A s \in Order(h).on : tree[s] # Gone
    BY <1>5 DEF Remove
  <2>2. ASSUME NEW s \in Slug, tree'[s] # Gone  PROVE Singly(tree'[s].notes)
    <3>1. CASE s \notin Order(h).on  BY <1>0, <2>1, <2>2, <3>1 DEF CorpusOnce
    <3>2. CASE s \in Order(h).on
      <4>1. tree[s] \in Contents /\ tree[s] # Gone  BY <1>0, <2>1, <3>2 DEF Typed, Corpora
      <4>2. tree'[s] = [tree[s] EXCEPT !.edis = tree[s].edis \ Order(h).drop]  BY <2>1, <2>2, <3>2
      <4>3. tree'[s].notes = tree[s].notes  BY <4>1, <4>2, SurveyExcept
      <4> QED BY <1>0, <4>1, <4>3 DEF CorpusOnce
    <3> QED BY <3>1, <3>2
  <2>3. CorpusOnce(tree')  BY <2>2 DEF CorpusOnce
  <2> QED BY <1>a, <1>b, <2>1, <2>3
<1>6. ASSUME NEW h \in Handler, Write(h)  PROVE (CorpusOnce(tree) /\ RefsOnce)'
  <2>1. PICK s \in call[h].left :
          /\ s \in Slug /\ s \in DOMAIN call[h].page
          /\ tree' = [tree EXCEPT ![s] = [notes |-> call[h].page[s], edis |-> tree[s].edis]]
    BY <1>0, <1>6, WriteCall
  <2>2. Singly(call[h].page[s])  BY <1>0, <2>1 DEF PagesOnce, PageOnce
  <2>3. /\ tree'[s].notes = call[h].page[s]
        /\ \A t \in Slug : t # s => tree'[t] = tree[t]
    BY <1>0, <2>1 DEF Typed, Corpora
  <2>4. CorpusOnce(tree')  BY <1>0, <2>2, <2>3 DEF CorpusOnce
  <2> QED BY <1>6, <1>a, <1>b, <2>4 DEF Write
<1>7. ASSUME NEW h \in Handler, CommitWork(h)  PROVE (CorpusOnce(tree) /\ RefsOnce)'
  <2>1. call[h].change \in Change  BY <1>0, <1>7 DEF CommitWork, Step, At, Control, Steady
  <2>2. Commit(call[h].change, tree) \in Commits /\ Commit(call[h].change, tree).corpus = tree
    BY <1>0, <2>1, CommitType DEF Typed
  <2>3. RefOnce(tip')  BY <1>0, <1>7, <1>b, <2>2, RefOnceAppend DEF CommitWork, Typed
  <2> QED BY <1>0, <1>7, <1>a, <1>b, <2>3 DEF CommitWork
<1>8. ASSUME NEW h \in Handler, CheckoutMain(h)  PROVE (CorpusOnce(tree) /\ RefsOnce)'
  BY <1>8, <1>a, <1>b, <1>l DEF CheckoutMain
<1>9. ASSUME NEW h \in Handler, Merge(h)  PROVE (CorpusOnce(tree) /\ RefsOnce)'
  <2>1. tip # NoRef  BY <1>0, <1>9, LastType, NoRefType DEF Merge, Prefix, Control, Typed
  <2>2. CorpusOnce(Last(tip).corpus)  BY <1>0, <1>b, <2>1, LastOnce DEF Typed
  <2> QED BY <1>9, <1>a, <1>b, <2>2 DEF Merge
<1>10. ASSUME NEW h \in Handler, Push(h)  PROVE (CorpusOnce(tree) /\ RefsOnce)'
  <2>1. tree' = tree /\ main' = main /\ origin' = main /\ tip' \in {tip, NoRef} /\ pre' \in {pre, NoRef}
    BY <1>10 DEF Push
  <2> QED BY <1>0, <1>a, <1>b, <2>1, NoRefOnce
<1>11. ASSUME NEW h \in Handler, Rollback(h)  PROVE (CorpusOnce(tree) /\ RefsOnce)'
  <2>1. pre # NoRef  BY <1>0, <1>11 DEF Rollback, At, Control, Steady, Begun, InCommit
  <2>2. CorpusOnce(Last(pre).corpus)  BY <1>0, <1>b, <2>1, LastOnce DEF Typed
  <2> QED BY <1>11, <1>a, <1>b, <2>2, NoRefOnce DEF Rollback, Restored
<1>12. CASE GatewayCrash
  <2>1. UNCHANGED <<tree, main, origin>> /\ tip' \in {tip, NoRef} /\ pre' = NoRef
    BY <1>12 DEF GatewayCrash
  <2> QED BY <1>0, <1>a, <1>b, <2>1, NoRefOnce
<1>13. ASSUME NEW s \in Slug, RemoteCommit(s)  PROVE (CorpusOnce(tree) /\ RefsOnce)'
  <2> DEFINE old == Last(origin).corpus
             new == [old EXCEPT ![s].notes = Append(@, Outside)]
  <2>1. origin' = Append(origin, Commit(Outside, new)) /\ UNCHANGED <<tree, main, tip, pre>>
        /\ old[s] # Gone
    BY <1>13 DEF RemoteCommit
  <2>2. old \in Corpora  BY <1>0, LastType DEF Typed, Control
  <2>3. old[s] \in Contents /\ old[s].notes \in Notes  BY <2>1, <2>2, SurveyType DEF Corpora
  <2>4. Append(old[s].notes, Outside) \in Notes /\ Singly(Append(old[s].notes, Outside))
    <3>1. Singly(old[s].notes)  BY <1>l, <2>1 DEF CorpusOnce
    <3> QED BY <2>3, <3>1, RecordsAppend, SinglyAppend, EditsAssumption
  <2>5. new = [old EXCEPT ![s] = [notes |-> Append(old[s].notes, Outside), edis |-> old[s].edis]]
        /\ [notes |-> Append(old[s].notes, Outside), edis |-> old[s].edis] \in Contents
    BY <2>1, <2>3, <2>4, SurveyExcept, SurveyType
  <2>6. new \in Corpora  BY <2>2, <2>5 DEF Corpora
  <2>7. CorpusOnce(new)
    <3>1. new[s].notes = Append(old[s].notes, Outside) /\ \A t \in Slug : t # s => new[t] = old[t]
      BY <2>2, <2>5 DEF Corpora
    <3> QED BY <1>l, <2>4, <3>1 DEF CorpusOnce
  <2> HIDE DEF new, old
  <2>8. Commit(Outside, new) \in Commits /\ Commit(Outside, new).corpus = new
    BY <2>6, CommitType
  <2>9. origin \in Seq(Commits)  BY <1>0 DEF Typed
  <2>10. RefOnce(Append(origin, Commit(Outside, new)))
    BY <1>b, <2>7, <2>8, <2>9, RefOnceAppend
  <2> QED BY <1>0, <1>a, <1>b, <2>1, <2>10
<1>14. CASE Pull
  <2> DEFINE moved == {s \in Slug : Last(main).corpus[s] # Last(origin).corpus[s]}
  <2>1. /\ main' = origin /\ UNCHANGED <<tip, pre, origin>>
        /\ tree' = [s \in Slug |-> IF s \in moved THEN Last(origin).corpus[s] ELSE tree[s]]
    BY <1>14 DEF Pull
  <2> HIDE DEF moved
  <2>2. CorpusOnce(tree')  BY <1>0, <1>l, <2>1 DEF CorpusOnce
  <2> QED BY <1>a, <1>b, <2>1, <2>2
<1>15. CASE Repair
  BY <1>15, <1>a, <1>b, <1>l, NoRefOnce DEF Repair
<1> QED BY <1>1, <1>2, <1>3, <1>4, <1>5, <1>6, <1>7, <1>8, <1>9, <1>10, <1>11, <1>12,
           <1>13, <1>14, <1>15
        DEF Next, Committing, Others

LEMMA Onces == Spec => []OnceInv
<1>1. Book /\ OnceInv /\ [Next]_vars => OnceInv'
  BY PagesOnceStep, RefsOnceStep DEF OnceInv, PagesOnce, RefsOnce
<1> QED BY <1>1, InitOnce, Bookkeeping, PTL DEF Spec

(* No survey at origin records an edit or a batch twice, though it is confirmed twice from one
   page, or again after its push landed unnoticed: what is written is the page, and the page
   was computed on bytes without it (gateway/runner/edit.py, gateway/publish.py 245-258). *)
THEOREM EditsAreRecordedOnce == Spec => []RecordedOnce
<1>1. Book /\ OnceInv => RecordedOnce
  <2> SUFFICES ASSUME Book, OnceInv PROVE RecordedOnce
    OBVIOUS
  <2>1. CorpusOnce(Last(origin).corpus)
    BY LastOnce DEF Book, Typed, Control, OnceInv
  <2> QED BY <2>1 DEF CorpusOnce, Singly, RecordedOnce
<1> QED BY <1>1, Bookkeeping, Onces, PTL

-----------------------------------------------------------------------------
(* Refs that are prefixes of others. *)

LEMMA PrefixEntries ==
  ASSUME NEW r \in Seq(Commits), NEW q \in Seq(Commits)
  PROVE  Prefix(r, q) <=> Len(r) <= Len(q) /\ \A i \in 1..Len(r) : q[i] = r[i]
<1>1. Len(r) \in Nat /\ Len(q) \in Nat  OBVIOUS
<1>2. ASSUME Len(r) <= Len(q)
      PROVE  /\ SubSeq(q, 1, Len(r)) \in Seq(Commits)
             /\ Len(SubSeq(q, 1, Len(r))) = Len(r)
             /\ \A i \in 1..Len(r) : SubSeq(q, 1, Len(r))[i] = q[i]
  <2>1. \A i \in 1..Len(r) : q[i] \in Commits  BY <1>1, <1>2, ElementOfSeq
  <2> QED BY <1>1, <2>1, SubSeqProperties
<1>3. ASSUME Prefix(r, q)
      PROVE  Len(r) <= Len(q) /\ \A i \in 1..Len(r) : q[i] = r[i]
  BY <1>2, <1>3 DEF Prefix
<1>4. ASSUME Len(r) <= Len(q), \A i \in 1..Len(r) : q[i] = r[i]
      PROVE  Prefix(r, q)
  <2>1. SubSeq(q, 1, Len(r)) = r  BY <1>2, <1>4, SeqEqual
  <2> QED BY <1>4, <2>1 DEF Prefix
<1> QED BY <1>3, <1>4

(* Of one length they are the same. *)
LEMMA PrefixWhole ==
  ASSUME NEW r \in Seq(Commits), NEW q \in Seq(Commits), Prefix(r, q), Len(q) <= Len(r)
  PROVE  r = q
<1>1. Len(r) = Len(q) /\ \A i \in 1..Len(r) : q[i] = r[i]  BY PrefixEntries
<1> QED BY <1>1, SeqEqual

(* Who works while others wait. *)

LEMMA Meanwhile ==
  ASSUME Typed, Control, NEW h \in Handler, Request(h) \/ Acquire(h) \/ Await(h)
  PROVE  /\ UNCHANGED <<order, head, main, tip, tree, pre, origin, remote, lost, crashes>>
         /\ \A k \in Handler : lock' = k /\ call'[k].at \in Begun => lock = k /\ call'[k] = call[k]
<1> USE DEF git, queue, faults
<1>1. CASE Request(h)
  <2>1. PICK c \in Change : \/ Preview(h, c) \/ Retire(h, c)
                            \/ \E p \in shown[c] : Confirm(h, c, p) \/ ConfirmBatch(h, c, p)
    BY <1>1 DEF Request
  <2>2. /\ UNCHANGED <<order, head, main, tip, tree, pre, origin, remote, lost, crashes, lock>>
        /\ \E x \in {"preview", "confirm", "wait"}, p \in Bytes : Begin(h, x, c, p)
    <3>1. CASE Preview(h, c) \/ Retire(h, c)  BY <3>1, EmptyPage DEF Preview, Retire
    <3>2. ASSUME NEW p \in shown[c], Confirm(h, c, p) \/ ConfirmBatch(h, c, p)
          PROVE  /\ UNCHANGED <<order, head, main, tip, tree, pre, origin, remote, lost, crashes, lock>>
                 /\ \E x \in {"preview", "confirm", "wait"} : Begin(h, x, c, p)
      BY <3>2 DEF Confirm, ConfirmBatch
    <3>3. \A p \in shown[c] : p \in Bytes  BY DEF Typed
    <3> QED BY <2>1, <3>1, <3>2, <3>3
  <2>3. PICK x \in {"preview", "confirm", "wait"}, p \in Bytes : Begin(h, x, c, p)  BY <2>2
  <2>4. x \in Steps /\ x \notin Begun  BY DEF Steps, Begun, InCommit
  <2>5. call'[h].at = x /\ \A k \in Handler : k # h => call'[k] = call[k]
    BY <2>3, <2>4, BeginCall
  <2> QED BY <2>2, <2>4, <2>5
<1>2. CASE Acquire(h)
  <2>1. lock' = h /\ call'[h].at \in {"confirm", "preflight"}  BY <1>2, AcquireCall DEF Moves
  <2>2. UNCHANGED <<order, head, main, tip, tree, pre, origin, remote, lost, crashes>>
    BY <1>2 DEF Acquire
  <2> QED BY <2>1, <2>2 DEF Begun, InCommit
<1>3. CASE Await(h)
  <2>1. UNCHANGED <<order, head, main, tip, tree, pre, origin, remote, lost, crashes>>
    BY <1>3 DEF Await, Shown, Answered, Timeout
  <2>2. CASE End(h)  BY <2>1, <2>2, EndCall
  <2>3. CASE Answered(h) /\ ~End(h)
    <3>1. lock' = lock /\ call'[h].at \in {"preflight", "wait"}
          /\ \A k \in Handler : k # h => call'[k] = call[k]
      BY <2>3, AnsweredCall DEF Moves
    <3> QED BY <2>1, <3>1 DEF Begun, InCommit
  <2> QED BY <1>3, <2>2, <2>3 DEF Await, Shown, Timeout
<1> QED BY <1>1, <1>2, <1>3

LEMMA Elsewhere ==
  ASSUME Runner \/ RunnerCrash \/ UNCHANGED vars
  PROVE  UNCHANGED <<order, call, lock, head, main, tip, tree, pre, origin, lost>>
BY DEF Runner, RunnerCrash, Claim, Reply, Compute, vars, git, queue, faults

(* A step of a commit, of its kind of change. *)
LEMMA CommitStep ==
  ASSUME Typed, NEW h \in Handler, NEW at, NEW x \in InCommit, Step(h, at, x), order' = order
  PROVE  /\ lock = h /\ call[h].at = at /\ lock' = h /\ call'[h].at = x
         /\ call'[h].change = call[h].change /\ call'[h].page = call[h].page
         /\ call'[h].left = call[h].left
         /\ Order(h)' = Order(h) /\ Kind(h)' = Kind(h)
<1>1. x \in Steps  BY DEF Steps
<1> QED BY <1>1, StepCall DEF Moves, At, Kind, Order

-----------------------------------------------------------------------------
(* What the branch has beyond main is the work of the change. *)

LEMMA InitOwnTip == Init => OwnTip
BY NoneApart DEF Init, OwnTip

LEMMA OwnTipStep == Book /\ OwnTip /\ [Next]_vars => OwnTip'
<1> SUFFICES ASSUME Book, OwnTip, [Next]_vars PROVE OwnTip'
  OBVIOUS
<1> USE DEF git, queue, faults
<1>0. Typed /\ Control /\ Places /\ order' = order  BY ShownStep DEF Book
<1>a. ASSUME UNCHANGED <<main, tip>>,
             \A k \in Handler : lock' = k /\ Tipped(k)' => lock = k /\ Tipped(k)
      PROVE  OwnTip'
  BY <1>a DEF OwnTip, Above
<1>b. ASSUME NEW h \in Handler, lock' = h, ~Tipped(h)'  PROVE OwnTip'
  BY <1>b DEF OwnTip
<1>n. ASSUME lock' = None  PROVE OwnTip'
  BY <1>n, NoneApart DEF OwnTip
<1>1. ASSUME NEW h \in Handler, Request(h) \/ Acquire(h) \/ Await(h)  PROVE OwnTip'
  <2>1. /\ UNCHANGED <<main, tip>>
        /\ \A k \in Handler : lock' = k /\ call'[k].at \in Begun => lock = k /\ call'[k] = call[k]
    BY <1>0, <1>1, Meanwhile
  <2>2. \A k \in Handler : Tipped(k)' => call'[k].at \in Begun
    BY DEF Tipped, InBranch, At, Begun, InCommit
  <2> QED BY <1>0, <1>a, <2>1, <2>2 DEF Tipped, InBranch, At, Kind, Order
<1>2. ASSUME Runner \/ RunnerCrash \/ UNCHANGED vars  PROVE OwnTip'
  <2>1. UNCHANGED <<order, call, lock, main, tip>>  BY <1>2, Elsewhere
  <2> QED BY <1>a, <2>1 DEF Tipped, InBranch, At, Kind, Order
<1>3. ASSUME NEW h \in Handler, Preflight(h) \/ CommandFails(h)  PROVE OwnTip'
  <2>1. lock' = h /\ call'[h].at \in {"guard", "undo"}
    BY <1>0, <1>3, GoCall DEF Preflight, CommandFails, Step, Steps, InCommit
  <2> QED BY <1>b, <2>1 DEF Tipped, InBranch, At
<1>4. ASSUME NEW h \in Handler, Guarded(h)  PROVE OwnTip'
  <2>1. /\ lock' = h /\ call'[h].change = call[h].change
        /\ call'[h].at = IF Kind(h) = "edit" THEN "write" ELSE "branch"
    BY <1>0, <1>4, GuardedCall DEF Moves
  <2>2. Kind(h)' = Kind(h)  BY <1>0, <2>1 DEF Kind, Order
  <2> QED BY <1>b, <2>1, <2>2 DEF Tipped, InBranch, At
<1>5. ASSUME NEW h \in Handler, Refuse(h) \/ Rollback(h)  PROVE OwnTip'
  <2>1. lock' = None  BY <1>0, <1>5, EndCall DEF Refuse, Rollback
  <2> QED BY <1>n, <2>1
<1>6. ASSUME NEW h \in Handler, Branch(h)  PROVE OwnTip'
  <2>1. lock = h /\ At(h, "branch") /\ tip' = HeadRef /\ main' = main  BY <1>6 DEF Branch, Step
  <2>2. head = "main" \/ Kind(h) = "edit"  BY <1>0, <2>1 DEF Places, Placed, At
  <2>3. head = "main"  BY <1>0, <2>1 DEF Places, Placed, At
  <2>4. Len(main') \in Nat /\ tip' = main'  BY <1>0, <2>1, <2>3 DEF HeadRef, Typed
  <2>5. Above'  BY <2>4 DEF Above
  <2> QED BY <2>5 DEF OwnTip
<1>7. ASSUME NEW h \in Handler, Remove(h)  PROVE OwnTip'
  <2>1. PICK x \in {"commit", "write"} : Step(h, "rm", x)  BY <1>7 DEF Remove
  <2>2. lock = h /\ lock' = h /\ call[h].at = "rm"  BY <1>0, <2>1, CommitStep DEF InCommit
  <2>3. UNCHANGED <<main, tip>>  BY <1>7 DEF Remove
  <2> QED BY <1>a, <2>2, <2>3 DEF Tipped, InBranch, At
<1>8. ASSUME NEW h \in Handler, Write(h)  PROVE OwnTip'
  <2>1. /\ lock = h /\ lock' = h /\ call[h].at = "write" /\ call'[h].change = call[h].change
        /\ call'[h].at = IF Kind(h) = "edit" THEN "branch" ELSE "commit"
    BY <1>0, <1>8, WriteCall DEF Moves, At
  <2>2. Tipped(h)' => Tipped(h)  BY <2>1 DEF Tipped, InBranch, At
  <2>3. UNCHANGED <<main, tip>>  BY <1>8 DEF Write
  <2> QED BY <1>a, <2>1, <2>2, <2>3
<1>9. ASSUME NEW h \in Handler, CommitWork(h)  PROVE OwnTip'
  <2>1. /\ lock = h /\ At(h, "commit") /\ main' = main
        /\ tip' = Append(tip, Commit(call[h].change, tree))
    BY <1>9 DEF CommitWork, Step
  <2>2. Above  BY <2>1 DEF OwnTip, Tipped, InBranch, At
  <2>3. call[h].change \in Change  BY <1>0, <2>1 DEF Control, Steady, At
  <2>4. Commit(call[h].change, tree) \in Commits /\ Commit(call[h].change, tree).by \in Change
    BY <1>0, <2>3, CommitType DEF Typed
  <2>5. /\ Len(tip') = Len(tip) + 1 /\ tip'[Len(tip)+1].by \in Change
        /\ \A i \in 1..Len(tip) : tip'[i] = tip[i]
        /\ Len(tip) \in Nat /\ Len(main) \in Nat
    BY <1>0, <2>1, <2>4, AppendProperties DEF Typed
  <2>6. ASSUME NEW i \in Len(main)+1..Len(tip)+1  PROVE tip'[i].by \in Change
    <3>1. CASE i = Len(tip)+1  BY <2>5, <3>1
    <3>2. CASE i # Len(tip)+1
      <4>1. i \in Len(main)+1..Len(tip) /\ i \in 1..Len(tip)  BY <2>5, <3>2
      <4> QED BY <2>2, <2>5, <4>1 DEF Above
    <3> QED BY <3>1, <3>2
  <2>7. Above'  BY <2>1, <2>5, <2>6 DEF Above
  <2> QED BY <2>7 DEF OwnTip
<1>10. ASSUME NEW h \in Handler, CheckoutMain(h)  PROVE OwnTip'
  <2>1. lock = h /\ At(h, "main") /\ UNCHANGED <<main, tip>>  BY <1>10 DEF CheckoutMain, Step
  <2>2. Above  BY <2>1 DEF OwnTip, Tipped, InBranch, At
  <2> QED BY <2>1, <2>2 DEF OwnTip, Above
<1>11. ASSUME NEW h \in Handler, Merge(h)  PROVE OwnTip'
  <2>1. lock' = h /\ call'[h].at = "push"  BY <1>0, <1>11, CommitStep DEF Merge, InCommit
  <2> QED BY <1>b, <2>1 DEF Tipped, InBranch, At
<1>12. ASSUME NEW h \in Handler, Push(h)  PROVE OwnTip'
  <2>1. lock = h  BY <1>12 DEF Push
  <2>2. CASE End(h)  BY <1>0, <1>n, <2>1, <2>2, EndCall
  <2>3. CASE Go(h, "undo")
    <3>1. lock' = h /\ call'[h].at = "undo"  BY <1>0, <2>1, <2>3, GoCall DEF Steps, InCommit
    <3> QED BY <1>b, <3>1 DEF Tipped, InBranch, At
  <2> QED BY <1>12, <2>2, <2>3 DEF Push
<1>13. CASE GatewayCrash  BY <1>13, <1>n DEF GatewayCrash
<1>14. ASSUME NEW s \in Slug, RemoteCommit(s)  PROVE OwnTip'
  <2>1. UNCHANGED <<order, call, lock, main, tip>>  BY <1>14 DEF RemoteCommit
  <2> QED BY <1>a, <2>1 DEF Tipped, InBranch, At, Kind, Order
<1>15. CASE Pull
  <2>1. /\ UNCHANGED <<order, call, lock, tip>> /\ main' = origin
        /\ Len(main) <= Len(main')
    BY <1>0, <1>15, PrefixEntries DEF Pull, Typed
  <2>2. Len(main) \in Nat /\ Len(main') \in Nat /\ Len(tip) \in Nat  BY <1>0, <2>1 DEF Typed
  <2>3. Above => Above'
    <3>1. \A i \in Len(main')+1..Len(tip) : i \in Len(main)+1..Len(tip)  BY <2>1, <2>2
    <3> QED BY <2>1, <3>1 DEF Above
  <2>4. \A k \in Handler : Tipped(k)' = Tipped(k)  BY <2>1 DEF Tipped, InBranch, At, Kind, Order
  <2> QED BY <2>1, <2>3, <2>4 DEF OwnTip
<1>16. CASE Repair
  <2>1. lock' = None  BY <1>16 DEF Repair
  <2> QED BY <1>n, <2>1
<1> QED BY <1>1, <1>2, <1>3, <1>4, <1>5, <1>6, <1>7, <1>8, <1>9, <1>10, <1>11, <1>12,
           <1>13, <1>14, <1>15, <1>16
        DEF Next, Committing, Others

LEMMA OwnTips == Spec => []OwnTip
BY InitOwnTip, OwnTipStep, Bookkeeping, PTL DEF Spec

-----------------------------------------------------------------------------
(* No removal empties the corpus, or a survey: as long as the answers to pushes arrive, what
   main has beyond a commit it shares with the origin was added by others, who remove
   nothing. *)

LEMMA NotGone ==
  \A n \in Notes, e \in SUBSET Station : [notes |-> n, edis |-> e] # Gone
BY EditsAssumption DEF Notes

LEMMA AlikeFacts ==
  /\ \A x : Alike(x, x)
  /\ \A x, y : Alike(x, y) => Alike(y, x)
  /\ \A x, y, z : Alike(x, y) /\ Alike(y, z) => Alike(x, z)
  /\ \A x, y : Alike(x, y) /\ Fine(x) => Fine(y)
BY DEF Alike, Fine

(* Other notes, the same files. *)
LEMMA AlikeNotes ==
  ASSUME NEW x \in Corpora, NEW s \in Slug, x[s] # Gone, NEW n \in Notes
  PROVE  Alike(x, [x EXCEPT ![s] = [notes |-> n, edis |-> x[s].edis]])
<1> DEFINE new == [notes |-> n, edis |-> x[s].edis]
<1>1. x[s] \in Contents  BY DEF Corpora
<1>2. new # Gone /\ new.edis = x[s].edis  BY <1>1, SurveyType, NotGone
<1> HIDE DEF new
<1>3. [x EXCEPT ![s] = new][s] = new /\ \A t \in Slug : t # s => [x EXCEPT ![s] = new][t] = x[t]
  BY DEF Corpora
<1> QED BY <1>2, <1>3 DEF Alike, new

LEMMA RefFacts ==
  ASSUME NEW r \in Seq(Commits), NEW q \in Seq(Commits), r # NoRef, Prefix(r, q)
  PROVE  q # NoRef /\ Len(r) \in 1..Len(q) /\ Last(r) = q[Len(r)]
<1>1. Len(r) <= Len(q) /\ \A i \in 1..Len(r) : q[i] = r[i]  BY PrefixEntries
<1>2. Len(r) \in Nat \ {0} /\ Last(r) = r[Len(r)]  BY LastType
<1> QED BY <1>1, <1>2, NoRefType

LEMMA NoRefBehind == BehindOrigin(NoRef) /\ FineRef(NoRef)
BY DEF BehindOrigin, FineRef

LEMMA SelfBehind == ASSUME NEW r \in Seq(Commits), r = origin PROVE BehindOrigin(r)
<1>1. Len(r)+1..Len(origin) = {}  BY LenProperties
<1> QED BY <1>1, AlikeFacts DEF BehindOrigin

(* A commit of somebody else leaves refs behind the origin where they are. *)
LEMMA OthersBehind ==
  ASSUME NEW r \in Seq(Commits), BehindOrigin(r), origin \in Seq(Commits), origin # NoRef,
         NEW e \in Commits, e.by = Outside, origin' = Append(origin, e),
         Alike(Last(origin).corpus, e.corpus)
  PROVE  BehindOrigin(r)'
<1>1. /\ origin' \in Seq(Commits) /\ Len(origin') = Len(origin) + 1 /\ Last(origin') = e
      /\ \A i \in 1..Len(origin) : origin'[i] = origin[i]
      /\ origin'[Len(origin)+1] = e
  BY AppendRef, AppendProperties
<1>2. Len(r) \in Nat /\ Len(origin) \in Nat  OBVIOUS
<1>3. ASSUME r # NoRef, Prefix(r, origin')
      PROVE  /\ Alike(Last(r).corpus, e.corpus)
             /\ \A i \in Len(r)+1..Len(origin) + 1 : origin'[i].by = Outside
  <2>1. Len(r) <= Len(origin) + 1 /\ \A i \in 1..Len(r) : origin'[i] = r[i]
    BY <1>1, <1>3, PrefixEntries
  <2>2. CASE Len(r) = Len(origin) + 1
    <3>1. Last(r) = e  BY <1>1, <1>2, <2>1, <2>2 DEF Last
    <3> QED BY <1>2, <2>2, <3>1, AlikeFacts
  <2>3. CASE Len(r) <= Len(origin)
    <3>1. Prefix(r, origin)  BY <1>1, <1>2, <2>1, <2>3, PrefixEntries
    <3>2. /\ Alike(Last(r).corpus, Last(origin).corpus)
          /\ \A i \in Len(r)+1..Len(origin) : origin[i].by = Outside
      BY <1>3, <3>1 DEF BehindOrigin
    <3>3. Alike(Last(r).corpus, e.corpus)  BY <3>2, AlikeFacts
    <3>4. ASSUME NEW i \in Len(r)+1..Len(origin) + 1  PROVE origin'[i].by = Outside
      <4>1. CASE i = Len(origin)+1  BY <1>1, <4>1
      <4>2. CASE i # Len(origin)+1
        <5>1. i \in Len(r)+1..Len(origin) /\ i \in 1..Len(origin)  BY <1>2, <4>2
        <5> QED BY <1>1, <3>2, <5>1
      <4> QED BY <4>1, <4>2
    <3> QED BY <3>3, <3>4
  <2> QED BY <1>2, <2>1, <2>2, <2>3
<1> QED BY <1>1, <1>3 DEF BehindOrigin, Last

(* A change merged is not at the origin yet. *)
LEMMA MergedBehind ==
  ASSUME Typed, main # NoRef, Above, BehindOrigin(main), Prefix(main, tip)
  PROVE  BehindOrigin(tip)
<1>1. /\ main \in Seq(Commits) /\ tip \in Seq(Commits) /\ origin \in Seq(Commits)
      /\ Len(main) \in Nat /\ Len(tip) \in Nat /\ Len(origin) \in Nat
  BY DEF Typed
<1>2. Len(main) <= Len(tip) /\ \A i \in 1..Len(main) : tip[i] = main[i]  BY <1>1, PrefixEntries
<1>3. CASE Len(main) = Len(tip)
  <2>1. tip = main  BY <1>1, <1>3, PrefixWhole
  <2> QED BY <2>1
<1>4. CASE Len(main) < Len(tip)
  <2>1. ASSUME Prefix(tip, origin)  PROVE FALSE
    <3>1. Len(tip) <= Len(origin) /\ \A i \in 1..Len(tip) : origin[i] = tip[i]
      BY <1>1, <2>1, PrefixEntries
    <3>2. Prefix(main, origin)  BY <1>1, <1>2, <3>1, PrefixEntries
    <3>3. Len(main)+1 \in Len(main)+1..Len(origin) /\ Len(main)+1 \in 1..Len(tip)
          /\ Len(main)+1 \in Len(main)+1..Len(tip)
      BY <1>1, <1>4, <3>1
    <3>4. origin[Len(main)+1].by = Outside  BY <3>2, <3>3 DEF BehindOrigin
    <3>5. tip[Len(main)+1].by \in Change  BY <3>3 DEF Above
    <3> QED BY <3>1, <3>3, <3>4, <3>5, EditsAssumption
  <2> QED BY <2>1 DEF BehindOrigin
<1> QED BY <1>1, <1>2, <1>3, <1>4

LEMMA InitKept == Init => KeptInv
<1> SUFFICES ASSUME Init PROVE KeptInv
  OBVIOUS
<1>1. Typed /\ Control  BY InitTyped, InitControl
<1>2. Fine(tree)
  <2>1. <<>> \in Notes  BY DEF Notes
  <2>2. \A s \in Slug : tree[s] # Gone /\ tree[s].edis = Station
    BY <2>1, NotGone DEF Init, Ledger!New
  <2> QED BY <2>2, EditsAssumption DEF Fine
<1>3. Last(main).corpus = tree  BY DEF Init, Last, Commit
<1>4. FineRef(main) /\ main = origin  BY <1>2, <1>3 DEF FineRef, Init
<1>5. BehindOrigin(main)  BY <1>1, <1>4, SelfBehind DEF Typed
<1>6. tip = NoRef /\ pre = NoRef /\ lock = None  BY DEF Init
<1> QED BY <1>2, <1>4, <1>5, <1>6, NoRefBehind, NoneApart DEF KeptInv, FineRefs, Behind, Removing

(* The guard under the lock. *)
LEMMA GuardedRemovable ==
  ASSUME Typed, NEW h \in Handler, call[h].change \in Change, Guard(h)
  PROVE  Removable(h)
<1>1. CASE Kind(h) = "retire"
  <2>1. PICK t \in Slug : Order(h).on = {t}  BY <1>1, OneSurvey DEF Typed, Kind, Order
  <2>2. Cardinality(Published) > 1  BY <1>1 DEF Guard, NotLast, Kind
  <2>3. ASSUME \A s \in Slug : s # t => tree[s] = Gone  PROVE FALSE
    <3>1. Published \subseteq {t}  BY <2>3 DEF Published
    <3>2. IsFiniteSet({t}) /\ Cardinality({t}) = 1  BY FS_Singleton
    <3>3. Cardinality(Published) <= 1  BY <3>1, <3>2, FS_Subset
    <3>4. IsFiniteSet(Published)  BY <3>1, <3>2, FS_Subset
    <3>5. Cardinality(Published) \in Nat  BY <3>4, FS_CardinalityType
    <3> QED BY <2>2, <3>3, <3>5
  <2> QED BY <1>1, <2>1, <2>3 DEF Removable
<1>2. CASE Kind(h) = "stations"
  <2>1. \A s \in Order(h).on : tree[s] # Gone /\ Order(h).drop \subseteq tree[s].edis
                               /\ Order(h).drop # tree[s].edis
    BY <1>2 DEF Guard, Kind
  <2> QED BY <1>2, <2>1 DEF Removable
<1> QED BY <1>1, <1>2 DEF Removable

(* Other surveys, or files, remain. *)
LEMMA RemoveFine ==
  ASSUME Typed, Control, Places, NEW h \in Handler, Fine(tree), Removable(h), Remove(h)
  PROVE  Fine(tree')
<1>1. /\ At(h, "rm")
      /\ \A s \in Order(h).on : tree[s] # Gone
      /\ tree' = [s \in Slug |-> IF s \notin Order(h).on THEN tree[s]
                                 ELSE IF Kind(h) = "retire" THEN Gone
                                 ELSE [tree[s] EXCEPT !.edis = @ \ Order(h).drop]]
  BY DEF Remove, Step
<1>2. Kind(h) \in {"stations", "retire"}  BY <1>1 DEF Places, Placed
<1>3. ASSUME NEW s \in Slug, s \notin Order(h).on  PROVE tree'[s] = tree[s]
  BY <1>1, <1>3
<1>4. CASE Kind(h) = "retire"
  <2>1. \A s \in Slug : s \in Order(h).on => tree'[s] = Gone  BY <1>1, <1>4
  <2>2. \E s \in Slug \ Order(h).on : tree[s] # Gone  BY <1>4 DEF Removable
  <2> QED BY <1>3, <2>1, <2>2 DEF Fine
<1>5. CASE Kind(h) = "stations"
  <2>1. ASSUME NEW s \in Slug, s \in Order(h).on  PROVE tree'[s] # Gone /\ tree'[s].edis # {}
    <3>1. tree'[s] = [tree[s] EXCEPT !.edis = tree[s].edis \ Order(h).drop]  BY <1>1, <1>5, <2>1
    <3>2. tree[s] \in Contents /\ tree[s] # Gone  BY <1>1, <2>1 DEF Typed, Corpora
    <3>3. tree'[s] = [notes |-> tree[s].notes, edis |-> tree[s].edis \ Order(h).drop]
      BY <3>1, <3>2, SurveyExcept
    <3>4. tree[s].notes \in Notes /\ tree[s].edis \ Order(h).drop \in SUBSET Station
      BY <3>2, SurveyType
    <3>5. tree[s].edis \ Order(h).drop # {}  BY <1>5, <2>1, <3>2 DEF Removable
    <3> QED BY <3>3, <3>4, <3>5, NotGone
  <2>2. \E s \in Slug : tree'[s] # Gone
    <3>1. PICK s \in Slug : tree[s] # Gone  BY DEF Fine
    <3> QED BY <1>3, <2>1, <3>1
  <2> QED BY <1>3, <2>1, <2>2 DEF Fine
<1> QED BY <1>2, <1>4, <1>5

LEMMA KeptStep == Book /\ OwnTip /\ KeptInv /\ [Next]_vars => KeptInv'
<1> SUFFICES ASSUME Book, OwnTip, KeptInv, [Next]_vars, lost' = 0
             PROVE  (Fine(tree) /\ FineRefs /\ Behind /\ Removing)'
  BY DEF KeptInv
<1> USE DEF git, queue, faults
<1>0. Typed /\ Control /\ Places /\ order' = order /\ Control'
  BY ControlStep, ShownStep DEF Book
<1>t. /\ main \in Seq(Commits) /\ tip \in Seq(Commits) /\ pre \in Seq(Commits)
      /\ origin \in Seq(Commits) /\ main # NoRef /\ origin # NoRef /\ tree \in Corpora
      /\ lost \in Nat
  BY <1>0 DEF Typed, Control
<1>z. lost = 0
  <2>1. lost' = lost \/ lost' = lost + 1
    <3>1. CASE \E h \in Handler : Request(h) \/ Acquire(h) \/ Await(h)  BY <1>0, <3>1, Meanwhile
    <3>2. CASE Runner \/ RunnerCrash \/ UNCHANGED vars  BY <3>2, Elsewhere
    <3>3. CASE \E h \in Handler : Committing(h)
      BY <3>3 DEF Committing, Preflight, Guarded, Refuse, Branch, Remove, Write, CommitWork,
                 CheckoutMain, Merge, Push, CommandFails, Rollback, NotGit
    <3>4. CASE GatewayCrash \/ Others  BY <3>4 DEF GatewayCrash, Others, Pull, Repair, RemoteCommit
    <3> QED BY <3>1, <3>2, <3>3, <3>4 DEF Next
  <2> QED BY <1>t, <2>1
<1>k. /\ Fine(tree) /\ FineRefs /\ Behind /\ Removing
      /\ FineRef(main) /\ FineRef(tip) /\ FineRef(pre) /\ FineRef(origin)
      /\ BehindOrigin(main) /\ BehindOrigin(pre)
      /\ Fine(Last(main).corpus) /\ Fine(Last(origin).corpus)
  BY <1>z, <1>t DEF KeptInv, FineRefs, Behind, FineRef
(* who may be removing something *)
<1>a. ASSUME tree' = tree,
             \A k \in Handler : lock' = k /\ call'[k].at \in {"branch", "rm"}
                                  => lock = k /\ call'[k].change = call[k].change
                                     /\ call[k].at \in {"branch", "rm"}
      PROVE  Removing'
  BY <1>0, <1>k, <1>a DEF Removing, Removable, Kind, Order
<1>b. ASSUME NEW h \in Handler, lock' = h, call'[h].at \notin {"branch", "rm"}  PROVE Removing'
  BY <1>b DEF Removing
<1>n. ASSUME lock' = None  PROVE Removing'
  BY <1>n, NoneApart DEF Removing
<1>c. ASSUME NEW h \in Handler, NEW at, NEW x \in InCommit, Step(h, at, x)
      PROVE  /\ lock = h /\ call[h].at = at /\ lock' = h /\ call'[h].at = x
             /\ call'[h].change = call[h].change
  BY <1>0, <1>c, CommitStep
(* refs as they are, or not looked at any more *)
<1>s. ASSUME UNCHANGED <<main, origin>>, tip' \in {tip, main, NoRef}, pre' \in {pre, main, NoRef}
      PROVE  FineRefs' /\ Behind'
  <2>1. FineRef(tip)' /\ FineRef(pre)' /\ FineRef(main)' /\ FineRef(origin)'
    <3>1. FineRef(tip') /\ FineRef(pre')  BY <1>k, <1>s, NoRefBehind
    <3> QED BY <1>k, <1>s, <3>1 DEF FineRef, Last
  <2>2. BehindOrigin(pre') /\ BehindOrigin(main')  BY <1>k, <1>s, NoRefBehind
  <2>3. BehindOrigin(pre)' /\ BehindOrigin(main)'  BY <1>s, <2>2 DEF BehindOrigin, Last, Prefix
  <2> QED BY <2>1, <2>3 DEF FineRefs, Behind
<1>1. ASSUME NEW h \in Handler, Request(h) \/ Acquire(h) \/ Await(h)
      PROVE  (Fine(tree) /\ FineRefs /\ Behind /\ Removing)'
  <2>1. /\ UNCHANGED <<main, tip, tree, pre, origin>>
        /\ \A k \in Handler : lock' = k /\ call'[k].at \in Begun => lock = k /\ call'[k] = call[k]
    BY <1>0, <1>1, Meanwhile
  <2>2. {"branch", "rm"} \subseteq Begun  BY DEF Begun, InCommit
  <2>3. Removing'  BY <1>a, <2>1, <2>2
  <2>4. FineRefs' /\ Behind'  BY <1>s, <2>1
  <2> QED BY <1>k, <2>1, <2>3, <2>4 DEF Fine
<1>2. ASSUME Runner \/ RunnerCrash \/ UNCHANGED vars
      PROVE  (Fine(tree) /\ FineRefs /\ Behind /\ Removing)'
  <2>1. UNCHANGED <<order, call, lock, main, tip, tree, pre, origin>>  BY <1>2, Elsewhere
  <2>2. FineRefs' /\ Behind'  BY <1>s, <2>1
  <2> QED BY <1>k, <1>a, <2>1, <2>2 DEF Fine
<1>3. ASSUME NEW h \in Handler, Preflight(h) \/ CommandFails(h)
      PROVE  (Fine(tree) /\ FineRefs /\ Behind /\ Removing)'
  <2>1. UNCHANGED <<main, tip, tree, origin>> /\ pre' \in {pre, main}
    BY <1>3 DEF Preflight, CommandFails
  <2>2. lock' = h /\ call'[h].at \in {"guard", "undo"}
    BY <1>0, <1>3, GoCall DEF Preflight, CommandFails, Step, Steps, InCommit
  <2>3. FineRefs' /\ Behind'  BY <1>s, <2>1
  <2> QED BY <1>k, <1>b, <2>1, <2>2, <2>3 DEF Fine
<1>4. ASSUME NEW h \in Handler, Guarded(h)
      PROVE  (Fine(tree) /\ FineRefs /\ Behind /\ Removing)'
  <2>1. /\ lock = h /\ lock' = h /\ At(h, "guard") /\ Guard(h) /\ call'[h].change = call[h].change
        /\ \A k \in Handler : k # h => call'[k] = call[k]
    BY <1>0, <1>4, GuardedCall DEF Moves
  <2>2. UNCHANGED <<main, tip, tree, pre, origin>>  BY <1>4 DEF Guarded
  <2>3. Removable(h)  BY <1>0, <2>1, GuardedRemovable DEF At, Control, Steady
  <2>4. Removing'  BY <1>0, <2>1, <2>2, <2>3 DEF Removing, Removable, Kind, Order
  <2>5. FineRefs' /\ Behind'  BY <1>s, <2>2
  <2> QED BY <1>k, <2>2, <2>4, <2>5 DEF Fine
<1>5. ASSUME NEW h \in Handler, Refuse(h)
      PROVE  (Fine(tree) /\ FineRefs /\ Behind /\ Removing)'
  <2>1. UNCHANGED <<main, tip, tree, origin>> /\ pre' = NoRef  BY <1>5 DEF Refuse
  <2>2. lock' = None  BY <1>0, <1>5, EndCall DEF Refuse
  <2>3. FineRefs' /\ Behind'  BY <1>s, <2>1
  <2> QED BY <1>k, <1>n, <2>1, <2>2, <2>3 DEF Fine
<1>6. ASSUME NEW h \in Handler, Branch(h)
      PROVE  (Fine(tree) /\ FineRefs /\ Behind /\ Removing)'
  <2>1. PICK x \in {"commit", "write", "rm"} : Step(h, "branch", x)  BY <1>6 DEF Branch
  <2>2. UNCHANGED <<main, tree, pre, origin>> /\ tip' \in {main, tip}  BY <1>6 DEF Branch, HeadRef
  <2>3. lock = h /\ call[h].at = "branch" /\ lock' = h /\ call'[h].change = call[h].change
    BY <1>c, <2>1 DEF InCommit
  <2>4. FineRefs' /\ Behind'  BY <1>s, <2>2
  <2> QED BY <1>k, <1>a, <2>2, <2>3, <2>4 DEF Fine
<1>7. ASSUME NEW h \in Handler, Remove(h)
      PROVE  (Fine(tree) /\ FineRefs /\ Behind /\ Removing)'
  <2>1. PICK x \in {"commit", "write"} : Step(h, "rm", x)  BY <1>7 DEF Remove
  <2>2. lock = h /\ call[h].at = "rm" /\ lock' = h /\ call'[h].at = x
    BY <1>c, <2>1 DEF InCommit
  <2>3. Removable(h)  BY <1>k, <2>2 DEF Removing
  <2>4. Fine(tree')  BY <1>0, <1>7, <1>k, <2>3, RemoveFine
  <2>5. FineRefs' /\ Behind'  BY <1>7, <1>s DEF Remove
  <2> QED BY <1>b, <2>1, <2>2, <2>4, <2>5 DEF Fine
<1>8. ASSUME NEW h \in Handler, Write(h)
      PROVE  (Fine(tree) /\ FineRefs /\ Behind /\ Removing)'
  <2>1. PICK s \in call[h].left :
          /\ s \in Slug /\ s \in DOMAIN call[h].page /\ tree[s] # Gone
          /\ tree' = [tree EXCEPT ![s] = [notes |-> call[h].page[s], edis |-> tree[s].edis]]
          /\ Moves(h, IF Kind(h) = "edit" THEN "branch" ELSE "commit", call[h].page,
                   call[h].left \ {s})
    BY <1>0, <1>8, WriteCall
  <2>2. call[h].page[s] \in Notes  BY <1>0, <2>1, PageType DEF Typed, Calls
  <2>3. Fine(tree')
    <3>1. Alike(tree, tree')  BY <1>t, <2>1, <2>2, AlikeNotes
    <3> QED BY <1>k, <3>1, AlikeFacts
  <2>4. /\ lock' = h /\ call'[h].change = call[h].change
        /\ call'[h].at = "branch" => Kind(h) = "edit"
        /\ call'[h].at \in {"branch", "commit"}
    BY <1>0, <1>8, <2>1, WriteCall DEF Moves
  <2>5. Removing'
    <3>1. Kind(h)' = Kind(h)  BY <1>0, <2>4 DEF Kind, Order
    <3> QED BY <2>4, <3>1 DEF Removing, Removable
  <2>6. FineRefs' /\ Behind'  BY <1>8, <1>s DEF Write
  <2> QED BY <2>3, <2>5, <2>6 DEF Fine
<1>9. ASSUME NEW h \in Handler, CommitWork(h)
      PROVE  (Fine(tree) /\ FineRefs /\ Behind /\ Removing)'
  <2>1. PICK x \in {"write", "main"} : Step(h, "commit", x)
    BY <1>9 DEF CommitWork, NextAfterCommit
  <2>2. call[h].at = "commit" /\ lock' = h /\ call'[h].at = x  BY <1>c, <2>1 DEF InCommit
  <2>3. UNCHANGED <<main, tree, pre, origin>> /\ tip' = Append(tip, Commit(call[h].change, tree))
    BY <1>9 DEF CommitWork
  <2>4. call[h].change \in Change  BY <1>0, <2>2 DEF Control, Steady, At
  <2>5. Last(tip').corpus = tree  BY <1>t, <2>3, <2>4, AppendRef, CommitType
  <2>6. FineRef(tip)'  BY <1>k, <2>3, <2>5 DEF FineRef, Last
  <2>7. FineRefs' /\ Behind'
    BY <1>k, <2>3, <2>6 DEF FineRefs, FineRef, Behind, BehindOrigin, Last, Prefix
  <2> QED BY <1>k, <1>b, <2>1, <2>2, <2>3, <2>7 DEF Fine
<1>10. ASSUME NEW h \in Handler, CheckoutMain(h)
      PROVE  (Fine(tree) /\ FineRefs /\ Behind /\ Removing)'
  <2>1. lock' = h /\ call'[h].at = "merge"  BY <1>10, <1>c DEF CheckoutMain, InCommit
  <2>2. UNCHANGED <<main, tip, pre, origin>> /\ tree' = Last(main).corpus  BY <1>10 DEF CheckoutMain
  <2>3. FineRefs' /\ Behind'  BY <1>s, <2>2
  <2> QED BY <1>k, <1>b, <2>1, <2>2, <2>3 DEF Fine
<1>11. ASSUME NEW h \in Handler, Merge(h)
      PROVE  (Fine(tree) /\ FineRefs /\ Behind /\ Removing)'
  <2>1. lock = h /\ call[h].at = "merge" /\ lock' = h /\ call'[h].at = "push"
    BY <1>11, <1>c DEF Merge, InCommit
  <2>2. /\ UNCHANGED <<tip, pre, origin>> /\ main' = tip /\ tree' = Last(tip).corpus
        /\ Prefix(main, tip)
    BY <1>11 DEF Merge
  <2>3. Above  BY <2>1 DEF OwnTip, Tipped, At
  <2>4. BehindOrigin(tip)  BY <1>0, <1>t, <1>k, <2>2, <2>3, MergedBehind
  <2>5. Fine(Last(tip).corpus)  BY <1>k, <1>t, <2>2, RefFacts DEF FineRef
  <2>6. FineRefs'  BY <1>k, <2>2 DEF FineRefs, FineRef, Last
  <2>7. Behind'  BY <1>k, <2>2, <2>4 DEF Behind, BehindOrigin, Last, Prefix
  <2> QED BY <1>b, <2>1, <2>2, <2>5, <2>6, <2>7 DEF Fine
<1>12. ASSUME NEW h \in Handler, Push(h)
      PROVE  (Fine(tree) /\ FineRefs /\ Behind /\ Removing)'
  <2>1. /\ lock = h /\ origin' = main /\ main' = main /\ tree' = tree
        /\ End(h) /\ pre' = NoRef /\ tip' = NoRef
    BY <1>12, <1>z, <1>t DEF Push
  <2>2. lock' = None  BY <1>0, <2>1, EndCall
  <2>3. FineRefs'  BY <1>k, <2>1 DEF FineRefs, FineRef, Last
  <2>4. BehindOrigin(pre)'  BY <2>1 DEF BehindOrigin
  <2>5. BehindOrigin(main)'
    <3>1. Alike(Last(main).corpus, Last(main).corpus) /\ Len(main)+1..Len(main) = {}
      BY <1>t, AlikeFacts
    <3> QED BY <2>1, <3>1 DEF BehindOrigin, Last
  <2> QED BY <1>k, <1>n, <2>1, <2>2, <2>3, <2>4, <2>5 DEF Fine, Behind
<1>13. ASSUME NEW h \in Handler, Rollback(h)
      PROVE  (Fine(tree) /\ FineRefs /\ Behind /\ Removing)'
  <2>1. /\ lock = h /\ At(h, "undo") /\ End(h) /\ main' = pre /\ tree' = Last(pre).corpus
        /\ tip' = NoRef /\ pre' = NoRef /\ origin' = origin
    BY <1>13 DEF Rollback, Restored
  <2>2. pre # NoRef  BY <1>0, <2>1 DEF At, Control, Steady, Begun, InCommit
  <2>3. lock' = None  BY <1>0, <2>1, EndCall
  <2>4. Fine(Last(pre).corpus)  BY <1>k, <2>2 DEF FineRef
  <2>5. FineRefs'  BY <1>k, <2>1 DEF FineRefs, FineRef, Last
  <2>6. Behind'  BY <1>k, <2>1 DEF Behind, BehindOrigin, Last, Prefix
  <2> QED BY <1>n, <2>1, <2>3, <2>4, <2>5, <2>6 DEF Fine
<1>14. CASE GatewayCrash
  <2>1. UNCHANGED <<main, tree, origin>> /\ tip' \in {tip, NoRef} /\ pre' = NoRef /\ lock' = None
    BY <1>14 DEF GatewayCrash
  <2>2. FineRefs' /\ Behind'  BY <1>s, <2>1
  <2> QED BY <1>k, <1>n, <2>1, <2>2 DEF Fine
<1>15. ASSUME NEW s \in Slug, RemoteCommit(s)
      PROVE  (Fine(tree) /\ FineRefs /\ Behind /\ Removing)'
  <2> DEFINE old == Last(origin).corpus
             new == [old EXCEPT ![s].notes = Append(@, Outside)]
             e == Commit(Outside, new)
  <2>1. /\ origin' = Append(origin, e) /\ old[s] # Gone
        /\ UNCHANGED <<order, call, lock, main, tip, tree, pre>>
    BY <1>15 DEF RemoteCommit
  <2>2. old \in Corpora  BY <1>t, LastType
  <2>3. old[s] \in Contents /\ old[s].notes \in Notes  BY <2>1, <2>2, SurveyType DEF Corpora
  <2>4. Append(old[s].notes, Outside) \in Notes  BY <2>3, RecordsAppend
  <2>5. new = [old EXCEPT ![s] = [notes |-> Append(old[s].notes, Outside), edis |-> old[s].edis]]
        /\ [notes |-> Append(old[s].notes, Outside), edis |-> old[s].edis] \in Contents
    BY <2>1, <2>3, <2>4, SurveyExcept, SurveyType
  <2>6. new \in Corpora  BY <2>2, <2>5 DEF Corpora
  <2>7. Alike(old, new)  BY <2>1, <2>2, <2>4, <2>5, AlikeNotes
  <2>8. e \in Commits /\ e.by = Outside /\ e.corpus = new  BY <2>6, CommitType
  <2> HIDE DEF e, new
  <2>9. Fine(Last(origin').corpus)  BY <1>t, <1>k, <2>1, <2>7, <2>8, AppendRef, AlikeFacts
  <2>10. Behind'  BY <1>t, <1>k, <2>1, <2>7, <2>8, OthersBehind DEF Behind
  <2>11. FineRefs'  BY <1>k, <2>1, <2>9 DEF FineRefs, FineRef, Last
  <2>12. Removing'  BY <1>a, <2>1
  <2> QED BY <1>k, <2>1, <2>10, <2>11, <2>12 DEF Fine
<1>16. CASE Pull
  <2> DEFINE now == Last(main).corpus
             new == Last(origin).corpus
             moved == {s \in Slug : now[s] # new[s]}
  <2>1. /\ main' = origin /\ UNCHANGED <<order, call, lock, tip, pre, origin>>
        /\ Prefix(main, origin) /\ \A s \in moved : tree[s] = now[s]
        /\ tree' = [s \in Slug |-> IF s \in moved THEN new[s] ELSE tree[s]]
    BY <1>16 DEF Pull
  <2>2. Alike(now, new)  BY <1>t, <1>k, <2>1 DEF BehindOrigin
  <2>3. Alike(tree, tree')  BY <2>1, <2>2 DEF Alike
  <2> HIDE DEF moved
  <2>4. Fine(tree')  BY <1>k, <2>3, AlikeFacts
  <2>5. FineRefs'  BY <1>k, <2>1 DEF FineRefs, FineRef, Last
  <2>6. BehindOrigin(pre)'  BY <1>k, <2>1 DEF BehindOrigin, Last, Prefix
  <2>7. BehindOrigin(main)'
    <3>1. BehindOrigin(origin)  BY <1>t, SelfBehind
    <3> QED BY <2>1, <3>1 DEF BehindOrigin, Last, Prefix
  <2>8. Removing'
    <3>1. ASSUME NEW k \in Handler, lock = k, call[k].at \in {"branch", "rm"}
          PROVE  Removable(k)'
      <4>1. Removable(k)  BY <1>k, <3>1 DEF Removing
      <4>2. Kind(k)' = Kind(k) /\ Order(k)' = Order(k)  BY <2>1 DEF Kind, Order
      <4>3. call[k].change \in Change  BY <1>0, <3>1 DEF Control, Steady, At
      <4>4. Order(k).on \subseteq Slug  BY <1>0, <4>3, OrderTypes DEF Typed, Order
      <4> QED BY <2>3, <4>1, <4>2, <4>4 DEF Removable, Alike
    <3> QED BY <2>1, <3>1 DEF Removing
  <2> QED BY <2>4, <2>5, <2>6, <2>7, <2>8 DEF Fine, Behind
<1>17. CASE Repair
  <2>1. UNCHANGED <<main, pre, origin, lock>> /\ tip' = NoRef /\ tree' = Last(main).corpus
        /\ lock = None
    BY <1>17 DEF Repair
  <2>2. FineRefs' /\ Behind'  BY <1>s, <2>1
  <2> QED BY <1>k, <1>n, <2>1, <2>2 DEF Fine
<1> QED BY <1>1, <1>2, <1>3, <1>4, <1>5, <1>6, <1>7, <1>8, <1>9, <1>10, <1>11, <1>12,
           <1>13, <1>14, <1>15, <1>16, <1>17
        DEF Next, Committing, Others

LEMMA Keeps == Spec => []KeptInv
BY InitKept, KeptStep, OwnTips, Bookkeeping, PTL DEF Spec

(* Two removals never empty the corpus, nor a survey of its stations (gateway/app.py 2332-2341,
   gateway/publish.py 262-264), as long as the answers to pushes arrive. *)
THEOREM RemovalsLeaveSome == Spec => []NotEmptied
<1>1. Book /\ KeptInv => NotEmptied
  BY DEF Book, Control, KeptInv, FineRefs, FineRef, Fine, NotEmptied, NothingEmptied
<1> QED BY <1>1, Bookkeeping, Keeps, PTL

-----------------------------------------------------------------------------
(* Whole changes. *)

LEMMA LandingIs ==
  \A x, y : Ledger!Lands(x, y) <=> Landing(order, shown, x, y)
BY DEF Ledger!Lands, Ledger!Seen, Ledger!Touched, Ledger!After, Landing

(* A change that was shown stays so. *)
LEMMA LandingGrows ==
  ASSUME NEW o, NEW sh, NEW more, \A c \in Change : sh[c] \subseteq more[c], NEW x, NEW y,
         Landing(o, sh, x, y)
  PROVE  Landing(o, more, x, y)
<1>1. PICK c \in Change :
        /\ o[c].valid
        /\ \E p \in (IF o[c].kind = "retire" THEN {<<>>} ELSE sh[c]) :
             LET on == IF o[c].kind = "retire" THEN o[c].on ELSE DOMAIN p IN
             /\ \A s \in on : x[s] # Gone
             /\ y = [s \in Slug |->
                       IF s \notin on THEN x[s]
                       ELSE IF o[c].kind = "retire" THEN Gone
                       ELSE [notes |-> p[s], edis |-> x[s].edis \ o[c].drop]]
  BY DEF Landing
<1>2. (IF o[c].kind = "retire" THEN {<<>>} ELSE sh[c]) \subseteq (IF o[c].kind = "retire" THEN {<<>>} ELSE more[c])
  OBVIOUS
<1> QED BY <1>1, <1>2 DEF Landing

LEMMA CutGrows ==
  ASSUME NEW o, NEW sh, NEW more, \A c \in Change : sh[c] \subseteq more[c], NEW r, NEW n,
         WholeFrom(o, sh, r, n)
  PROVE  WholeFrom(o, more, r, n)
<1>1. PICK cuts \in SUBSET (n..Len(r)) : n \in cuts /\ Cut(o, sh, r, cuts)  BY DEF WholeFrom
<1>2. \A x, y : Landing(o, sh, x, y) => Landing(o, more, x, y)  BY LandingGrows
<1>3. Cut(o, more, r, cuts)  BY <1>1, <1>2 DEF Cut
<1> QED BY <1>1, <1>3 DEF WholeFrom

LEMMA AheadGrows ==
  ASSUME NEW o, NEW sh, NEW more, \A c \in Change : sh[c] \subseteq more[c], NEW r, NEW q,
         AheadOf(o, sh, r, q)
  PROVE  AheadOf(o, more, r, q)
BY CutGrows DEF AheadOf

LEMMA MergingGrows ==
  ASSUME NEW o, NEW sh, NEW more, \A c \in Change : sh[c] \subseteq more[c], NEW m, NEW r,
         Merging(o, sh, m, r)
  PROVE  Merging(o, more, m, r)
<1>1. \A x, y : Landing(o, sh, x, y) => Landing(o, more, x, y)  BY LandingGrows
<1> QED BY <1>1 DEF Merging

(* A page that was shown, written on all its surveys, less the files that are dropped. *)
LEMMA PageLands ==
  ASSUME NEW o, NEW sh, NEW c \in Change, o[c].valid, o[c].kind # "retire",
         NEW p \in sh[c], NEW x, NEW y \in Corpora,
         \A s \in Slug : IF s \in DOMAIN p
                         THEN x[s] # Gone /\ y[s] = [notes |-> p[s], edis |-> x[s].edis \ o[c].drop]
                         ELSE y[s] = x[s],
         DOMAIN p \subseteq Slug
  PROVE  Landing(o, sh, x, y)
<1> DEFINE z == [s \in Slug |->
                   IF s \notin DOMAIN p THEN x[s]
                   ELSE IF o[c].kind = "retire" THEN Gone
                   ELSE [notes |-> p[s], edis |-> x[s].edis \ o[c].drop]]
<1>1. ASSUME NEW s \in Slug PROVE y[s] = z[s]  OBVIOUS
<1>2. y = z
  <2>1. y = [s \in Slug |-> y[s]]  BY DEF Corpora
  <2>2. z = [s \in Slug |-> z[s]]  OBVIOUS
  <2> HIDE DEF z
  <2> QED BY <1>1, <2>1, <2>2
<1>3. \A s \in DOMAIN p : x[s] # Gone  OBVIOUS
<1> QED BY <1>2, <1>3 DEF Landing

LEMMA RetireLands ==
  ASSUME NEW o, NEW sh, NEW c \in Change, o[c].valid, o[c].kind = "retire",
         NEW x, NEW y, \A s \in o[c].on : x[s] # Gone,
         y = [s \in Slug |-> IF s \notin o[c].on THEN x[s] ELSE Gone]
  PROVE  Landing(o, sh, x, y)
<1>1. y = [s \in Slug |-> IF s \notin o[c].on THEN x[s]
                          ELSE IF o[c].kind = "retire" THEN Gone
                          ELSE [notes |-> <<>>[s], edis |-> x[s].edis \ o[c].drop]]
  OBVIOUS
<1>2. <<>> \in (IF o[c].kind = "retire" THEN {<<>>} ELSE sh[c])  OBVIOUS
<1> QED BY <1>1, <1>2 DEF Landing

(* With nothing written a corpus is the same. *)
LEMMA NothingWritten ==
  ASSUME NEW p, NEW x PROVE WrittenTo(p, x, x, {}) /\ Partial(p, x, x)
<1>1. WrittenTo(p, x, x, {})  BY DEF WrittenTo
<1>2. {} \in SUBSET (DOMAIN p)  OBVIOUS
<1> QED BY <1>1, <1>2 DEF Partial

(* A batch that is written whole lands on each of its commits. *)
LEMMA BatchLands ==
  ASSUME NEW o, NEW sh, NEW c \in Change, o[c].valid, o[c].kind # "retire", o[c].drop = {},
         NEW p \in sh[c], p \in Bytes, NEW x, NEW y \in Corpora, NEW z \in Corpora,
         Partial(p, x, z), WrittenTo(p, y, z, DOMAIN p)
  PROVE  Landing(o, sh, x, y)
<1>1. PICK ss \in SUBSET (DOMAIN p) : WrittenTo(p, x, z, ss)  BY DEF Partial
<1>2. ASSUME NEW s \in Slug
      PROVE  IF s \in DOMAIN p
             THEN x[s] # Gone /\ y[s] = [notes |-> p[s], edis |-> x[s].edis \ o[c].drop]
             ELSE y[s] = x[s]
  <2>1. CASE s \notin DOMAIN p
    <3>1. x[s] = z[s] /\ y[s] = z[s]  BY <1>1, <2>1 DEF WrittenTo
    <3> QED BY <2>1, <3>1
  <2>2. CASE s \in DOMAIN p
    <3>1. z[s] # Gone /\ y[s] = [notes |-> p[s], edis |-> z[s].edis]  BY <2>2 DEF WrittenTo
    <3>2. z[s] \in Contents /\ p[s] \in Notes  BY <2>2, PageType DEF Corpora
    <3>3. z[s].edis \in SUBSET Station  BY <3>1, <3>2, SurveyType
    <3>4. x[s] = z[s] \/ x[s] = [notes |-> p[s], edis |-> z[s].edis]  BY <1>1 DEF WrittenTo
    <3>5. x[s] # Gone /\ x[s].edis = z[s].edis  BY <3>1, <3>2, <3>3, <3>4, NotGone
    <3>6. x[s].edis \ o[c].drop = z[s].edis  BY <3>5
    <3> QED BY <2>2, <3>1, <3>5, <3>6
  <2> QED BY <2>1, <2>2
<1>3. DOMAIN p \subseteq Slug  BY PageType
<1> QED BY <1>2, <1>3, PageLands

(* The page of an edit, or of a removal of stations, is about the one survey of the change. *)
LEMMA OnePage ==
  ASSUME Typed, Control, Pages, NEW h \in Handler, call[h].at \notin {"idle", "preview"},
         Kind(h) \in {"edit", "stations"}
  PROVE  \E s \in Slug : DOMAIN call[h].page = {s} /\ Order(h).on = {s}
<1>1. call[h].change \in Change  BY DEF Control, Steady, At
<1>2. PICK t \in Slug : Order(h).on = {t}  BY <1>1, OneSurvey DEF Typed, Kind, Order
<1>3. Kind(h) # "retire"  OBVIOUS
<1>4. call[h].page \in shown[call[h].change]  BY <1>3 DEF Pages, Informed, Told, At
<1>5. DOMAIN call[h].page # {} /\ DOMAIN call[h].page \subseteq Order(h).on
  BY <1>1, <1>4 DEF Pages, ShownWell, Partway, Order
<1> QED BY <1>2, <1>5

(* What the holder of the lock is committing: a valid change, and the page it was shown. *)
LEMMA Undertaken ==
  ASSUME Typed, Control, Pages, NEW h \in Handler,
         call[h].at \in {"branch", "rm", "write", "commit", "main", "merge"}
  PROVE  /\ call[h].change \in Change /\ Order(h) = order[call[h].change] /\ Order(h).valid
         /\ Kind(h) = order[call[h].change].kind
         /\ Kind(h) # "retire" => call[h].page \in shown[call[h].change]
         /\ call[h].page \in Bytes /\ DOMAIN call[h].page \subseteq Slug
         /\ Kind(h) \in {"edit", "stations", "collection", "retire"}
         /\ Kind(h) # "stations" => Order(h).drop = {}
         /\ Order(h).drop \in SUBSET Station /\ Order(h).on \in SUBSET Slug
<1>1. call[h].change \in Change  BY DEF Control, Steady, At
<1>2. Order(h).valid  BY DEF Pages, Informed, Settled, InCommit
<1>3. Kind(h) # "retire" => call[h].page \in shown[call[h].change]
  BY DEF Pages, Informed, Told, At
<1>4. call[h].page \in Bytes  BY DEF Typed, Calls
<1>5. /\ order[call[h].change].kind \in {"edit", "stations", "collection", "retire"}
      /\ order[call[h].change].kind # "stations" => order[call[h].change].drop = {}
      /\ order[call[h].change].drop \in SUBSET Station /\ order[call[h].change].on \in SUBSET Slug
  BY <1>1, OrderTypes DEF Typed
<1> QED BY <1>1, <1>2, <1>3, <1>4, <1>5, PageType DEF Order, Kind

LEMMA NoWork ==
  ASSUME NEW h, call[h].at \notin {"branch", "rm", "write", "commit", "main", "merge"}
  PROVE  Work(h)
BY DEF Work, InBranch, At

LEMMA NoWorkLater ==
  ASSUME NEW h, call'[h].at \notin {"branch", "rm", "write", "commit", "main", "merge"}
  PROVE  Work(h)'
BY DEF Work, InBranch, At

LEMMA SameWork ==
  ASSUME order' = order, \A c \in Change : shown[c] \subseteq shown'[c],
         UNCHANGED <<main, tip, tree>>, NEW k \in Handler, call'[k] = call[k], Work(k)
  PROVE  Work(k)'
<1>1. Order(k)' = Order(k) /\ Kind(k)' = Kind(k)  BY DEF Order, Kind
<1>2. Landing(order, shown, Last(tip).corpus, tree)
        => Landing(order', shown', Last(tip').corpus, tree')
  BY LandingGrows
<1>3. Merging(order, shown, main, tip) => Merging(order', shown', main', tip')
  BY MergingGrows
<1> QED BY <1>1, <1>2, <1>3 DEF Work, InBranch, At

(* The branch starts where main is. *)
LEMMA BranchWork ==
  ASSUME Typed, Control, Pages, Places, Resting, NEW h \in Handler, Branch(h), Work(h)
  PROVE  Work(h)'
<1> DEFINE p == call[h].page
           x == Last(main).corpus
<1>1. /\ lock = h /\ At(h, "branch") /\ tip' = HeadRef /\ UNCHANGED <<order, shown, main, tree>>
      /\ Step(h, "branch", CASE Kind(h) = "edit" -> "commit"
                             [] Kind(h) = "collection" -> "write"
                             [] OTHER -> "rm")
  BY DEF Branch, Step, NotGit
<1>2. tip' = main  BY <1>1 DEF HeadRef, Places, Placed, At
<1>3. /\ Kind(h) = "edit" => call'[h].at = "commit"
      /\ Kind(h) = "collection" => call'[h].at = "write"
      /\ Kind(h) \notin {"edit", "collection"} => call'[h].at = "rm"
      /\ call'[h].page = p /\ call'[h].left = call[h].left /\ Order(h)' = Order(h)
      /\ Kind(h)' = Kind(h)
  <2>1. CASE Kind(h) = "edit"
    <3>1. Step(h, "branch", "commit")  BY <1>1, <2>1
    <3> QED BY <1>1, <2>1, <3>1, CommitStep DEF InCommit
  <2>2. CASE Kind(h) = "collection"
    <3>1. Step(h, "branch", "write")  BY <1>1, <2>2
    <3> QED BY <1>1, <2>2, <3>1, CommitStep DEF InCommit
  <2>3. CASE Kind(h) \notin {"edit", "collection"}
    <3>1. Step(h, "branch", "rm")  BY <1>1, <2>3
    <3> QED BY <1>1, <2>3, <3>1, CommitStep DEF InCommit
  <2> QED BY <2>1, <2>2, <2>3
<1>4. /\ Len(tip') \in Nat \ {0} /\ Len(tip') = Len(main') /\ Last(tip').corpus = x
      /\ x \in Corpora /\ tree \in Corpora /\ tip'[Len(tip')].corpus = x
  BY <1>1, <1>2, LastType DEF Typed, Control
<1>5. CASE Kind(h) = "edit"
  <2>1. ASSUME tree # x PROVE Landing(order, shown, x, tree)
    <3>1. PICK ss \in SUBSET (DOMAIN p) : WrittenTo(p, tree, x, ss)
      BY <1>1, <1>5 DEF Work, Partial
    <3>2. PICK s \in Slug : DOMAIN p = {s}  BY <1>1, <1>5, OnePage DEF At
    <3>3. ss # {}
      <4>1. ASSUME ss = {} PROVE FALSE
        <5>1. \A t \in Slug : tree[t] = x[t]  BY <3>1, <4>1 DEF WrittenTo
        <5>2. tree = [t \in Slug |-> tree[t]] /\ x = [t \in Slug |-> x[t]]
          BY <1>4 DEF Corpora
        <5> HIDE DEF x
        <5> QED BY <2>1, <5>1, <5>2
      <4> QED BY <4>1
    <3>4. WrittenTo(p, tree, x, DOMAIN p)
      <4>1. ss = DOMAIN p  BY <3>2, <3>3
      <4> QED BY <3>1, <4>1
    <3>5. /\ call[h].change \in Change /\ order[call[h].change].valid
          /\ order[call[h].change].kind # "retire" /\ order[call[h].change].drop = {}
          /\ p \in shown[call[h].change] /\ p \in Bytes
      BY <1>1, <1>5, Undertaken DEF At
    <3>6. Partial(p, x, x)  BY NothingWritten
    <3> HIDE DEF p, x
    <3> QED BY <1>4, <3>4, <3>5, <3>6, BatchLands
  <2>2. tree' # Last(tip').corpus => Landing(order', shown', Last(tip').corpus, tree')
    BY <1>1, <1>4, <2>1
  <2> QED BY <1>1, <1>3, <1>4, <1>5, <2>2 DEF Work, InBranch, At
<1>6. CASE Kind(h) = "collection"
  <2>1. DOMAIN p \ call[h].left = {}  BY <1>1, <1>6 DEF Work
  <2>2. CleanOnMain  BY <1>1, <1>6 DEF Resting, OnMain, At
  <2>3. tree = x  BY <2>2 DEF CleanOnMain
  <2>4. WrittenTo(p, tree, x, DOMAIN p \ call[h].left) /\ Partial(p, x, x)
    <3>1. WrittenTo(p, x, x, {}) /\ Partial(p, x, x)  BY NothingWritten
    <3> QED BY <2>1, <2>3, <3>1
  <2>5. Batched(p, call[h].left, main', tip', tree')
    <3>1. \A k \in Len(tip')..Len(tip') : k = Len(tip')  BY <1>4
    <3> HIDE DEF p
    <3> QED BY <1>1, <1>4, <2>4, <3>1 DEF Batched
  <2> QED BY <1>3, <1>6, <2>5 DEF Work, InBranch, At
<1>7. CASE Kind(h) \notin {"edit", "collection"}
  <2>1. CleanOnMain  BY <1>1, <1>7 DEF Resting, OnMain, At
  <2>2. tree' = Last(tip').corpus  BY <1>1, <1>2, <2>1 DEF CleanOnMain
  <2> QED BY <1>3, <1>4, <1>7, <2>2 DEF Work, InBranch, At
<1> QED BY <1>5, <1>6, <1>7

(* A retirement removes the survey and is whole; of a removal the notes are left to write. *)
LEMMA RemoveWork ==
  ASSUME Typed, Control, Pages, Places, NEW h \in Handler, Remove(h), Work(h)
  PROVE  Work(h)'
<1> DEFINE o == Order(h)
           c == call[h].change
<1>1. /\ lock = h /\ At(h, "rm") /\ UNCHANGED <<order, shown, main, tip>>
      /\ \A s \in o.on : tree[s] # Gone
      /\ tree' = [s \in Slug |-> IF s \notin o.on THEN tree[s]
                                 ELSE IF Kind(h) = "retire" THEN Gone
                                 ELSE [tree[s] EXCEPT !.edis = @ \ o.drop]]
      /\ Step(h, "rm", IF Kind(h) = "retire" THEN "commit" ELSE "write")
  BY DEF Remove, Step, NotGit
<1>2. /\ Kind(h) = "retire" => call'[h].at = "commit"
      /\ Kind(h) # "retire" => call'[h].at = "write"
      /\ call'[h].page = call[h].page /\ call'[h].left = call[h].left /\ Order(h)' = Order(h)
      /\ Kind(h)' = Kind(h)
  <2>1. (IF Kind(h) = "retire" THEN "commit" ELSE "write") \in InCommit  BY DEF InCommit
  <2> QED BY <1>1, <2>1, CommitStep
<1>3. Kind(h) \in {"stations", "retire"}  BY <1>1 DEF Places, Placed
<1>4. tree = Last(tip).corpus /\ Len(tip) <= Len(main)
  BY <1>1, <1>3 DEF Work, InBranch, At
<1>5. c \in Change /\ o = order[c] /\ o.valid /\ Kind(h) = o.kind
  BY <1>1, Undertaken DEF At
<1>6. CASE Kind(h) = "retire"
  <2>1. tree' = [s \in Slug |-> IF s \notin o.on THEN tree[s] ELSE Gone]  BY <1>1, <1>6
  <2>2. Landing(order, shown, tree, tree')
    <3> HIDE DEF o, c
    <3>1. order[c].valid /\ order[c].kind = "retire" /\ \A s \in order[c].on : tree[s] # Gone
      BY <1>1, <1>5, <1>6
    <3>2. tree' = [s \in Slug |-> IF s \notin order[c].on THEN tree[s] ELSE Gone]
      BY <1>5, <2>1
    <3>3. c \in Change  BY <1>5
    <3> QED BY <3>1, <3>2, <3>3, RetireLands
  <2>3. Landing(order', shown', Last(tip').corpus, tree')  BY <1>1, <1>4, <2>2
  <2>4. Len(tip') <= Len(main')  BY <1>1, <1>4
  <2> QED BY <1>2, <1>6, <2>3, <2>4 DEF Work, InBranch, At
<1>7. CASE Kind(h) = "stations"
  <2>1. ASSUME NEW s \in Slug
        PROVE  IF s \in o.on
               THEN tree[s] # Gone /\ tree'[s] = [notes |-> tree[s].notes, edis |-> tree[s].edis \ o.drop]
               ELSE tree'[s] = tree[s]
    <3>1. CASE s \notin o.on  BY <1>1, <3>1
    <3>2. CASE s \in o.on
      <4>1. tree'[s] = [tree[s] EXCEPT !.edis = tree[s].edis \ o.drop]  BY <1>1, <1>7, <3>2
      <4>2. tree[s] \in Contents /\ tree[s] # Gone  BY <1>1, <3>2 DEF Typed, Corpora
      <4> QED BY <3>2, <4>1, <4>2, SurveyExcept
    <3> QED BY <3>1, <3>2
  <2>2. Removed(o.on, o.drop, tree', tree)  BY <2>1 DEF Removed
  <2>3. Removed(Order(h)'.on, Order(h)'.drop, tree', Last(tip').corpus)  BY <1>1, <1>2, <1>4, <2>2
  <2>4. Len(tip') <= Len(main')  BY <1>1, <1>4
  <2> QED BY <1>2, <1>7, <2>3, <2>4 DEF Work, InBranch, At
<1> QED BY <1>3, <1>6, <1>7

(* One more survey is written: all there is of an edit, and of a removal of stations. *)
LEMMA WriteWork ==
  ASSUME Typed, Control, Pages, Places, Resting, NEW h \in Handler, Write(h), Work(h)
  PROVE  Work(h)'
<1> DEFINE p == call[h].page
           c == call[h].change
<1>1. /\ lock = h /\ At(h, "write") /\ UNCHANGED <<order, shown, main, tip>>
  BY DEF Write, NotGit
<1>2. PICK s \in call[h].left :
        /\ s \in Slug /\ s \in DOMAIN p /\ tree[s] # Gone
        /\ [notes |-> p[s], edis |-> tree[s].edis] \in Contents
        /\ tree' = [tree EXCEPT ![s] = [notes |-> p[s], edis |-> tree[s].edis]]
        /\ Moves(h, IF Kind(h) = "edit" THEN "branch" ELSE "commit", p, call[h].left \ {s})
  BY WriteCall
<1>3. /\ call'[h].at = IF Kind(h) = "edit" THEN "branch" ELSE "commit"
      /\ call'[h].page = p /\ call'[h].left = call[h].left \ {s} /\ Order(h)' = Order(h)
      /\ Kind(h)' = Kind(h)
  BY <1>1, <1>2 DEF Moves, Order, Kind
<1>4. /\ tree \in Corpora /\ tree' \in Corpora
      /\ tree'[s] = [notes |-> p[s], edis |-> tree[s].edis]
      /\ \A t \in Slug : t # s => tree'[t] = tree[t]
  BY <1>2 DEF Typed, Corpora
<1>5. /\ c \in Change /\ Order(h) = order[c] /\ Order(h).valid /\ Kind(h) = order[c].kind
      /\ Kind(h) # "retire" => p \in shown[c]
      /\ p \in Bytes /\ DOMAIN p \subseteq Slug
      /\ Kind(h) \in {"edit", "stations", "collection"}
  BY <1>1, Undertaken DEF At, Places, Placed
<1> HIDE DEF p, c
<1>6. CASE Kind(h) = "edit"
  <2>1. CleanOnMain  BY <1>1, <1>6 DEF Resting, OnMain, At
  <2>2. tree = Last(main).corpus  BY <2>1 DEF CleanOnMain
  <2>3. WrittenTo(p, tree', tree, {s})  BY <1>2, <1>4 DEF WrittenTo
  <2>4. {s} \in SUBSET (DOMAIN p)  BY <1>2
  <2>5. Partial(p, tree', Last(main').corpus)  BY <1>1, <2>2, <2>3, <2>4 DEF Partial
  <2> QED BY <1>3, <1>6, <2>5 DEF Work, InBranch, At, p
<1>7. CASE Kind(h) = "stations"
  <2> DEFINE x == Last(tip).corpus
  <2>1. Removed(Order(h).on, Order(h).drop, tree, x) /\ Len(tip) <= Len(main)
    BY <1>1, <1>7 DEF Work, InBranch, At
  <2>2. Order(h).on = {s} /\ DOMAIN p = {s}  BY <1>1, <1>7, OneLeft DEF At, p
  <2>3. ASSUME NEW t \in Slug
        PROVE  IF t \in DOMAIN p
               THEN x[t] # Gone /\ tree'[t] = [notes |-> p[t], edis |-> x[t].edis \ order[c].drop]
               ELSE tree'[t] = x[t]
    <3>1. CASE t \notin DOMAIN p
      <4>1. tree[t] = x[t]  BY <2>1, <2>2, <3>1 DEF Removed
      <4> QED BY <1>4, <2>2, <3>1, <4>1
    <3>2. CASE t \in DOMAIN p
      <4>1. x[s] # Gone /\ tree[s] = [notes |-> x[s].notes, edis |-> x[s].edis \ Order(h).drop]
        BY <2>1, <2>2, <1>2 DEF Removed
      <4>2. tree[s].edis = x[s].edis \ order[c].drop  BY <1>5, <4>1
      <4>3. t = s  BY <2>2, <3>2
      <4> QED BY <1>4, <3>2, <4>1, <4>2, <4>3
    <3> QED BY <3>1, <3>2
  <2> HIDE DEF x
  <2>4. Landing(order, shown, x, tree')
    <3>1. order[c].kind # "retire" /\ p \in shown[c] /\ order[c].valid  BY <1>5, <1>7
    <3> QED BY <1>4, <1>5, <2>3, <3>1, PageLands
  <2>5. Landing(order', shown', Last(tip').corpus, tree') /\ Len(tip') <= Len(main')
    BY <1>1, <2>1, <2>4 DEF x
  <2> QED BY <1>3, <1>7, <2>5 DEF Work, InBranch, At
<1>8. CASE Kind(h) = "collection"
  <2>1. PICK b \in 1..Len(tip) :
          /\ b <= Len(main)
          /\ \A k \in b..Len(tip) : Partial(p, tip[k].corpus, tip[b].corpus)
          /\ WrittenTo(p, tree, tip[b].corpus, DOMAIN p \ call[h].left)
    BY <1>1, <1>8 DEF Work, Batched, At, p
  <2>2. s \notin DOMAIN p \ call[h].left /\ tree[s] = tip[b].corpus[s]
    BY <1>2, <2>1 DEF WrittenTo
  <2>3. WrittenTo(p, tree', tip[b].corpus, DOMAIN p \ (call[h].left \ {s}))
    <3>1. ASSUME NEW t \in Slug
          PROVE  IF t \in DOMAIN p \ (call[h].left \ {s})
                 THEN tip[b].corpus[t] # Gone
                      /\ tree'[t] = [notes |-> p[t], edis |-> tip[b].corpus[t].edis]
                 ELSE tree'[t] = tip[b].corpus[t]
      <4>1. CASE t = s  BY <1>2, <1>4, <2>2, <4>1
      <4>2. CASE t # s
        <5>1. tree'[t] = tree[t]  BY <1>4, <4>2
        <5>2. t \in DOMAIN p \ (call[h].left \ {s}) <=> t \in DOMAIN p \ call[h].left  BY <4>2
        <5> QED BY <2>1, <5>1, <5>2 DEF WrittenTo
      <4> QED BY <4>1, <4>2
    <3> QED BY <3>1 DEF WrittenTo
  <2>4. Batched(p, call[h].left \ {s}, main', tip', tree')
    BY <1>1, <2>1, <2>3 DEF Batched
  <2> QED BY <1>3, <1>8, <2>4 DEF Work, InBranch, At
<1> QED BY <1>5, <1>6, <1>7, <1>8

(* What is committed last makes the change whole. *)
LEMMA CommittedWork ==
  ASSUME Typed, Control, Pages, Places, NEW h \in Handler, CommitWork(h), Work(h)
  PROVE  Work(h)'
<1> DEFINE p == call[h].page
           c == call[h].change
<1>1. /\ lock = h /\ At(h, "commit") /\ tree # Last(tip).corpus
      /\ tip' = Append(tip, Commit(c, tree)) /\ UNCHANGED <<order, shown, main, tree>>
      /\ Step(h, "commit", NextAfterCommit(h))
  BY DEF CommitWork, Step, NotGit
<1>2. /\ call[h].left # {} => call'[h].at = "write"
      /\ call[h].left = {} => call'[h].at = "main"
      /\ call'[h].page = p /\ call'[h].left = call[h].left /\ Order(h)' = Order(h)
      /\ Kind(h)' = Kind(h)
  <2>1. NextAfterCommit(h) \in InCommit  BY DEF NextAfterCommit, InCommit
  <2> QED BY <1>1, <2>1, CommitStep DEF NextAfterCommit
<1>3. /\ c \in Change /\ Order(h) = order[c] /\ Order(h).valid /\ Kind(h) = order[c].kind
      /\ Kind(h) # "retire" => p \in shown[c]
      /\ p \in Bytes /\ DOMAIN p \subseteq Slug
      /\ Kind(h) # "stations" => Order(h).drop = {}
  BY <1>1, Undertaken DEF At
<1>4. tree \in Corpora /\ tip \in Seq(Commits) /\ tip # NoRef
  BY <1>1 DEF Typed, Control, Places, Placed, InBranch, At
<1>5. /\ Len(tip) \in Nat \ {0} /\ Len(tip') = Len(tip) + 1 /\ Last(tip').corpus = tree
      /\ \A k \in 1..Len(tip) : tip'[k] = tip[k]
      /\ tip'[Len(tip)+1].corpus = tree
  <2>1. Commit(c, tree) \in Commits /\ Commit(c, tree).corpus = tree  BY <1>3, <1>4, CommitType
  <2> HIDE DEF c
  <2> QED BY <1>1, <1>4, <2>1, LastType, AppendRef, AppendProperties
<1> HIDE DEF p, c
<1>6. CASE Kind(h) # "collection"
  <2>1. call[h].left = {}  BY <1>1, <1>6 DEF Places, Placed
  <2>2. Landing(order, shown, Last(tip).corpus, tree) /\ Len(tip) <= Len(main)
    BY <1>1, <1>6 DEF Work, InBranch, At
  <2>3. Merging(order', shown', main', tip')
    <3>1. Len(tip) \in 1..Len(tip') /\ Len(tip) <= Len(main')  BY <1>1, <1>5, <2>2
    <3>2. ASSUME NEW k \in Len(tip)..Len(tip')-1
          PROVE  Landing(order', shown', tip'[k].corpus, Last(tip').corpus)
      <4>1. k = Len(tip) /\ k \in 1..Len(tip)  BY <1>5
      <4>2. tip'[k] = Last(tip)  BY <1>5, <4>1 DEF Last
      <4> QED BY <1>1, <1>5, <2>2, <4>2
    <3> QED BY <3>1, <3>2 DEF Merging
  <2> QED BY <1>2, <1>6, <2>1, <2>3 DEF Work, InBranch, At
<1>7. CASE Kind(h) = "collection"
  <2>1. PICK b \in 1..Len(tip) :
          /\ b <= Len(main)
          /\ \A k \in b..Len(tip) : Partial(p, tip[k].corpus, tip[b].corpus)
          /\ WrittenTo(p, tree, tip[b].corpus, DOMAIN p \ call[h].left)
    BY <1>1, <1>7 DEF Work, Batched, At, p
  <2>2. b \in 1..Len(tip') /\ b <= Len(main') /\ tip'[b] = tip[b] /\ tip[b].corpus \in Corpora
    BY <1>1, <1>4, <1>5, <2>1, EntryType
  <2>3. CASE call[h].left # {}
    <3>1. ASSUME NEW k \in b..Len(tip')  PROVE Partial(p, tip'[k].corpus, tip'[b].corpus)
      <4>1. CASE k = Len(tip)+1
        <5>1. DOMAIN p \ call[h].left \in SUBSET (DOMAIN p)  OBVIOUS
        <5>2. Partial(p, tree, tip[b].corpus)  BY <2>1, <5>1 DEF Partial
        <5> QED BY <1>5, <2>2, <4>1, <5>2
      <4>2. CASE k # Len(tip)+1
        <5>1. k \in b..Len(tip) /\ k \in 1..Len(tip)  BY <1>5, <4>2
        <5> QED BY <1>5, <2>1, <2>2, <5>1
      <4> QED BY <4>1, <4>2
    <3>2. Batched(p, call[h].left, main', tip', tree')
      BY <1>1, <2>1, <2>2, <3>1 DEF Batched
    <3> QED BY <1>2, <1>7, <2>3, <3>2 DEF Work, InBranch, At
  <2>4. CASE call[h].left = {}
    <3>1. WrittenTo(p, tree, tip[b].corpus, DOMAIN p)
      <4>1. DOMAIN p \ call[h].left = DOMAIN p  BY <2>4
      <4> QED BY <2>1, <4>1
    <3>2. ASSUME NEW k \in b..Len(tip')-1
          PROVE  Landing(order', shown', tip'[k].corpus, Last(tip').corpus)
      <4>1. k \in b..Len(tip) /\ k \in 1..Len(tip)  BY <1>5
      <4>2. Partial(p, tip[k].corpus, tip[b].corpus)  BY <2>1, <4>1
      <4>3. order[c].valid /\ order[c].kind # "retire" /\ order[c].drop = {} /\ p \in shown[c]
        BY <1>3, <1>7
      <4>4. Landing(order, shown, tip[k].corpus, tree)
        BY <1>3, <1>4, <2>2, <3>1, <4>2, <4>3, BatchLands
      <4> QED BY <1>1, <1>5, <4>1, <4>4
    <3>3. Merging(order', shown', main', tip')  BY <2>2, <3>2 DEF Merging
    <3> QED BY <1>2, <1>7, <2>4, <3>3 DEF Work, InBranch, At
  <2> QED BY <2>3, <2>4
<1> QED BY <1>6, <1>7

(* What others changed is not what an edit wrote: the pull refuses to overwrite it. *)
LEMMA PullWork ==
  ASSUME Typed, Control, Places, NEW h \in Handler, Pull, Work(h)
  PROVE  Work(h)'
<1> DEFINE now == Last(main).corpus
           new == Last(origin).corpus
           moved == {s \in Slug : now[s] # new[s]}
           p == call[h].page
<1>1. /\ head = "main" /\ Prefix(main, origin) /\ main' = origin
      /\ UNCHANGED <<order, shown, call, tip>> /\ \A s \in moved : tree[s] = now[s]
      /\ tree' = [s \in Slug |-> IF s \in moved THEN new[s] ELSE tree[s]]
  BY DEF Pull
<1>2. Order(h)' = Order(h) /\ Kind(h)' = Kind(h) /\ InBranch(h)' = InBranch(h)
  BY <1>1 DEF Order, Kind, InBranch, At
<1>3. ~InBranch(h)  BY <1>1 DEF Places, Placed
<1>4. ASSUME Partial(p, tree, now)  PROVE Partial(p, tree', new)
  <2>1. PICK ss \in SUBSET (DOMAIN p) : WrittenTo(p, tree, now, ss)  BY <1>4 DEF Partial
  <2>2. ASSUME NEW s \in Slug
        PROVE  IF s \in ss \ moved THEN new[s] # Gone /\ tree'[s] = [notes |-> p[s], edis |-> new[s].edis]
                                   ELSE tree'[s] = new[s]
    <3>1. CASE s \in moved  BY <1>1, <3>1
    <3>2. CASE s \notin moved
      <4>1. now[s] = new[s] /\ tree'[s] = tree[s]  BY <1>1, <3>2
      <4> HIDE DEF moved, now, new
      <4> QED BY <2>1, <3>2, <4>1 DEF WrittenTo
    <3> QED BY <3>1, <3>2
  <2>3. ss \ moved \in SUBSET (DOMAIN p)  BY <2>1
  <2> HIDE DEF moved, new
  <2>4. WrittenTo(p, tree', new, ss \ moved)  BY <2>2 DEF WrittenTo
  <2> QED BY <2>3, <2>4 DEF Partial
<1>5. ASSUME Merging(order, shown, main, tip)  PROVE Merging(order', shown', main', tip')
  <2>1. Len(main) <= Len(main') /\ Len(main) \in Nat /\ Len(main') \in Nat
    BY <1>1, PrefixEntries DEF Typed
  <2>2. Len(tip) \in Nat  BY DEF Typed
  <2> QED BY <1>1, <1>5, <2>1, <2>2 DEF Merging
<1>6. /\ At(h, "branch") /\ Kind(h) = "edit" => Partial(p, tree', Last(main').corpus)
      /\ call[h].at \in {"main", "merge"} => Merging(order', shown', main', tip')
  BY <1>1, <1>4, <1>5 DEF Work
<1>7. ~At(h, "rm") /\ ~At(h, "commit") /\ (At(h, "write") => Kind(h) = "edit")
  BY <1>3 DEF InBranch, At
<1>8. At(h, "branch") /\ Kind(h) = "collection" => call[h].left = DOMAIN call[h].page
  BY DEF Work
<1> HIDE DEF p
<1> QED BY <1>1, <1>2, <1>3, <1>6, <1>7, <1>8 DEF Work, InBranch, At, p

LEMMA InitWorking == Init => Working
BY NoneApart DEF Init, Working

LEMMA WorkingStep == Book /\ Resting /\ Working /\ [Next]_vars => Working'
<1> SUFFICES ASSUME Book, Resting, Working, [Next]_vars PROVE Working'
  OBVIOUS
<1> USE DEF git, queue, faults
<1>0. Typed /\ Control /\ Pages /\ Places  BY DEF Book
<1>g. order' = order /\ \A c \in Change : shown[c] \subseteq shown'[c]  BY ShownStep
<1>a. ASSUME UNCHANGED <<main, tip, tree>>,
             \A k \in Handler : lock' = k => \/ lock = k /\ call'[k] = call[k]
                                             \/ call'[k].at \notin Begun \ {"guard", "undo", "push"}
      PROVE  Working'
  <2>1. {"branch", "rm", "write", "commit", "main", "merge"} \subseteq Begun \ {"guard", "undo", "push"}
    BY DEF Begun, InCommit
  <2>2. ASSUME NEW k \in Handler, lock' = k  PROVE Work(k)'
    <3>1. CASE lock = k /\ call'[k] = call[k]
      <4>1. Work(k)  BY <3>1 DEF Working
      <4> QED BY <1>a, <1>g, <3>1, <4>1, SameWork
    <3>2. CASE call'[k].at \notin Begun \ {"guard", "undo", "push"}
      BY <2>1, <3>2, NoWorkLater
    <3> QED BY <1>a, <2>2, <3>1, <3>2
  <2> QED BY <2>2 DEF Working
<1>b. ASSUME NEW h \in Handler, lock' = h, call'[h].at \in {"guard", "undo", "push"}  PROVE Working'
  <2>1. Work(h)'  BY <1>b, NoWorkLater
  <2> QED BY <1>b, <2>1 DEF Working
<1>c. ASSUME NEW h \in Handler, lock' = h, Work(h)'  PROVE Working'
  BY <1>c DEF Working
<1>n. ASSUME lock' = None  PROVE Working'
  BY <1>n, NoneApart DEF Working
<1>1. ASSUME NEW h \in Handler, Request(h) \/ Acquire(h) \/ Await(h)  PROVE Working'
  <2>1. /\ UNCHANGED <<main, tip, tree>>
        /\ \A k \in Handler : lock' = k /\ call'[k].at \in Begun => lock = k /\ call'[k] = call[k]
    BY <1>0, <1>1, Meanwhile
  <2> QED BY <1>a, <2>1
<1>2. ASSUME Runner \/ RunnerCrash \/ UNCHANGED vars  PROVE Working'
  <2>1. UNCHANGED <<call, lock, main, tip, tree>>  BY <1>2, Elsewhere
  <2> QED BY <1>a, <2>1
<1>3. ASSUME NEW h \in Handler, Preflight(h) \/ CommandFails(h)  PROVE Working'
  <2>1. lock' = h /\ call'[h].at \in {"guard", "undo"}
    BY <1>0, <1>3, GoCall DEF Preflight, CommandFails, Step, Steps, InCommit
  <2> QED BY <1>b, <2>1
<1>4. ASSUME NEW h \in Handler, Guarded(h)  PROVE Working'
  <2>1. /\ lock = h /\ lock' = lock /\ UNCHANGED <<tip, main>>
        /\ Moves(h, IF Kind(h) = "edit" THEN "write" ELSE "branch", call[h].page, DOMAIN call[h].page)
    BY <1>0, <1>4, GuardedCall DEF Guarded
  <2>2. /\ call'[h].at = IF Kind(h) = "edit" THEN "write" ELSE "branch"
        /\ call'[h].page = call[h].page /\ call'[h].left = DOMAIN call[h].page
        /\ Kind(h)' = Kind(h)
    BY <1>g, <2>1 DEF Moves, Kind, Order
  <2>3. Work(h)'  BY <2>2 DEF Work, InBranch, At
  <2> QED BY <1>c, <2>1, <2>3
<1>5. ASSUME NEW h \in Handler, Refuse(h) \/ Rollback(h)  PROVE Working'
  <2>1. lock' = None  BY <1>0, <1>5, EndCall DEF Refuse, Rollback
  <2> QED BY <1>n, <2>1
<1>6. ASSUME NEW h \in Handler, Branch(h) \/ Remove(h) \/ Write(h) \/ CommitWork(h)  PROVE Working'
  <2>1. lock = h /\ lock' = lock
    BY <1>6 DEF Branch, Remove, Write, CommitWork, Step, Go
  <2>2. Work(h)  BY <2>1 DEF Working
  <2>3. Work(h)'  BY <1>0, <1>6, <2>2, BranchWork, RemoveWork, WriteWork, CommittedWork
  <2> QED BY <1>c, <2>1, <2>3
<1>7. ASSUME NEW h \in Handler, CheckoutMain(h)  PROVE Working'
  <2>1. lock = h /\ call[h].at = "main" /\ lock' = h /\ call'[h].at = "merge"
    BY <1>0, <1>7, CommitStep DEF CheckoutMain, InCommit, NotGit
  <2>2. Merging(order, shown, main, tip) /\ UNCHANGED <<order, shown, main, tip>>
    BY <1>7, <2>1 DEF Working, Work, CheckoutMain, NotGit
  <2>3. Merging(order', shown', main', tip')  BY <2>2
  <2>4. Work(h)'  BY <2>1, <2>3 DEF Work, InBranch, At
  <2> QED BY <1>c, <2>1, <2>4
<1>8. ASSUME NEW h \in Handler, Merge(h)  PROVE Working'
  <2>1. lock' = h /\ call'[h].at = "push"
    BY <1>0, <1>8, CommitStep DEF Merge, InCommit, NotGit
  <2> QED BY <1>b, <2>1
<1>9. ASSUME NEW h \in Handler, Push(h)  PROVE Working'
  <2>1. lock = h  BY <1>9 DEF Push
  <2>2. CASE End(h)  BY <1>0, <1>n, <2>1, <2>2, EndCall
  <2>3. CASE Go(h, "undo")
    <3>1. lock' = h /\ call'[h].at = "undo"  BY <1>0, <2>1, <2>3, GoCall DEF Steps, InCommit
    <3> QED BY <1>b, <3>1
  <2> QED BY <1>9, <2>2, <2>3 DEF Push
<1>10. CASE GatewayCrash  BY <1>10, <1>n DEF GatewayCrash
<1>11. ASSUME NEW s \in Slug, RemoteCommit(s)  PROVE Working'
  <2>1. UNCHANGED <<call, lock, main, tip, tree>>  BY <1>11 DEF RemoteCommit
  <2> QED BY <1>a, <2>1
<1>12. CASE Pull
  <2>1. lock' = lock  BY <1>12 DEF Pull
  <2> QED BY <1>0, <1>12, <2>1, PullWork DEF Working
<1>13. CASE Repair
  <2>1. lock' = None  BY <1>13 DEF Repair
  <2> QED BY <1>n, <2>1
<1> QED BY <1>1, <1>2, <1>3, <1>4, <1>5, <1>6, <1>7, <1>8, <1>9, <1>10, <1>11, <1>12, <1>13
        DEF Next, Committing, Others

(* What a commit has written so far is the page that was confirmed. *)
LEMMA Workings == Spec => []Working
BY InitWorking, WorkingStep, Rests, Bookkeeping, PTL DEF Spec

-----------------------------------------------------------------------------
(* What main has beyond the origin is whole changes. *)

LEMMA SelfAhead ==
  ASSUME NEW o, NEW sh, NEW r \in Seq(Commits), r # NoRef
  PROVE  AheadOf(o, sh, r, r)
<1>1. Len(r) \in Nat \ {0}  BY LastType
<1>2. {Len(r)} \in SUBSET (Len(r)..Len(r)) /\ Len(r)+1..Len(r) = {}  BY <1>1
<1>3. Cut(o, sh, r, {Len(r)})  BY <1>1 DEF Cut, Ledger!Consecutive
<1>4. WholeFrom(o, sh, r, Len(r))  BY <1>2, <1>3 DEF WholeFrom
<1> QED BY <1>2, <1>4 DEF AheadOf

LEMMA OutsideAhead ==
  ASSUME NEW o, NEW sh, NEW r \in Seq(Commits), NEW q \in Seq(Commits), NEW e \in Commits,
         e.by = Outside, AheadOf(o, sh, r, q)
  PROVE  AheadOf(o, sh, r, Append(q, e))
<1> DEFINE q2 == Append(q, e)
<1>1. /\ q2 \in Seq(Commits) /\ Len(q2) = Len(q) + 1 /\ q2[Len(q)+1] = e
      /\ \A i \in 1..Len(q) : q2[i] = q[i]
      /\ Len(q) \in Nat /\ Len(r) \in Nat
  BY AppendProperties
<1> HIDE DEF q2
<1>2. ASSUME Prefix(q2, r) PROVE FALSE
  <2>1. Len(q2) <= Len(r) /\ \A i \in 1..Len(q2) : r[i] = q2[i]  BY <1>1, <1>2, PrefixEntries
  <2>2. Prefix(q, r)  BY <1>1, <2>1, PrefixEntries
  <2>3. Len(q)+1 \in Len(q)+1..Len(r) /\ Len(q)+1 \in 1..Len(q2)  BY <1>1, <2>1
  <2>4. r[Len(q)+1].by \in Change  BY <2>2, <2>3 DEF AheadOf
  <2>5. r[Len(q)+1] = e  BY <1>1, <2>1, <2>3
  <2> QED BY <2>4, <2>5, EditsAssumption
<1> QED BY <1>2 DEF AheadOf, q2

(* One change more. *)
LEMMA MergedAhead ==
  ASSUME NEW o, NEW sh, NEW m \in Seq(Commits), NEW r \in Seq(Commits), NEW q \in Seq(Commits),
         m # NoRef, q # NoRef, AheadOf(o, sh, m, q), Prefix(m, r), Merging(o, sh, m, r),
         \A i \in Len(m)+1..Len(r) : r[i].by \in Change
  PROVE  AheadOf(o, sh, r, q)
<1> SUFFICES ASSUME Prefix(q, r)
             PROVE  /\ WholeFrom(o, sh, r, Len(q))
                    /\ \A i \in Len(q)+1..Len(r) : r[i].by \in Change
  BY DEF AheadOf
<1>1. /\ Len(m) \in Nat \ {0} /\ Len(q) \in Nat \ {0} /\ Len(r) \in Nat
      /\ Len(m) <= Len(r) /\ \A i \in 1..Len(m) : r[i] = m[i]
      /\ Len(q) <= Len(r) /\ \A i \in 1..Len(q) : r[i] = q[i]
  BY LastType, PrefixEntries
<1>2. ASSUME Len(q) <= Len(m)
      PROVE  /\ WholeFrom(o, sh, m, Len(q))
             /\ \A i \in Len(q)+1..Len(m) : m[i].by \in Change
  <2>1. \A i \in 1..Len(q) : i \in 1..Len(m)  BY <1>1, <1>2
  <2>2. Prefix(q, m)  BY <1>1, <1>2, <2>1, PrefixEntries
  <2> QED BY <2>2 DEF AheadOf
<1>3. PICK b \in 1..Len(r) :
        /\ b <= Len(m)
        /\ \A k \in b..Len(r)-1 : Landing(o, sh, r[k].corpus, Last(r).corpus)
  BY DEF Merging
<1>4. ASSUME NEW k \in Nat, Len(m) <= k, k < Len(r)
      PROVE  Landing(o, sh, r[k].corpus, r[Len(r)].corpus)
  <2>1. k \in b..Len(r)-1  BY <1>1, <1>3, <1>4
  <2> QED BY <1>3, <2>1 DEF Last
<1>5. \A i \in Len(q)+1..Len(r) : r[i].by \in Change
  <2>1. ASSUME NEW i \in Len(q)+1..Len(r) PROVE r[i].by \in Change
    <3>1. CASE i > Len(m)
      <4>1. i \in Len(m)+1..Len(r)  BY <1>1, <3>1
      <4> QED BY <4>1
    <3>2. CASE i <= Len(m)
      <4>1. Len(q) <= Len(m) /\ i \in Len(q)+1..Len(m) /\ i \in 1..Len(m)  BY <1>1, <3>2
      <4>2. m[i].by \in Change  BY <1>2, <4>1
      <4> QED BY <1>1, <4>1, <4>2
    <3> QED BY <1>1, <3>1, <3>2
  <2> QED BY <2>1
<1>6. CASE Len(m) = Len(r)
  <2>1. r = m  BY <1>1, <1>6, PrefixWhole
  <2> QED BY <1>1, <1>2, <1>5, <2>1
<1>7. CASE Len(m) < Len(r) /\ Len(q) <= Len(m)
  <2>1. PICK cuts \in SUBSET (Len(q)..Len(m)) : Len(q) \in cuts /\ Cut(o, sh, m, cuts)
    BY <1>2, <1>7 DEF WholeFrom
  <2> DEFINE all == cuts \cup {Len(r)}
  <2>2. Len(m) \in cuts /\ Len(r) \in all /\ Len(q) \in all /\ all \in SUBSET (Len(q)..Len(r))
    <3>1. Len(m) \in cuts  BY <2>1 DEF Cut
    <3>2. \A i \in Len(q)..Len(m) : i \in Len(q)..Len(r)  BY <1>1, <1>7
    <3>3. Len(r) \in Len(q)..Len(r)  BY <1>1
    <3> QED BY <2>1, <3>1, <3>2, <3>3
  <2>3. ASSUME NEW i \in all, NEW j \in all, Ledger!Consecutive(i, j, all)
        PROVE  Landing(o, sh, r[i].corpus, r[j].corpus)
    <3>1. i < j /\ \A k \in all : ~(i < k /\ k < j)  BY <2>3 DEF Ledger!Consecutive
    <3>2. i \in Len(q)..Len(r) /\ j \in Len(q)..Len(r)  BY <2>2
    <3>3. i \in cuts  BY <1>1, <3>1, <3>2
    <3>4. i \in 1..Len(m)  BY <1>1, <2>1, <3>3
    <3>5. CASE j \in cuts
      <4>1. Ledger!Consecutive(i, j, cuts)  BY <3>1 DEF Ledger!Consecutive
      <4>2. Landing(o, sh, m[i].corpus, m[j].corpus)  BY <2>1, <3>3, <3>5, <4>1 DEF Cut
      <4>3. j \in 1..Len(m)  BY <1>1, <2>1, <3>5
      <4> QED BY <1>1, <3>4, <4>2, <4>3
    <3>6. CASE j = Len(r)
      <4>1. i = Len(m)
        <5>1. ~(i < Len(m) /\ Len(m) < j)  BY <2>2, <3>1
        <5> QED BY <1>1, <1>7, <3>4, <3>6, <5>1
      <4> QED BY <1>1, <1>4, <1>7, <3>6, <4>1
    <3> QED BY <3>5, <3>6
  <2>4. Cut(o, sh, r, all)  BY <2>2, <2>3 DEF Cut
  <2> QED BY <1>5, <2>2, <2>4 DEF WholeFrom
<1>8. CASE Len(m) < Len(q)
  <2> DEFINE all == {Len(q), Len(r)}
  <2>1. Len(r) \in all /\ Len(q) \in all /\ all \in SUBSET (Len(q)..Len(r))  BY <1>1
  <2>2. ASSUME NEW i \in all, NEW j \in all, Ledger!Consecutive(i, j, all)
        PROVE  Landing(o, sh, r[i].corpus, r[j].corpus)
    <3>1. i < j  BY <2>2 DEF Ledger!Consecutive
    <3>2. i = Len(q) /\ j = Len(r)  BY <1>1, <3>1
    <3> QED BY <1>1, <1>4, <1>8, <3>1, <3>2
  <2>3. Cut(o, sh, r, all)  BY <2>1, <2>2 DEF Cut
  <2> QED BY <1>5, <2>1, <2>3 DEF WholeFrom
<1> QED BY <1>1, <1>6, <1>7, <1>8

LEMMA InitAheads == Init => Aheads
<1> SUFFICES ASSUME Init PROVE Aheads
  OBVIOUS
<1>1. origin = main /\ pre = NoRef /\ main # NoRef /\ main \in Seq(Commits)
  BY InitTyped, InitControl DEF Init, Typed, Control, NoRef
<1>2. AheadOf(order, shown, main, origin)  BY <1>1, SelfAhead
<1> QED BY <1>1, <1>2 DEF Aheads

LEMMA AheadsStep == Book /\ OwnTip /\ Working /\ Aheads /\ [Next]_vars => Aheads'
<1> SUFFICES ASSUME Book, OwnTip, Working, Aheads, [Next]_vars PROVE Aheads'
  OBVIOUS
<1> USE DEF git, queue, faults
<1>0. Typed /\ Control  BY DEF Book
<1>g. order' = order /\ \A c \in Change : shown[c] \subseteq shown'[c]  BY ShownStep
<1>t. /\ main \in Seq(Commits) /\ tip \in Seq(Commits) /\ pre \in Seq(Commits)
      /\ origin \in Seq(Commits) /\ main # NoRef /\ origin # NoRef
      /\ Len(main) \in Nat /\ Len(pre) \in Nat /\ Len(tip) \in Nat /\ Len(origin) \in Nat
  BY <1>0 DEF Typed, Control
<1>k. /\ AheadOf(order', shown', main, origin)
      /\ pre # NoRef => AheadOf(order', shown', pre, origin) /\ Len(pre) <= Len(main)
  BY <1>g, AheadGrows DEF Aheads
<1>s. ASSUME UNCHANGED <<main, origin>>, pre' \in {pre, main, NoRef}  PROVE Aheads'
  BY <1>k, <1>s, <1>t DEF Aheads
<1>1. ASSUME NEW h \in Handler, Request(h) \/ Acquire(h) \/ Await(h)  PROVE Aheads'
  <2>1. UNCHANGED <<main, pre, origin>>  BY <1>0, <1>1, Meanwhile
  <2> QED BY <1>s, <2>1
<1>2. ASSUME Runner \/ RunnerCrash \/ UNCHANGED vars  PROVE Aheads'
  <2>1. UNCHANGED <<main, pre, origin>>  BY <1>2, Elsewhere
  <2> QED BY <1>s, <2>1
<1>3. ASSUME NEW h \in Handler,
             \/ Preflight(h) \/ CommandFails(h) \/ Guarded(h) \/ Refuse(h) \/ Branch(h) \/ Remove(h)
             \/ Write(h) \/ CommitWork(h) \/ CheckoutMain(h)
      PROVE  Aheads'
  <2>1. UNCHANGED <<main, origin>> /\ pre' \in {pre, main, NoRef}
    BY <1>3 DEF Preflight, CommandFails, Guarded, Refuse, Branch, Remove, Write, CommitWork,
                CheckoutMain, NotGit
  <2> QED BY <1>s, <2>1
<1>4. ASSUME NEW h \in Handler, Merge(h)  PROVE Aheads'
  <2>1. /\ lock = h /\ At(h, "merge") /\ Prefix(main, tip) /\ main' = tip
        /\ UNCHANGED <<shown, pre, origin>>
    BY <1>4 DEF Merge, Step, NotGit
  <2>2. Above /\ Merging(order, shown, main, tip)
    BY <2>1 DEF OwnTip, Tipped, Working, Work, At
  <2>3. AheadOf(order, shown, tip, origin)
    BY <1>t, <2>1, <2>2, MergedAhead DEF Aheads, Above
  <2>4. Len(main) <= Len(tip)  BY <1>t, <2>1, PrefixEntries
  <2> QED BY <1>g, <1>t, <2>1, <2>3, <2>4 DEF Aheads
<1>5. ASSUME NEW h \in Handler, Push(h)  PROVE Aheads'
  <2>1. origin' = main /\ main' = main /\ pre' \in {pre, NoRef}  BY <1>5 DEF Push
  <2>2. AheadOf(order', shown', main, main)  BY <1>t, SelfAhead
  <2>3. ASSUME pre # NoRef  PROVE AheadOf(order', shown', pre, main)
    <3>1. CASE Prefix(main, pre)
      <4>1. main = pre  BY <1>k, <1>t, <2>3, <3>1, PrefixWhole
      <4> QED BY <2>2, <4>1
    <3>2. CASE ~Prefix(main, pre)  BY <3>2 DEF AheadOf
    <3> QED BY <3>1, <3>2
  <2> QED BY <1>k, <2>1, <2>2, <2>3 DEF Aheads
<1>6. ASSUME NEW h \in Handler, Rollback(h)  PROVE Aheads'
  <2>1. At(h, "undo") /\ main' = pre /\ pre' = NoRef /\ origin' = origin
    BY <1>6 DEF Rollback, NotGit
  <2>2. pre # NoRef  BY <1>0, <2>1 DEF At, Control, Steady, Begun, InCommit
  <2> QED BY <1>k, <2>1, <2>2 DEF Aheads
<1>7. CASE GatewayCrash
  <2>1. UNCHANGED <<main, origin>> /\ pre' = NoRef  BY <1>7 DEF GatewayCrash
  <2> QED BY <1>s, <2>1
<1>8. ASSUME NEW s \in Slug, RemoteCommit(s)  PROVE Aheads'
  <2> DEFINE old == Last(origin).corpus
             new == [old EXCEPT ![s].notes = Append(@, Outside)]
             e == Commit(Outside, new)
  <2>1. origin' = Append(origin, e) /\ old[s] # Gone /\ UNCHANGED <<main, pre>>
    BY <1>8 DEF RemoteCommit
  <2>2. old \in Corpora  BY <1>t, LastType
  <2>3. old[s] \in Contents /\ old[s].notes \in Notes  BY <2>1, <2>2, SurveyType DEF Corpora
  <2>4. Append(old[s].notes, Outside) \in Notes  BY <2>3, RecordsAppend
  <2>5. new = [old EXCEPT ![s] = [notes |-> Append(old[s].notes, Outside), edis |-> old[s].edis]]
        /\ [notes |-> Append(old[s].notes, Outside), edis |-> old[s].edis] \in Contents
    BY <2>1, <2>3, <2>4, SurveyExcept, SurveyType
  <2>6. new \in Corpora  BY <2>2, <2>5 DEF Corpora
  <2>7. e \in Commits /\ e.by = Outside  BY <2>6, CommitType
  <2> HIDE DEF e
  <2>8. AheadOf(order', shown', main, origin')  BY <1>k, <1>t, <2>1, <2>7, OutsideAhead
  <2>9. pre # NoRef => AheadOf(order', shown', pre, origin')
    BY <1>k, <1>t, <2>1, <2>7, OutsideAhead
  <2> QED BY <1>k, <2>1, <2>8, <2>9 DEF Aheads
<1>9. CASE Pull
  <2>1. main' = origin /\ UNCHANGED <<pre, origin>> /\ Len(main) <= Len(origin)
    BY <1>9, <1>t, PrefixEntries DEF Pull
  <2>2. AheadOf(order', shown', origin, origin)  BY <1>t, SelfAhead
  <2> QED BY <1>k, <1>t, <2>1, <2>2 DEF Aheads
<1>10. CASE Repair
  <2>1. UNCHANGED <<main, pre, origin>>  BY <1>10 DEF Repair
  <2> QED BY <1>s, <2>1
<1> QED BY <1>1, <1>2, <1>3, <1>4, <1>5, <1>6, <1>7, <1>8, <1>9, <1>10
        DEF Next, Committing, Others

LEMMA StayAhead == Spec => []Aheads
BY InitAheads, AheadsStep, OwnTips, Workings, Bookkeeping, PTL DEF Spec

-----------------------------------------------------------------------------
(* The abstract specification. *)

LEMMA WholeIs ==
  ASSUME NEW r, NEW n, WholeFrom(order, shown, r, n)
  PROVE  Ledger!WholeSince(r, n)
<1>1. PICK cuts \in SUBSET (n..Len(r)) : n \in cuts /\ Cut(order, shown, r, cuts)
  BY DEF WholeFrom
<1>2. \A i, j \in cuts : Ledger!Consecutive(i, j, cuts) => Ledger!Lands(r[i].corpus, r[j].corpus)
  BY <1>1, LandingIs DEF Cut
<1> QED BY <1>1, <1>2 DEF Ledger!WholeSince, Cut

LEMMA InitLedger == Init => Ledger!Init
BY WantedAssumption DEF Init, Ledger!Init, Ledger!New, Commit

LEMMA LedgerStep == Book /\ Book' /\ Aheads /\ [Next]_vars => [Ledger!Next]_<<order, shown, origin>>
<1> SUFFICES ASSUME Book, Book', Aheads, [Next]_vars
             PROVE  Ledger!Next \/ UNCHANGED <<order, shown, origin>>
  OBVIOUS
<1> USE DEF git, queue, faults
<1>0. Typed /\ Typed' /\ Control  BY DEF Book
<1>1. ASSUME NEW h \in Handler, Request(h) \/ Acquire(h)  PROVE UNCHANGED <<order, shown, origin>>
  BY <1>1 DEF Request, Acquire, Preview, Retire, Confirm, ConfirmBatch
<1>2. ASSUME NEW h \in Handler, Await(h)  PROVE Ledger!Next \/ UNCHANGED <<order, shown, origin>>
  <2>1. CASE Answered(h) \/ Timeout(h)  BY <2>1 DEF Answered, Timeout
  <2>2. CASE Shown(h)
    <3>1. PICK r \in Result(h) :
            shown' = IF r.ok /\ DOMAIN r.bytes # {}
                     THEN [shown EXCEPT ![call[h].change] = @ \cup {r.bytes}] ELSE shown
      BY <2>2 DEF Shown
    <3>2. call[h].change \in Change  BY <1>0, <2>2 DEF Shown, Control, Steady, At
    <3>3. order' = order /\ origin' = origin  BY <2>2 DEF Shown
    <3>4. CASE r.ok /\ DOMAIN r.bytes # {}
      <4>1. shown' = [shown EXCEPT ![call[h].change] = shown[call[h].change] \cup {r.bytes}]
        BY <3>1, <3>4
      <4>2. shown'[call[h].change] = shown[call[h].change] \cup {r.bytes}
        BY <1>0, <3>2, <4>1 DEF Typed
      <4>3. Ledger!Show(call[h].change)  BY <3>3, <4>1, <4>2 DEF Ledger!Show
      <4> QED BY <3>2, <4>3 DEF Ledger!Next
    <3>5. CASE ~(r.ok /\ DOMAIN r.bytes # {})  BY <3>1, <3>3, <3>5
    <3> QED BY <3>4, <3>5
  <2> QED BY <1>2, <2>1, <2>2 DEF Await
<1>3. ASSUME NEW h \in Handler, Push(h)  PROVE Ledger!Next
  <2>1. /\ Prefix(origin, main) /\ origin' = main /\ order' = order /\ shown' = shown
    BY <1>3 DEF Push
  <2>2. Ledger!WholeSince(main, Len(origin))  BY <2>1, WholeIs DEF Aheads, AheadOf
  <2>3. Ledger!WholeSince(main, Len(origin)) /\ Ledger!Prefix(origin, main)
    BY <2>1, <2>2 DEF Prefix, Ledger!Prefix
  <2>4. Ledger!Land  BY <2>1, <2>3 DEF Ledger!Land
  <2> QED BY <2>4 DEF Ledger!Next
<1>4. ASSUME NEW h \in Handler, Committing(h), ~Push(h)  PROVE UNCHANGED <<order, shown, origin>>
  BY <1>4 DEF Committing, Preflight, Guarded, Refuse, Branch, Remove, Write, CommitWork,
             CheckoutMain, Merge, CommandFails, Rollback, NotGit
<1>5. ASSUME NEW s \in Slug, RemoteCommit(s)  PROVE Ledger!Next
  <2>1. Ledger!Elsewhere(s)  BY <1>5 DEF RemoteCommit, Ledger!Elsewhere, Last, Commit
  <2> QED BY <2>1 DEF Ledger!Next
<1>6. CASE \/ Runner \/ GatewayCrash \/ RunnerCrash \/ Pull \/ Repair \/ UNCHANGED vars
  BY <1>6 DEF Runner, Claim, Reply, Compute, GatewayCrash, RunnerCrash, Pull, Repair, vars
<1> QED BY <1>1, <1>2, <1>3, <1>4, <1>5, <1>6 DEF Next, Others

(* The corpus at the origin changes by whole, valid changes as their previews showed them,
   whatever others push and however a commit fails (gateway/publish.py 239-258): the edits
   implement the ledger. *)
THEOREM EditsImplementLedger == Spec => Implements
<1>1. Spec => Ledger!Init /\ [][Ledger!Next]_<<order, shown, origin>>
  BY InitLedger, LedgerStep, Bookkeeping, StayAhead, PTL DEF Spec
<1> QED BY <1>1 DEF Implements, Ledger!Spec
=============================================================================
