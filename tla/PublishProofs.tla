---------------------------- MODULE PublishProofs ----------------------------
(***************************************************************************)
(* Proofs about Publish, for every set of submissions and slugs, every      *)
(* number of attempts and of foreign commits.                               *)
(***************************************************************************)
EXTENDS Publish, SequenceTheorems, TLAPS

USE PublishAssumption

-----------------------------------------------------------------------------
(* What the proofs need to know of prefixes. *)

(* A prefix is not longer, and agrees entry by entry. *)
LEMMA PrefixEntries ==
  ASSUME NEW S, NEW r \in Seq(S), NEW q \in Seq(S)
  PROVE  Prefix(r, q) <=> Len(r) <= Len(q) /\ \A i \in 1..Len(r) : q[i] = r[i]
<1>1. Len(r) \in Nat /\ Len(q) \in Nat  OBVIOUS
<1>2. ASSUME Len(r) <= Len(q)
      PROVE  /\ SubSeq(q, 1, Len(r)) \in Seq(S)
             /\ Len(SubSeq(q, 1, Len(r))) = Len(r)
             /\ \A i \in 1..Len(r) : SubSeq(q, 1, Len(r))[i] = q[i]
  <2>1. \A i \in 1..Len(r) : q[i] \in S  BY <1>1, <1>2, ElementOfSeq
  <2> QED BY <1>1, <2>1, SubSeqProperties
<1>3. ASSUME Prefix(r, q)
      PROVE  Len(r) <= Len(q) /\ \A i \in 1..Len(r) : q[i] = r[i]
  BY <1>2, <1>3 DEF Prefix
<1>4. ASSUME Len(r) <= Len(q), \A i \in 1..Len(r) : q[i] = r[i]
      PROVE  Prefix(r, q)
  <2>1. SubSeq(q, 1, Len(r)) = r  BY <1>2, <1>4, SeqEqual
  <2> QED BY <1>4, <2>1 DEF Prefix
<1> QED BY <1>3, <1>4

LEMMA PrefixSelf == ASSUME NEW S, NEW r \in Seq(S) PROVE Prefix(r, r)
BY PrefixEntries

LEMMA PrefixTrans ==
  ASSUME NEW S, NEW p \in Seq(S), NEW q \in Seq(S), NEW r \in Seq(S),
         Prefix(p, q), Prefix(q, r)
  PROVE  Prefix(p, r)
BY PrefixEntries

LEMMA PrefixAppend ==
  ASSUME NEW S, NEW r \in Seq(S), NEW e \in S
  PROVE  Prefix(r, Append(r, e))
<1>1. /\ Append(r, e) \in Seq(S)
      /\ Len(Append(r, e)) = Len(r) + 1
      /\ \A i \in 1..Len(r) : Append(r, e)[i] = r[i]
  BY AppendProperties
<1>2. ASSUME NEW q \in Seq(S), Len(q) = Len(r) + 1, \A i \in 1..Len(r) : q[i] = r[i]
      PROVE  Prefix(r, q)
  BY <1>2, PrefixEntries
<1> QED BY <1>1, <1>2

(* What is in a ref is in every ref it is a prefix of. *)
LEMMA PrefixIn ==
  ASSUME NEW r \in Seq(Commits), NEW q \in Seq(Commits), NEW s, Prefix(r, q), In(r, s)
  PROVE  In(q, s)
BY PrefixEntries DEF In

-----------------------------------------------------------------------------
(* Types and the lock.  The bookkeeping of TypeOK is inductive once it is known
   that a task stands for a row at PUBLISHING, so that no second task of the same
   row can be created while one waits or runs. *)
Book == /\ TypeOK
        /\ \A s \in publishing : row[s] = "PUBLISHING"
        /\ holder \notin queued

LEMMA RootType == Root \in Seq(Commits)
BY DEF Root, Other, Commit, Commits, Packages

LEMMA PackageType ==
  ASSUME NEW s \in Sub, NEW whole \in BOOLEAN, NEW added \in BOOLEAN
  PROVE  Package(s, whole, added) \in Packages
BY DEF Package, Packages

LEMMA BookInit == Init => Book
BY RootType DEF Init, Book, TypeOK, L!RowState, Steps, Packages

LEMMA BookStep ==
  ASSUME Book, [Next]_vars
  PROVE  Book'
<1> USE DEF Book, TypeOK, Move, memVars, gitVars, bounds, L!RowState, Steps
<1>1. ASSUME NEW s \in Sub, NEW from \in {"VALIDATED", "PUBLISH_FAILED"}, NEW o \in BOOLEAN,
             BeginPublish(s, from, o)
      PROVE  Book'
  BY <1>1 DEF BeginPublish
<1>2. ASSUME NEW s \in Sub, NEW to \in {"RETURNED", "REJECTED"}, Decide(s, to)
      PROVE  Book'
  BY <1>2 DEF Decide
<1>3. ASSUME NEW s \in Sub, Acquire(s)
      PROVE  Book'
  BY <1>3 DEF Acquire
<1>4. ASSUME NEW s \in Sub, Reconcile(s)
      PROVE  Book'
  BY <1>4 DEF Reconcile, Interrupted
<1>5. CASE Preflight  BY <1>5 DEF Preflight, CleanOnMain
<1>6. CASE PreflightFails  BY <1>6 DEF PreflightFails
<1>7. CASE Stage
  <2>1. work' \subseteq Packages  BY <1>7, PackageType DEF Stage
  <2> QED BY <1>7, <2>1 DEF Stage
<1>8. CASE Copied
  <2>1. work' \subseteq Packages  BY <1>8, PackageType DEF Copied
  <2> QED BY <1>8, <2>1 DEF Copied
<1>9. CASE Branch
  <2>1. HeadRef \in Seq(Commits)  BY DEF HeadRef
  <2> QED BY <1>9, <2>1 DEF Branch
<1>10. CASE Add
  <2>1. work' \subseteq Packages
    <3>1. \A p \in Packages : [p EXCEPT !.added = TRUE] \in Packages  BY DEF Packages
    <3> QED BY <1>10, <3>1 DEF Add
  <2> QED BY <1>10, <2>1 DEF Add
<1>11. CASE CommitWork
  <2>1. Commit(holder, attempts[holder], work) \in Commits  BY <1>11 DEF CommitWork, Commit, Commits
  <2>2. tip' \in Seq(Commits)  BY <1>11, <2>1, AppendProperties DEF CommitWork
  <2> QED BY <1>11, <2>2 DEF CommitWork
<1>12. CASE CheckoutMain  BY <1>12 DEF CheckoutMain
<1>13. CASE Merge  BY <1>13 DEF Merge
<1>14. CASE Push  BY <1>14 DEF Push
<1>15. CASE PushRejected  BY <1>15 DEF PushRejected, Rejected
<1>16. CASE Fails  BY <1>16 DEF Fails
<1>17. CASE UndoCheckout
  BY <1>17 DEF UndoCheckout, Untracked
<1>18. CASE UndoReset
  BY <1>18 DEF UndoReset, ResetTo, Untracked
<1>19. CASE UndoClean  BY <1>19 DEF UndoClean, Cleaned
<1>20. CASE UndoFails  BY <1>20 DEF UndoFails
<1>21. CASE Published  BY <1>21 DEF Published, Finish, Done
<1>22. CASE Failed  BY <1>22 DEF Failed, Finish, Done
<1>23. CASE GatewayCrash  BY <1>23 DEF GatewayCrash
<1>24. CASE RemoteCommit
  <2>1. Other \in Commits  BY DEF Other, Commit, Commits
  <2>2. origin' \in Seq(Commits)  BY <1>24, <2>1, AppendProperties DEF RemoteCommit
  <2> QED BY <1>24, <2>2 DEF RemoteCommit
<1>25. CASE Pull  BY <1>25 DEF Pull
<1>26. CASE Repair  BY <1>26 DEF Repair
<1>27. CASE UNCHANGED vars  BY <1>27 DEF vars
<1> HIDE DEF Book, TypeOK, Move, memVars, gitVars, bounds, L!RowState, Steps
<1> QED BY <1>1, <1>2, <1>3, <1>4, <1>5, <1>6, <1>7, <1>8, <1>9, <1>10, <1>11, <1>12,
           <1>13, <1>14, <1>15, <1>16, <1>17, <1>18, <1>19, <1>20, <1>21, <1>22, <1>23,
           <1>24, <1>25, <1>26, <1>27
        DEF Next, Curator, Gateway, Task, Command, Others, Approve, Retry

LEMMA Bookkeeping == Spec => []Book
BY BookInit, BookStep, PTL DEF Spec

(* Type correctness, and: _publishing names exactly the tasks that wait for
   PUBLISH_LOCK or hold it (app.py 2582-2645). *)
THEOREM Types == Spec => []TypeOK
<1>1. Book => TypeOK  BY DEF Book
<1> QED BY <1>1, Bookkeeping, PTL

LEMMA RowStep ==
  ASSUME Book, [Next]_vars
  PROVE  [L!Next]_row
<1> USE DEF Book, TypeOK, Move, memVars, gitVars, bounds, L!Transition, L!Allowed,
            L!RowState, L!Next
<1>1. ASSUME NEW s \in Sub, NEW from \in {"VALIDATED", "PUBLISH_FAILED"}, NEW o \in BOOLEAN,
             BeginPublish(s, from, o)
      PROVE  [L!Next]_row
  BY <1>1 DEF BeginPublish
<1>2. ASSUME NEW s \in Sub, NEW to \in {"RETURNED", "REJECTED"}, Decide(s, to)
      PROVE  [L!Next]_row
  BY <1>2 DEF Decide
<1>3. ASSUME NEW s \in Sub, Acquire(s)
      PROVE  [L!Next]_row
  BY <1>3 DEF Acquire
<1>4. ASSUME NEW s \in Sub, Reconcile(s)
      PROVE  [L!Next]_row
  BY <1>4 DEF Reconcile, Interrupted
<1>5. CASE Preflight  BY <1>5 DEF Preflight, CleanOnMain
<1>6. CASE PreflightFails  BY <1>6 DEF PreflightFails
<1>7. CASE Stage  BY <1>7 DEF Stage
<1>8. CASE Copied  BY <1>8 DEF Copied
<1>9. CASE Branch  BY <1>9 DEF Branch
<1>10. CASE Add  BY <1>10 DEF Add
<1>11. CASE CommitWork  BY <1>11 DEF CommitWork
<1>12. CASE CheckoutMain  BY <1>12 DEF CheckoutMain
<1>13. CASE Merge  BY <1>13 DEF Merge
<1>14. CASE Push  BY <1>14 DEF Push
<1>15. CASE PushRejected  BY <1>15 DEF PushRejected, Rejected
<1>16. CASE Fails  BY <1>16 DEF Fails
<1>17. CASE UndoCheckout  BY <1>17 DEF UndoCheckout
<1>18. CASE UndoReset  BY <1>18 DEF UndoReset, ResetTo
<1>19. CASE UndoClean  BY <1>19 DEF UndoClean, Cleaned
<1>20. CASE UndoFails  BY <1>20 DEF UndoFails
<1>21. CASE Published
  <2>1. holder \in Sub /\ row[holder] = "PUBLISHING"  BY <1>21 DEF Published, Finish, Done
  <2>2. L!Transition(holder, "PUBLISHED")  BY <1>21, <2>1 DEF Published, Finish, Done
  <2> QED BY <2>2 DEF L!Next
<1>22. CASE Failed
  <2>1. holder \in Sub /\ row[holder] = "PUBLISHING"  BY <1>22 DEF Failed, Finish, Done
  <2>2. L!Transition(holder, "PUBLISH_FAILED")  BY <1>22, <2>1 DEF Failed, Finish, Done
  <2> QED BY <2>2 DEF L!Next
<1>23. CASE GatewayCrash  BY <1>23 DEF GatewayCrash
<1>24. CASE RemoteCommit  BY <1>24 DEF RemoteCommit
<1>25. CASE Pull  BY <1>25 DEF Pull
<1>26. CASE Repair  BY <1>26 DEF Repair
<1>27. CASE UNCHANGED vars  BY <1>27 DEF vars
<1> HIDE DEF Book, TypeOK, Move, memVars, gitVars, bounds, L!Transition, L!Allowed,
             L!RowState, L!Next
<1> QED BY <1>1, <1>2, <1>3, <1>4, <1>5, <1>6, <1>7, <1>8, <1>9, <1>10, <1>11, <1>12,
           <1>13, <1>14, <1>15, <1>16, <1>17, <1>18, <1>19, <1>20, <1>21, <1>22, <1>23,
           <1>24, <1>25, <1>26, <1>27
        DEF Next, Curator, Gateway, Task, Command, Others, Approve, Retry

(* The rows move as states.py allows: no task and no poll pass asks for a move that
   another has overtaken (app.py 2635-2665, 2677-2680). *)
THEOREM RowsMoveLegally == Spec => RowsMove
BY RowStep, Bookkeeping, PTL DEF Spec, RowsMove

-----------------------------------------------------------------------------
(* PUBLISHED means at origin.  The submission of the task is followed from the commit
   through the merge and the push; a pull in between only extends main. *)
Reached == /\ AtOrigin
           /\ step \in {"main", "merge"} => In(tip, holder)
           /\ step = "push" => In(main, holder)
           /\ step = "pushed" => In(origin, holder)

LEMMA AppendIn ==
  ASSUME NEW r \in Seq(Commits), NEW e \in Commits
  PROVE  \A s : In(Append(r, e), s) <=> In(r, s) \/ e.by = s
<1>1. /\ Len(Append(r, e)) = Len(r) + 1
      /\ \A i \in 1..Len(r) : Append(r, e)[i] = r[i]
      /\ Append(r, e)[Len(r) + 1] = e
  BY AppendProperties
<1> QED BY <1>1 DEF In

LEMMA CommitType ==
  ASSUME Book, step = "commit"
  PROVE  /\ Commit(holder, attempts[holder], work) \in Commits
         /\ Commit(holder, attempts[holder], work).by = holder
BY DEF Book, TypeOK, Commit, Commits

LEMMA OtherType == Other \in Commits /\ Other.by = NoSub /\ Other.files = {}
BY DEF Other, Commit, Commits

LEMMA ReachedInit == Init => Reached
BY DEF Init, Reached, AtOrigin

LEMMA ReachedStep ==
  ASSUME Book, Reached, [Next]_vars
  PROVE  Reached'
<1> USE DEF Book, TypeOK, Reached, AtOrigin, Move, memVars, gitVars, bounds, Steps
<1>1. ASSUME NEW s \in Sub, NEW from \in {"VALIDATED", "PUBLISH_FAILED"}, NEW o \in BOOLEAN,
             BeginPublish(s, from, o)
      PROVE  Reached'
  BY <1>1 DEF BeginPublish
<1>2. ASSUME NEW s \in Sub, NEW to \in {"RETURNED", "REJECTED"}, Decide(s, to)
      PROVE  Reached'
  BY <1>2 DEF Decide
<1>3. ASSUME NEW s \in Sub, Acquire(s)
      PROVE  Reached'
  BY <1>3 DEF Acquire
<1>4. ASSUME NEW s \in Sub, Reconcile(s)
      PROVE  Reached'
  BY <1>4 DEF Reconcile, Interrupted
<1>5. CASE Preflight  BY <1>5 DEF Preflight, CleanOnMain
<1>6. CASE PreflightFails  BY <1>6 DEF PreflightFails
<1>7. CASE Stage  BY <1>7 DEF Stage
<1>8. CASE Copied  BY <1>8 DEF Copied
<1>9. CASE Branch  BY <1>9 DEF Branch
<1>10. CASE Add  BY <1>10 DEF Add
<1>11. CASE CommitWork  BY <1>11, CommitType, AppendIn DEF CommitWork
<1>12. CASE CheckoutMain  BY <1>12 DEF CheckoutMain
<1>13. CASE Merge  BY <1>13 DEF Merge
<1>14. CASE Push  BY <1>14, PrefixIn DEF Push
<1>15. CASE PushRejected  BY <1>15 DEF PushRejected, Rejected
<1>16. CASE Fails  BY <1>16 DEF Fails
<1>17. CASE UndoCheckout  BY <1>17 DEF UndoCheckout
<1>18. CASE UndoReset  BY <1>18 DEF UndoReset, ResetTo
<1>19. CASE UndoClean  BY <1>19 DEF UndoClean, Cleaned
<1>20. CASE UndoFails  BY <1>20 DEF UndoFails
<1>21. CASE Published  BY <1>21 DEF Published, Finish, Done
<1>22. CASE Failed  BY <1>22 DEF Failed, Finish, Done
<1>23. CASE GatewayCrash  BY <1>23 DEF GatewayCrash
<1>24. CASE RemoteCommit  BY <1>24, OtherType, AppendIn DEF RemoteCommit
<1>25. CASE Pull  BY <1>25, PrefixIn DEF Pull
<1>26. CASE Repair  BY <1>26 DEF Repair
<1>27. CASE UNCHANGED vars  BY <1>27 DEF vars
<1> HIDE DEF Book, TypeOK, Reached, AtOrigin, Move, memVars, gitVars, bounds, Steps
<1> QED BY <1>1, <1>2, <1>3, <1>4, <1>5, <1>6, <1>7, <1>8, <1>9, <1>10, <1>11, <1>12,
           <1>13, <1>14, <1>15, <1>16, <1>17, <1>18, <1>19, <1>20, <1>21, <1>22, <1>23,
           <1>24, <1>25, <1>26, <1>27
        DEF Next, Curator, Gateway, Task, Command, Others, Approve, Retry

(* PUBLISHED means committed to main and pushed (publish.py 4-5), whatever fails, is
   lost, or crashes. *)
THEOREM PublishedAtOrigin == Spec => []AtOrigin
<1>1. Reached => AtOrigin  BY DEF Reached
<1> QED BY <1>1, ReachedInit, ReachedStep, Bookkeeping, PTL DEF Spec

-----------------------------------------------------------------------------
(* Only whole packages are committed.  The pre-flight finds a clean tree, nobody else
   writes into it while the lock is held, so what is committed is what was copied. *)
ExactRef(ref) ==
  \A i \in 1..Len(ref) :
     ref[i].files = IF ref[i].by = NoSub THEN {} ELSE {Package(ref[i].by, TRUE, TRUE)}

Exact == /\ ExactRef(pre) /\ ExactRef(main) /\ ExactRef(tip) /\ ExactRef(origin)
         /\ step = "stage" => work = {}
         /\ step = "copy" => work = {Package(holder, FALSE, FALSE)}
         /\ step \in {"branch", "add"} => work \subseteq {Package(holder, TRUE, FALSE)}
         /\ step = "commit" => work \subseteq {Package(holder, TRUE, TRUE)}

LEMMA ExactAppend ==
  ASSUME NEW r \in Seq(Commits), NEW e \in Commits, ExactRef(r),
         e.files = IF e.by = NoSub THEN {} ELSE {Package(e.by, TRUE, TRUE)}
  PROVE  ExactRef(Append(r, e))
<1>1. /\ Append(r, e) \in Seq(Commits)
      /\ Len(Append(r, e)) = Len(r) + 1
      /\ \A i \in 1..Len(r) : Append(r, e)[i] = r[i]
      /\ Append(r, e)[Len(r) + 1] = e
  BY AppendProperties
<1>2. ASSUME NEW q \in Seq(Commits), Len(q) = Len(r) + 1, q[Len(r) + 1] = e,
             \A i \in 1..Len(r) : q[i] = r[i]
      PROVE  ExactRef(q)
  <2>1. ASSUME NEW i \in 1..Len(q)
        PROVE  q[i].files = IF q[i].by = NoSub THEN {} ELSE {Package(q[i].by, TRUE, TRUE)}
    <3>1. CASE i \in 1..Len(r)  BY <1>2, <3>1 DEF ExactRef
    <3>2. CASE i = Len(r) + 1  BY <1>2, <3>2
    <3> QED BY <1>2, <2>1, <3>1, <3>2
  <2> QED BY <2>1 DEF ExactRef
<1> QED BY <1>1, <1>2

LEMMA AddedPackage ==
  ASSUME NEW s PROVE [Package(s, TRUE, FALSE) EXCEPT !.added = TRUE] = Package(s, TRUE, TRUE)
<1>1. ASSUME NEW whole, NEW a, NEW b
      PROVE  [[sub |-> s, whole |-> whole, added |-> a] EXCEPT !.added = b]
               = [sub |-> s, whole |-> whole, added |-> b]
  OBVIOUS
<1> QED BY <1>1, Zenon DEF Package

LEMMA ExactInit == Init => Exact
<1>1. ExactRef(Root)
  BY DEF ExactRef, Root, Other, Commit
<1> QED BY <1>1 DEF Init, Exact

LEMMA ExactStep ==
  ASSUME Book, Exact, [Next]_vars
  PROVE  Exact'
<1> USE DEF Book, TypeOK, Exact, Move, memVars, gitVars, bounds, Steps
<1>1. ASSUME NEW s \in Sub, NEW from \in {"VALIDATED", "PUBLISH_FAILED"}, NEW o \in BOOLEAN,
             BeginPublish(s, from, o)
      PROVE  Exact'
  BY <1>1 DEF BeginPublish
<1>2. ASSUME NEW s \in Sub, NEW to \in {"RETURNED", "REJECTED"}, Decide(s, to)
      PROVE  Exact'
  BY <1>2 DEF Decide
<1>3. ASSUME NEW s \in Sub, Acquire(s)
      PROVE  Exact'
  BY <1>3 DEF Acquire
<1>4. ASSUME NEW s \in Sub, Reconcile(s)
      PROVE  Exact'
  BY <1>4 DEF Reconcile, Interrupted
<1>5. CASE Preflight  BY <1>5 DEF Preflight, CleanOnMain
<1>6. CASE PreflightFails  BY <1>6 DEF PreflightFails
<1>7. CASE Stage  BY <1>7 DEF Stage
<1>8. CASE Copied  BY <1>8 DEF Copied
<1>9. CASE Branch
  BY <1>9 DEF Branch, HeadRef
<1>10. CASE Add
  <2> QED BY <1>10, AddedPackage DEF Add
<1>11. CASE CommitWork
  <2>1. Commit(holder, attempts[holder], work).files = {Package(holder, TRUE, TRUE)}
    BY <1>11 DEF CommitWork, Commit
  <2>2. holder # NoSub  BY <1>11 DEF CommitWork
  <2>3. ExactRef(tip')  BY <1>11, <2>1, <2>2, CommitType, ExactAppend DEF CommitWork
  <2> QED BY <1>11, <2>3 DEF CommitWork
<1>12. CASE CheckoutMain  BY <1>12 DEF CheckoutMain
<1>13. CASE Merge  BY <1>13 DEF Merge
<1>14. CASE Push  BY <1>14 DEF Push
<1>15. CASE PushRejected  BY <1>15 DEF PushRejected, Rejected
<1>16. CASE Fails  BY <1>16 DEF Fails
<1>17. CASE UndoCheckout  BY <1>17 DEF UndoCheckout
<1>18. CASE UndoReset  BY <1>18 DEF UndoReset, ResetTo
<1>19. CASE UndoClean  BY <1>19 DEF UndoClean, Cleaned
<1>20. CASE UndoFails  BY <1>20 DEF UndoFails
<1>21. CASE Published  BY <1>21 DEF Published, Finish, Done
<1>22. CASE Failed  BY <1>22 DEF Failed, Finish, Done
<1>23. CASE GatewayCrash  BY <1>23 DEF GatewayCrash
<1>24. CASE RemoteCommit
  <2>1. ExactRef(origin')  BY <1>24, OtherType, ExactAppend DEF RemoteCommit
  <2> QED BY <1>24, <2>1 DEF RemoteCommit
<1>25. CASE Pull  BY <1>25 DEF Pull
<1>26. CASE Repair  BY <1>26 DEF Repair
<1>27. CASE UNCHANGED vars  BY <1>27 DEF vars
<1> HIDE DEF Book, TypeOK, Exact, Move, memVars, gitVars, bounds, Steps
<1> QED BY <1>1, <1>2, <1>3, <1>4, <1>5, <1>6, <1>7, <1>8, <1>9, <1>10, <1>11, <1>12,
           <1>13, <1>14, <1>15, <1>16, <1>17, <1>18, <1>19, <1>20, <1>21, <1>22, <1>23,
           <1>24, <1>25, <1>26, <1>27
        DEF Next, Curator, Gateway, Task, Command, Others, Approve, Retry

LEMMA ExactInvariant == Spec => []Exact
BY ExactInit, ExactStep, Bookkeeping, PTL DEF Spec

(* Every pushed commit is exactly the whole package of the submission it names, even
   if rollbacks fail and the gateway dies anywhere (publish.py 143-157, 184-219). *)
THEOREM OriginIsExact == Spec => []OriginExact
<1>1. Exact => OriginExact  BY DEF Exact, ExactRef, OriginExact
<1> QED BY <1>1, ExactInvariant, PTL

-----------------------------------------------------------------------------
(* The checkout between publishes.  While no gateway dies and the rollback's commands
   succeed, a publish starts from a clean main that origin contains, and each of its
   endings restores that: the push by moving origin, the rollback by going back to
   the captured ref, which origin contained and still contains. *)
Tracking ==
  /\ step \in {"idle", "preflight", "stage", "push", "pushed", "failed"} => CleanOnMain
  /\ step \in {"copy", "branch", "merge", "undo2", "undo3"} => head = "main"
  /\ step \in {"add", "commit", "main"} => head = "submit"
  /\ step \in {"main", "merge"} => work = {}
  /\ step \notin {"push", "undo1", "undo2"} => Prefix(main, origin)
  /\ step \in {"add", "commit"} => Prefix(tip, origin)
  /\ Prefix(pre, origin)

LEMMA TrackingInit == Init => Tracking
<1>1. Prefix(Root, Root)  BY RootType, PrefixSelf
<1> QED BY <1>1 DEF Init, Tracking, CleanOnMain

LEMMA TrackingStep ==
  ASSUME MaxCrashes = 0, ~RollbackFails, Book, Tracking, [Next]_vars
  PROVE  Tracking'
<1> USE DEF Book, TypeOK, Tracking, CleanOnMain, Move, memVars, gitVars, bounds, Steps
<1>1. ASSUME NEW s \in Sub, NEW from \in {"VALIDATED", "PUBLISH_FAILED"}, NEW o \in BOOLEAN,
             BeginPublish(s, from, o)
      PROVE  Tracking'
  BY <1>1 DEF BeginPublish
<1>2. ASSUME NEW s \in Sub, NEW to \in {"RETURNED", "REJECTED"}, Decide(s, to)
      PROVE  Tracking'
  BY <1>2 DEF Decide
<1>3. ASSUME NEW s \in Sub, Acquire(s)
      PROVE  Tracking'
  BY <1>3 DEF Acquire
<1>4. ASSUME NEW s \in Sub, Reconcile(s)
      PROVE  Tracking'
  BY <1>4 DEF Reconcile, Interrupted
<1>5. CASE Preflight  BY <1>5 DEF Preflight, CleanOnMain
<1>6. CASE PreflightFails  BY <1>6 DEF PreflightFails
<1>7. CASE Stage  BY <1>7 DEF Stage
<1>8. CASE Copied  BY <1>8 DEF Copied
<1>9. CASE Branch
  BY <1>9 DEF Branch, HeadRef
<1>10. CASE Add  BY <1>10 DEF Add
<1>11. CASE CommitWork  BY <1>11 DEF CommitWork
<1>12. CASE CheckoutMain  BY <1>12 DEF CheckoutMain
<1>13. CASE Merge  BY <1>13 DEF Merge
<1>14. CASE Push  BY <1>14, PrefixSelf, PrefixTrans DEF Push
<1>15. CASE PushRejected  BY <1>15 DEF PushRejected, Rejected
<1>16. CASE Fails  BY <1>16 DEF Fails
<1>17. CASE UndoCheckout  BY <1>17 DEF UndoCheckout
<1>18. CASE UndoReset  BY <1>18 DEF UndoReset, ResetTo
<1>19. CASE UndoClean  BY <1>19 DEF UndoClean, Cleaned
<1>20. CASE UndoFails  BY <1>20 DEF UndoFails
<1>21. CASE Published  BY <1>21 DEF Published, Finish, Done
<1>22. CASE Failed  BY <1>22 DEF Failed, Finish, Done
<1>23. CASE GatewayCrash  BY <1>23 DEF GatewayCrash
<1>24. CASE RemoteCommit
  <2>1. origin' \in Seq(Commits) /\ Prefix(origin, origin')
    BY <1>24, OtherType, AppendProperties, PrefixAppend DEF RemoteCommit
  <2>2. \A r \in Seq(Commits) : Prefix(r, origin) => Prefix(r, origin')  BY <2>1, PrefixTrans
  <2> QED BY <1>24, <2>2 DEF RemoteCommit
<1>25. CASE Pull  BY <1>25, PrefixSelf, PrefixTrans DEF Pull
<1>26. CASE Repair  BY <1>26 DEF Repair
<1>27. CASE UNCHANGED vars  BY <1>27 DEF vars
<1> HIDE DEF Book, TypeOK, Tracking, CleanOnMain, Move, memVars, gitVars, bounds,
             Steps
<1> QED BY <1>1, <1>2, <1>3, <1>4, <1>5, <1>6, <1>7, <1>8, <1>9, <1>10, <1>11, <1>12,
           <1>13, <1>14, <1>15, <1>16, <1>17, <1>18, <1>19, <1>20, <1>21, <1>22, <1>23,
           <1>24, <1>25, <1>26, <1>27
        DEF Next, Curator, Gateway, Task, Command, Others, Approve, Retry

LEMMA TrackingInvariant == MaxCrashes = 0 /\ ~RollbackFails => (Spec => []Tracking)
<1> SUFFICES ASSUME MaxCrashes = 0, ~RollbackFails PROVE Spec => []Tracking  OBVIOUS
<1>1. Book /\ Tracking /\ [Next]_vars => Tracking'  BY TrackingStep
<1> QED BY <1>1, TrackingInit, Bookkeeping, PTL DEF Spec

(* When no publish runs, the next pre-flight does not refuse: every failed publish
   cleaned up behind it (publish.py 17-20, 549-574). *)
THEOREM NeverWedged == MaxCrashes = 0 /\ ~RollbackFails => (Spec => []NotWedged)
<1>1. Book /\ Tracking => NotWedged  BY DEF Book, TypeOK, Tracking, NotWedged
<1> QED BY <1>1, Bookkeeping, TrackingInvariant, PTL

(* When no publish runs, main has nothing origin lacks: the pull of the reconcile
   agent fast-forwards (reconcile.sh 582-594, publish.py 549-574). *)
THEOREM StaysOnTrack == MaxCrashes = 0 /\ ~RollbackFails => (Spec => []OnTrack)
<1>1. Book /\ Tracking => OnTrack  BY DEF Book, TypeOK, Tracking, OnTrack
<1> QED BY <1>1, Bookkeeping, TrackingInvariant, PTL

-----------------------------------------------------------------------------
(* What a push adds.  A commit that origin lacks is the task's own, and the curator
   confirmed it or nothing below it touches the survey.  The check was made in the
   working tree before the copy; a pull between check and branch cannot bring in the
   survey, because git refuses to overwrite what is being copied. *)
Safe(ref, n) == confirm[holder] \/ \A i \in 1..n : ~Touches(ref[i], slug[holder])

Ahead(ref) ==
  \A i \in 1..Len(ref) : i > Len(origin) => ref[i].by = holder /\ Safe(ref, i - 1)

Candidate ==
  /\ step \in {"copy", "branch"} => work = {} \/ Safe(main, Len(main))
  /\ step \in {"add", "commit"} => work = {} \/ Safe(tip, Len(tip))
  /\ step \in {"main", "merge"} => Ahead(tip)
  /\ step = "push" => Ahead(main)

LEMMA CandidateInit == Init => Candidate
BY DEF Init, Candidate

LEMMA CandidateStep ==
  ASSUME MaxCrashes = 0, ~RollbackFails, Book, Exact, Tracking, Candidate, [Next]_vars
  PROVE  Candidate'
<1> USE DEF Book, TypeOK, Exact, Tracking, Candidate, CleanOnMain, Ahead, Safe,
            Touches, Move, memVars, gitVars, bounds, Steps
<1>1. ASSUME NEW s \in Sub, NEW from \in {"VALIDATED", "PUBLISH_FAILED"}, NEW o \in BOOLEAN,
             BeginPublish(s, from, o)
      PROVE  Candidate'
  BY <1>1 DEF BeginPublish
<1>2. ASSUME NEW s \in Sub, NEW to \in {"RETURNED", "REJECTED"}, Decide(s, to)
      PROVE  Candidate'
  BY <1>2 DEF Decide
<1>3. ASSUME NEW s \in Sub, Acquire(s)
      PROVE  Candidate'
  BY <1>3 DEF Acquire
<1>4. ASSUME NEW s \in Sub, Reconcile(s)
      PROVE  Candidate'
  BY <1>4 DEF Reconcile, Interrupted
<1>5. CASE Preflight  BY <1>5 DEF Preflight, CleanOnMain
<1>6. CASE PreflightFails  BY <1>6 DEF PreflightFails
<1>7. CASE Stage
  BY <1>7 DEF Stage, Collides, Present, HeadRef
<1>8. CASE Copied  BY <1>8 DEF Copied
<1>9. CASE Branch
  BY <1>9 DEF Branch, HeadRef
<1>10. CASE Add  BY <1>10 DEF Add
<1>11. CASE CommitWork
  <2> DEFINE c == Commit(holder, attempts[holder], work)
  <2>1. c \in Commits /\ c.by = holder  BY <1>11, CommitType DEF CommitWork
  <2>2. /\ tip' = Append(tip, c)
        /\ Len(tip') = Len(tip) + 1
        /\ \A i \in 1..Len(tip) : tip'[i] = tip[i]
        /\ tip'[Len(tip) + 1] = c
    BY <1>11, <2>1, AppendProperties DEF CommitWork
  <2>3. Len(tip) <= Len(origin)  BY <1>11, PrefixEntries DEF CommitWork
  <2>4. Safe(tip, Len(tip))  BY <1>11 DEF CommitWork
  <2>5. step' = "main" /\ UNCHANGED <<confirm, holder, slug, origin>>  BY <1>11 DEF CommitWork
  <2> HIDE DEF c
  <2>6. Ahead(tip)'
    <3> SUFFICES ASSUME NEW i \in 1..Len(tip'), i > Len(origin)
                 PROVE  tip'[i].by = holder' /\ Safe(tip, i - 1)'
      BY <2>5
    <3> DEFINE a == Len(tip)
               b == Len(origin)
    <3>1. a \in Nat /\ b \in Nat /\ i \in 1..(a + 1) /\ i > b /\ a <= b  BY <2>2, <2>3
    <3> HIDE DEF a, b
    <3>2. i = a + 1  BY <3>1
    <3> QED BY <2>1, <2>2, <2>4, <2>5, <3>2 DEF a
  <2> QED BY <2>5, <2>6
<1>12. CASE CheckoutMain  BY <1>12 DEF CheckoutMain
<1>13. CASE Merge  BY <1>13 DEF Merge
<1>14. CASE Push  BY <1>14 DEF Push
<1>15. CASE PushRejected  BY <1>15 DEF PushRejected, Rejected
<1>16. CASE Fails  BY <1>16 DEF Fails
<1>17. CASE UndoCheckout  BY <1>17 DEF UndoCheckout
<1>18. CASE UndoReset  BY <1>18 DEF UndoReset, ResetTo
<1>19. CASE UndoClean  BY <1>19 DEF UndoClean, Cleaned
<1>20. CASE UndoFails  BY <1>20 DEF UndoFails
<1>21. CASE Published  BY <1>21 DEF Published, Finish, Done
<1>22. CASE Failed  BY <1>22 DEF Failed, Finish, Done
<1>23. CASE GatewayCrash  BY <1>23 DEF GatewayCrash
<1>24. CASE RemoteCommit
  <2>1. Len(origin') = Len(origin) + 1  BY <1>24, OtherType, AppendProperties DEF RemoteCommit
  <2>2. UNCHANGED <<step, confirm, holder, slug, main, tip, work>>  BY <1>24 DEF RemoteCommit
  <2> QED BY <2>1, <2>2
<1>25. CASE Pull
  <2>1. main' = origin /\ UNCHANGED <<step, confirm, holder, slug, tip, work, origin>>
    BY <1>25 DEF Pull
  <2>2. ASSUME step \in {"copy", "branch"}, work # {}, Safe(main, Len(main))
        PROVE  Safe(origin, Len(origin))
    <3>1. PICK p \in work : p.sub = holder  BY <2>2 DEF Package
    <3>2. \A i \in (Len(main) + 1)..Len(origin) : ~Touches(origin[i], slug[holder])
      BY <1>25, <3>1 DEF Pull
    <3>3. \A i \in 1..Len(main) : origin[i] = main[i]  BY <1>25, PrefixEntries DEF Pull
    <3>4. \A i \in 1..Len(origin) :
             i \in 1..Len(main) \/ i \in (Len(main) + 1)..Len(origin)
      OBVIOUS
    <3>5. confirm[holder] \/ \A i \in 1..Len(main) : ~Touches(main[i], slug[holder])
      BY <2>2
    <3> HIDE DEF Touches
    <3> QED BY <3>2, <3>3, <3>4, <3>5
  <2> QED BY <2>1, <2>2
<1>26. CASE Repair  BY <1>26 DEF Repair
<1>27. CASE UNCHANGED vars  BY <1>27 DEF vars
<1> HIDE DEF Book, TypeOK, Exact, Tracking, Candidate, CleanOnMain, Ahead, Safe,
             Touches, Move, memVars, gitVars, bounds, Steps
<1> QED BY <1>1, <1>2, <1>3, <1>4, <1>5, <1>6, <1>7, <1>8, <1>9, <1>10, <1>11, <1>12,
           <1>13, <1>14, <1>15, <1>16, <1>17, <1>18, <1>19, <1>20, <1>21, <1>22, <1>23,
           <1>24, <1>25, <1>26, <1>27
        DEF Next, Curator, Gateway, Task, Command, Others, Approve, Retry

LEMMA CandidateInvariant == MaxCrashes = 0 /\ ~RollbackFails => (Spec => []Candidate)
<1> SUFFICES ASSUME MaxCrashes = 0, ~RollbackFails PROVE Spec => []Candidate  OBVIOUS
<1>1. Book /\ Exact /\ Tracking /\ Candidate /\ [Next]_vars => Candidate'  BY CandidateStep
<1>2. Spec => []Tracking  BY TrackingInvariant
<1> QED BY <1>1, <1>2, CandidateInit, Bookkeeping, ExactInvariant, PTL DEF Spec

-----------------------------------------------------------------------------
(* What a step may do to origin: leave it, let somebody else add a commit, or push
   the candidate of the task. *)
LEMMA OriginMoves ==
  ASSUME Book, Candidate, [Next]_vars
  PROVE  /\ slug' = slug
         /\ \/ origin' = origin
            \/ origin' = Append(origin, Other)
            \/ /\ step = "push" /\ Prefix(origin, main) /\ origin' = main
               /\ holder # NoSub /\ Ahead(main)
<1> USE DEF memVars, gitVars, bounds
<1>1. ASSUME NEW s \in Sub, NEW from \in {"VALIDATED", "PUBLISH_FAILED"}, NEW o \in BOOLEAN,
             BeginPublish(s, from, o)
      PROVE  slug' = slug /\ origin' = origin
  BY <1>1 DEF BeginPublish
<1>2. ASSUME NEW s \in Sub, NEW to \in {"RETURNED", "REJECTED"}, Decide(s, to)
      PROVE  slug' = slug /\ origin' = origin
  BY <1>2 DEF Decide
<1>3. ASSUME NEW s \in Sub, Acquire(s)
      PROVE  slug' = slug /\ origin' = origin
  BY <1>3 DEF Acquire
<1>4. ASSUME NEW s \in Sub, Reconcile(s)
      PROVE  slug' = slug /\ origin' = origin
  BY <1>4 DEF Reconcile, Interrupted
<1>5. CASE Preflight  BY <1>5 DEF Preflight, CleanOnMain
<1>6. CASE PreflightFails  BY <1>6 DEF PreflightFails
<1>7. CASE Stage  BY <1>7 DEF Stage
<1>8. CASE Copied  BY <1>8 DEF Copied
<1>9. CASE Branch  BY <1>9 DEF Branch
<1>10. CASE Add  BY <1>10 DEF Add
<1>11. CASE CommitWork  BY <1>11 DEF CommitWork
<1>12. CASE CheckoutMain  BY <1>12 DEF CheckoutMain
<1>13. CASE Merge  BY <1>13 DEF Merge
<1>14. CASE Push  BY <1>14 DEF Push, Candidate, Book, TypeOK
<1>15. CASE PushRejected  BY <1>15 DEF PushRejected, Rejected
<1>16. CASE Fails  BY <1>16 DEF Fails
<1>17. CASE UndoCheckout  BY <1>17 DEF UndoCheckout
<1>18. CASE UndoReset  BY <1>18 DEF UndoReset, ResetTo
<1>19. CASE UndoClean  BY <1>19 DEF UndoClean, Cleaned
<1>20. CASE UndoFails  BY <1>20 DEF UndoFails
<1>21. CASE Published  BY <1>21 DEF Published, Finish, Done
<1>22. CASE Failed  BY <1>22 DEF Failed, Finish, Done
<1>23. CASE GatewayCrash  BY <1>23 DEF GatewayCrash
<1>24. CASE RemoteCommit  BY <1>24 DEF RemoteCommit
<1>25. CASE Pull  BY <1>25 DEF Pull
<1>26. CASE Repair  BY <1>26 DEF Repair
<1>27. CASE UNCHANGED vars  BY <1>27 DEF vars
<1> HIDE DEF memVars, gitVars, bounds
<1> QED BY <1>1, <1>2, <1>3, <1>4, <1>5, <1>6, <1>7, <1>8, <1>9, <1>10, <1>11, <1>12,
           <1>13, <1>14, <1>15, <1>16, <1>17, <1>18, <1>19, <1>20, <1>21, <1>22, <1>23,
           <1>24, <1>25, <1>26, <1>27
        DEF Next, Curator, Gateway, Task, Command, Others, Approve, Retry

(* A submission reaches origin only by its own publish: no push carries what a failed
   or interrupted neighbour left on main (publish.py 13-18, 220-224). *)
THEOREM PushOnlyOwn == MaxCrashes = 0 /\ ~RollbackFails => (Spec => PushesOwn)
<1> SUFFICES ASSUME MaxCrashes = 0, ~RollbackFails PROVE Spec => PushesOwn  OBVIOUS
<1>1. ASSUME Book, Candidate, [Next]_vars, NEW s \in Sub, ~In(origin, s), In(origin', s)
      PROVE  holder = s
  <2>1. CASE origin' = Append(origin, Other)
    BY <1>1, <2>1, OtherType, AppendIn DEF Book, TypeOK
  <2>2. CASE Prefix(origin, main) /\ origin' = main /\ Ahead(main)
    <3>1. PICK i \in 1..Len(main) : main[i].by = s  BY <1>1, <2>2 DEF In
    <3>2. main \in Seq(Commits) /\ origin \in Seq(Commits)  BY <1>1 DEF Book, TypeOK
    <3>3. i > Len(origin)
      <4>1. \A j \in 1..Len(origin) : main[j] = origin[j]  BY <2>2, <3>2, PrefixEntries
      <4> QED BY <1>1, <3>1, <3>2, <4>1 DEF In
    <3> QED BY <2>2, <3>1, <3>3 DEF Ahead
  <2> QED BY <1>1, <2>1, <2>2, OriginMoves
<1>2. Book /\ Candidate /\ [Next]_vars
        => [\A s \in Sub : ~In(origin, s) /\ In(origin', s) => holder = s]_vars
  BY <1>1
<1>3. Spec => []Candidate  BY CandidateInvariant
<1> QED BY <1>2, <1>3, Bookkeeping, PTL DEF Spec, PushesOwn

(* Where the package of s is current, a commit of s is the last to touch its slug. *)
LEMMA CurrentBy ==
  ASSUME NEW ref \in Seq(Commits), ExactRef(ref), NEW s \in Sub, Current(ref, s)
  PROVE  \E i \in 1..Len(ref) :
            /\ ref[i].by = s /\ Touches(ref[i], slug[s])
            /\ \A j \in (i + 1)..Len(ref) : ~Touches(ref[j], slug[s])
<1>1. PICK i \in 1..Len(ref) :
         /\ \E p \in ref[i].files : p.sub = s
         /\ \A j \in (i + 1)..Len(ref) : ~Touches(ref[j], slug[s])
  BY DEF Current
<1>2. PICK p \in ref[i].files : p.sub = s  BY <1>1
<1>3. ref[i].by # NoSub /\ p = Package(ref[i].by, TRUE, TRUE)  BY <1>2 DEF ExactRef
<1>4. ref[i].by = s  BY <1>2, <1>3 DEF Package
<1>5. Touches(ref[i], slug[s])  BY <1>2 DEF Touches
<1> QED BY <1>1, <1>4, <1>5

(* One package of a survey is current at a time. *)
LEMMA OneCurrent ==
  ASSUME NEW ref \in Seq(Commits), ExactRef(ref), NEW s \in Sub, NEW t \in Sub,
         slug[s] = slug[t], Current(ref, s), Current(ref, t)
  PROVE  s = t
<1>1. PICK i \in 1..Len(ref) :
            /\ ref[i].by = s /\ Touches(ref[i], slug[s])
            /\ \A j \in (i + 1)..Len(ref) : ~Touches(ref[j], slug[s])
  BY CurrentBy
<1>2. PICK k \in 1..Len(ref) :
            /\ ref[k].by = t /\ Touches(ref[k], slug[t])
            /\ \A j \in (k + 1)..Len(ref) : ~Touches(ref[j], slug[t])
  BY CurrentBy
<1>3. ~(k \in (i + 1)..Len(ref)) /\ ~(i \in (k + 1)..Len(ref))  BY <1>1, <1>2
<1>4. i = k  BY <1>3
<1> QED BY <1>1, <1>2, <1>4

(* A survey at origin is replaced by another submission only if the curator of that
   submission confirmed it, whatever is pulled or pushed between the check and the
   push (publish.py 171-189). *)
THEOREM ReplacedConfirmed ==
  MaxCrashes = 0 /\ ~RollbackFails => (Spec => ReplacedOnlyConfirmed)
<1> SUFFICES ASSUME MaxCrashes = 0, ~RollbackFails PROVE Spec => ReplacedOnlyConfirmed
  OBVIOUS
<1>1. ASSUME Book, Exact, Candidate, [Next]_vars, NEW s \in Sub, NEW t \in Sub, s # t,
             slug[s] = slug[t], Current(origin, t), slug' = slug, Current(origin', s)
      PROVE  confirm[s]
  <2>1. origin \in Seq(Commits) /\ main \in Seq(Commits) /\ ExactRef(origin) /\ ExactRef(main)
    BY <1>1 DEF Book, TypeOK, Exact
  <2>2. PICK k \in 1..Len(origin) :
            /\ Touches(origin[k], slug[s])
            /\ \A j \in (k + 1)..Len(origin) : ~Touches(origin[j], slug[s])
    BY <1>1, <2>1, CurrentBy
  <2>3. CASE origin' = origin
    BY <1>1, <2>1, <2>3, OneCurrent
  <2>4. CASE origin' = Append(origin, Other)
    <3>1. /\ origin' \in Seq(Commits) /\ Len(origin') = Len(origin) + 1
          /\ \A i \in 1..Len(origin) : origin'[i] = origin[i]
          /\ origin'[Len(origin) + 1] = Other
      BY <2>1, <2>4, OtherType, AppendProperties
    <3>2. PICK i \in 1..Len(origin') :
            /\ \E p \in origin'[i].files : p.sub = s /\ p.whole
            /\ \A j \in (i + 1)..Len(origin') : ~Touches(origin'[j], slug[s])
      BY <1>1 DEF Current
    <3>3. i # Len(origin) + 1  BY <3>1, <3>2, OtherType
    <3>4. i \in 1..Len(origin)  BY <2>1, <3>1, <3>3
    <3>5. \A j \in (i + 1)..Len(origin) : ~Touches(origin[j], slug[s])
      BY <2>1, <3>1, <3>2
    <3>6. Current(origin, s)  BY <3>1, <3>2, <3>4, <3>5 DEF Current
    <3> QED BY <1>1, <2>1, <3>6, OneCurrent
  <2>5. CASE Prefix(origin, main) /\ origin' = main /\ Ahead(main)
    <3>1. PICK i \in 1..Len(main) :
            /\ main[i].by = s
            /\ \A j \in (i + 1)..Len(main) : ~Touches(main[j], slug[s])
      BY <1>1, <2>1, <2>5, CurrentBy
    <3>2. /\ Len(origin) <= Len(main)
          /\ \A j \in 1..Len(origin) : main[j] = origin[j]
      BY <2>1, <2>5, PrefixEntries
    <3>3. ~(k \in (i + 1)..Len(main))  BY <2>2, <3>1, <3>2
    <3>4. k <= i  BY <2>1, <2>2, <3>2, <3>3
    <3>5. CASE i > Len(origin)
      <4>1. holder = s /\ Safe(main, i - 1)  BY <2>5, <3>1, <3>5 DEF Ahead
      <4>2. k \in 1..(i - 1)  BY <2>1, <2>2, <3>5
      <4>3. Touches(main[k], slug[s])  BY <2>2, <3>2
      <4> QED BY <4>1, <4>2, <4>3 DEF Safe
    <3>6. CASE i <= Len(origin)
      <4>1. i \in 1..Len(origin)  BY <2>1, <3>6
      <4>2. \A j \in (i + 1)..Len(origin) : ~Touches(origin[j], slug[s])
        BY <2>1, <3>1, <3>2
      <4>3. \E p \in origin[i].files : p.sub = s /\ p.whole
        <5>1. origin[i].files = {Package(s, TRUE, TRUE)}
          BY <2>1, <3>1, <3>2, <4>1 DEF ExactRef
        <5> QED BY <5>1 DEF Package
      <4>4. Current(origin, s)  BY <4>1, <4>2, <4>3 DEF Current
      <4> QED BY <1>1, <2>1, <4>4, OneCurrent
    <3> QED BY <2>1, <3>5, <3>6
  <2> QED BY <1>1, <2>3, <2>4, <2>5, OriginMoves
<1>2. ASSUME Book, Exact, Candidate, [Next]_vars, NEW s \in Sub, NEW t \in Sub, s # t,
             slug[s] = slug[t], Current(origin, t), Current(origin, s)'
      PROVE  confirm[s]
  <2>1. slug' = slug  BY <1>2, OriginMoves
  <2>2. Current(origin', s)  BY <1>2, <2>1 DEF Current, Touches
  <2> QED BY <1>1, <1>2, <2>1, <2>2
<1>3. Book /\ Exact /\ Candidate /\ [Next]_vars
        => [\A s, t \in Sub : /\ s # t /\ slug[s] = slug[t]
                              /\ Current(origin, t) /\ Current(origin, s)'
                              => confirm[s]]_vars
  BY <1>2
<1>4. Spec => []Candidate  BY CandidateInvariant
<1> QED BY <1>3, <1>4, Bookkeeping, ExactInvariant, PTL DEF Spec, ReplacedOnlyConfirmed

=============================================================================
