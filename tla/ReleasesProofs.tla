---------------------------- MODULE ReleasesProofs ---------------------------
(***************************************************************************)
(* Proofs about Releases: cutting and stamping releases does nothing to    *)
(* the portal and the replica, and what the releases hold and say agrees,  *)
(* for every set of tags and number of runs and stops of the tool.         *)
(***************************************************************************)
EXTENDS Releases, ReplicaProofs, WellFoundedInduction

(* Whatever the tool does, the portal and the replica move as Replica lets them. *)
THEOREM ReleasesRefineReplica == RelSpec => RSpec
<1>1. RelInit => RInit  BY DEF RelInit
<1>2. [RelNext]_<<vars, replicaVars, releaseVars>> => [RNext]_<<vars, replicaVars>>
  BY DEF RelNext
<1> QED BY <1>1, <1>2, PTL DEF RelSpec, RSpec

-----------------------------------------------------------------------------
(* Types; the run under way is about a release and a build. *)
Cites == [written : BOOLEAN, doi : Tag \cup {None}, prev : Tag \cup {None}]
Folder == [dir : BOOLEAN, docs : Name \cup {None}, bundles : Name \cup {None}, doc : Doc, cite : Cites]
Run == [at : {"docs", "bundles", "verify", "doc", "index", "cite"},
        tag : Tag, build : Name, no : 1..MaxRuns, doi : Tag \cup {None}]
ToolTyped ==
  /\ rel \in [Tag -> Folder] /\ index \in [Tag -> Doc] /\ readable \in BOOLEAN
  /\ tool \in Run \cup {NoRun}
  /\ stopped \subseteq Tag /\ late \subseteq Tag
  /\ runs \in 0..MaxRuns /\ stops \in 0..MaxStops

(* What is said of a release is said of the one build that was copied into it, and of
   the run that did. *)
Copied(t, d) ==
  /\ rel[t].dir /\ d.of \in Name /\ d.no \in 1..MaxRuns
  /\ rel[t].docs = d.of /\ rel[t].bundles = d.of
Sourced ==
  \A t \in Tag :
    /\ rel[t].doc # NoDoc => Copied(t, rel[t].doc)
    /\ index[t] # NoDoc => Copied(t, index[t])
    /\ rel[t].doc # NoDoc /\ index[t] # NoDoc => rel[t].doc.no = index[t].no

(* How far the run has got. *)
Doing == [of |-> tool.build, no |-> tool.no, doi |-> tool.doi]
Progress ==
  /\ tool.at \in {"docs", "bundles", "verify"} =>
       /\ Mine.dir /\ Mine.doc = NoDoc /\ index[tool.tag] = NoDoc
       /\ tool.at # "docs" => Mine.docs = tool.build
  /\ tool.at \in {"doc", "index", "cite"} =>
       /\ Copied(tool.tag, Doing)
       /\ index[tool.tag] # NoDoc => index[tool.tag].no = tool.no
  /\ tool.at \in {"index", "cite"} => Mine.doc = Doing
  /\ tool.at = "cite" => index[tool.tag] = Doing

(* A release nothing is being done to, and whose last run ended, is listed, and its
   three documents agree. *)
Done(t) == tool.tag # t /\ t \notin stopped
Older(t, u) == index[u].no \in 1..(index[t].no - 1) /\ index[u].doi # None
Follows(t) ==
  IF rel[t].cite.prev = None THEN \A u \in Tag : ~Older(t, u)
  ELSE /\ Older(t, rel[t].cite.prev)
       /\ \A u \in Tag : Older(t, u) => index[u].no <= index[rel[t].cite.prev].no
Agrees(t) ==
  index[t] # NoDoc =>
    /\ rel[t].doc = index[t]
    /\ rel[t].cite.written /\ rel[t].cite.doi = index[t].doi
    /\ t \in late \/ Follows(t)
Finished == \A t \in Tag : Done(t) => (rel[t].dir => index[t] # NoDoc) /\ Agrees(t)

RelInv == ToolTyped /\ Sourced /\ Progress /\ Finished

LEMMA RelInvImplies == RelInv => ReleaseWhole /\ DocsAgree
<1> SUFFICES ASSUME RelInv PROVE ReleaseWhole /\ DocsAgree  OBVIOUS
<1>1. ReleaseWhole  BY DEF RelInv, Sourced, Copied, Finished, Done, ReleaseWhole
<1>2. DocsAgree  BY DEF RelInv, Finished, Done, Agrees, Follows, Older, DocsAgree
<1> QED BY <1>1, <1>2

-----------------------------------------------------------------------------
(* A step of the tool is about one release: what the rest of the proof needs to know of
   the others. *)
LEMMA RelOne ==
  ASSUME rel \in [Tag -> Folder], NEW t \in Tag, NEW h \in Folder, rel' = [rel EXCEPT ![t] = h]
  PROVE  /\ rel' \in [Tag -> Folder] /\ rel'[t] = h
         /\ \A u \in Tag \ {t} : rel'[u] = rel[u]
OBVIOUS

LEMMA FolderExcept ==
  ASSUME NEW h \in Folder
  PROVE  /\ \A v : [h EXCEPT !.dir = v] = [dir |-> v, docs |-> h.docs, bundles |-> h.bundles,
                                           doc |-> h.doc, cite |-> h.cite]
         /\ \A v : [h EXCEPT !.docs = v] = [dir |-> h.dir, docs |-> v, bundles |-> h.bundles,
                                            doc |-> h.doc, cite |-> h.cite]
         /\ \A v : [h EXCEPT !.bundles = v] = [dir |-> h.dir, docs |-> h.docs, bundles |-> v,
                                               doc |-> h.doc, cite |-> h.cite]
         /\ \A v : [h EXCEPT !.doc = v] = [dir |-> h.dir, docs |-> h.docs, bundles |-> h.bundles,
                                           doc |-> v, cite |-> h.cite]
         /\ \A v : [h EXCEPT !.cite = v] = [dir |-> h.dir, docs |-> h.docs, bundles |-> h.bundles,
                                            doc |-> h.doc, cite |-> v]
BY DEF Folder

LEMMA StillAgrees ==
  ASSUME NEW t \in Tag, Agrees(t), rel'[t] = rel[t], index' = index, t \in late => t \in late'
  PROVE  Agrees(t)'
BY DEF Agrees, Follows, Older

(* The other releases stay finished through a step that writes no row of the index. *)
LEMMA StillFinished ==
  ASSUME Finished, NEW k \in Tag, index' = index,
         \A u \in Tag \ {k} : /\ rel'[u] = rel[u]
                              /\ Done(u)' => Done(u)
                              /\ u \in late => u \in late',
         Done(k)' => (rel'[k].dir => index[k] # NoDoc) /\ Agrees(k)'
  PROVE  Finished'
<1> SUFFICES ASSUME NEW t \in Tag, Done(t)'
             PROVE  (rel'[t].dir => index'[t] # NoDoc) /\ Agrees(t)'
  BY DEF Finished
<1>1. CASE t = k  BY <1>1
<1>2. CASE t # k
  <2>1. /\ rel'[t] = rel[t] /\ Done(t)
        /\ t \in late => t \in late'
    BY <1>2
  <2>2. (rel[t].dir => index[t] # NoDoc) /\ Agrees(t)  BY <2>1 DEF Finished
  <2> QED BY <2>1, <2>2, StillAgrees
<1> QED BY <1>1, <1>2

LEMMA RelInvInit == RelInit => RelInv
<1> SUFFICES ASSUME RelInit PROVE RelInv  OBVIOUS
<1> USE DEF RelInit, NoRel, NoDoc, NoCite, NoRun
<1>1. ToolTyped
  <2>1. NoDoc \in Doc  BY ReleasesAssumption DEF Doc
  <2>2. NoRel \in Folder  BY <2>1 DEF Folder, Cites
  <2> QED BY <2>1, <2>2 DEF ToolTyped
<1>2. Sourced  BY DEF Sourced
<1>3. Progress  BY DEF Progress
<1>4. Finished  BY DEF Finished, Agrees
<1> QED BY <1>1, <1>2, <1>3, <1>4 DEF RelInv
-----------------------------------------------------------------------------
(* The run under way is about a release that exists. *)
LEMMA RunIs ==
  ASSUME ToolTyped, tool # NoRun
  PROVE  /\ tool \in Run /\ tool.tag \in Tag /\ tool.build \in Name /\ tool.no \in 1..MaxRuns
         /\ rel[tool.tag] \in Folder /\ Doing \in Doc /\ Doing # NoDoc
BY DEF ToolTyped, Run, Doing, Doc, NoDoc, Folder

LEMMA StartIs ==
  ASSUME ToolTyped, NEW r \in Run, Start(r)
  PROVE  /\ tool = NoRun /\ tool' = r /\ runs' \in 0..MaxRuns /\ runs + 1 \in 1..MaxRuns
         /\ \A u \in Tag \ {r.tag} : Done(u)' => u \notin stopped'
         /\ ~Done(r.tag)'
BY ReleasesAssumption DEF Start, ToolTyped, Done

LEMMA ThenIs ==
  ASSUME ToolTyped, tool # NoRun, NEW step \in {"bundles", "verify", "doc", "index", "cite"}, Then(step)
  PROVE  /\ tool' \in Run /\ tool'.at = step
         /\ tool'.tag = tool.tag /\ tool'.build = tool.build
         /\ tool'.no = tool.no /\ tool'.doi = tool.doi
BY RunIs DEF Then, Run

LEMMA CutKeeps ==
  ASSUME Typed, RelInv, NEW t \in Tag, NEW doi \in {t, None}, CutRelease(t, doi)
  PROVE  RelInv'
<1> DEFINE r == [at |-> "docs", tag |-> t, build |-> current, no |-> runs + 1, doi |-> doi]
           h == [dir |-> TRUE, docs |-> rel[t].docs, bundles |-> rel[t].bundles,
                 doc |-> rel[t].doc, cite |-> rel[t].cite]
<1>1. /\ ~rel[t].dir /\ current \in Name /\ Start(r)
      /\ rel' = [rel EXCEPT ![t].dir = TRUE]
      /\ UNCHANGED <<index, readable, stopped, late, stops>>
  BY ServeAssumption DEF CutRelease, New, Served, Typed, TypeOK, Name
<1>2. ToolTyped /\ Sourced /\ Finished /\ rel[t] \in Folder  BY DEF RelInv, ToolTyped
<1>3. r \in Run  BY <1>1, <1>2, ReleasesAssumption DEF Run, Start, ToolTyped
<1>4. /\ tool = NoRun /\ tool' = r /\ runs' \in 0..MaxRuns
      /\ ~Done(t)' /\ tool.tag = None
  <2>1. tool = NoRun /\ tool' = r /\ runs' \in 0..MaxRuns /\ ~Done(r.tag)'
    BY <1>1, <1>2, <1>3, StartIs
  <2> QED BY <2>1 DEF NoRun
<1>5. rel[t].doc = NoDoc /\ index[t] = NoDoc  BY <1>1, <1>2 DEF Sourced, Copied
<1>6. h \in Folder /\ rel' = [rel EXCEPT ![t] = h]
  <2>1. [rel[t] EXCEPT !.dir = TRUE] = h
    <3>1. \A v : [rel[t] EXCEPT !.dir = v] = [dir |-> v, docs |-> rel[t].docs, bundles |-> rel[t].bundles,
                                             doc |-> rel[t].doc, cite |-> rel[t].cite]
      BY <1>2, FolderExcept
    <3> QED BY <3>1, Zenon
  <2>2. h \in Folder  BY <1>2 DEF Folder
  <2> QED BY <1>1, <2>1, <2>2
<1>7. /\ rel' \in [Tag -> Folder] /\ rel'[t] = h
      /\ \A u \in Tag \ {t} : rel'[u] = rel[u]
  BY <1>2, <1>6, RelOne DEF ToolTyped
<1>8. ToolTyped'  BY <1>1, <1>2, <1>3, <1>4, <1>7 DEF ToolTyped
<1>9. Sourced'  BY <1>1, <1>2, <1>5, <1>7 DEF Sourced, Copied
<1>10. Progress'  BY <1>1, <1>4, <1>5, <1>7 DEF Progress, Mine
<1>11. Finished'
  <2>1. \A u \in Tag \ {t} : /\ rel'[u] = rel[u]
                             /\ Done(u)' => Done(u)
                             /\ u \in late => u \in late'
    BY <1>1, <1>4, <1>7, ReleasesAssumption DEF Done
  <2> QED BY <1>1, <1>2, <1>4, <2>1, StillFinished
<1> QED BY <1>8, <1>9, <1>10, <1>11 DEF RelInv

LEMMA BackfillKeeps ==
  ASSUME RelInv, NEW t \in Tag, Backfill(t)
  PROVE  RelInv'
<1> DEFINE r == [at |-> "doc", tag |-> t, build |-> rel[t].doc.of, no |-> rel[t].doc.no, doi |-> t]
<1>1. rel[t].doc # NoDoc /\ Start(r) /\ UNCHANGED <<rel, index, readable, stopped, late, stops>>
  BY DEF Backfill
<1>2. ToolTyped /\ Sourced /\ Finished  BY DEF RelInv
<1>3. Copied(t, rel[t].doc)  BY <1>1, <1>2 DEF Sourced
<1>4. r \in Run  BY <1>3 DEF Run, Copied
<1>5. tool = NoRun /\ tool' = r /\ runs' \in 0..MaxRuns /\ ~Done(t)' /\ tool.tag = None
  <2>1. tool = NoRun /\ tool' = r /\ runs' \in 0..MaxRuns /\ ~Done(r.tag)'
    BY <1>1, <1>2, <1>4, StartIs
  <2> QED BY <2>1 DEF NoRun
<1>6. ToolTyped'  BY <1>1, <1>2, <1>4, <1>5 DEF ToolTyped
<1>7. Sourced'  BY <1>1, <1>2 DEF Sourced, Copied
<1>8. Progress'  BY <1>1, <1>2, <1>3, <1>5 DEF Progress, Doing, Copied, Sourced
<1>9. Finished'
  <2>1. \A u \in Tag \ {t} : /\ rel'[u] = rel[u]
                             /\ Done(u)' => Done(u)
                             /\ u \in late => u \in late'
    BY <1>1, <1>5, ReleasesAssumption DEF Done
  <2> QED BY <1>1, <1>2, <1>5, <2>1, StillFinished
<1> QED BY <1>6, <1>7, <1>8, <1>9 DEF RelInv
(* A step of a run that goes on: only its own release is touched. *)
LEMMA GoesOn ==
  ASSUME RelInv, tool # NoRun, NEW step \in {"bundles", "verify", "doc", "index", "cite"}, Then(step),
         NEW h \in Folder, rel' = [rel EXCEPT ![tool.tag] = h],
         UNCHANGED <<index, readable, stopped, late, runs, stops>>
  PROVE  /\ ToolTyped' /\ Finished'
         /\ rel'[tool.tag] = h
         /\ \A u \in Tag \ {tool.tag} : rel'[u] = rel[u]
         /\ tool'.at = step /\ tool'.tag = tool.tag /\ Doing' = Doing
<1>1. ToolTyped /\ Finished /\ tool.tag \in Tag  BY RunIs DEF RelInv
<1>2. /\ tool' \in Run /\ tool'.at = step
      /\ tool'.tag = tool.tag /\ tool'.build = tool.build
      /\ tool'.no = tool.no /\ tool'.doi = tool.doi
  BY <1>1, ThenIs
<1>3. /\ rel' \in [Tag -> Folder] /\ rel'[tool.tag] = h
      /\ \A u \in Tag \ {tool.tag} : rel'[u] = rel[u]
  BY <1>1, RelOne DEF ToolTyped
<1>4. ToolTyped'  BY <1>1, <1>2, <1>3 DEF ToolTyped
<1>5. Finished'
  <2>1. \A u \in Tag \ {tool.tag} : /\ rel'[u] = rel[u]
                                    /\ Done(u)' => Done(u)
                                    /\ u \in late => u \in late'
    BY <1>2, <1>3 DEF Done
  <2>2. ~(tool'.tag # tool.tag /\ tool.tag \notin stopped')  BY <1>2
  <2>3. PICK k \in Tag : k = tool.tag  BY <1>1
  <2>4. ~Done(k)'  BY <2>2, <2>3 DEF Done
  <2>5. index' = index  OBVIOUS
  <2> QED BY <1>1, <2>1, <2>3, <2>4, <2>5, StillFinished
<1> QED BY <1>2, <1>3, <1>4, <1>5 DEF Doing

LEMMA CopyKeeps ==
  ASSUME RelInv, CopyDocs \/ CopyBundles \/ VerifyBundles
  PROVE  RelInv'
<1> DEFINE k == tool.tag
           m == rel[tool.tag]
<1>1. tool # NoRun  BY DEF CopyDocs, CopyBundles, VerifyBundles, NoRun
<1>2. /\ ToolTyped /\ Sourced /\ k \in Tag /\ m \in Folder /\ tool.build \in Name /\ tool.no \in 1..MaxRuns
      /\ tool.at \in {"docs", "bundles", "verify"}
  BY <1>1, RunIs DEF RelInv, CopyDocs, CopyBundles, VerifyBundles
<1>3. m.dir /\ m.doc = NoDoc /\ index[k] = NoDoc /\ (tool.at # "docs" => m.docs = tool.build)
  BY <1>2 DEF RelInv, Progress, Mine
<1>4. CASE CopyDocs
  <2> DEFINE h == [dir |-> m.dir, docs |-> tool.build, bundles |-> m.bundles,
                   doc |-> m.doc, cite |-> m.cite]
  <2>1. h \in Folder  BY <1>2 DEF Folder
  <2>2. [m EXCEPT !.docs = tool.build] = h
    <3>1. \A v : [m EXCEPT !.docs = v] = [dir |-> m.dir, docs |-> v, bundles |-> m.bundles,
                                         doc |-> m.doc, cite |-> m.cite]
      BY <1>2, FolderExcept
    <3> QED BY <3>1, Zenon
  <2>3. /\ rel' = [rel EXCEPT ![k] = h] /\ Then("bundles")
        /\ UNCHANGED <<index, readable, stopped, late, runs, stops>>
    BY <1>4, <2>2 DEF CopyDocs
  <2>4. /\ ToolTyped' /\ Finished' /\ rel'[k] = h
        /\ \A u \in Tag \ {k} : rel'[u] = rel[u]
        /\ tool'.at = "bundles" /\ tool'.tag = k /\ Doing' = Doing
    BY <1>1, <2>1, <2>3, GoesOn
  <2>5. Sourced'  BY <1>2, <1>3, <2>3, <2>4 DEF Sourced, Copied
  <2>6. Progress'  BY <1>3, <2>3, <2>4 DEF Progress, Mine, Doing
  <2> QED BY <2>4, <2>5, <2>6 DEF RelInv
<1>5. CASE CopyBundles
  <2> DEFINE b == IF There THEN tool.build ELSE None
             h == [dir |-> m.dir, docs |-> m.docs, bundles |-> b, doc |-> m.doc, cite |-> m.cite]
  <2>1. h \in Folder  BY <1>2 DEF Folder
  <2>2. [m EXCEPT !.bundles = b] = h
    <3>1. \A v : [m EXCEPT !.bundles = v] = [dir |-> m.dir, docs |-> m.docs, bundles |-> v,
                                            doc |-> m.doc, cite |-> m.cite]
      BY <1>2, FolderExcept
    <3> HIDE DEF b
    <3> QED BY <3>1, Zenon
  <2>3. /\ rel' = [rel EXCEPT ![k] = h] /\ Then("verify") /\ tool.at = "bundles"
        /\ UNCHANGED <<index, readable, stopped, late, runs, stops>>
    BY <1>5, <2>2 DEF CopyBundles
  <2> HIDE DEF b
  <2>4. /\ ToolTyped' /\ Finished' /\ rel'[k] = h
        /\ \A u \in Tag \ {k} : rel'[u] = rel[u]
        /\ tool'.at = "verify" /\ tool'.tag = k /\ Doing' = Doing
    BY <1>1, <2>1, <2>3, GoesOn
  <2>5. Sourced'  BY <1>2, <1>3, <2>3, <2>4 DEF Sourced, Copied
  <2>6. Progress'  BY <1>3, <2>3, <2>4 DEF Progress, Mine, Doing
  <2> QED BY <2>4, <2>5, <2>6 DEF RelInv
<1>6. CASE VerifyBundles
  <2>1. /\ rel' = [rel EXCEPT ![k] = m] /\ Then("doc") /\ tool.at = "verify"
        /\ m.bundles = tool.build
        /\ UNCHANGED <<index, readable, stopped, late, runs, stops>>
    BY <1>2, <1>6 DEF VerifyBundles, Match, Mine, ToolTyped
  <2>2. /\ ToolTyped' /\ Finished' /\ rel'[k] = m
        /\ \A u \in Tag \ {k} : rel'[u] = rel[u]
        /\ tool'.at = "doc" /\ tool'.tag = k /\ Doing' = Doing
    BY <1>1, <1>2, <2>1, GoesOn
  <2>3. Sourced'  BY <1>2, <1>3, <2>1, <2>2 DEF Sourced, Copied
  <2>4. Copied(k, Doing)  BY <1>2, <1>3, <2>1 DEF Copied, Doing
  <2>5. Copied(k, Doing)'  BY <2>2, <2>4 DEF Copied
  <2>6. Progress'  BY <1>3, <2>1, <2>2, <2>5 DEF Progress, Mine
  <2> QED BY <2>2, <2>3, <2>6 DEF RelInv
<1> QED BY <1>4, <1>5, <1>6

LEMMA WriteDocKeeps ==
  ASSUME RelInv, WriteDoc
  PROVE  RelInv'
<1> DEFINE k == tool.tag
           m == rel[tool.tag]
           h == [dir |-> m.dir, docs |-> m.docs, bundles |-> m.bundles, doc |-> Doing, cite |-> m.cite]
<1>1. tool # NoRun /\ tool.at = "doc"  BY DEF WriteDoc, NoRun
<1>2. ToolTyped /\ Sourced /\ k \in Tag /\ m \in Folder /\ Doing \in Doc /\ Doing # NoDoc
  BY <1>1, RunIs DEF RelInv
<1>3. Copied(k, Doing) /\ (index[k] # NoDoc => index[k].no = Doing.no)
  BY <1>1 DEF RelInv, Progress, Doing
<1>4. h \in Folder  BY <1>2 DEF Folder
<1>5. [m EXCEPT !.doc = Doing] = h  BY <1>2, FolderExcept
<1>6. /\ rel' = [rel EXCEPT ![k] = h] /\ Then("index")
      /\ UNCHANGED <<index, readable, stopped, late, runs, stops>>
  BY <1>5 DEF WriteDoc, Doing
<1> HIDE DEF h
<1>7. /\ ToolTyped' /\ Finished' /\ rel'[k] = h
      /\ \A u \in Tag \ {k} : rel'[u] = rel[u]
      /\ tool'.at = "index" /\ tool'.tag = k /\ Doing' = Doing
  BY <1>1, <1>4, <1>6, GoesOn
<1>8. Copied(k, Doing)'  BY <1>3, <1>7 DEF Copied, h
<1>9. Sourced'
  <2>1. h.doc = Doing  BY DEF h
  <2>2. \A u \in Tag : rel'[u].dir = rel[u].dir /\ rel'[u].docs = rel[u].docs
                       /\ rel'[u].bundles = rel[u].bundles
    BY <1>7 DEF h
  <2> QED BY <1>2, <1>3, <1>6, <1>7, <2>1, <2>2 DEF Sourced, Copied
<1>10. Progress'  BY <1>3, <1>6, <1>7, <1>8 DEF Progress, Mine, Doing, h
<1> QED BY <1>7, <1>9, <1>10 DEF RelInv
(* A row written changes what follows it only for releases of later runs, and only
   when its DOI is new. *)
LEMMA RowKeeps ==
  ASSUME ToolTyped, Sourced, NEW k \in Tag, NEW d \in Doc, d.no \in 1..MaxRuns,
         index[k] # NoDoc => index[k].no = d.no,
         index' = [index EXCEPT ![k] = d],
         NEW t \in Tag \ {k}, rel'[t] = rel[t], index[t] # NoDoc,
         d.doi = index[k].doi \/ ~(index[t].no > d.no), Follows(t)
  PROVE  Follows(t)'
<1>1. /\ index'[k] = d /\ \A u \in Tag \ {k} : index'[u] = index[u]
      /\ index \in [Tag -> Doc] /\ index[t].no \in Nat /\ index[k].no \in Nat
  BY ReleasesAssumption DEF ToolTyped, Doc
<1>2. Older(t, k) => index[k].no = d.no  BY DEF Older, NoDoc
<1>3. Older(t, k)' <=> Older(t, k)
  <2>1. CASE d.doi = index[k].doi
    <3>1. d.doi # None => index[k].no = d.no  BY <2>1 DEF NoDoc
    <3> QED BY <1>1, <2>1, <3>1 DEF Older
  <2>2. CASE ~(index[t].no > d.no)
    <3>1. d.no \in Nat /\ ~(d.no \in 1..(index[t].no - 1))  BY <1>1, <2>2, ReleasesAssumption
    <3>2. ~Older(t, k)  BY <1>2, <3>1 DEF Older
    <3>3. ~Older(t, k)'  BY <1>1, <3>1 DEF Older
    <3> QED BY <3>2, <3>3
  <2> QED BY <2>1, <2>2
<1>4. \A u \in Tag : Older(t, u)' <=> Older(t, u)
  <2> SUFFICES ASSUME NEW u \in Tag PROVE Older(t, u)' <=> Older(t, u)  OBVIOUS
  <2>1. CASE u = k  BY <1>3, <2>1
  <2>2. CASE u # k  BY <1>1, <2>2 DEF Older
  <2> QED BY <2>1, <2>2
<1>5. \A u \in Tag : Older(t, u) => index'[u].no = index[u].no  BY <1>1, <1>2
<1>6. rel[t].cite.prev \in Tag \cup {None}  BY DEF ToolTyped, Folder, Cites
<1> QED BY <1>4, <1>5, <1>6 DEF Follows

LEMMA WriteIndexKeeps ==
  ASSUME RelInv, WriteIndex
  PROVE  RelInv'
<1> DEFINE k == tool.tag
<1>1. tool # NoRun /\ tool.at = "index"  BY DEF WriteIndex, NoRun
<1>2. /\ ToolTyped /\ Sourced /\ Finished /\ k \in Tag /\ Doing \in Doc /\ Doing # NoDoc
      /\ tool.no \in 1..MaxRuns
  BY <1>1, RunIs DEF RelInv
<1>3. Copied(k, Doing) /\ rel[k].doc = Doing /\ (index[k] # NoDoc => index[k].no = tool.no)
  BY <1>1 DEF RelInv, Progress, Mine
<1>4. /\ index' = [index EXCEPT ![k] = Doing] /\ Then("cite")
      /\ late' = IF tool.doi = index[k].doi THEN late ELSE late \cup {t \in Tag : index[t].no > tool.no}
      /\ UNCHANGED <<rel, readable, stopped, runs, stops>>
  BY <1>3 DEF WriteIndex, Mine
<1>5. /\ tool' \in Run /\ tool'.at = "cite" /\ tool'.tag = k /\ Doing' = Doing /\ tool'.no = tool.no
  BY <1>1, <1>2, <1>4, ThenIs DEF Doing
<1>6. index'[k] = Doing /\ \A u \in Tag \ {k} : index'[u] = index[u]  BY <1>2, <1>4 DEF ToolTyped
<1>7. ToolTyped'  BY <1>2, <1>4, <1>5 DEF ToolTyped
<1>8. Sourced'  BY <1>2, <1>3, <1>4, <1>6 DEF Sourced, Copied
<1>9. Progress'  BY <1>3, <1>4, <1>5, <1>6 DEF Progress, Mine, Copied, Doing
<1>10. Finished'
  <2> SUFFICES ASSUME NEW t \in Tag, Done(t)'
               PROVE  (rel'[t].dir => index'[t] # NoDoc) /\ Agrees(t)'
    BY DEF Finished
  <2>1. t # k /\ Done(t)  BY <1>4, <1>5 DEF Done
  <2>2. (rel[t].dir => index[t] # NoDoc) /\ Agrees(t)  BY <1>2, <2>1 DEF Finished
  <2>3. index'[t] = index[t] /\ rel'[t] = rel[t]  BY <1>4, <1>6, <2>1
  <2>4. ASSUME index[t] # NoDoc PROVE t \in late' \/ Follows(t)'
    <3>1. CASE t \in late  BY <1>4, <3>1
    <3>2. CASE tool.doi # index[k].doi /\ index[t].no > tool.no  BY <1>4, <3>2
    <3>3. CASE t \notin late /\ (tool.doi = index[k].doi \/ ~(index[t].no > tool.no))
      <4>1. Follows(t)  BY <2>2, <2>4, <3>3 DEF Agrees
      <4>2. Doing.no = tool.no /\ Doing.doi = tool.doi  BY DEF Doing
      <4> QED BY <1>2, <1>3, <1>4, <2>1, <2>3, <2>4, <3>3, <4>1, <4>2, RowKeeps
    <3> QED BY <3>1, <3>2, <3>3
  <2> QED BY <2>2, <2>3, <2>4 DEF Agrees
<1> QED BY <1>7, <1>8, <1>9, <1>10 DEF RelInv

(* A bounded set of numbers has a greatest. *)
LEMMA GreatestExists ==
  ASSUME NEW K \in Nat, NEW S, S \subseteq 0..K, S # {}
  PROVE  \E m \in S : \A k \in S : k <= m
<1> DEFINE Less == OpToRel(<, Nat)
           T == {K - n : n \in S}
<1>1. IsWellFoundedOn(Less, Nat)  BY NatLessThanWellFounded
<1>2. T \subseteq Nat /\ T # {}
  <2>1. PICK n \in S : TRUE  OBVIOUS
  <2>2. K - n \in T  OBVIOUS
  <2> QED BY <2>2
<1>3. \A a, b \in Nat : <<a, b>> \in Less <=> a < b  BY DEF OpToRel
<1> HIDE DEF Less
<1>4. PICK x \in T : \A y \in T : ~(<<y, x>> \in Less)  BY <1>1, <1>2, WFMin
<1>5. PICK m \in S : x = K - m  OBVIOUS
<1>6. ASSUME NEW k \in S PROVE k <= m
  <2>1. ~(K - k < K - m)  BY <1>2, <1>3, <1>4, <1>5
  <2> QED BY <2>1
<1> QED BY <1>6

(* The record of a release names the newest with a DOI before it. *)
LEMMA PreviousIsNewest ==
  ASSUME ToolTyped, NEW t \in Tag
  PROVE  IF Before(t) = {} THEN Previous(t) = None
         ELSE Previous(t) \in Before(t) /\ \A v \in Before(t) : index[v].no <= index[Previous(t)].no
<1>1. CASE Before(t) = {}  BY <1>1 DEF Previous
<1>2. CASE Before(t) # {}
  <2> DEFINE S == {index[u].no : u \in Before(t)}
  <2>1. \A u \in Before(t) : u \in Tag  BY DEF Before, Minted
  <2>2. S \subseteq 0..MaxRuns  BY <2>1 DEF ToolTyped, Doc
  <2>3. S # {}  BY <1>2
  <2>4. MaxRuns \in Nat  BY ReleasesAssumption
  <2> HIDE DEF S
  <2>5. PICK m \in S : \A k \in S : k <= m  BY <2>2, <2>3, <2>4, GreatestExists
  <2>6. \E u \in Before(t) : \A v \in Before(t) : index[v].no <= index[u].no  BY <2>5 DEF S
  <2> QED BY <1>2, <2>6 DEF Previous
<1> QED BY <1>1, <1>2

LEMMA WriteCiteKeeps ==
  ASSUME RelInv, WriteCite
  PROVE  RelInv'
<1>1. tool # NoRun /\ tool.at = "cite"  BY DEF WriteCite, NoRun
<1>0. PICK k \in Tag : k = tool.tag  BY <1>1, RunIs DEF RelInv
<1> DEFINE m == rel[k]
           c == [written |-> TRUE, doi |-> m.doc.doi, prev |-> Previous(k)]
           h == [dir |-> m.dir, docs |-> m.docs, bundles |-> m.bundles, doc |-> m.doc, cite |-> c]
<1>2. ToolTyped /\ Sourced /\ Finished /\ k \in Tag /\ m \in Folder /\ Doing \in Doc /\ Doing # NoDoc
  BY <1>0, <1>1, RunIs DEF RelInv
<1>3. m.doc = Doing /\ index[k] = Doing  BY <1>0, <1>1 DEF RelInv, Progress, Mine
<1>4. IF Before(k) = {} THEN Previous(k) = None
      ELSE Previous(k) \in Before(k) /\ \A v \in Before(k) : index[v].no <= index[Previous(k)].no
  BY <1>2, PreviousIsNewest
<1>5. c \in Cites  BY <1>2, <1>4 DEF Cites, Folder, Doc, Before, Minted
<1>6. h \in Folder  BY <1>2, <1>5 DEF Folder
<1>7. [m EXCEPT !.cite = c] = h
  <2>1. \A v : [m EXCEPT !.cite = v] = [dir |-> m.dir, docs |-> m.docs, bundles |-> m.bundles,
                                       doc |-> m.doc, cite |-> v]
    BY <1>2, FolderExcept
  <2> HIDE DEF c
  <2> QED BY <2>1, Zenon
<1>8. /\ rel' = [rel EXCEPT ![k] = h] /\ tool' = NoRun
      /\ stopped' = stopped \ {k} /\ late' = late \ {k}
      /\ UNCHANGED <<index, readable, runs, stops>>
  BY <1>0, <1>7 DEF WriteCite, Mine
<1>9. h.doc = Doing /\ h.dir = m.dir /\ h.docs = m.docs /\ h.bundles = m.bundles
      /\ h.cite.written /\ h.cite.doi = Doing.doi /\ h.cite.prev = Previous(k)
  BY <1>3
<1> HIDE DEF h
<1>10. /\ rel' \in [Tag -> Folder] /\ rel'[k] = h
       /\ \A u \in Tag \ {k} : rel'[u] = rel[u]
  BY <1>2, <1>6, <1>8, RelOne DEF ToolTyped
<1>11. ToolTyped'  BY <1>2, <1>8, <1>10 DEF ToolTyped
<1>12. Sourced'
  <2>1. \A u \in Tag : /\ rel'[u].doc = rel[u].doc /\ rel'[u].dir = rel[u].dir
                       /\ rel'[u].docs = rel[u].docs /\ rel'[u].bundles = rel[u].bundles
    BY <1>3, <1>9, <1>10
  <2> QED BY <1>2, <1>8, <2>1 DEF Sourced, Copied
<1>13. Progress'  BY <1>8 DEF Progress, NoRun
<1>14. Follows(k)'
  <2>1. \A u \in Tag : Older(k, u) <=> u \in Before(k)
    <3> SUFFICES ASSUME NEW u \in Tag PROVE Older(k, u) <=> u \in Before(k)  OBVIOUS
    <3>1. index[u] = NoDoc \/ index[u].no \in 1..MaxRuns  BY <1>2 DEF Sourced, Copied
    <3>2. index[k].no \in 1..MaxRuns  BY <1>2, <1>3 DEF Sourced, Copied
    <3>3. index[u].doi # None => index[u] # NoDoc  BY DEF NoDoc
    <3>4. MaxRuns \in Nat  BY ReleasesAssumption
    <3> QED BY <3>1, <3>2, <3>3, <3>4 DEF Older, Before, Minted
  <2>2. IF Previous(k) = None THEN \A u \in Tag : ~Older(k, u)
        ELSE Older(k, Previous(k)) /\ \A u \in Tag : Older(k, u) => index[u].no <= index[Previous(k)].no
    BY <1>4, <2>1, ReleasesAssumption DEF Before, Minted
  <2> QED BY <1>8, <1>9, <1>10, <2>2 DEF Follows, Older
<1>15. Finished'
  <2>1. Agrees(k)'  BY <1>3, <1>8, <1>9, <1>10, <1>14 DEF Agrees
  <2>2. \A u \in Tag \ {k} : /\ rel'[u] = rel[u]
                             /\ Done(u)' => Done(u)
                             /\ u \in late => u \in late'
    BY <1>0, <1>8, <1>10 DEF Done
  <2> QED BY <1>2, <1>3, <1>8, <2>1, <2>2, StillFinished
<1> QED BY <1>11, <1>12, <1>13, <1>15 DEF RelInv

LEMMA EndKeeps ==
  ASSUME RelInv, Refused \/ CopyFails \/ IndexUnreadable \/ Stop
  PROVE  RelInv'
<1>1. tool # NoRun
  <2>1. Refused => tool.at \in {"docs", "verify"}  BY DEF Refused, Missing
  <2>2. CopyFails => tool.at \in {"docs", "bundles", "verify"}  BY DEF CopyFails
  <2>3. IndexUnreadable => tool.at = "index"  BY DEF IndexUnreadable
  <2>4. Stop => tool # NoRun  BY Zenon DEF Stop
  <2>5. tool = NoRun => tool.at = "idle"  BY DEF NoRun
  <2> QED BY <2>1, <2>2, <2>3, <2>4, <2>5
<1>0. PICK k \in Tag : k = tool.tag  BY <1>1, RunIs DEF RelInv
<1> DEFINE m == rel[k]
<1>2. ToolTyped /\ Sourced /\ Finished /\ m \in Folder
  BY <1>0, <1>1, RunIs DEF RelInv
<1>3. tool' = NoRun /\ index' = index /\ runs' = runs /\ late' = late /\ stops' \in 0..MaxStops
  <2>1. tool' = NoRun /\ index' = index /\ runs' = runs /\ late' = late
    BY DEF Refused, CopyFails, IndexUnreadable, Stop, Abandon, EndUnfinished
  <2>2. stops' = stops \/ Mishap  BY DEF Refused, CopyFails, IndexUnreadable, Stop
  <2> QED BY <1>2, <2>1, <2>2, ReleasesAssumption DEF Mishap, ToolTyped
<1>4. Progress'  BY <1>3 DEF Progress, NoRun
<1>5. CASE Refused \/ CopyFails
  <2>1. rel' = [rel EXCEPT ![k] = NoRel] /\ stopped' = stopped /\ readable' = readable
    BY <1>0, <1>5 DEF Refused, CopyFails, Abandon
  <2>2. index[k] = NoDoc  BY <1>0, <1>5 DEF RelInv, Progress, Refused, CopyFails, Missing
  <2>3. NoRel \in Folder  BY ReleasesAssumption DEF NoRel, Folder, NoDoc, Doc, NoCite, Cites
  <2>4. /\ rel' \in [Tag -> Folder] /\ rel'[k] = NoRel
        /\ \A u \in Tag \ {k} : rel'[u] = rel[u]
    BY <1>2, <2>1, <2>3, RelOne DEF ToolTyped
  <2>5. ToolTyped'  BY <1>2, <1>3, <2>1, <2>4 DEF ToolTyped
  <2>6. Sourced'  BY <1>2, <1>3, <2>2, <2>4 DEF Sourced, Copied, NoRel
  <2>7. Finished'
    <3>1. Agrees(k)' /\ ~rel'[k].dir  BY <1>3, <2>2, <2>4 DEF Agrees, NoRel
    <3>2. \A u \in Tag \ {k} : /\ rel'[u] = rel[u]
                               /\ Done(u)' => Done(u)
                               /\ u \in late => u \in late'
      BY <1>0, <1>3, <2>1, <2>4 DEF Done
    <3> QED BY <1>2, <1>3, <3>1, <3>2, StillFinished
  <2> QED BY <1>4, <2>5, <2>6, <2>7 DEF RelInv
<1>6. CASE IndexUnreadable \/ Stop
  <2>1. stopped' = stopped \cup {k} /\ readable' \in BOOLEAN
    BY <1>0, <1>2, <1>6 DEF IndexUnreadable, Stop, EndUnfinished, ToolTyped
  <2>2. \E d \in {m.doc, NoDoc}, c \in {m.cite, NoCite} :
          rel' = [rel EXCEPT ![k] = [dir |-> m.dir, docs |-> m.docs, bundles |-> m.bundles,
                                     doc |-> d, cite |-> c]]
    <3> DEFINE H(d, c) == [dir |-> m.dir, docs |-> m.docs, bundles |-> m.bundles, doc |-> d, cite |-> c]
    <3>1. m = H(m.doc, m.cite)  BY <1>2 DEF Folder
    <3>2. [m EXCEPT !.doc = NoDoc] = H(NoDoc, m.cite)
      <4>1. \A v : [m EXCEPT !.doc = v] = H(v, m.cite)  BY <1>2, FolderExcept
      <4> QED BY <4>1, Zenon
    <3>3. [m EXCEPT !.cite = NoCite] = H(m.doc, NoCite)
      <4>1. \A v : [m EXCEPT !.cite = v] = H(m.doc, v)  BY <1>2, FolderExcept
      <4> QED BY <4>1, Zenon
    <3>4. rel = [rel EXCEPT ![k] = m]  BY <1>2 DEF ToolTyped
    <3>5. \/ rel' = rel \/ rel' = [rel EXCEPT ![k].doc = NoDoc]
          \/ rel' = [rel EXCEPT ![k].cite = NoCite]
      BY <1>0, <1>6 DEF IndexUnreadable, Stop
    <3> HIDE DEF H, m
    <3>6. \/ rel' = [rel EXCEPT ![k] = H(m.doc, m.cite)]
          \/ rel' = [rel EXCEPT ![k] = H(NoDoc, m.cite)]
          \/ rel' = [rel EXCEPT ![k] = H(m.doc, NoCite)]
      BY <3>1, <3>2, <3>3, <3>4, <3>5 DEF m
    <3> QED BY <3>6 DEF H
  <2>3. PICK d \in {m.doc, NoDoc}, c \in {m.cite, NoCite} :
          rel' = [rel EXCEPT ![k] = [dir |-> m.dir, docs |-> m.docs, bundles |-> m.bundles,
                                     doc |-> d, cite |-> c]]
    BY <2>2
  <2> DEFINE h == [dir |-> m.dir, docs |-> m.docs, bundles |-> m.bundles, doc |-> d, cite |-> c]
  <2>4. h \in Folder
    <3>1. NoDoc \in Doc /\ NoCite \in Cites  BY ReleasesAssumption DEF NoDoc, Doc, NoCite, Cites
    <3>2. d \in Doc /\ c \in Cites  BY <1>2, <3>1 DEF Folder
    <3> QED BY <1>2, <3>2 DEF Folder
  <2>5. h.dir = m.dir /\ h.docs = m.docs /\ h.bundles = m.bundles /\ h.doc \in {m.doc, NoDoc}  OBVIOUS
  <2>6. rel' = [rel EXCEPT ![k] = h]  BY <2>3
  <2> HIDE DEF h
  <2>7. /\ rel' \in [Tag -> Folder] /\ rel'[k] = h
        /\ \A u \in Tag \ {k} : rel'[u] = rel[u]
    BY <1>2, <2>4, <2>6, RelOne DEF ToolTyped
  <2>8. ToolTyped'  BY <1>2, <1>3, <2>1, <2>7 DEF ToolTyped
  <2>9. Sourced'
    <3>1. \A u \in Tag : /\ rel'[u].doc \in {rel[u].doc, NoDoc} /\ rel'[u].dir = rel[u].dir
                         /\ rel'[u].docs = rel[u].docs /\ rel'[u].bundles = rel[u].bundles
      BY <2>5, <2>7
    <3> QED BY <1>2, <1>3, <3>1 DEF Sourced, Copied
  <2>10. Finished'
    <3>1. ~Done(k)'  BY <2>1 DEF Done
    <3>2. \A u \in Tag \ {k} : /\ rel'[u] = rel[u]
                               /\ Done(u)' => Done(u)
                               /\ u \in late => u \in late'
      BY <1>0, <1>3, <2>1, <2>7 DEF Done
    <3> QED BY <1>2, <1>3, <3>1, <3>2, StillFinished
  <2> QED BY <1>4, <2>8, <2>9, <2>10 DEF RelInv
<1> QED BY <1>5, <1>6

LEMMA RelInvStep ==
  Typed /\ RelInv /\ [RelNext]_<<vars, replicaVars, releaseVars>> => RelInv'
<1> SUFFICES ASSUME Typed, RelInv, [RelNext]_<<vars, replicaVars, releaseVars>> PROVE RelInv'  OBVIOUS
<1>1. CASE UNCHANGED releaseVars
  BY <1>1 DEF releaseVars, RelInv, ToolTyped, Sourced, Copied, Progress, Mine, Doing, Finished, Done, Agrees,
              Follows, Older
<1>2. CASE ToolStep
  BY <1>2, CutKeeps, BackfillKeeps, CopyKeeps, WriteDocKeeps, WriteIndexKeeps, WriteCiteKeeps, EndKeeps
  DEF ToolStep
<1> QED BY <1>1, <1>2 DEF RelNext

LEMMA RelInvAlways == RelSpec => []RelInv
<1>1. RelSpec => []Typed
  <2>1. RelInit => Init  BY DEF RelInit, RInit
  <2>2. [RelNext]_<<vars, replicaVars, releaseVars>> => [Next]_vars  BY DEF RelNext, RNext, Host
  <2> QED BY <2>1, <2>2, TypedInit, TypedStep, PTL DEF RelSpec
<1> QED BY <1>1, RelInvInit, RelInvStep, PTL DEF RelSpec

(* The portal, the replica and the releases are well-formed together. *)
THEOREM ReleasesTypes == RelSpec => []RelTypeOK
<1>1. RelInv /\ TypeOK /\ RTypeOK => RelTypeOK
  BY DEF RelInv, RelTypeOK, ToolTyped, Run, Folder, Cites
<1> QED BY <1>1, RelInvAlways, ReleasesRefineReplica, ReplicaRefinesServe, Types, ReplicaTypes, PTL

(* A release that is listed is the one build its row names, whole, and a cut that gives
   up leaves nothing, whatever is pruned meanwhile and however often a tag is tried. *)
THEOREM ReleasesAreWhole == RelSpec => []ReleaseWhole
BY RelInvAlways, RelInvImplies, PTL

(* What is written about a release in three places agrees, and its record names the
   newest DOI before it, but after a stop or a later stamp. *)
THEOREM DocumentsAgree == RelSpec => []DocsAgree
BY RelInvAlways, RelInvImplies, PTL
=============================================================================
