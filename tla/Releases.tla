------------------------------ MODULE Releases ------------------------------
(***************************************************************************)
(* The citable releases (engine/extract/cut_release.py, make cut-release):  *)
(* a cut copies the build `current` names into releases/<tag>, under no     *)
(* lock, while passes swap, roll back and prune builds; a backfill stamps   *)
(* the DOI that was minted later.  Each writes release.json, the index and  *)
(* the DataCite record, in that order.                                      *)
(*                                                                         *)
(* Builds never change, so a copy of one is missing files or is whole.  The *)
(* DOI of a release is named by its tag.  One operator runs the tool.       *)
(***************************************************************************)
EXTENDS Replica

CONSTANTS Tag,       \* releases
          MaxRuns,   \* bound on runs of the tool
          MaxStops   \* bound on runs killed and on failing reads and writes

ASSUME ReleasesAssumption == {MaxRuns, MaxStops} \subseteq Nat /\ None \notin Tag

VARIABLES
  rel,       \* releases/<tag>: the directory, the builds copied into it, its documents
  index,     \* releases.json: [Tag -> its row]
  readable,  \* is releases.json whole?
  tool,      \* the run under way
  stopped,   \* releases whose last run did not finish       (history)
  late,      \* releases older than a DOI stamped since      (history)
  runs, stops    \* (bounds)

releaseVars == <<rel, index, readable, tool, stopped, late, runs, stops>>

NoDoc == [of |-> None, no |-> 0, doi |-> None]
NoCite == [written |-> FALSE, doi |-> None, prev |-> None]
NoRel == [dir |-> FALSE, docs |-> None, bundles |-> None, doc |-> NoDoc, cite |-> NoCite]
NoRun == [at |-> "idle", tag |-> None, build |-> None, no |-> 0, doi |-> None]

RelInit == /\ RInit
           /\ rel = [t \in Tag |-> NoRel] /\ index = [t \in Tag |-> NoDoc] /\ readable = TRUE
           /\ tool = NoRun /\ stopped = {} /\ late = {}
           /\ runs \in 0..MaxRuns /\ stops \in 0..MaxStops

Start(r) == tool = NoRun /\ tool' = r /\ runs < MaxRuns /\ runs' = runs + 1
Then(step) == tool' = [tool EXCEPT !.at = step]
Mine == rel[tool.tag]
There == tool.build \in DOMAIN builds
Mishap == stops < MaxStops /\ stops' = stops + 1

New(t) == ~rel[t].dir

(* cut: an unused tag, and a current that names a build with its build.json *)
CutRelease(t, doi) ==
  /\ New(t)
  /\ Served /\ builds[current].whole
  /\ Start([at |-> "docs", tag |-> t, build |-> current, no |-> runs + 1, doi |-> doi])
  /\ rel' = [rel EXCEPT ![t].dir = TRUE]
  /\ UNCHANGED <<index, readable, stopped, late, stops>>

(* a document or bundle is missing: the directory is removed *)
Abandon ==
  /\ tool' = NoRun /\ rel' = [rel EXCEPT ![tool.tag] = NoRel]
  /\ UNCHANGED <<index, readable, stopped, late, runs>>

CopyDocs ==
  /\ tool.at = "docs" /\ There
  /\ Then("bundles") /\ rel' = [rel EXCEPT ![tool.tag].docs = tool.build]
  /\ UNCHANGED <<index, readable, stopped, late, runs, stops>>

CopyBundles ==
  /\ tool.at = "bundles"
  /\ Then("verify") /\ rel' = [rel EXCEPT ![tool.tag].bundles = IF There THEN tool.build ELSE None]
  /\ UNCHANGED <<index, readable, stopped, late, runs, stops>>

\* what the manifest lists and the build had no more is not missed: ReleaseWhole
FaultyMatch == TRUE
(* _verify_bundles: what was copied against the manifest read when the cut began *)
Match == Mine.bundles = tool.build

VerifyBundles ==
  /\ tool.at = "verify" /\ Match
  /\ Then("doc")
  /\ UNCHANGED <<rel, index, readable, stopped, late, runs, stops>>

Missing == (tool.at = "docs" /\ ~There) \/ (tool.at = "verify" /\ ~Match)
Refused == Missing /\ Abandon /\ UNCHANGED stops
CopyFails == tool.at \in {"docs", "bundles", "verify"} /\ Mishap /\ Abandon

(* backfill_doi: a release that has its release.json *)
Backfill(t) ==
  /\ rel[t].doc # NoDoc
  /\ Start([at |-> "doc", tag |-> t, build |-> rel[t].doc.of, no |-> rel[t].doc.no, doi |-> t])
  /\ UNCHANGED <<rel, index, readable, stopped, late, stops>>

WriteDoc ==
  /\ tool.at = "doc"
  /\ Then("index")
  /\ rel' = [rel EXCEPT ![tool.tag].doc = [of |-> tool.build, no |-> tool.no, doi |-> tool.doi]]
  /\ UNCHANGED <<index, readable, stopped, late, runs, stops>>

(* upsert_index; the records of later releases are not written again *)
WriteIndex ==
  /\ tool.at = "index" /\ readable
  /\ Then("cite")
  /\ index' = [index EXCEPT ![tool.tag] = Mine.doc]
  /\ late' = IF tool.doi = index[tool.tag].doi THEN late
             ELSE late \cup {t \in Tag : index[t].no > tool.no}
  /\ UNCHANGED <<rel, readable, stopped, runs, stops>>

Minted == {t \in Tag : index[t].doi # None}
\* a release follows itself: DocsAgree
FaultyBefore(t) == {u \in Minted : index[u].no <= index[t].no}
Before(t) == {u \in Minted : index[u].no < index[t].no}
(* previous_doi_for: the first with a DOI below it, newest first *)
Previous(t) == IF Before(t) = {} THEN None
               ELSE CHOOSE u \in Before(t) : \A v \in Before(t) : index[v].no <= index[u].no

WriteCite ==
  /\ tool.at = "cite"
  /\ tool' = NoRun
  /\ rel' = [rel EXCEPT ![tool.tag].cite = [written |-> TRUE, doi |-> Mine.doc.doi,
                                            prev |-> Previous(tool.tag)]]
  /\ stopped' = stopped \ {tool.tag} /\ late' = late \ {tool.tag}
  /\ UNCHANGED <<index, readable, runs, stops>>

EndUnfinished == tool' = NoRun /\ stopped' = stopped \cup {tool.tag} /\ UNCHANGED <<late, runs>>

(* load_index fails after release.json was written: nothing is removed *)
IndexUnreadable == /\ tool.at = "index" /\ ~readable
               /\ EndUnfinished
               /\ UNCHANGED <<rel, index, readable, stops>>

(* the run is killed, or a write fails; a document being written may be cut short *)
Stop ==
  /\ tool # NoRun /\ Mishap /\ EndUnfinished
  /\ readable' \in (IF tool.at = "index" THEN {readable, FALSE} ELSE {readable})
  /\ \/ UNCHANGED rel
     \/ tool.at = "doc" /\ rel' = [rel EXCEPT ![tool.tag].doc = NoDoc]
     \/ tool.at = "cite" /\ rel' = [rel EXCEPT ![tool.tag].cite = NoCite]
  /\ UNCHANGED index

ToolStep == \/ \E t \in Tag : (\E doi \in {t, None} : CutRelease(t, doi)) \/ Backfill(t)
            \/ CopyDocs \/ CopyBundles \/ VerifyBundles \/ Refused \/ CopyFails
            \/ WriteDoc \/ WriteIndex \/ WriteCite \/ IndexUnreadable \/ Stop

RelNext == \/ RNext /\ UNCHANGED releaseVars
           \/ ToolStep /\ UNCHANGED <<vars, replicaVars>>

RelSpec == RelInit /\ [][RelNext]_<<vars, replicaVars, releaseVars>>

-----------------------------------------------------------------------------
Doc == [of : Name \cup {None}, no : 0..MaxRuns, doi : Tag \cup {None}]

(* Types, of the portal and the replica too; a run names the release and the build
   it is about. *)
RelTypeOK ==
  /\ TypeOK /\ RTypeOK
  /\ rel \in [Tag -> [dir : BOOLEAN, docs : Name \cup {None}, bundles : Name \cup {None}, doc : Doc,
                      cite : [written : BOOLEAN, doi : Tag \cup {None}, prev : Tag \cup {None}]]]
  /\ index \in [Tag -> Doc] /\ readable \in BOOLEAN
  /\ tool = NoRun \/ (tool.tag \in Tag /\ tool.build \in Name /\ tool.no \in 1..MaxRuns)
  /\ stopped \subseteq Tag /\ late \subseteq Tag

(* A release the index lists is the one build its row names, with everything the manifest
   of that build lists, for good: whatever the passes prune while a cut copies, and
   however often a tag is tried again.  A cut that gives up leaves nothing behind, unless
   it was killed or failed after the check (cut_release.py 28-32, 422-466, 543-551). *)
ReleaseWhole ==
  \A t \in Tag :
    /\ index[t] # NoDoc => rel[t].docs = index[t].of /\ rel[t].bundles = index[t].of
    /\ rel[t].dir /\ tool.tag # t /\ t \notin stopped => index[t] # NoDoc

(* release.json, the index and the DataCite record of a release say the same DOI, and the
   record names the newest release before it that had one, unless the last run on it was
   cut off, which the next one repairs, or an older release was stamped since, which the
   tool documents (cut_release.py 405-419, 490-523). *)
DocsAgree ==
  \A t \in Tag : index[t] # NoDoc /\ tool.tag # t /\ t \notin stopped =>
    LET older(u) == index[u].no \in 1..(index[t].no - 1) /\ index[u].doi # None
        prev == rel[t].cite.prev
    IN /\ rel[t].doc = index[t]
       /\ rel[t].cite.written /\ rel[t].cite.doi = index[t].doi
       /\ t \in late \/ IF prev = None THEN \A u \in Tag : ~older(u)
                        ELSE older(prev) /\ \A u \in Tag : older(u) => index[u].no <= index[prev].no
=============================================================================
