-------------------------------- MODULE Serve --------------------------------
(***************************************************************************)
(* What visitors are served: the reconcile agent (deploy/scripts/           *)
(* reconcile.sh), the rebuild it runs (deploy/Makefile rebuild-data, the    *)
(* reading order of engine/extract/build_portal.py and the digest gate of   *)
(* engine/scripts/verify.py), and the rollback of the host actions agent    *)
(* (deploy/scripts/actions.sh).                                             *)
(*                                                                         *)
(* The two agents hold different locks and meet in site-data/current,       *)
(* site-data/builds and rollback.pin.  The build reads the working tree of  *)
(* surveys-live, in which the gateway publishes meanwhile.  A commit is the *)
(* set of the changes that are in it; a change that was undone is never     *)
(* made again (a retry is another change, as it is another commit).         *)
(***************************************************************************)
EXTENDS Naturals, FiniteSets, FiniteSetsExt, Functions

CONSTANTS Change,        \* changes of the corpus
          Edit,          \* those that rewrite the survey.yaml of a survey; the others add one
          None,          \* no commit, no build
          Keep,          \* builds kept beside the one served
          MaxBuilds,     \* bound on builds
          MaxAsked,      \* bound on presses of "request rebuild", "pause" and "serve this build"
          MaxFaults,     \* bound on kills, deaths and failed commands
          Spent          \* what of these bounds may be used up before the first step

ASSUME ServeAssumption == /\ IsFiniteSet(Change) /\ Edit \subseteq Change
                          /\ None \notin Nat /\ \A c \in SUBSET Change : None # c
                          /\ Keep \in Nat \ {0}
                          /\ {MaxBuilds, MaxAsked, MaxFaults} \subseteq Nat
                          /\ Spent \subseteq [tried : SUBSET Change, asked : 0..MaxAsked,
                                              faults : 0..MaxFaults]

VARIABLES
  main,      \* HEAD of surveys-live
  pub,       \* the publish under way in surveys-live
  tried,     \* the changes that were begun
  builds,    \* site-data/builds: name -> what the build read and where it got to
  made,      \* the last name given to a build (names are timestamps)
  current,   \* the name site-data/current points at
  request,   \* is there a rebuild.request?
  pin,       \* rollback.pin
  paused,    \* is there a fresh pause.flag?
  status,    \* reconcile-status.json
  pass,      \* the process that holds reconcile.lock
  intent,    \* the build rollback.request names
  agent,     \* the process that holds actions.lock
  torn,      \* a rollback overlapped a pass, was cut off, or served an unverified build (history)
  faults, asked     \* (bounds)

corpusVars == <<main, pub, tried>>
curatorVars == <<request, paused, intent, asked>>
vars == <<corpusVars, curatorVars, builds, made, current, pin, status, pass, agent, torn, faults>>

Idle == [at |-> "idle", cur |-> None, head |-> None, pinned |-> FALSE, paused |-> FALSE]
AgentIdle == [at |-> "idle", build |-> None]
Quiet == [at |-> "idle", change |-> None]

Init ==
  /\ main = {} /\ pub = Quiet
  /\ builds = <<>> /\ made = 0 /\ current = None
  /\ request = FALSE /\ pin = None /\ paused = FALSE /\ intent = None
  /\ status = [action |-> "none", head |-> None, known |-> FALSE]
  /\ pass = Idle /\ agent = AgentIdle /\ torn = FALSE
  /\ \E s \in Spent : tried = s.tried /\ faults = s.faults /\ asked = s.asked

Fault == faults < MaxFaults /\ faults' = faults + 1

-----------------------------------------------------------------------------
(* The corpus.  A publish stages its change in the working tree on a branch of its
   own, lands it on main, and pushes or undoes it; modules Publish and Edits have
   it command by command.  What others push arrives with the pull of a pass. *)

\* a change is in the tree from the moment it is asked for: TypeOK
FaultyTree == main \cup {pub.change}
Tree == IF pub.at = "staged" THEN main \cup {pub.change} ELSE main

Stage(c) ==
  /\ pub = Quiet /\ c \notin tried
  /\ pub' = [at |-> "staged", change |-> c] /\ tried' = tried \cup {c}
  /\ UNCHANGED <<main, curatorVars, builds, made, current, pin, status, pass, agent,
                 torn, faults>>

Land ==
  /\ pub.at = "staged"
  /\ main' = main \cup {pub.change} /\ pub' = [pub EXCEPT !.at = "landed"]
  /\ UNCHANGED <<tried, curatorVars, builds, made, current, pin, status, pass, agent,
                 torn, faults>>

(* the push is accepted *)
Push ==
  /\ pub.at = "landed"
  /\ pub' = Quiet
  /\ UNCHANGED <<main, tried, curatorVars, builds, made, current, pin, status, pass, agent,
                 torn, faults>>

(* it is refused, or a command before it fails *)
Undo ==
  /\ pub # Quiet
  /\ main' = main \ {pub.change} /\ pub' = Quiet
  /\ UNCHANGED <<tried, curatorVars, builds, made, current, pin, status, pass, agent,
                 torn, faults>>

-----------------------------------------------------------------------------
(* The curator: the buttons of the serve screen. *)

Ask == asked < MaxAsked /\ asked' = asked + 1

RequestRebuild ==
  /\ Ask
  /\ request' = TRUE
  /\ UNCHANGED <<corpusVars, paused, intent, builds, made, current, pin, status,
                 pass, agent, torn, faults>>

(* pause; and resume, or the flag grows older than its expiry *)
Pause(on) ==
  /\ paused # on /\ paused' = on
  /\ IF on THEN Ask ELSE UNCHANGED asked
  /\ UNCHANGED <<corpusVars, request, intent, builds, made, current, pin,
                 status, pass, agent, torn, faults>>

(* the inventory of the screen is a quarter of an hour old: the build may be gone *)
RequestRollback(b) ==
  /\ Ask
  /\ intent = None /\ b # current
  /\ intent' = b
  /\ UNCHANGED <<corpusVars, request, paused, builds, made, current, pin, status,
                 pass, agent, torn, faults>>

-----------------------------------------------------------------------------
(* A pass of the reconcile agent. *)

Newest(k, S) == {b \in S : Cardinality({n \in S : n > b}) < k}
Served == current \in DOMAIN builds
\* source_commit in the build.json that is served
Built == IF Served /\ builds[current].whole THEN builds[current].at ELSE None

(* flock -n; prune_builds reads which build is served *)
Begin ==
  /\ pass.at = "idle"
  /\ pass' = [Idle EXCEPT !.at = "prune", !.cur = current]
  /\ UNCHANGED <<corpusVars, curatorVars, builds, made, current, pin, status, agent, torn, faults>>

\* the served build counts as one of those to keep, and is not skipped: ServedWhole
FaultyKept == Newest(Keep, DOMAIN builds)
Kept == {pass.cur} \cup Newest(Keep, DOMAIN builds \ {pass.cur})

(* prune_builds deletes; pause.flag and rollback.pin are read *)
Prune ==
  /\ pass.at = "prune"
  /\ builds' = IF pass.cur = None THEN builds ELSE Restrict(builds, Kept \cap DOMAIN builds)
  /\ pass' = [pass EXCEPT !.at = "pull", !.pinned = pin # None, !.paused = paused]
  /\ torn' = (torn \/ agent # AgentIdle)
  /\ UNCHANGED <<corpusVars, curatorVars, made, current, pin, status, agent, faults>>

Report(action, head) ==
  /\ status' = [action |-> action, head |-> head, known |-> Built # None]
  /\ pass' = Idle

(* git pull --ff-only brings what others pushed; the branch of a publish tracks
   nothing, and main is no ancestor of theirs while a publish has landed on it *)
CanPull(new) == pub.at = "idle" \/ (pub.at = "landed" /\ new = {})

Pull(new) ==
  /\ pass.at = "pull" /\ CanPull(new)
  /\ main' = main \cup new /\ tried' = tried \cup new
  /\ pass' = [pass EXCEPT !.at = "decide"]
  /\ UNCHANGED <<pub, curatorVars, builds, made, current, pin, status, agent, torn, faults>>

PullFails ==
  /\ pass.at = "pull"
  /\ Report("sync_failed", main)
  /\ IF CanPull({}) THEN Fault ELSE UNCHANGED faults
  /\ UNCHANGED <<corpusVars, curatorVars, builds, made, current, pin, agent, torn>>

(* what the pass decides on *)
Staged == pub.at = "staged" /\ pub.change \notin Edit
\* a build that carries no commit is not compared: Converges
FaultyDrift == Built # None /\ Built # main
Drift == Built # main

Unreadable == Built = None /\ ~status.known /\ status.head = main
              /\ status.action \in {"rebuilt", "failed"}

\* a rollback that stands is not looked at: PinHonoured
FaultyHeldByPin == FALSE
HeldByPin == pass.pinned

(* a build at this head was completed and never swapped in, or a pass failed at it *)
Newer == IF current = None \/ DOMAIN builds = {} \/ Max(DOMAIN builds) = current
         THEN {} ELSE {Max(DOMAIN builds)}
Attempted == Drift /\ (\/ \E b \in Newer : builds[b].whole /\ builds[b].at = main
                       \/ status.action = "failed" /\ status.head = main)

(* untracked entries under surveys/: a new survey was copied and not yet added *)
Refuse ==
  /\ pass.at = "decide" /\ Staged
  /\ Report("untracked_blocked", main)
  /\ UNCHANGED <<corpusVars, curatorVars, builds, made, current, pin, agent, torn, faults>>

(* the holds, and noop, in the order of the script; a request passes them all *)
Outcome == IF request THEN "build"
           ELSE IF Unreadable THEN "failed"
           ELSE IF pass.paused THEN "paused"
           ELSE IF HeldByPin THEN "pinned"
           ELSE IF Attempted THEN "failed"
           ELSE IF Drift THEN "build" ELSE "noop"

Hold ==
  /\ pass.at = "decide" /\ Outcome # "build"
  /\ Report(Outcome, main)
  /\ UNCHANGED <<corpusVars, curatorVars, builds, made, current, pin, agent, torn, faults>>

(* the request is consumed before the build, and ends a rollback *)
Decide ==
  /\ pass.at = "decide" /\ Outcome = "build"
  /\ request' = FALSE
  /\ pin' = IF pass.pinned /\ request THEN None ELSE pin
  /\ pass' = [pass EXCEPT !.at = "discover", !.head = main]
  /\ UNCHANGED <<corpusVars, paused, intent, asked, builds, made, current,
                 status, agent, torn, faults>>

-----------------------------------------------------------------------------
(* make rebuild-data, inside the pass. *)

(* discover_work reads the packages in the working tree *)
Discover ==
  /\ pass.at = "discover" /\ made < MaxBuilds
  /\ made' = made + 1
  /\ builds' = [b \in DOMAIN builds \cup {made'} |->
                  IF b = made' THEN [has |-> Tree, at |-> None, whole |-> FALSE, good |-> FALSE]
                               ELSE builds[b]]
  /\ pass' = [pass EXCEPT !.at = "label"]
  /\ UNCHANGED <<corpusVars, curatorVars, current, pin, status, agent, torn, faults>>

(* no log can be written, or the engine does not start: at the bound on builds *)
NoBuild ==
  /\ pass.at = "discover" /\ made = MaxBuilds
  /\ Report("failed", pass.head)
  /\ UNCHANGED <<corpusVars, curatorVars, builds, made, current, pin, agent, torn, faults>>

(* build_identity reads source_commit, after the packages *)
Label ==
  /\ pass.at = "label"
  /\ builds' = [builds EXCEPT ![made].at = main]
  /\ pass' = [pass EXCEPT !.at = "verify"]
  /\ UNCHANGED <<corpusVars, curatorVars, made, current, pin, status, agent, torn, faults>>

\* the stamps are not compared with the sources: EditsServed
FaultyFresh == TRUE
(* verify.py: a survey that is served and still there was read as it is now *)
Fresh == builds[made].has \cap Edit = Tree \cap Edit

Verify ==
  /\ pass.at = "verify" /\ Fresh
  /\ builds' = [builds EXCEPT ![made].whole = TRUE, ![made].good = TRUE]
  /\ pass' = [pass EXCEPT !.at = "swap"]
  /\ UNCHANGED <<corpusVars, curatorVars, made, current, pin, status, agent, torn, faults>>

(* the build fails and has no build.json, or it is verified and found wanting *)
BuildFails(whole) ==
  /\ pass.at = "verify"
  /\ IF whole /\ ~Fresh THEN UNCHANGED faults ELSE Fault
  /\ builds' = [builds EXCEPT ![made].whole = whole]
  /\ Report("failed", pass.head)
  /\ UNCHANGED <<corpusVars, curatorVars, made, current, pin, agent, torn>>

Swap ==
  /\ pass.at = "swap"
  /\ current' = made
  /\ pass' = [pass EXCEPT !.at = "sweep"]
  /\ torn' = (torn \/ agent # AgentIdle)
  /\ UNCHANGED <<corpusVars, curatorVars, builds, made, pin, status, agent, faults>>

(* the prune of rebuild-data; the pass reports what it now serves *)
Sweep ==
  /\ pass.at = "sweep"
  /\ builds' = Restrict(builds, Newest(Keep, DOMAIN builds))
  /\ torn' = (torn \/ agent # AgentIdle)
  /\ UNCHANGED <<corpusVars, curatorVars, made, current, pin, agent, faults>>
  /\ status' = [action |-> "rebuilt", head |-> main, known |-> Built' # None]
  /\ pass' = Idle

(* the timeout of the unit: the trap records the failure *)
Terminate ==
  /\ pass.at \in {"discover", "label", "verify", "swap", "sweep"} /\ Fault
  /\ Report("failed", pass.head)
  /\ UNCHANGED <<corpusVars, curatorVars, builds, made, current, pin, agent, torn>>

(* the host goes down *)
Die ==
  /\ pass # Idle /\ Fault
  /\ pass' = Idle
  /\ UNCHANGED <<corpusVars, curatorVars, builds, made, current, pin, status, agent, torn>>

-----------------------------------------------------------------------------
(* The rollback of the host actions agent. *)

(* the intent is consumed, then looked up in the inventory *)
TakeRollback ==
  /\ agent = AgentIdle /\ intent # None
  /\ intent' = None
  /\ agent' = IF intent \in DOMAIN builds THEN [at |-> "repoint", build |-> intent] ELSE agent
  /\ UNCHANGED <<corpusVars, request, paused, asked, builds, made, current, pin,
                 status, pass, torn, faults>>

Repoint ==
  /\ agent.at = "repoint"
  /\ IF agent.build \in DOMAIN builds
     THEN /\ current' = agent.build
          /\ torn' = (torn \/ pass # Idle \/ ~builds[agent.build].good)
          /\ agent' = [agent EXCEPT !.at = "pin"]
     ELSE agent' = AgentIdle /\ UNCHANGED <<current, torn>>
  /\ UNCHANGED <<corpusVars, curatorVars, builds, made, pin, status, pass, faults>>

WritePin ==
  /\ agent.at = "pin"
  /\ pin' = agent.build
  /\ agent' = AgentIdle
  /\ UNCHANGED <<corpusVars, curatorVars, builds, made, current, status, pass, torn, faults>>

(* the agent dies after the repoint, or the pin cannot be written *)
NoPin ==
  /\ agent.at = "pin" /\ Fault
  /\ torn' = TRUE
  /\ agent' = AgentIdle
  /\ UNCHANGED <<corpusVars, curatorVars, builds, made, current, pin, status, pass>>

-----------------------------------------------------------------------------
Publishing == (\E c \in Change : Stage(c)) \/ Land \/ Push \/ Undo
Curator == RequestRebuild \/ (\E on \in BOOLEAN : Pause(on))
           \/ (\E b \in 1..made : RequestRollback(b))
PassStep == \/ Begin \/ Prune \/ (\E new \in SUBSET (Change \ tried) : Pull(new))
            \/ PullFails \/ Refuse \/ Hold \/ Decide
            \/ Discover \/ NoBuild \/ Label \/ Verify \/ Swap \/ Sweep
            \/ (\E whole \in BOOLEAN : BuildFails(whole))
AgentStep == TakeRollback \/ Repoint \/ WritePin

Next == Publishing \/ Curator \/ PassStep \/ Terminate \/ Die \/ AgentStep \/ NoPin

Spec == Init /\ [][Next]_vars

-----------------------------------------------------------------------------
Name == 1..MaxBuilds
Ref == (SUBSET Change) \cup {None}

(* Types; names of builds are given once; what is being published is named. *)
TypeOK ==
  /\ main \subseteq Change /\ tried \subseteq Change
  /\ pub \in [at : {"idle", "staged", "landed"}, change : Change \cup {None}]
  /\ DOMAIN builds \subseteq 1..made /\ made \in 0..MaxBuilds
  /\ \A b \in DOMAIN builds :
       builds[b] \in [has : SUBSET Change, at : Ref, whole : BOOLEAN, good : BOOLEAN]
  /\ {current, pin, intent} \subseteq Name \cup {None}
  /\ {request, paused, torn} \subseteq BOOLEAN
  /\ status \in [action : {"none", "sync_failed", "untracked_blocked", "failed", "paused",
                          "pinned", "noop", "rebuilt"}, head : Ref, known : BOOLEAN]
  /\ pass \in [at : {"idle", "prune", "pull", "decide", "discover", "label", "verify", "swap",
                     "sweep"},
               cur : Name \cup {None}, head : Ref, pinned : BOOLEAN, paused : BOOLEAN]
  /\ agent \in [at : {"idle", "repoint", "pin"}, build : Name \cup {None}]
  /\ faults \in 0..MaxFaults /\ asked \in 0..MaxAsked

(* Whatever the passes prune, fail at or leave half-written, and wherever a rollback
   put the portal before, what visitors are served is there and passed verify.py, unless
   a rollback overlapped a pass or chose a build that did not (reconcile.sh 185-210,
   Makefile 114-156). *)
ServedWhole == ~torn /\ current # None => Served /\ builds[current].good

(* A rollback stands: the passes that follow do not move what is served, however the
   corpus moves on, until a curator asks for a rebuild (reconcile.sh 714-736,
   actions.sh 257-287). *)
PinHonoured == ~torn /\ pin # None /\ agent = AgentIdle => current = pin

(* A pass that ends in noop leaves no published edit of a survey unserved, though builds
   read the working tree while it is being published to (verify.py 100-165). *)
EditsServed == pass.at = "decide" /\ Outcome = "noop" /\ builds[current].good
               => main \cap Edit \subseteq builds[current].has

(* A pass that ends in noop serves the corpus as it is: the agent "closes the
   published-not-served gap with no human in the loop" (reconcile.sh 3-6). *)
NoopIsCurrent == pass.at = "decide" /\ Outcome = "noop" /\ builds[current].good
                 => builds[current].has = main

(* Once nobody pauses the agent any more, the portal comes to be built from the head of
   surveys-live and stays so, unless a rollback stands or a build failed, which wait for
   a curator (reconcile.sh 630-820). *)
Settled == Built = main \/ pin # None \/ status.action = "failed"
Converges == <>[]~paused => <>[]Settled
=============================================================================
