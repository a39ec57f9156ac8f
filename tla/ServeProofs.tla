----------------------------- MODULE ServeProofs -----------------------------
(***************************************************************************)
(* Proofs about Serve, for every set of changes, number of builds kept and *)
(* bound on presses, faults and builds.                                    *)
(***************************************************************************)
EXTENDS Serve, FiniteSetTheorems, TLAPS

USE ServeAssumption

(* A build that is being written is there; what is being published is named. *)
Writing == pass.at \in {"label", "verify", "swap", "sweep"}
Typed == /\ TypeOK
         /\ Writing => made \in DOMAIN builds
         /\ pub.at = "idle" => pub = Quiet
         /\ pub.at # "idle" => pub.change \in Change
         /\ pass.at = "idle" => pass = Idle
         /\ agent.at = "idle" <=> agent = AgentIdle
         /\ agent.at # "idle" => agent.build \in Name

LEMMA TypedInit == Init => Typed
<1> SUFFICES ASSUME Init PROVE Typed  OBVIOUS
<1> USE DEF Init, Quiet, Idle, AgentIdle, Ref, Name, Writing
<1>1. main \subseteq Change /\ tried \subseteq Change  OBVIOUS
<1>2. pub \in [at : {"idle", "staged", "landed"}, change : Change \cup {None}]  OBVIOUS
<1>3. DOMAIN builds = {} /\ made \in 0..MaxBuilds  OBVIOUS
<1>4. {current, pin, intent} \subseteq Name \cup {None} /\ {request, paused, torn} \subseteq BOOLEAN
  OBVIOUS
<1>5. status \in [action : {"none", "sync_failed", "untracked_blocked", "failed", "paused",
                            "pinned", "noop", "rebuilt"}, head : Ref, known : BOOLEAN]
  OBVIOUS
<1>6. pass \in [at : {"idle", "prune", "pull", "decide", "discover", "label", "verify", "swap",
                      "sweep"},
                cur : Name \cup {None}, head : Ref, pinned : BOOLEAN, paused : BOOLEAN]
  OBVIOUS
<1>7. agent \in [at : {"idle", "repoint", "pin"}, build : Name \cup {None}]  OBVIOUS
<1>8. faults \in 0..MaxFaults /\ asked \in 0..MaxAsked  OBVIOUS
<1>9. /\ ~Writing /\ pub = Quiet /\ pass = Idle /\ agent = AgentIdle  OBVIOUS
<1> QED BY <1>1, <1>2, <1>3, <1>4, <1>5, <1>6, <1>7, <1>8, <1>9 DEF TypeOK, Typed

(* Only the pass writes builds, and only these actions of it. *)
LEMMA TypedPublishing ==
  ASSUME Typed, Publishing PROVE Typed'
<1> USE DEF Typed, TypeOK, Writing, corpusVars, curatorVars, Quiet, Ref
<1>1. ASSUME NEW c \in Change, Stage(c) PROVE Typed'  BY <1>1 DEF Stage
<1>2. CASE Land  BY <1>2 DEF Land
<1>3. CASE Push  BY <1>3 DEF Push
<1>4. CASE Undo  BY <1>4 DEF Undo
<1> QED BY <1>1, <1>2, <1>3, <1>4 DEF Publishing

LEMMA TypedCurator ==
  ASSUME Typed, Curator PROVE Typed'
<1> USE DEF Typed, TypeOK, Writing, corpusVars, curatorVars, Ask, Name
<1>1. CASE RequestRebuild  BY <1>1 DEF RequestRebuild
<1>2. ASSUME NEW on \in BOOLEAN, Pause(on) PROVE Typed'  BY <1>2 DEF Pause
<1>3. ASSUME NEW b \in 1..made, RequestRollback(b) PROVE Typed'  BY <1>3 DEF RequestRollback
<1> QED BY <1>1, <1>2, <1>3 DEF Curator

LEMMA TypedAgent ==
  ASSUME Typed, AgentStep \/ NoPin PROVE Typed'
<1> USE DEF Typed, TypeOK, Writing, corpusVars, curatorVars, AgentIdle, Name
<1>1. CASE TakeRollback  BY <1>1 DEF TakeRollback
<1>2. CASE Repoint
  <2> USE <1>2 DEF Repoint
  <2>1. CASE agent.build \in DOMAIN builds
    <3>1. agent.build \in Name /\ current' = agent.build /\ torn' \in BOOLEAN  BY <2>1
    <3>2. agent' = [at |-> "pin", build |-> agent.build]  BY <2>1
    <3> QED BY <3>1, <3>2
  <2>2. CASE agent.build \notin DOMAIN builds  BY <2>2
  <2> QED BY <2>1, <2>2
<1>3. CASE WritePin      BY <1>3 DEF WritePin
<1>4. CASE NoPin         BY <1>4 DEF NoPin, Fault
<1> QED BY <1>1, <1>2, <1>3, <1>4 DEF AgentStep

LEMMA TypedPass ==
  ASSUME Typed, PassStep \/ Terminate \/ Die PROVE Typed'
<1> USE DEF Typed, TypeOK, Writing, corpusVars, curatorVars, Idle, Name, Ref
<1>1. CASE Begin
  <2>1. pass' = [at |-> "prune", cur |-> current, head |-> None, pinned |-> FALSE, paused |-> FALSE]
    BY <1>1 DEF Begin
  <2>2. UNCHANGED <<main, pub, tried, request, paused, intent, asked, builds, made, current, pin,
                    status, agent, torn, faults>>
    BY <1>1 DEF Begin
  <2> HIDE <1>1
  <2> QED BY <2>1, <2>2
<1>2. CASE Prune
  <2>1. /\ DOMAIN builds' \subseteq DOMAIN builds
        /\ \A b \in DOMAIN builds' : builds'[b] = builds[b]
    BY <1>2 DEF Prune, Restrict
  <2>2. pass' = [pass EXCEPT !.at = "pull", !.pinned = pin # None, !.paused = paused]
    BY <1>2 DEF Prune
  <2>3. /\ pass' = [at |-> "pull", cur |-> pass.cur, head |-> pass.head, pinned |-> pass'.pinned,
                    paused |-> pass'.paused]
        /\ pass'.pinned \in BOOLEAN /\ pass'.paused \in BOOLEAN
    BY <2>2
  <2>4. torn' \in BOOLEAN  BY <1>2 DEF Prune
  <2>5. UNCHANGED <<main, pub, tried, request, paused, intent, asked, made, current, pin, status,
                    agent, faults>>
    BY <1>2 DEF Prune
  <2> HIDE <1>2
  <2> QED BY <2>1, <2>3, <2>4, <2>5
<1>3. ASSUME NEW new \in SUBSET (Change \ tried), Pull(new) PROVE Typed'  BY <1>3 DEF Pull
<1>4. CASE PullFails BY <1>4 DEF PullFails, Report, Fault
<1>5. CASE Refuse    BY <1>5 DEF Refuse, Report
<1>6. CASE Hold      BY <1>6 DEF Hold, Report, Outcome
<1>7. CASE Decide
  <2>1. pin' \in {pin, None} /\ request' \in BOOLEAN  BY <1>7 DEF Decide
  <2>2. pass' = [at |-> "discover", cur |-> pass.cur, head |-> main, pinned |-> pass.pinned,
                 paused |-> pass.paused]
    BY <1>7 DEF Decide
  <2>3. UNCHANGED <<main, pub, tried, paused, intent, asked, builds, made, current, status, agent,
                    torn, faults>>
    BY <1>7 DEF Decide
  <2> QED BY <2>1, <2>2, <2>3
<1>8. CASE Discover  BY <1>8 DEF Discover, Tree
<1>9. CASE NoBuild   BY <1>9 DEF NoBuild, Report
<1>10. CASE Label    BY <1>10 DEF Label
<1>11. CASE Verify
  <2>1. /\ DOMAIN builds' = DOMAIN builds /\ made \in DOMAIN builds
        /\ builds' = [builds EXCEPT ![made] = [builds[made] EXCEPT !.whole = TRUE, !.good = TRUE]]
    BY <1>11 DEF Verify
  <2>2. \A b \in DOMAIN builds : builds'[b] \in [has : SUBSET Change, at : Ref, whole : BOOLEAN,
                                                 good : BOOLEAN]
    <3> TAKE b \in DOMAIN builds
    <3>1. builds[b] \in [has : SUBSET Change, at : Ref, whole : BOOLEAN, good : BOOLEAN]  OBVIOUS
    <3> HIDE DEF Typed, Ref
    <3>2. CASE b # made  BY <2>1, <3>1, <3>2
    <3>3. CASE b = made  BY <2>1, <3>1, <3>3
    <3> QED BY <3>2, <3>3
  <2>3. pass' = [pass EXCEPT !.at = "swap"]  BY <1>11 DEF Verify
  <2>4. UNCHANGED <<main, pub, tried, request, paused, intent, asked, made, current, pin, status,
                    agent, torn, faults>>
    BY <1>11 DEF Verify
  <2> QED BY <2>1, <2>2, <2>3, <2>4
<1>12. CASE Swap     BY <1>12 DEF Swap
<1>13. CASE Sweep    BY <1>13 DEF Sweep, Restrict, Newest
<1>14. ASSUME NEW whole \in BOOLEAN, BuildFails(whole) PROVE Typed'
  BY <1>14 DEF BuildFails, Report, Fault
<1>15. CASE Terminate  BY <1>15 DEF Terminate, Report, Fault
<1>16. CASE Die        BY <1>16 DEF Die, Fault
<1> QED BY <1>1, <1>2, <1>3, <1>4, <1>5, <1>6, <1>7, <1>8, <1>9, <1>10, <1>11, <1>12, <1>13,
           <1>14, <1>15, <1>16 DEF PassStep

LEMMA TypedStep == Typed /\ [Next]_vars => Typed'
<1> SUFFICES ASSUME Typed, [Next]_vars PROVE Typed'  OBVIOUS
<1>1. CASE UNCHANGED vars
  BY <1>1 DEF vars, corpusVars, curatorVars, Typed, TypeOK, Writing
<1>2. CASE Next
  BY <1>2, TypedPublishing, TypedCurator, TypedAgent, TypedPass DEF Next
<1> QED BY <1>1, <1>2

(* The portal's state stays well-formed for every bound: names of builds are given
   once, and a build a pass is writing is there. *)
THEOREM Types == Spec => []TypeOK
<1>1. Typed => TypeOK  BY DEF Typed
<1> QED BY <1>1, TypedInit, TypedStep, PTL DEF Spec

-----------------------------------------------------------------------------
(* What is served.  While nothing is torn, a pass that prunes knows the build that is
   served, and one that sweeps serves the build it verified. *)
ServedInv ==
  /\ pass.at \in {"swap", "sweep"} => builds[made].good
  /\ ~torn => /\ pass.at = "prune" => pass.cur = current
              /\ pass.at = "sweep" => current = made
              /\ current # None => current \in DOMAIN builds /\ builds[current].good

(* The newest of a set of names is among its newest k. *)
LEMMA NewestKept ==
  ASSUME NEW S, NEW m \in S, m \in Nat, S \subseteq 1..m, NEW k \in Nat \ {0}
  PROVE  m \in Newest(k, S)
<1>1. {n \in S : n > m} = {}
  <2>1. \A n \in S : n \in 1..m  OBVIOUS
  <2>2. \A n \in S : ~(n > m)  BY <2>1
  <2> QED BY <2>2
<1>2. Cardinality({n \in S : n > m}) = 0  BY <1>1, FS_EmptySet
<1> QED BY <1>2 DEF Newest

LEMMA ServedInit == Init => ServedInv
BY DEF Init, ServedInv, Idle

LEMMA ServedPass ==
  ASSUME Typed, ServedInv, PassStep \/ Terminate \/ Die PROVE ServedInv'
<1> USE DEF Typed, TypeOK, ServedInv, Writing, corpusVars, curatorVars, Idle, Name
<1>1. CASE Begin     BY <1>1 DEF Begin
<1>2. CASE Prune
  <2>1. /\ pass'.at = "pull" /\ UNCHANGED current
        /\ ~torn' => ~torn /\ pass.cur = current
        /\ builds' = IF pass.cur = None THEN builds ELSE Restrict(builds, Kept \cap DOMAIN builds)
    BY <1>2 DEF Prune
  <2>2. pass.cur \in Kept  BY DEF Kept
  <2> QED BY <2>1, <2>2 DEF Restrict
<1>3. ASSUME NEW new \in SUBSET (Change \ tried), Pull(new) PROVE ServedInv'  BY <1>3 DEF Pull
<1>4. CASE PullFails BY <1>4 DEF PullFails, Report, Fault
<1>5. CASE Refuse    BY <1>5 DEF Refuse, Report
<1>6. CASE Hold      BY <1>6 DEF Hold, Report
<1>7. CASE Decide    BY <1>7 DEF Decide
<1>8. CASE Discover
  <2>1. /\ pass'.at = "label" /\ UNCHANGED <<current, torn>>
        /\ DOMAIN builds \subseteq DOMAIN builds'
        /\ \A b \in DOMAIN builds : builds'[b] = builds[b]
    BY <1>8 DEF Discover
  <2> QED BY <2>1
<1>9. CASE NoBuild   BY <1>9 DEF NoBuild, Report
<1>10. CASE Label
  <2>1. /\ pass'.at = "verify" /\ UNCHANGED <<current, torn>>
        /\ DOMAIN builds = DOMAIN builds'
        /\ \A b \in DOMAIN builds : builds'[b].good = builds[b].good
    BY <1>10 DEF Label
  <2> QED BY <2>1
<1>11. CASE Verify
  <2>1. /\ pass'.at = "swap" /\ UNCHANGED <<current, torn, made>>
        /\ DOMAIN builds = DOMAIN builds' /\ made \in DOMAIN builds
        /\ builds'[made].good
        /\ \A b \in DOMAIN builds : b # made => builds'[b].good = builds[b].good
    BY <1>11 DEF Verify
  <2> QED BY <2>1
<1>12. CASE Swap     BY <1>12 DEF Swap
<1>13. CASE Sweep
  <2>1. made \in Newest(Keep, DOMAIN builds)  BY <1>13, NewestKept DEF Sweep
  <2>2. /\ pass'.at = "idle" /\ current' = current /\ builds[made].good
        /\ ~torn' => ~torn /\ current = made
    BY <1>13 DEF Sweep
  <2>3. /\ made \in DOMAIN builds'
        /\ builds'[made] = builds[made]
    BY <1>13, <2>1 DEF Sweep, Restrict
  <2> HIDE DEF Typed, TypeOK
  <2> QED BY <2>2, <2>3
<1>14. ASSUME NEW whole \in BOOLEAN, BuildFails(whole) PROVE ServedInv'
  <2>1. /\ pass'.at = "idle" /\ UNCHANGED <<current, torn>>
        /\ DOMAIN builds = DOMAIN builds'
        /\ \A b \in DOMAIN builds : builds'[b].good = builds[b].good
    BY <1>14 DEF BuildFails, Report
  <2> QED BY <2>1
<1>15. CASE Terminate  BY <1>15 DEF Terminate, Report
<1>16. CASE Die        BY <1>16 DEF Die
<1> QED BY <1>1, <1>2, <1>3, <1>4, <1>5, <1>6, <1>7, <1>8, <1>9, <1>10, <1>11, <1>12, <1>13,
           <1>14, <1>15, <1>16 DEF PassStep

LEMMA ServedStep == Typed /\ ServedInv /\ [Next]_vars => ServedInv'
<1> SUFFICES ASSUME Typed, ServedInv, [Next]_vars PROVE ServedInv'  OBVIOUS
<1> USE DEF ServedInv, corpusVars, curatorVars
<1>1. CASE UNCHANGED vars  BY <1>1 DEF vars
<1>2. CASE Publishing
  BY <1>2 DEF Publishing, Stage, Land, Push, Undo
<1>3. CASE Curator
  BY <1>3 DEF Curator, RequestRebuild, Pause, RequestRollback
<1>4. CASE PassStep \/ Terminate \/ Die  BY <1>4, ServedPass
<1>5. CASE TakeRollback  BY <1>5 DEF TakeRollback
<1>6. CASE Repoint
  <2> USE <1>6 DEF Repoint, Typed
  <2>1. CASE agent.build \in DOMAIN builds
    <3>1. /\ pass' = pass /\ builds' = builds /\ made' = made /\ current' = agent.build
          /\ torn' = (torn \/ pass # Idle \/ ~builds[agent.build].good)
      BY <2>1
    <3>2. pass = Idle => pass.at = "idle"  BY DEF Idle
    <3> HIDE <1>6
    <3> QED BY <2>1, <3>1, <3>2
  <2>2. CASE agent.build \notin DOMAIN builds  BY <2>2
  <2> QED BY <2>1, <2>2
<1>7. CASE WritePin      BY <1>7 DEF WritePin
<1>8. CASE NoPin         BY <1>8 DEF NoPin
<1> QED BY <1>1, <1>2, <1>3, <1>4, <1>5, <1>6, <1>7, <1>8 DEF Next, AgentStep

(* However passes prune, fail or die and builds are left half-written, what is served is
   there and was verified, unless a rollback overlapped a pass or chose an unverified build. *)
THEOREM ServedIsWhole == Spec => []ServedWhole
<1>1. ServedInv => ServedWhole  BY DEF ServedInv, ServedWhole, Served
<1> QED BY <1>1, TypedInit, TypedStep, ServedInit, ServedStep, PTL DEF Spec

-----------------------------------------------------------------------------
(* A rollback stands.  While nothing is torn, the agent is not between its two writes
   after the pass has read the pin, which the pass then knows, and cleared if it builds. *)
Building == pass.at \in {"discover", "label", "verify", "swap", "sweep"}
PinInv ==
  ~torn => /\ agent.at = "pin" => current = agent.build
           /\ agent.at = "pin" => pass.at \in {"idle", "prune"}
           /\ pass.at \in {"pull", "decide"} => (pass.pinned <=> pin # None)
           /\ Building => pin = None
           /\ pin # None /\ agent.at # "pin" => current = pin

LEMMA PinInit == Init => PinInv
BY DEF Init, PinInv, Idle, AgentIdle, Building

LEMMA PinPass ==
  ASSUME Typed, PinInv, PassStep \/ Terminate \/ Die PROVE PinInv'
<1> USE DEF Typed, PinInv, Building, corpusVars, curatorVars, Idle
<1> HIDE DEF TypeOK
<1>0. pass \in [at : {"idle", "prune", "pull", "decide", "discover", "label", "verify", "swap",
                      "sweep"},
                cur : Name \cup {None}, head : Ref, pinned : BOOLEAN, paused : BOOLEAN]
  BY DEF TypeOK
<1>1. CASE Begin     BY <1>1 DEF Begin
<1>2. CASE Prune     BY <1>0, <1>2 DEF Prune, AgentIdle
<1>3. ASSUME NEW new \in SUBSET (Change \ tried), Pull(new) PROVE PinInv'  BY <1>0, <1>3 DEF Pull
<1>4. CASE PullFails BY <1>4 DEF PullFails, Report
<1>5. CASE Refuse    BY <1>5 DEF Refuse, Report
<1>6. CASE Hold      BY <1>6 DEF Hold, Report
<1>7. CASE Decide
  <2>1. pass.pinned => request  BY <1>7 DEF Decide, Outcome, HeldByPin
  <2> QED BY <1>0, <1>7, <2>1 DEF Decide
<1>8. CASE Discover  BY <1>0, <1>8 DEF Discover
<1>9. CASE NoBuild   BY <1>9 DEF NoBuild, Report
<1>10. CASE Label    BY <1>0, <1>10 DEF Label
<1>11. CASE Verify   BY <1>0, <1>11 DEF Verify
<1>12. CASE Swap     BY <1>0, <1>12 DEF Swap, AgentIdle
<1>13. CASE Sweep    BY <1>13 DEF Sweep
<1>14. ASSUME NEW whole \in BOOLEAN, BuildFails(whole) PROVE PinInv'
  BY <1>14 DEF BuildFails, Report
<1>15. CASE Terminate  BY <1>15 DEF Terminate, Report
<1>16. CASE Die        BY <1>16 DEF Die
<1> QED BY <1>1, <1>2, <1>3, <1>4, <1>5, <1>6, <1>7, <1>8, <1>9, <1>10, <1>11, <1>12, <1>13,
           <1>14, <1>15, <1>16 DEF PassStep

LEMMA PinStep == Typed /\ PinInv /\ [Next]_vars => PinInv'
<1> SUFFICES ASSUME Typed, PinInv, [Next]_vars PROVE PinInv'  OBVIOUS
<1> USE DEF PinInv, Building, corpusVars, curatorVars
<1>1. CASE UNCHANGED vars  BY <1>1 DEF vars
<1>2. CASE Publishing
  BY <1>2 DEF Publishing, Stage, Land, Push, Undo
<1>3. CASE Curator
  BY <1>3 DEF Curator, RequestRebuild, Pause, RequestRollback
<1>4. CASE PassStep \/ Terminate \/ Die  BY <1>4, PinPass
<1>5. CASE TakeRollback
  BY <1>5 DEF TakeRollback, AgentIdle, Typed
<1>6. CASE Repoint
  <2>1. CASE agent.build \in DOMAIN builds
    <3>1. agent = [at |-> agent.at, build |-> agent.build]  BY DEF Typed, TypeOK
    <3>2. agent' = [agent EXCEPT !.at = "pin"] /\ current' = agent.build
      BY <1>6, <2>1 DEF Repoint
    <3>3. pass' = pass /\ pin' = pin /\ (~torn' => ~torn /\ pass = Idle)
      BY <1>6, <2>1 DEF Repoint
    <3>4. agent'.at = "pin" /\ agent'.build = agent.build  BY <3>1, <3>2
    <3>5. pass = Idle => pass.at = "idle"  BY DEF Idle
    <3>6. agent.at # "pin"  BY <1>6 DEF Repoint
    <3> HIDE <1>6
    <3> QED BY <3>2, <3>3, <3>4, <3>5, <3>6
  <2>2. CASE agent.build \notin DOMAIN builds
    BY <1>6, <2>2 DEF Repoint, AgentIdle
  <2> QED BY <2>1, <2>2
<1>7. CASE WritePin      BY <1>7 DEF WritePin, AgentIdle, Typed, TypeOK
<1>8. CASE NoPin         BY <1>8 DEF NoPin
<1> QED BY <1>1, <1>2, <1>3, <1>4, <1>5, <1>6, <1>7, <1>8 DEF Next, AgentStep

(* No pass moves what is served away from a rollback until a curator asks for a rebuild,
   however passes, publishes, faults and the agent's two writes interleave. *)
THEOREM PinIsHonoured == Spec => []PinHonoured
<1>1. PinInv => PinHonoured  BY DEF PinInv, PinHonoured, AgentIdle
<1> QED BY <1>1, TypedInit, TypedStep, PinInit, PinStep, PTL DEF Spec

-----------------------------------------------------------------------------
(* Edits.  What a verified build labelled with a commit did not read of it was undone
   before it was verified, and is never made again. *)
Published(x) == x \in main \/ (pub.at # "idle" /\ x = pub.change)
Missed(b) == (builds[b].at \cap Edit) \ builds[b].has
EditInv ==
  /\ main \subseteq tried
  /\ pub.at # "idle" => pub.change \in tried
  /\ pub.at = "landed" => pub.change \in main
  /\ \A b \in DOMAIN builds : builds[b].at # None => builds[b].at \subseteq tried
  /\ pass.at = "verify" => builds[made].at # None
  /\ pass.at \in {"label", "verify"} => ~builds[made].good
  /\ \A b \in DOMAIN builds : builds[b].good /\ builds[b].at # None =>
                               \A x \in Missed(b) : ~Published(x)

LEMMA EditInit == Init => EditInv
BY DEF Init, EditInv, Quiet, Idle

(* A step that leaves the builds alone, and publishes only what was not tried before or
   what is being published already. *)
LEMMA EditFrame ==
  ASSUME Typed, EditInv,
         \A b \in DOMAIN builds' : b \in DOMAIN builds /\ builds'[b] = builds[b],
         tried \subseteq tried', main' \subseteq tried',
         \A x \in tried : Published(x)' => Published(x),
         pub'.at # "idle" => pub'.change \in tried',
         pub'.at = "landed" => pub'.change \in main',
         made' = made,
         pass'.at \in {"label", "verify"} => pass'.at = pass.at /\ made \in DOMAIN builds'
  PROVE  EditInv'
<1>1. /\ \A b \in DOMAIN builds' : builds'[b].at # None => builds'[b].at \subseteq tried'
      /\ \A b \in DOMAIN builds' : builds'[b].good /\ builds'[b].at # None =>
                               \A x \in Missed(b)' : ~Published(x)'
  <2> SUFFICES ASSUME NEW b \in DOMAIN builds'
               PROVE  /\ builds'[b].at # None => builds'[b].at \subseteq tried'
                      /\ builds'[b].good /\ builds'[b].at # None =>
                            \A x \in Missed(b)' : ~Published(x)'
    OBVIOUS
  <2>1. b \in DOMAIN builds /\ builds'[b] = builds[b]  OBVIOUS
  <2>2. builds[b].at # None => builds[b].at \subseteq tried  BY <2>1 DEF EditInv
  <2>3. Missed(b)' = Missed(b)  BY <2>1 DEF Missed
  <2>4. ASSUME builds[b].good, builds[b].at # None, NEW x \in Missed(b) PROVE ~Published(x)'
    <3>1. x \in tried  BY <2>2, <2>4 DEF Missed
    <3>2. ~Published(x)  BY <2>1, <2>4 DEF EditInv
    <3> QED BY <3>1, <3>2
  <2> QED BY <2>1, <2>2, <2>3, <2>4
<1> QED BY <1>1 DEF EditInv

LEMMA EditPublishing ==
  ASSUME Typed, EditInv, Publishing PROVE EditInv'
<1> USE DEF EditInv, Published, corpusVars, curatorVars, Quiet
<1>0. builds' = builds /\ made' = made /\ pass' = pass
  BY DEF Publishing, Stage, Land, Push, Undo
<1>1. pub.at \in {"idle", "staged", "landed"} /\ (pass.at \in {"label", "verify"} => made \in DOMAIN builds)
  BY DEF Typed, TypeOK, Writing
<1>2. ASSUME NEW c \in Change, Stage(c) PROVE EditInv'
  <2>1. \A x \in tried : Published(x)' => Published(x)  BY <1>2 DEF Stage
  <2> QED BY <1>0, <1>1, <1>2, <2>1, EditFrame DEF Stage
<1>3. CASE Land
  <2>0. pub' = [at |-> "landed", change |-> pub.change]  BY <1>3 DEF Land, Typed, TypeOK
  <2>1. \A x \in tried : Published(x)' => Published(x)  BY <1>3, <2>0 DEF Land
  <2> QED BY <1>0, <1>1, <1>3, <2>0, <2>1, EditFrame DEF Land
<1>4. CASE Push
  <2>1. \A x \in tried : Published(x)' => Published(x)  BY <1>4 DEF Push
  <2> QED BY <1>0, <1>1, <1>4, <2>1, EditFrame DEF Push
<1>5. CASE Undo
  <2>1. \A x \in tried : Published(x)' => Published(x)  BY <1>5 DEF Undo
  <2> QED BY <1>0, <1>1, <1>5, <2>1, EditFrame DEF Undo
<1> QED BY <1>2, <1>3, <1>4, <1>5 DEF Publishing

(* The steps of a pass that neither move the corpus nor write a build. *)
LEMMA EditStill ==
  ASSUME Typed, EditInv, UNCHANGED <<main, pub, tried, made>>,
         \A b \in DOMAIN builds' : b \in DOMAIN builds /\ builds'[b] = builds[b],
         pass'.at \in {"label", "verify"} => pass'.at = pass.at /\ builds' = builds
  PROVE  EditInv'
<1>1. \A x \in tried : Published(x)' => Published(x)  BY DEF Published
<1>2. pass.at \in {"label", "verify"} => made \in DOMAIN builds  BY DEF Typed, Writing
<1>3. main \subseteq tried /\ (pub.at # "idle" => pub.change \in tried)
      /\ (pub.at = "landed" => pub.change \in main)
  BY DEF EditInv
<1> QED BY <1>1, <1>2, <1>3, EditFrame

LEMMA EditPass ==
  ASSUME Typed, EditInv, PassStep \/ Terminate \/ Die PROVE EditInv'
<1> USE DEF corpusVars, curatorVars
<1>0. /\ \A b \in DOMAIN builds : builds[b] \in [has : SUBSET Change, at : Ref, whole : BOOLEAN,
                                                  good : BOOLEAN]
      /\ main \in SUBSET Change
      /\ Writing => made \in DOMAIN builds
      /\ DOMAIN builds \subseteq 1..made /\ made \in Nat
  BY DEF Typed, TypeOK
<1>1. CASE Begin     BY <1>1, EditStill DEF Begin
<1>2. CASE Prune
  <2>1. \A b \in DOMAIN builds' : b \in DOMAIN builds /\ builds'[b] = builds[b]
    BY <1>2 DEF Prune, Restrict
  <2>2. UNCHANGED <<main, pub, tried, made>> /\ pass'.at = "pull"
    BY <1>2 DEF Prune, Typed, TypeOK
  <2> QED BY <2>1, <2>2, EditStill
<1>3. ASSUME NEW new \in SUBSET (Change \ tried), Pull(new) PROVE EditInv'
  <2>1. /\ builds' = builds /\ made' = made /\ pass'.at = "decide"
        /\ main' = main \cup new /\ tried' = tried \cup new /\ pub' = pub
    BY <1>3 DEF Pull, Typed, TypeOK
  <2>2. \A x \in tried : Published(x)' => Published(x)  BY <2>1 DEF Published
  <2>3. main \subseteq tried /\ (pub.at # "idle" => pub.change \in tried)
        /\ (pub.at = "landed" => pub.change \in main)
    BY DEF EditInv
  <2> QED BY <2>1, <2>2, <2>3, EditFrame
<1>4. CASE PullFails BY <1>4, EditStill DEF PullFails, Report, Idle
<1>5. CASE Refuse    BY <1>5, EditStill DEF Refuse, Report, Idle
<1>6. CASE Hold      BY <1>6, EditStill DEF Hold, Report, Idle
<1>7. CASE Decide    BY <1>7, EditStill DEF Decide, Typed, TypeOK
<1>8. CASE Discover
  <2>1. /\ DOMAIN builds' = DOMAIN builds \cup {made'} /\ made' = made + 1
        /\ \A b \in DOMAIN builds : builds'[b] = builds[b]
        /\ builds'[made'].at = None /\ ~builds'[made'].good
        /\ pass'.at = "label"
        /\ main' = main /\ pub' = pub /\ tried' = tried
    <3>1. made' = made + 1 /\ made' \notin DOMAIN builds  BY <1>0, <1>8 DEF Discover
    <3> QED BY <1>8, <3>1 DEF Discover, Typed, TypeOK
  <2> QED BY <2>1 DEF EditInv, Published, Missed
<1>9. CASE NoBuild   BY <1>9, EditStill DEF NoBuild, Report, Idle
<1>10. CASE Label
  <2>1. /\ DOMAIN builds' = DOMAIN builds /\ made' = made /\ made \in DOMAIN builds
        /\ \A b \in DOMAIN builds \ {made} : builds'[b] = builds[b]
        /\ builds'[made].at = main /\ builds'[made].good = builds[made].good
        /\ pass.at = "label" /\ pass'.at = "verify"
        /\ main' = main /\ pub' = pub /\ tried' = tried
    BY <1>10, <1>0 DEF Label, Writing, Typed, TypeOK
  <2>2. main # None  BY <1>0
  <2> QED BY <2>1, <2>2 DEF EditInv, Published, Missed
<1>11. CASE Verify
  <2>1. /\ DOMAIN builds' = DOMAIN builds /\ made' = made /\ made \in DOMAIN builds
        /\ \A b \in DOMAIN builds \ {made} : builds'[b] = builds[b]
        /\ builds'[made].at = builds[made].at /\ builds'[made].has = builds[made].has
        /\ builds[made].has \cap Edit = Tree \cap Edit
        /\ pass.at = "verify" /\ pass'.at = "swap"
        /\ main' = main /\ pub' = pub /\ tried' = tried
    BY <1>11, <1>0 DEF Verify, Writing, Fresh, Typed, TypeOK
  <2>2. \A x \in Missed(made) : ~Published(x)
    <3>1. \A x : Published(x) => x \in Tree
      BY DEF Published, Tree, EditInv, Typed, TypeOK
    <3> QED BY <2>1, <3>1 DEF Missed
  <2> QED BY <2>1, <2>2 DEF EditInv, Published, Missed
<1>12. CASE Swap     BY <1>12, EditStill DEF Swap, Typed, TypeOK
<1>13. CASE Sweep
  <2>1. \A b \in DOMAIN builds' : b \in DOMAIN builds /\ builds'[b] = builds[b]
    BY <1>13 DEF Sweep, Restrict, Newest
  <2>2. UNCHANGED <<main, pub, tried, made>> /\ pass'.at = "idle"
    BY <1>13 DEF Sweep, Idle
  <2> QED BY <2>1, <2>2, EditStill
<1>14. ASSUME NEW whole \in BOOLEAN, BuildFails(whole) PROVE EditInv'
  <2>1. /\ DOMAIN builds' = DOMAIN builds /\ made' = made
        /\ \A b \in DOMAIN builds : /\ builds'[b].at = builds[b].at
                                    /\ builds'[b].has = builds[b].has
                                    /\ builds'[b].good = builds[b].good
        /\ pass'.at = "idle"
        /\ main' = main /\ pub' = pub /\ tried' = tried
    BY <1>14, <1>0 DEF BuildFails, Report, Idle
  <2> QED BY <2>1 DEF EditInv, Published, Missed
<1>15. CASE Terminate  BY <1>15, EditStill DEF Terminate, Report, Idle
<1>16. CASE Die        BY <1>16, EditStill DEF Die, Idle
<1> QED BY <1>1, <1>2, <1>3, <1>4, <1>5, <1>6, <1>7, <1>8, <1>9, <1>10, <1>11, <1>12, <1>13,
           <1>14, <1>15, <1>16 DEF PassStep

LEMMA EditStep == Typed /\ EditInv /\ [Next]_vars => EditInv'
<1> SUFFICES ASSUME Typed, EditInv, [Next]_vars PROVE EditInv'  OBVIOUS
<1> USE DEF corpusVars, curatorVars
<1>1. CASE UNCHANGED vars  BY <1>1, EditStill DEF vars
<1>2. CASE Publishing  BY <1>2, EditPublishing
<1>3. CASE Curator
  BY <1>3, EditStill DEF Curator, RequestRebuild, Pause, RequestRollback
<1>4. CASE PassStep \/ Terminate \/ Die  BY <1>4, EditPass
<1>5. CASE AgentStep \/ NoPin
  BY <1>5, EditStill DEF AgentStep, TakeRollback, Repoint, WritePin, NoPin
<1> QED BY <1>1, <1>2, <1>3, <1>4, <1>5 DEF Next

(* A pass that ends in noop leaves no published edit unserved, though its builds read a
   working tree that changes under them and publishes are undone. *)
THEOREM EditsAreServed == Spec => []EditsServed
<1>1. Typed /\ EditInv => EditsServed
  <2> SUFFICES ASSUME Typed, EditInv, pass.at = "decide", Outcome = "noop", builds[current].good
               PROVE  main \cap Edit \subseteq builds[current].has
    BY DEF EditsServed
  <2>1. Built = main  BY DEF Outcome, Drift
  <2>2. main # None  BY DEF Typed, TypeOK
  <2>3. current \in DOMAIN builds /\ builds[current].at = main
    BY <2>1, <2>2 DEF Built, Served
  <2>4. \A x \in Missed(current) : ~Published(x)  BY <2>2, <2>3 DEF EditInv
  <2> QED BY <2>3, <2>4 DEF Missed, Published
<1> QED BY <1>1, TypedInit, TypedStep, EditInit, EditStep, PTL DEF Spec
=============================================================================
