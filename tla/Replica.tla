------------------------------- MODULE Replica ------------------------------
(***************************************************************************)
(* The public replica: deploy/scripts/publish.sh sends the build the        *)
(* curation host serves, deploy/scripts/receive-build.sh on the replica     *)
(* checks it, swaps it in, records it and prunes.  Composed with Serve: the *)
(* agent publishes after every pass that settles what is served, under      *)
(* reconcile.lock, while its builds come and go and a curator rolls back;   *)
(* an operator runs the same script by hand, under no lock.                 *)
(*                                                                         *)
(* Only receives exclude each other.  A build is never changed once made,   *)
(* so a copy of it is missing files or is whole; a sidecar that arrived     *)
(* lists all files of its build.  The agent publishes before it writes the  *)
(* status of the pass; here after, which only its next pass reads.          *)
(***************************************************************************)
EXTENDS Serve

CONSTANTS KeepSent,    \* AUSMT_PUBLISH_KEEP
          MaxByHand,   \* bound on publishes by hand
          MaxCuts      \* bound on connections lost and processes killed

ASSUME ReplicaAssumption == KeepSent \in Nat \ {0} /\ {MaxByHand, MaxCuts} \subseteq Nat

VARIABLES
  target,    \* is a replica configured?
  live,      \* the replica's site-data/current
  record,    \* ts in its published.json
  store,     \* its site-data/builds: name -> the directory and its sidecar
  send,      \* the runs of publish.sh, and of the receiver they call
  cut,       \* was the last receive to get past its swap cut off?  (history)
  byHand, cuts    \* (bounds)

replicaVars == <<target, live, record, store, send, cut, byHand, cuts>>

Sender == {"agent", "operator"}
NotSending == [at |-> "idle", build |-> None]
Absent == [dir |-> "none", side |-> FALSE]

RInit == /\ Init
         /\ target \in BOOLEAN
         /\ live = None /\ record = None /\ cut = FALSE
         /\ store = [b \in Name |-> Absent]
         /\ send = [s \in Sender |-> NotSending]
         /\ byHand \in 0..MaxByHand /\ cuts \in 0..MaxCuts

At(s, step) == send[s].at = step
Sent(s) == send[s].build
Go(s, step) == send' = [send EXCEPT ![s].at = step]
End(s) == send' = [send EXCEPT ![s] = NotSending]

\* "publish.sh" needs build.json
Sendable == {b \in DOMAIN builds : builds[b].whole}

(* run_publish sends what is served *)
Resolve ==
  /\ At("agent", "due")
  /\ send' = [send EXCEPT !["agent"] = IF current \in Sendable THEN [at |-> "ask", build |-> current]
                                                               ELSE NotSending]
  /\ UNCHANGED <<target, live, record, store, cut, byHand, cuts>>

(* make publish ARGS="--build <ts>" *)
ByHand(b) ==
  /\ target /\ At("operator", "idle") /\ b \in Sendable
  /\ byHand < MaxByHand /\ byHand' = byHand + 1
  /\ send' = [send EXCEPT !["operator"] = [at |-> "ask", build |-> b]]
  /\ UNCHANGED <<target, live, record, store, cut, cuts>>

\* current_name: a current whose directory is gone names no build
NameOf(link) == IF link # None /\ store[link].dir # "none" THEN link ELSE None

(* receive-build.sh --current: a build already served is only confirmed *)
AskReceiver(s) ==
  /\ At(s, "ask")
  /\ Go(s, IF NameOf(live) = Sent(s) THEN "receive" ELSE "build")
  /\ UNCHANGED <<target, live, record, store, cut, byHand, cuts>>

(* the sidecar is written beside the build, and the build is copied: a build
   the host has pruned fails the publish *)
SendBuild(s) ==
  /\ At(s, "build")
  /\ IF Sent(s) \in DOMAIN builds
     THEN store' = [store EXCEPT ![Sent(s)].dir = "whole"] /\ Go(s, "sidecar")
     ELSE UNCHANGED store /\ End(s)
  /\ UNCHANGED <<target, live, record, cut, byHand, cuts>>

SendSidecar(s) ==
  /\ At(s, "sidecar")
  /\ IF Sent(s) \in DOMAIN builds
     THEN store' = [store EXCEPT ![Sent(s)].side = TRUE] /\ Go(s, "receive")
     ELSE UNCHANGED store /\ End(s)
  /\ UNCHANGED <<target, live, record, cut, byHand, cuts>>

-----------------------------------------------------------------------------
(* The receiver. *)

Receiving(s) == send[s].at \in {"swap", "record", "prune"}

\* receives do not wait for one another: ReplicaWhole, RTypeOK
FaultyFree == TRUE
Free == \A s \in Sender : ~Receiving(s)

\* what is served already is not recorded again: RecordTrue
FaultyRecorded(b) == NameOf(live) = b
Recorded(b) == NameOf(live) = b /\ record = b

(* every file the sidecar lists is there and has the digest it gives *)
Verified(b) == store[b].side /\ store[b].dir = "whole"

(* flock; the build is refused, found current, or verified *)
Receive(s) ==
  /\ At(s, "receive") /\ Free
  /\ IF store[Sent(s)].dir # "none" /\ Recorded(Sent(s)) THEN Go(s, "prune")
     ELSE IF Verified(Sent(s)) THEN Go(s, "swap")
     ELSE End(s)
  /\ UNCHANGED <<target, live, record, store, cut, byHand, cuts>>

SwapIn(s) ==
  /\ At(s, "swap")
  /\ live' = Sent(s) /\ Go(s, "record")
  /\ UNCHANGED <<target, record, store, cut, byHand, cuts>>

Record(s) ==
  /\ At(s, "record")
  /\ record' = Sent(s) /\ Go(s, "prune")
  /\ UNCHANGED <<target, live, store, cut, byHand, cuts>>

(* a build without its sidecar is not counted and not removed; the one received and
   the one served are skipped *)
Complete == {b \in Name : store[b].side /\ store[b].dir # "none"}
Pruned(b) == Complete \ (Newest(KeepSent, Complete) \cup {b, NameOf(live)})

PruneSent(s) ==
  /\ At(s, "prune")
  /\ store' = [b \in Name |-> IF b \in Pruned(Sent(s)) THEN Absent ELSE store[b]]
  /\ End(s) /\ cut' = FALSE
  /\ UNCHANGED <<target, live, record, byHand, cuts>>

(* the connection is lost or a process is killed: a copy or a removal stays half done *)
Cut(s) ==
  /\ ~At(s, "idle") /\ cuts < MaxCuts
  /\ cuts' = cuts + 1 /\ End(s)
  /\ \/ At(s, "build") /\ store[Sent(s)].dir = "none"
        /\ store' = [store EXCEPT ![Sent(s)].dir = "part"]
     \/ At(s, "prune") /\ \E b \in Pruned(Sent(s)), left \in {"part", "none"} :
          store' = [store EXCEPT ![b].dir = left]
     \/ UNCHANGED store
  /\ cut' = (cut \/ At(s, "record"))
  /\ UNCHANGED <<target, live, record, byHand>>

-----------------------------------------------------------------------------
Sending(s) == \/ AskReceiver(s) \/ SendBuild(s) \/ SendSidecar(s)
              \/ Receive(s) \/ SwapIn(s) \/ Record(s) \/ PruneSent(s)

(* a pass that settles what is served publishes it before it releases its lock *)
\* a publish that failed is not made up for: CatchesUp
FaultySettling == {"rebuilt"}
Settling == {"rebuilt", "noop", "paused", "pinned"}
Settles == Sweep \/ (Hold /\ status'.action \in Settling)

Host(Step) ==
  /\ Step
  /\ pass' # Idle => At("agent", "idle")
  /\ IF target /\ Settles THEN send' = [send EXCEPT !["agent"].at = "due"] ELSE UNCHANGED send
  /\ UNCHANGED <<target, live, record, store, cut, byHand, cuts>>

Publish == Resolve \/ \E s \in Sender : Sending(s)
RNext == \/ Host(Next)
         \/ Publish /\ UNCHANGED vars
         \/ (\E b \in Sendable : ByHand(b)) /\ UNCHANGED vars
         \/ (\E s \in Sender : Cut(s)) /\ UNCHANGED vars

RSpec == RInit /\ [][RNext]_<<vars, replicaVars>>

(* Timers start passes again and again, builds and publishes end: git commands and the
   unit have timeouts, ssh gives up on a dead connection, flock -w on a lock. *)
RFairness ==
  /\ WF_vars(Host(PassStep)) /\ WF_vars(Host(Land \/ Push \/ Undo))
  /\ WF_replicaVars(Publish /\ UNCHANGED vars)
RFairSpec == RSpec /\ RFairness

-----------------------------------------------------------------------------
(* Types; one receiver at a time has the lock, and every run but the idle ones names
   what it sends. *)
RTypeOK ==
  /\ {live, record} \subseteq Name \cup {None}
  /\ store \in [Name -> [dir : {"none", "part", "whole"}, side : BOOLEAN]]
  /\ send \in [Sender -> [at : {"idle", "due", "ask", "build", "sidecar", "receive", "swap", "record",
                                "prune"}, build : Name \cup {None}]]
  /\ \A s \in Sender : (send[s].build = None) <=> (send[s].at \in {"idle", "due"})
  /\ ~(Receiving("agent") /\ Receiving("operator"))
  /\ {target, cut} \subseteq BOOLEAN /\ byHand \in 0..MaxByHand /\ cuts \in 0..MaxCuts

(* The public site is always a build that is there with all its files, whatever transfers
   and prunes were cut off half-way and however publishes by the agent and by hand
   overlap (receive-build.sh 10-36). *)
ReplicaWhole == live # None => store[live].dir = "whole"

(* published.json names the build that is served when no receive is under way, unless
   the last one was cut off between its swap and its record; the next one repairs that
   (receive-build.sh 172-176, publish.sh 122-136). *)
RecordTrue == Free /\ ~cut => record = live

(* The replica comes to serve what the curation host serves, once that stays the same
   and passes go on settling it: a noop pass makes up for a publish that was missed,
   and a pinned one brings a rollback to the public (deploy/README.md 1398-1402). *)
Steady(b) == /\ current = b /\ b \in Sendable
             /\ status.action \in {"rebuilt", "noop", "paused", "pinned"}
CatchesUp == target => \A b \in Name : <>[]Steady(b) => <>[](live = b /\ record = b)
=============================================================================
