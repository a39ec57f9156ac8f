---------------------------- MODULE ReplicaProofs ----------------------------
(***************************************************************************)
(* Proofs about Replica: the composition does nothing to the portal that   *)
(* Serve does not, and the public site is whole and recorded, for every    *)
(* number of builds kept, publishes by hand and cuts.                      *)
(***************************************************************************)
EXTENDS Replica, ServeProofs


(* Whoever sends, the portal moves as Serve lets it. *)
THEOREM ReplicaRefinesServe == RSpec => Spec
<1>1. RInit => Init  BY DEF RInit
<1>2. [RNext]_<<vars, replicaVars>> => [Next]_vars
  BY DEF RNext, Host
<1> QED BY <1>1, <1>2, PTL DEF RSpec, Spec

-----------------------------------------------------------------------------
(* The agent publishes only between passes; what is swapped in is whole; the two
   writes of a receive are in order. *)
SendType == [at : {"idle", "due", "ask", "build", "sidecar", "receive", "swap", "record", "prune"},
             build : Name \cup {None}]
RInv ==
  /\ RTypeOK
  /\ pass.at # "idle" => At("agent", "idle")
  /\ \A s \in Sender : At(s, "swap") => store[Sent(s)].dir = "whole"
  /\ live # None => store[live].dir = "whole"
  /\ \A s \in Sender : At(s, "record") => live = Sent(s)
  /\ \A s \in Sender : At(s, "prune") => record = live
  /\ (\A s \in Sender : ~At(s, "record")) /\ ~cut => record = live

LEMMA OneSends ==
  ASSUME RTypeOK, NEW s \in Sender, NEW r \in SendType, send' = [send EXCEPT ![s] = r]
  PROVE  /\ send' \in [Sender -> SendType] /\ send'[s] = r
         /\ \A u \in Sender : u # s => send'[u] = send[u]
BY DEF RTypeOK, SendType

Held == [dir : {"none", "part", "whole"}, side : BOOLEAN]
LEMMA StoreOne ==
  ASSUME store \in [Name -> Held], NEW b \in Name, NEW h \in Held
  PROVE  [store EXCEPT ![b] = h] \in [Name -> Held]
OBVIOUS

LEMMA HeldExcept ==
  ASSUME NEW h \in Held
  PROVE  /\ [h EXCEPT !.side = TRUE] = [dir |-> h.dir, side |-> TRUE]
         /\ \A left \in {"part", "none"} : [h EXCEPT !.dir = left] = [dir |-> left, side |-> h.side]
<1>1. [h EXCEPT !.side = TRUE] = [dir |-> h.dir, side |-> TRUE]
  <2>1. \A v : [h EXCEPT !.side = v] = [dir |-> h.dir, side |-> v]  BY DEF Held
  <2> QED BY <2>1, Zenon
<1>2. ASSUME NEW left \in {"part", "none"}
      PROVE  [h EXCEPT !.dir = left] = [dir |-> left, side |-> h.side]
  BY DEF Held
<1> QED BY <1>1, <1>2

LEMMA RInvInit == RInit => RInv
<1> SUFFICES ASSUME RInit PROVE RInv  OBVIOUS
<1>1. /\ pass.at = "idle" /\ live = None /\ record = None /\ cut = FALSE /\ target \in BOOLEAN
      /\ byHand \in 0..MaxByHand /\ cuts \in 0..MaxCuts
      /\ send = [s \in Sender |-> [at |-> "idle", build |-> None]]
      /\ store = [b \in Name |-> [dir |-> "none", side |-> FALSE]]
  BY DEF RInit, Init, Idle, NotSending, Absent
<1> QED BY <1>1 DEF RInv, RTypeOK, At, Sent, Receiving, Sender

(* A pass that settles what is served runs, so the agent is not publishing yet. *)
LEMMA SettlesRuns == Typed /\ Settles => pass.at # "idle" /\ pass' = Idle
BY DEF Settles, Sweep, Hold, Report

LEMMA RInvHost ==
  ASSUME Typed, RInv, Host(Next) PROVE RInv'
<1>1. /\ UNCHANGED <<target, live, record, store, cut, byHand, cuts>>
      /\ pass' # Idle => At("agent", "idle")
      /\ send' = IF target /\ Settles THEN [send EXCEPT !["agent"].at = "due"] ELSE send
  BY DEF Host
<1>2. pass'.at # "idle" => pass' # Idle  BY DEF Idle
<1>3. CASE target /\ Settles
  <2>1. At("agent", "idle") /\ pass'.at = "idle"  BY <1>3, SettlesRuns DEF RInv, Idle
  <2>2. send["agent"] \in SendType /\ send["agent"].build = None
    BY <2>1 DEF RInv, RTypeOK, At, Sender, SendType
  <2>3. /\ send' \in [Sender -> SendType] /\ send'["operator"] = send["operator"]
        /\ send'["agent"].at = "due" /\ send'["agent"].build = None
    BY <1>1, <1>3, <2>2 DEF RInv, RTypeOK, Sender, SendType
  <2> QED BY <1>1, <2>1, <2>3 DEF RInv, RTypeOK, At, Sent, Receiving, Sender, SendType
<1>4. CASE ~(target /\ Settles)
  <2>1. /\ UNCHANGED <<target, live, record, store, cut, byHand, cuts, send>>
        /\ pass'.at # "idle" => At("agent", "idle")
    BY <1>1, <1>2, <1>4
  <2> QED BY <2>1 DEF RInv, RTypeOK, At, Sent, Receiving
<1> QED BY <1>3, <1>4

LEMMA RInvSend ==
  ASSUME Typed, RInv, UNCHANGED vars,
         Publish \/ (\E b \in Sendable : ByHand(b)) \/ (\E s \in Sender : Cut(s))
  PROVE  RInv'
<1> USE DEF At, Sent, Go, End, NotSending, Receiving
<1>0. UNCHANGED <<pass, current, builds, made>>  BY DEF vars
<1>a. \A b \in DOMAIN builds : b \in Name  BY ServeAssumption DEF Typed, TypeOK, Name
<1>b. /\ \A s \in Sender : send[s] \in SendType
      /\ send = [s \in Sender |-> send[s]]
  BY DEF RInv, RTypeOK, SendType
<1>1. CASE Resolve
  <2> DEFINE r == IF current \in Sendable THEN [at |-> "ask", build |-> current]
                                         ELSE [at |-> "idle", build |-> None]
  <2>1. /\ send' = [send EXCEPT !["agent"] = r]
        /\ UNCHANGED <<target, live, record, store, cut, byHand, cuts>> /\ At("agent", "due")
    BY <1>1 DEF Resolve
  <2>2. r \in SendType /\ r.at \in {"ask", "idle"} /\ (r.build = None <=> r.at = "idle")
    BY ServeAssumption, <1>a DEF Sendable, SendType, Name
  <2> HIDE DEF r
  <2>3. pass.at = "idle"  BY <2>1 DEF RInv
  <2>4. /\ send' \in [Sender -> SendType] /\ send'["agent"] = r
        /\ \A u \in Sender : u # "agent" => send'[u] = send[u]
    BY <2>1, <2>2, OneSends DEF RInv, Sender
  <2> QED BY <1>0, <2>1, <2>2, <2>3, <2>4 DEF RInv, RTypeOK, Sender, SendType
<1>2. ASSUME NEW b \in Sendable, ByHand(b) PROVE RInv'
  <2> DEFINE r == [at |-> "ask", build |-> b]
  <2>1. b \in Name  BY <1>a DEF Sendable
  <2>2. r \in SendType /\ b # None  BY ServeAssumption, <2>1 DEF SendType, Name
  <2>3. /\ send' = [send EXCEPT !["operator"] = r] /\ r.at = "ask" /\ r.build = b
        /\ UNCHANGED <<target, live, record, store, cut, cuts>> /\ byHand' \in 0..MaxByHand
        /\ At("operator", "idle")
    BY <1>2, ReplicaAssumption DEF ByHand, RInv, RTypeOK
  <2> HIDE DEF r
  <2>4. /\ send' \in [Sender -> SendType] /\ send'["operator"] = r
        /\ \A u \in Sender : u # "operator" => send'[u] = send[u]
    BY <2>2, <2>3, OneSends DEF RInv, Sender
  <2> QED BY <1>0, <2>2, <2>3, <2>4 DEF RInv, RTypeOK, Sender, SendType
<1>3. ASSUME NEW s \in Sender, AskReceiver(s) PROVE RInv'
  BY <1>0, <1>3 DEF AskReceiver, RInv, RTypeOK, Sender
<1>4. ASSUME NEW s \in Sender, SendBuild(s) PROVE RInv'
  BY <1>0, <1>4 DEF SendBuild, RInv, RTypeOK, Sender
<1>5. ASSUME NEW s \in Sender, SendSidecar(s) PROVE RInv'
  <2>1. /\ store' \in [Name -> [dir : {"none", "part", "whole"}, side : BOOLEAN]]
        /\ \A b \in Name : store'[b].dir = store[b].dir
    <3>1. store \in [Name -> Held]  BY DEF RInv, RTypeOK, Held
    <3>2. Sent(s) \in Name  BY <1>5, <1>b DEF SendSidecar, SendType, RInv, RTypeOK
    <3> DEFINE h == [dir |-> store[Sent(s)].dir, side |-> TRUE]
    <3>3. h \in Held /\ [store[Sent(s)] EXCEPT !.side = TRUE] = h
      BY <3>1, <3>2, HeldExcept DEF Held
    <3>4. store' = store \/ store' = [store EXCEPT ![Sent(s)] = h]
      BY <1>5, <3>3 DEF SendSidecar
    <3> HIDE <1>5
    <3>5. store' \in [Name -> Held]  BY <3>1, <3>2, <3>3, <3>4, StoreOne
    <3>6. h.dir = store[Sent(s)].dir  OBVIOUS
    <3> HIDE DEF h
    <3> QED BY <3>1, <3>4, <3>5, <3>6 DEF Held
  <2>2. /\ UNCHANGED <<target, live, record, cut, byHand, cuts>>
        /\ send' \in {[send EXCEPT ![s].at = "receive"],
                      [send EXCEPT ![s] = [at |-> "idle", build |-> None]]}
        /\ At(s, "sidecar")
    BY <1>5 DEF SendSidecar
  <2> HIDE <1>5
  <2> QED BY <1>0, <2>1, <2>2 DEF RInv, RTypeOK, Sender, SendType
<1>6. ASSUME NEW s \in Sender, Receive(s) PROVE RInv'
  BY <1>0, <1>6 DEF Receive, Free, Recorded, Verified, NameOf, RInv, RTypeOK, Sender
<1>7. ASSUME NEW s \in Sender, SwapIn(s) PROVE RInv'
  BY <1>0, <1>7 DEF SwapIn, RInv, RTypeOK, Sender
<1>8. ASSUME NEW s \in Sender, Record(s) PROVE RInv'
  BY <1>0, <1>8 DEF Record, RInv, RTypeOK, Sender
<1>9. ASSUME NEW s \in Sender, PruneSent(s) PROVE RInv'
  <2>1. /\ UNCHANGED <<target, live, record, byHand, cuts>> /\ cut' = FALSE /\ record = live
        /\ send' = [send EXCEPT ![s] = [at |-> "idle", build |-> None]]
        /\ At(s, "prune")
    BY <1>9 DEF PruneSent, RInv
  <2>2. store' \in [Name -> [dir : {"none", "part", "whole"}, side : BOOLEAN]]
    BY <1>9 DEF PruneSent, RInv, RTypeOK, Absent
  <2>3. live # None => store'[live].dir = "whole"
    <3>1. ASSUME live # None PROVE live \in Name /\ live \notin Pruned(Sent(s))
      BY <3>1 DEF Pruned, NameOf, RInv, RTypeOK
    <3> QED BY <1>9, <3>1 DEF PruneSent, RInv
  <2>4. \A u \in Sender : u # s => ~Receiving(u)
    BY <2>1 DEF RInv, RTypeOK, Sender
  <2> QED BY <1>0, <2>1, <2>2, <2>3, <2>4 DEF RInv, RTypeOK, Sender, SendType
<1>10. ASSUME NEW s \in Sender, Cut(s) PROVE RInv'
  <2>1. /\ UNCHANGED <<target, live, record, byHand>> /\ cuts' \in 0..MaxCuts
        /\ cut' = (cut \/ At(s, "record"))
        /\ send' = [send EXCEPT ![s] = [at |-> "idle", build |-> None]]
    BY <1>10, ReplicaAssumption DEF Cut, RInv, RTypeOK
  <2>2. store' \in [Name -> [dir : {"none", "part", "whole"}, side : BOOLEAN]]
    <3>1. store \in [Name -> Held]  BY DEF RInv, RTypeOK, Held
    <3>2. \A b \in Name, left \in {"part", "none"} :
            [store EXCEPT ![b].dir = left] \in [Name -> Held]
      <4> TAKE b \in Name, left \in {"part", "none"}
      <4>1. [store[b] EXCEPT !.dir = left] \in Held  BY <3>1, HeldExcept DEF Held
      <4> QED BY <3>1, <4>1, StoreOne
    <3>3. At(s, "build") => Sent(s) \in Name  BY <1>b DEF SendType, RInv, RTypeOK
    <3>4. \A b \in Pruned(Sent(s)) : b \in Name  BY DEF Pruned, Complete
    <3>5. \/ store' = store
          \/ At(s, "build") /\ store' = [store EXCEPT ![Sent(s)].dir = "part"]
          \/ \E b \in Pruned(Sent(s)), left \in {"part", "none"} : store' = [store EXCEPT ![b].dir = left]
      BY <1>10 DEF Cut
    <3> HIDE <1>10
    <3>6. store' \in [Name -> Held]
      <4>1. CASE store' = store  BY <3>1, <4>1
      <4>2. CASE At(s, "build") /\ store' = [store EXCEPT ![Sent(s)].dir = "part"]
        BY <3>2, <3>3, <4>2
      <4>3. ASSUME NEW b \in Pruned(Sent(s)), NEW left \in {"part", "none"},
                   store' = [store EXCEPT ![b].dir = left]
            PROVE  store' \in [Name -> Held]
        BY <3>2, <3>4, <4>3
      <4> QED BY <3>5, <4>1, <4>2, <4>3
    <3> QED BY <3>6 DEF Held
  <2>3. \A b \in Name : store[b].dir = "whole" /\ (b = live \/ ~At(s, "prune"))
                        => store'[b].dir = "whole"
    <3> SUFFICES ASSUME NEW b \in Name, store[b].dir = "whole", b = live \/ ~At(s, "prune")
                 PROVE  store'[b].dir = "whole"
      OBVIOUS
    <3>1. b = live => b \notin Pruned(Sent(s))  BY DEF Pruned, NameOf, Name
    <3>2. CASE store' = store  BY <3>2
    <3>3. CASE store[Sent(s)].dir = "none" /\ store' = [store EXCEPT ![Sent(s)].dir = "part"]
      BY <3>3 DEF RInv, RTypeOK
    <3>4. ASSUME At(s, "prune"), NEW c \in Pruned(Sent(s)), NEW left \in {"part", "none"},
                 store' = [store EXCEPT ![c].dir = left]
          PROVE  store'[b].dir = "whole"
      BY <3>1, <3>4 DEF RInv, RTypeOK
    <3> QED BY <1>10, <3>2, <3>3, <3>4 DEF Cut
  <2>4. At(s, "prune") => \A u \in Sender : ~At(u, "swap")
    BY DEF RInv, RTypeOK, Sender
  <2>5. \A u \in Sender : At(u, "swap") => Sent(u) \in Name
    BY <1>b DEF RInv, RTypeOK, SendType
  <2>6. live # None => live \in Name  BY DEF RInv, RTypeOK
  <2>7. /\ live' # None => store'[live'].dir = "whole"
        /\ \A u \in Sender : At(u, "swap") => store'[Sent(u)].dir = "whole"
    BY <2>1, <2>3, <2>4, <2>5, <2>6 DEF RInv
  <2>8. send'[s] = [at |-> "idle", build |-> None] /\ \A u \in Sender : u # s => send'[u] = send[u]
    BY <1>b, <2>1
  <2>9. send' \in [Sender -> SendType]  BY <1>b, <2>1 DEF SendType
  <2> HIDE <1>10
  <2>10. RTypeOK'  BY <2>1, <2>2, <2>9 DEF RInv, RTypeOK, SendType
  <2>11. pass'.at # "idle" => send'["agent"].at = "idle"
    BY <1>0, <2>8 DEF RInv, At, Sender
  <2>12. \A u \in Sender : At(u, "record")' => live' = Sent(u)'
    BY <2>1, <2>8 DEF RInv, At, Sent
  <2>13. \A u \in Sender : At(u, "prune")' => record' = live'
    BY <2>1, <2>8 DEF RInv, At
  <2>14. (\A u \in Sender : ~At(u, "record")') /\ ~cut' => record' = live'
    BY <2>1, <2>8 DEF RInv, At
  <2>15. \A u \in Sender : At(u, "swap")' => At(u, "swap") /\ Sent(u)' = Sent(u)
    BY <2>8 DEF At, Sent
  <2> QED BY <2>7, <2>10, <2>11, <2>12, <2>13, <2>14, <2>15 DEF RInv, At, Sent
<1> QED BY <1>1, <1>2, <1>3, <1>4, <1>5, <1>6, <1>7, <1>8, <1>9, <1>10 DEF Publish, Sending

LEMMA RInvStep == Typed /\ RInv /\ [RNext]_<<vars, replicaVars>> => RInv'
<1> SUFFICES ASSUME Typed, RInv, [RNext]_<<vars, replicaVars>> PROVE RInv'  OBVIOUS
<1>1. CASE UNCHANGED <<vars, replicaVars>>
  BY <1>1 DEF vars, replicaVars, RInv, RTypeOK, At, Sent, Receiving
<1>2. CASE RNext  BY <1>2, RInvHost, RInvSend DEF RNext
<1> QED BY <1>1, <1>2

LEMMA RInvAlways == RSpec => []RInv
<1>1. [RNext]_<<vars, replicaVars>> => [Next]_vars  BY DEF RNext, Host
<1>2. RInit => Init  BY DEF RInit
<1> QED BY <1>1, <1>2, TypedInit, TypedStep, RInvInit, RInvStep, PTL DEF RSpec

(* The replica's state is well-formed, and no two receives hold the lock. *)
THEOREM ReplicaTypes == RSpec => []RTypeOK
<1>1. RInv => RTypeOK  BY DEF RInv
<1> QED BY <1>1, RInvAlways, PTL

(* The public site is always a build that is there with all its files, whatever is cut
   and however publishes of the agent and of an operator overlap. *)
THEOREM ReplicaIsWhole == RSpec => []ReplicaWhole
<1>1. RInv => ReplicaWhole  BY DEF RInv, ReplicaWhole
<1> QED BY <1>1, RInvAlways, PTL

(* published.json tells the truth whenever no receive runs, but after a cut between the
   swap and the record. *)
THEOREM RecordIsTrue == RSpec => []RecordTrue
<1>1. RInv => RecordTrue  BY DEF RInv, RecordTrue, Free, Receiving, At
<1> QED BY <1>1, RInvAlways, PTL
=============================================================================
