------------------------------- MODULE MCServe -------------------------------
(* Instances of Serve, Replica and Releases for TLC. *)
EXTENDS Releases, TLC

CONSTANTS e, n      \* an edit of a survey, a new survey

Left(without, asks, fails) == [tried |-> without, asked |-> MaxAsked - asks, faults |-> MaxFaults - fails]

(* an edit with two presses, or with a press and a fault; two changes and a press; an
   edit, or no change, and neither *)
Full == {Left({n}, 2, 0), Left({n}, 1, 1), Left({}, 1, 0), Left({n}, 1, 0), Left({n}, 0, 0),
         Left({e, n}, 0, 0)}
(* changes only *)
Calm == {Left({}, 0, 0)}

(* all of that with no replica; with one, an edit, a cut, and either a press or a
   publish by hand; or an edit while releases are cut, three runs of the tool, or one
   that may stop; or no change, and two runs of which one may stop *)
Presses(k) == MaxAsked - asked = k
NoReplica == ~target /\ byHand = MaxByHand /\ cuts = MaxCuts
NoTool == runs = MaxRuns /\ stops = MaxStops
Shares == \/ NoReplica /\ NoTool
          \/ /\ target /\ n \in tried /\ faults = MaxFaults /\ NoTool
             /\ \/ Presses(1) /\ byHand = MaxByHand
                \/ Presses(0) /\ byHand < MaxByHand
             /\ cuts < MaxCuts
          \/ /\ NoReplica /\ faults = MaxFaults /\ Presses(0)
             /\ \/ tried = {n} /\ runs = 0 /\ stops = MaxStops
                \/ tried = {n} /\ runs = MaxRuns - 1 /\ stops < MaxStops
                \/ tried = Change /\ runs = MaxRuns - 2 /\ stops < MaxStops

(* fair behaviours, and any, from these initial states *)
all == <<vars, replicaVars, releaseVars>>
PortalInit == RelInit /\ Shares
PortalSpec == PortalInit /\ [][RelNext]_all /\ RFairness
AloneInit == RelInit /\ NoReplica /\ NoTool
AloneSpec == AloneInit /\ [][RelNext]_all
=============================================================================
