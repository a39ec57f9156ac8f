------------------------------- MODULE Ledger -------------------------------
(***************************************************************************)
(* What surveys-live promises a curator (gateway/publish.py): main at the   *)
(* origin grows by whole changes only, each writing exactly the bytes its   *)
(* preview showed and nothing else, and none that the validator fails.      *)
(*                                                                         *)
(* A survey is the list of changes its survey.yaml records (its release     *)
(* notes) and the set of its EDI files; a retired survey is Gone.           *)
(***************************************************************************)
EXTENDS Naturals, Sequences

CONSTANTS Change,    \* the changes curators have in mind
          Slug,      \* surveys
          Station,   \* EDI files of a survey
          Outside,   \* a change made by somebody else, through git
          Gone       \* the content of a survey that was retired

VARIABLES order,     \* [Change -> what the curator wants]
          shown,     \* [Change -> the previews shown: survey -> new release notes]
          log        \* main at origin: commits, each with its author and the corpus it leaves

Orders ==
  {o \in [kind : {"edit", "stations", "collection", "retire"}, on : SUBSET Slug,
          drop : SUBSET Station, valid : BOOLEAN] :
     /\ o.on # {} /\ (o.kind # "collection" => \E s \in Slug : o.on = {s})
     /\ (o.kind = "stations") <=> (o.drop # {})
     /\ o.kind = "retire" => o.valid}

New == [notes |-> <<>>, edis |-> Station]

(* the surveys change c writes, of which preview p was confirmed *)
Touched(c, p) == IF order[c].kind = "retire" THEN order[c].on ELSE DOMAIN p

(* the corpus after it *)
After(before, c, p) ==
  [s \in Slug |->
     IF s \notin Touched(c, p) THEN before[s]
     ELSE IF order[c].kind = "retire" THEN Gone
     ELSE [notes |-> p[s], edis |-> before[s].edis \ order[c].drop]]

\* a retirement shows no bytes
Seen(c) == IF order[c].kind = "retire" THEN {<<>>} ELSE shown[c]

(* a valid change, of surveys that are there, from one corpus to another *)
Lands(before, after) ==
  \E c \in Change : /\ order[c].valid
                    /\ \E p \in Seen(c) : /\ \A s \in Touched(c, p) : before[s] # Gone
                                          /\ after = After(before, c, p)

Prefix(r, q) == Len(r) <= Len(q) /\ SubSeq(q, 1, Len(r)) = r

Consecutive(i, j, cuts) == i < j /\ \A k \in cuts : ~(i < k /\ k < j)

(* From its commit number first on, ref consists of whole changes one after the other.
   A batch is several commits; and there is more than one change when others were
   merged and not pushed as the gateway died. *)
WholeSince(ref, first) ==
  \E cuts \in SUBSET (first..Len(ref)) :
    /\ first \in cuts /\ Len(ref) \in cuts
    /\ \A i, j \in cuts : Consecutive(i, j, cuts) => Lands(ref[i].corpus, ref[j].corpus)

(* a curator may have a preview open, made of the surveys as they were first published *)
FirstPages ==
  {[c \in Change |-> IF c \in open THEN {[s \in order[c].on |-> <<c>>]} ELSE {}] :
     open \in SUBSET {c \in Change : order[c].kind # "retire"}}

Init == /\ order \in [Change -> Orders]
        /\ shown \in FirstPages
        /\ log = <<[by |-> Outside, corpus |-> [s \in Slug |-> New]]>>

Show(c) == /\ shown' = [shown EXCEPT ![c] = shown'[c]]
           /\ shown[c] \subseteq shown'[c]
           /\ UNCHANGED <<order, log>>

Land == Prefix(log, log') /\ WholeSince(log', Len(log)) /\ UNCHANGED <<order, shown>>

Elsewhere(s) ==
  LET corpus == log[Len(log)].corpus IN
  /\ corpus[s] # Gone
  /\ log' = Append(log, [by |-> Outside,
                         corpus |-> [corpus EXCEPT ![s].notes = Append(@, Outside)]])
  /\ UNCHANGED <<order, shown>>

Next == (\E c \in Change : Show(c)) \/ Land \/ (\E s \in Slug : Elsewhere(s))

Spec == Init /\ [][Next]_<<order, shown, log>>
=============================================================================
