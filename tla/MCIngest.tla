------------------------------ MODULE MCIngest ------------------------------
(* Instances of Ingest for TLC. *)
EXTENDS Ingest, TLC

(* submission ids and contents are interchangeable: sound for the safety runs *)
Symmetry == Permutations(Sub) \cup Permutations(Content)

(* two submissions whose job may wait too long, or one (the other client sends the
   same bytes) for which processes die as well *)
Same == \A s, t \in Sub : content[s] = content[t]
AnswerInit == Init /\ \/ (\A s \in Sub : content[s] = s) /\ crashes = MaxCrashes
                      \/ \A s \in Sub : content[s] = CHOOSE c \in Content : TRUE
AnswerNext == \/ \E s \in Sub : Upload(s) \/ Poll(s)
              \/ PollPass \/ RunnerStep \/ Beat \/ Clock \/ Curator \/ GatewayCrash
              \/ Same /\ RunnerCrash
AnswerSpec == AnswerInit /\ [][AnswerNext]_vars /\ Fairness
=============================================================================
