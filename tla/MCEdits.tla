------------------------------- MODULE MCEdits -------------------------------
(* Instances of Edits for TLC. *)
EXTENDS Edits, TLC

CONSTANTS a, b, e1, e2, c1, c2      \* two surveys and their stations, two changes

Want(kind, on, drop, valid) == [kind |-> kind, on |-> on, drop |-> drop, valid |-> valid]

Edit == Want("edit", {a}, {}, TRUE)
DropOne == Want("stations", {a}, {e1}, TRUE)
DropOther == Want("stations", {a}, {e2}, TRUE)
Batch == Want("collection", {a, b}, {}, TRUE)
BadBatch == Want("collection", {a, b}, {}, FALSE)
RetireA == Want("retire", {a}, {}, TRUE)
RetireB == Want("retire", {b}, {}, TRUE)

(* two changes of one survey or of both; removals that together would empty a survey,
   or the corpus; a batch the validator fails *)
Rivals == {<<Edit, Edit>>, <<Edit, DropOne>>, <<Edit, Batch>>, <<Edit, RetireA>>,
           <<DropOne, DropOther>>, <<DropOne, Batch>>, <<RetireA, Batch>>,
           <<RetireA, RetireB>>, <<BadBatch, Edit>>}
MCWanted == {(c1 :> r[1]) @@ (c2 :> r[2]) : r \in Rivals}
TwoEdits == {(c1 :> Edit) @@ (c2 :> Edit)}

(* handlers are interchangeable: sound for safety *)
Symmetry == Permutations(Handler)
=============================================================================
