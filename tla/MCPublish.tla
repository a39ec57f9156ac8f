------------------------------ MODULE MCPublish ------------------------------
(* Instances of Publish for TLC. *)
EXTENDS Publish, TLC

(* submissions and slugs are interchangeable: sound for the safety run *)
Symmetry == Permutations(Sub) \cup Permutations(Slug)
=============================================================================
