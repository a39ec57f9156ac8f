------------------------------- MODULE MCKeys -------------------------------
(* Instances of Keys for TLC. *)
EXTENDS Keys, TLC

CONSTANT k1

(* uploads under a mailed key *)
Uploads == /\ key = [s \in Sub |-> k1] /\ keys[k1] = Mailed
           /\ day = 0
           /\ \A a \in Ask : asker[a] = NoAddress

(* uploads under the operator's *)
Nights == /\ key = [s \in Sub |-> EnvKey] /\ keys[k1] = Dead
          /\ day = 0
          /\ \A a \in Ask : asker[a] = NoAddress

(* requests for a key, and no uploads *)
Requests == /\ key = [s \in Sub |-> NoKey] /\ keys[k1] = NoRow
            /\ day = 0
            /\ \A a \in Ask : asker[a] \in Address

(* every client has something else to send: duplicates are the matter of MCIngest *)
KeysInit == KInit /\ crashes = 0 /\ (\A s \in Sub : content[s] = s) /\ (Uploads \/ Nights \/ Requests)
KeysSpec == KeysInit /\ [][KNext]_<<vars, keyVars>>

(* ids, requests and addresses are interchangeable *)
Symmetry == Permutations(Sub) \cup Permutations(Ask) \cup Permutations(Address)
=============================================================================
