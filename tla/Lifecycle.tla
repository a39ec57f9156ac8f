------------------------------ MODULE Lifecycle ------------------------------
(***************************************************************************)
(* What the gateway promises about one submission row: the state table of *)
(* gateway/states.py, moved only through Database.insert_submission and    *)
(* Database.transition (gateway/db.py).  The detailed modules (Ingest,     *)
(* Publish) are checked, and proved, to implement this one.                *)
(***************************************************************************)
CONSTANT Sub            \* submission ids

VARIABLE row            \* row[s]: the state column, "none" before the insert

vars == row

(* states.ALL_STATES *)
RowState == {"RECEIVED", "SCANNED", "VALIDATED", "QUARANTINED", "REJECTED_AV",
             "RETURNED", "REJECTED", "PUBLISHING", "PUBLISHED", "PUBLISH_FAILED"}

(* states.TERMINAL *)
Terminal == {"QUARANTINED", "REJECTED_AV", "RETURNED", "REJECTED", "PUBLISHED"}

(* states.ALLOWED *)
Allowed == {<<"RECEIVED", "SCANNED">>,
            <<"RECEIVED", "REJECTED_AV">>,
            <<"SCANNED", "VALIDATED">>,
            <<"SCANNED", "QUARANTINED">>,
            <<"VALIDATED", "PUBLISHING">>,
            <<"VALIDATED", "RETURNED">>,
            <<"VALIDATED", "REJECTED">>,
            <<"PUBLISHING", "PUBLISHED">>,
            <<"PUBLISHING", "PUBLISH_FAILED">>,
            <<"PUBLISH_FAILED", "PUBLISHING">>}

Init == row = [s \in Sub |-> "none"]

(* Database.insert_submission: the row and its opening audit entry, one txn *)
Insert(s) == /\ row[s] = "none"
             /\ row' = [row EXCEPT ![s] = "RECEIVED"]

(* Database.transition: refuses every move outside ALLOWED before writing *)
Transition(s, to) == /\ <<row[s], to>> \in Allowed
                     /\ row' = [row EXCEPT ![s] = to]

Next == \E s \in Sub : \/ Insert(s)
                       \/ \E to \in RowState : Transition(s, to)

Spec == Init /\ [][Next]_vars

=============================================================================
