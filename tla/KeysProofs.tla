----------------------------- MODULE KeysProofs -----------------------------
(***************************************************************************)
(* Proofs about Keys, for every set of submissions, keys and requests and  *)
(* for every limit: keys only ever restrict what Ingest does, a key is     *)
(* good for its allowance and little more, and the caps of a day hold.     *)
(***************************************************************************)
EXTENDS Keys, IngestProofs

(* Whatever the keys allow or refuse, an upload takes the steps of Ingest, so all that is
   proved of Ingest holds here. *)
LEMMA KeysSteps == [KNext]_<<vars, keyVars>> => [Next]_vars
<1> SUFFICES ASSUME KNext PROVE Next \/ UNCHANGED vars
  BY DEF vars, keyVars
<1>1. ASSUME NEW s \in Sub, Handler(s) PROVE Next \/ UNCHANGED vars
  <2>1. KSubmit(s) => Submit(s)  BY DEF KSubmit
  <2>2. KInsert(s) => Insert(s)  BY DEF KInsert
  <2>3. Spend(s) \/ SpendFails(s) => UNCHANGED vars  BY DEF Spend, SpendFails, vars
  <2>4. StampFails(s) => Scanned(s, "error")  BY DEF StampFails
  <2> QED BY <1>1, <2>1, <2>2, <2>3, <2>4 DEF Handler, Next, Upload, Verdicts
<1>2. Rest => Next  BY DEF Rest, Next, Upload
<1>3. KCrash => Next  BY DEF KCrash, Next
<1>4. (\E k \in Key : Create(k) \/ Revoke(k) \/ Expire(k)) => UNCHANGED vars
  BY DEF Create, Revoke, Expire, WriteKey, vars
<1>5. (\E a \in Ask : Thread(a)) => UNCHANGED vars
  BY DEF Thread, Begin, Permit, Deny, Mint, MintFails, Alone, WriteKey, vars
<1>6. Midnight => UNCHANGED vars  BY DEF Midnight, vars
<1> QED BY <1>1, <1>2, <1>3, <1>4, <1>5, <1>6 DEF KNext, Next

THEOREM KeysRefineIngest == KSpec => Spec
<1>1. KInit => Init  BY DEF KInit
<1> QED BY <1>1, KeysSteps, PTL DEF KSpec, Spec

-----------------------------------------------------------------------------
(* The rows that there are, and the uploads that are to have one. *)
Rows == {s \in Sub : row[s] # "none"}
Bodies == {s \in Sub : req[s] = "body"}
Still == Rows' = Rows /\ Bodies' \subseteq Bodies

LEMMA PollStill ==
  ASSUME TypeInv, Ctl, NEW s \in Sub, Poll(s)
  PROVE  Still
<1> USE DEF Ctl, TypeInv, Move, SegOps, Rows, Bodies, Still, dbVars, memVars, Owe, NoSeg, Free
<1>1. CASE RetrySkip(s)         BY <1>1 DEF RetrySkip
<1>2. CASE RetryScan(s)         BY <1>2 DEF RetryScan
<1>3. CASE \E v \in Verdicts : Rescanned(s, v)
  <2> PICK v \in Verdicts : Rescanned(s, v)  BY <1>3
  <2> QED BY DEF Rescanned, Apply, ScanOver, Hold, StillHeld
<1>4. CASE IngestDrop(s)        BY <1>4 DEF IngestDrop
<1>5. CASE IngestFailed(s)      BY <1>5 DEF IngestFailed
<1>6. CASE IngestValidated(s)   BY <1>6 DEF IngestValidated
<1>7. CASE \E clean \in BOOLEAN : Swept(s, clean)
  <2> PICK clean \in BOOLEAN : Swept(s, clean)  BY <1>7
  <2> QED BY DEF Swept
<1>8. CASE Archive(s)           BY <1>8 DEF Archive
<1>9. CASE RequeueSkip(s)       BY <1>9 DEF RequeueSkip
<1>10. CASE RequeueDrop(s)      BY <1>10 DEF RequeueDrop
<1>11. CASE RequeueMark(s)      BY <1>11 DEF RequeueMark
<1>12. CASE RequeueUnlink(s)    BY <1>12 DEF RequeueUnlink
<1>13. CASE GiveUp(s)           BY <1>13 DEF GiveUp
<1>14. CASE Unmark(s)           BY <1>14 DEF Unmark
<1>15. CASE Bury(s)             BY <1>15 DEF Bury
<1> QED BY <1>1, <1>2, <1>3, <1>4, <1>5, <1>6, <1>7, <1>8, <1>9, <1>10, <1>11, <1>12, <1>13, <1>14, <1>15 DEF Poll

(* Only an insert makes a row, only a submit begins a body. *)
LEMMA ScannedStill ==
  ASSUME TypeInv, Ctl, NEW s \in Sub, NEW v \in Verdicts, Scanned(s, v)
  PROVE  Still
BY DEF Ctl, TypeInv, Move, Rows, Bodies, Still, Scanned, Apply, ScanOver, Hold, StillHeld

LEMMA RestStill ==
  ASSUME TypeInv, Ctl, Rest
  PROVE  Still
<1> USE DEF Ctl, TypeInv, Move, SegOps, Rows, Bodies, Still, dbVars, memVars, Owe, NoSeg, Free
<1>1. ASSUME NEW s \in Sub, Refuse(s) \/ Promote(s) \/ RejectAV(s) \/ QueueJob(s)
      PROVE  Still
  <2>1. CASE Refuse(s)    BY <2>1 DEF Refuse
  <2>2. CASE Promote(s)   BY <2>2 DEF Promote
  <2>3. CASE RejectAV(s)  BY <2>3 DEF RejectAV
  <2>4. CASE QueueJob(s)  BY <2>4 DEF QueueJob
  <2> QED BY <1>1, <2>1, <2>2, <2>3, <2>4
<1>2. CASE PollPass  BY <1>2 DEF PollPass, PollStart, RetryEnd, IngestEnd, RequeueEnd
<1>3. CASE Curator  BY <1>3 DEF Curator, Decide
<1> QED BY <1>1, <1>2, <1>3, PollStill, ScannedStill DEF Rest

(* The runner and the clock leave all of this alone. *)
LEMMA RunnerStill == Runner \/ Clock => UNCHANGED <<row, req, seg>>
<1> USE DEF gwVars, dbVars, memVars
<1>1. Clock => UNCHANGED <<row, req, seg>>  BY DEF Clock, AgePending, AgeRunning
<1>2. RunnerStep => UNCHANGED <<row, req, seg>>
  BY DEF RunnerStep, Claim, Unpack, ReadFails, Retire, Finish
<1>3. Beat \/ RunnerCrash => UNCHANGED <<row, req, seg>>  BY DEF Beat, RunnerCrash
<1> QED BY <1>1, <1>2, <1>3 DEF Runner
-----------------------------------------------------------------------------
(* A charge is owed only while no other stretch of the gateway runs. *)
KTyped == KTypeOK /\ (spend # NoSub => Free)

(* The account of a key.  While submissions are left, those accepted are paid for, owed or
   slipped.  Once none are left, nobody begins: what may still be accepted is in flight
   already, beside the row whose charge was the last. *)
Pending(k) == IF spend # NoSub /\ key[spend] = k THEN 1 ELSE 0
Beginning(k) == {s \in Bodies : key[s] = k}
Balanced(k) ==
  /\ keys[k] = NoRow => Accepted(k) = {} /\ Beginning(k) = {}
  /\ keys[k].kind = "email" /\ keys[k].left > 0 =>
       Cardinality(Accepted(k)) <= Allowance - keys[k].left + Pending(k) + slips[k]
  /\ keys[k].kind = "email" /\ keys[k].left = 0 =>
       Cardinality(Accepted(k) \cup Beginning(k)) <= Allowance + (MaxInflight - 1) + slips[k]
Account == \A k \in Key : Balanced(k)

(* The rows of a day, with the uploads that may still come to it. *)
RowsOf(d) == {s \in Rows : born[s] = d}
DayRows ==
  /\ \A s \in Rows : born[s] \in 0..day
  /\ Cardinality(RowsOf(day) \cup Bodies) <= MaxPerDay
  /\ \A d \in Day : Cardinality(RowsOf(d)) <= MaxPerDay

(* The requests logged on the day they began. *)
SameDay(d) == {a \in Logged(d) : asks[a].since = d}
SameDayFor(d, who) == {a \in SameDay(d) : asker[a] = who}
DayAsks ==
  \A d \in Day :
    /\ IsFiniteSet(Logged(d))
    /\ Cardinality(SameDay(d)) <= PerDay
    /\ \A who \in Address : Cardinality(SameDayFor(d, who)) <= PerAddress

-----------------------------------------------------------------------------
KeyRow == [status : {"none", "active", "expired", "revoked"},
           kind : {"none", "email", "operator"}, left : 0..Allowance]
AskRow == [at : {"idle", "begun", "permitted", "over"}, since : Day \cup {Never}, logged : Day \cup {Never}]

LEMMA KeyConstants ==
  /\ Allowance \in Nat \ {0} /\ MaxPerDay \in Nat \ {0} /\ PerDay \in Nat \ {0}
  /\ PerAddress \in Nat \ {0} /\ MaxDays \in Nat /\ MaxInflight \in Nat \ {0}
  /\ EnvKey \notin Key /\ NoKey \notin Key /\ Never \notin Day
  /\ NoRow \in KeyRow /\ Mailed \in KeyRow /\ Issued \in KeyRow /\ Dead \in KeyRow
<1>1. /\ Allowance \in Nat \ {0} /\ MaxPerDay \in Nat \ {0} /\ PerDay \in Nat \ {0}
      /\ PerAddress \in Nat \ {0} /\ MaxDays \in Nat /\ MaxInflight \in Nat \ {0}
      /\ EnvKey \notin Key /\ NoKey \notin Key
  BY KeysAssumption, IngestAssumption
<1> QED BY <1>1 DEF NoRow, Mailed, Issued, Dead, KeyRow, Never, Day

(* What is written of a key, and of a request. *)
LEMMA KeyOne ==
  ASSUME keys \in [Key -> KeyRow], NEW k \in Key, NEW r \in KeyRow, keys' = [keys EXCEPT ![k] = r]
  PROVE  /\ keys' \in [Key -> KeyRow] /\ keys'[k] = r
         /\ \A j \in Key \ {k} : keys'[j] = keys[j]
OBVIOUS

LEMMA KeyExcept ==
  ASSUME NEW h \in KeyRow
  PROVE  /\ \A v : [h EXCEPT !.left = v] = [status |-> h.status, kind |-> h.kind, left |-> v]
         /\ \A v : [h EXCEPT !.status = v] = [status |-> v, kind |-> h.kind, left |-> h.left]
BY DEF KeyRow

LEMMA AskOne ==
  ASSUME asks \in [Ask -> AskRow], NEW a \in Ask, NEW r \in AskRow, asks' = [asks EXCEPT ![a] = r]
  PROVE  /\ asks' \in [Ask -> AskRow] /\ asks'[a] = r
         /\ \A b \in Ask \ {a} : asks'[b] = asks[b]
OBVIOUS

LEMMA AskExcept ==
  ASSUME NEW h \in AskRow, NEW d \in Day
  PROVE  /\ [h EXCEPT !.at = "over"] = [at |-> "over", since |-> h.since, logged |-> h.logged]
         /\ [h EXCEPT !.at = "begun", !.since = d] = [at |-> "begun", since |-> d, logged |-> h.logged]
         /\ [h EXCEPT !.at = "permitted", !.logged = d] =
              [at |-> "permitted", since |-> h.since, logged |-> d]
<1>1. [h EXCEPT !.at = "over"] = [at |-> "over", since |-> h.since, logged |-> h.logged]  BY DEF AskRow
<1>2. [h EXCEPT !.at = "begun", !.since = d] = [at |-> "begun", since |-> d, logged |-> h.logged]
  <2> DEFINE g == [h EXCEPT !.at = "begun"]
  <2>1. [h EXCEPT !.at = "begun", !.since = d] = [g EXCEPT !.since = d]  BY DEF AskRow
  <2>2. g = [at |-> "begun", since |-> h.since, logged |-> h.logged]  BY DEF AskRow
  <2> HIDE DEF g
  <2> QED BY <2>1, <2>2
<1>3. [h EXCEPT !.at = "permitted", !.logged = d] =
        [at |-> "permitted", since |-> h.since, logged |-> d]
  <2> DEFINE g == [h EXCEPT !.at = "permitted"]
  <2>1. [h EXCEPT !.at = "permitted", !.logged = d] = [g EXCEPT !.logged = d]  BY DEF AskRow
  <2>2. g = [at |-> "permitted", since |-> h.since, logged |-> h.logged]  BY DEF AskRow
  <2> HIDE DEF g
  <2> QED BY <2>1, <2>2
<1> QED BY <1>1, <1>2, <1>3

(* What a charge does: one less, if there is one. *)
LEMMA SpendIs ==
  ASSUME KTyped, NEW s \in Sub, Spend(s)
  PROVE  LET k == key[s]
         IN /\ k \in Key /\ keys[k].kind = "email" /\ row[s] = "RECEIVED" /\ spend = s
            /\ keys' \in [Key -> KeyRow]
            /\ \A j \in Key \ {k} : keys'[j] = keys[j]
            /\ keys'[k] = [status |-> keys[k].status, kind |-> "email",
                           left |-> IF keys[k].left > 0 THEN keys[k].left - 1 ELSE 0]
<1> DEFINE k == key[s]
           n == IF keys[k].left > 0 THEN keys[k].left - 1 ELSE 0
           r == [status |-> keys[k].status, kind |-> keys[k].kind, left |-> n]
<1>1. /\ k \in Key /\ keys[k].kind = "email" /\ row[s] = "RECEIVED" /\ spend = s
      /\ keys \in [Key -> KeyRow]
  BY DEF Spend, KTyped, KTypeOK, Charged, KeyRow
<1>2. keys[k] \in KeyRow  BY <1>1
<1>3. keys[k].left \in 0..Allowance  BY <1>2 DEF KeyRow
<1>4. n \in 0..Allowance  BY <1>3, KeyConstants
<1>5. r \in KeyRow  BY <1>2, <1>4 DEF KeyRow
<1>6. [keys[k] EXCEPT !.left = n] = r
  <2>1. \A v : [keys[k] EXCEPT !.left = v] = [status |-> keys[k].status, kind |-> keys[k].kind, left |-> v]
    BY <1>2, KeyExcept
  <2> HIDE DEF n
  <2> QED BY <2>1, Zenon
<1>7. keys' = [keys EXCEPT ![k] = r]
  <2>1. keys' = [keys EXCEPT ![k].left = n]  BY DEF Spend, Spent
  <2> QED BY <1>6, <2>1
<1>8. r.kind = "email"  BY <1>1
<1> HIDE DEF n
<1>9. /\ keys' \in [Key -> KeyRow] /\ keys'[k] = r
      /\ \A j \in Key \ {k} : keys'[j] = keys[j]
  <2> HIDE DEF r, k
  <2> QED BY <1>1, <1>5, <1>7, KeyOne
<1> QED BY <1>1, <1>9 DEF n

LEMMA SlipIs ==
  ASSUME KTyped, NEW s \in Sub, spend = s, Slip(s)
  PROVE  /\ key[s] \in Key /\ slips' \in [Key -> Nat]
         /\ slips'[key[s]] = slips[key[s]] + 1
         /\ \A j \in Key \ {key[s]} : slips'[j] = slips[j]
BY IngestAssumption DEF KTyped, KTypeOK, Charged, Slip

(* How the rows of uploader_keys change but for charges. *)
Written(k, r) ==
  /\ keys' \in [Key -> KeyRow] /\ keys'[k] = r /\ r # NoRow
  /\ \A j \in Key \ {k} : keys'[j] = keys[j]
  /\ \/ keys[k] = NoRow /\ r \in {Issued, Mailed}
     \/ r.kind = keys[k].kind /\ r.left = keys[k].left /\ keys[k] # NoRow
LEMMA WriteIs ==
  ASSUME KTyped, NEW k \in Key, Create(k) \/ Revoke(k) \/ Expire(k) \/ \E a \in Ask : Mint(a, k)
  PROVE  /\ \E r \in KeyRow : Written(k, r)
         /\ UNCHANGED <<row, req, seg, key, spend, day, born, asker, slips>>
<1>1. keys \in [Key -> KeyRow] /\ keys[k] \in KeyRow  BY DEF KTyped, KTypeOK, KeyRow
<1>2. UNCHANGED <<row, req, seg, key, spend, day, born, asker, slips>>
  BY DEF Create, Revoke, Expire, Mint, WriteKey, vars
<1>3. CASE Create(k) \/ \E a \in Ask : Mint(a, k)
  <2>1. keys[k] = NoRow /\ \E r \in {Issued, Mailed} : keys' = [keys EXCEPT ![k] = r]
    BY <1>3 DEF Create, Mint, WriteKey
  <2>2. PICK r \in {Issued, Mailed} : keys' = [keys EXCEPT ![k] = r]  BY <2>1
  <2>3. r \in KeyRow /\ r # NoRow  BY KeyConstants DEF NoRow, Issued, Mailed
  <2>4. Written(k, r)  BY <1>1, <2>1, <2>2, <2>3, KeyOne DEF Written
  <2> QED BY <1>2, <2>3, <2>4
<1>4. CASE Revoke(k) \/ Expire(k)
  <2>1. \E v \in {"revoked", "expired"} : keys' = [keys EXCEPT ![k] = [keys[k] EXCEPT !.status = v]]
    BY <1>4 DEF Revoke, Expire, WriteKey
  <2>2. PICK v \in {"revoked", "expired"} : keys' = [keys EXCEPT ![k] = [keys[k] EXCEPT !.status = v]]
    BY <2>1
  <2> DEFINE r == [status |-> v, kind |-> keys[k].kind, left |-> keys[k].left]
  <2>3. [keys[k] EXCEPT !.status = v] = r  BY <1>1, KeyExcept
  <2>4. r \in KeyRow  BY <1>1 DEF KeyRow
  <2>5. keys[k] # NoRow  BY <1>4 DEF Revoke, Expire, NoRow
  <2>6. r.kind = keys[k].kind /\ r.left = keys[k].left /\ r # NoRow  BY DEF NoRow
  <2>7. keys' = [keys EXCEPT ![k] = r]  BY <2>2, <2>3
  <2> HIDE DEF r
  <2>8. Written(k, r)  BY <1>1, <2>4, <2>5, <2>6, <2>7, KeyOne DEF Written
  <2> QED BY <1>2, <2>4, <2>8
<1> QED BY <1>3, <1>4
(* A request moves on: it notes the day it begins, or it is logged, or neither. *)
LEMMA ThreadIs ==
  ASSUME KTyped, NEW a \in Ask, Thread(a)
  PROVE  /\ asks' \in [Ask -> AskRow] /\ day' = day /\ asker' = asker
         /\ \A b \in Ask \ {a} : asks'[b] = asks[b]
         /\ \/ asks[a] = Unasked /\ asks'[a].logged = asks[a].logged
            \/ asks'[a].since = asks[a].since /\ asks'[a].logged = asks[a].logged
            \/ /\ asks'[a].since = asks[a].since /\ asks'[a].logged = day
               /\ Room(asks[a].since, asker[a])
<1>1. asks \in [Ask -> AskRow] /\ asks[a] \in AskRow /\ day \in Day
  BY DEF KTyped, KTypeOK, AskRow
<1>2. day' = day /\ asker' = asker
  BY DEF Thread, Begin, Permit, Deny, Mint, MintFails, Alone, WriteKey
<1>3. CASE Begin(a)
  <2> DEFINE r == [at |-> "begun", since |-> day, logged |-> asks[a].logged]
  <2>1. asks[a] = Unasked  BY <1>3 DEF Begin
  <2>2. asks' = [asks EXCEPT ![a] = r]
    <3>1. asks' = [asks EXCEPT ![a] = [asks[a] EXCEPT !.at = "begun", !.since = day]]
      BY <1>3 DEF Begin, Go
    <3> QED BY <1>1, <3>1, AskExcept
  <2>3. r \in AskRow  BY <1>1 DEF AskRow
  <2>4. r.logged = asks[a].logged  OBVIOUS
  <2> HIDE DEF r
  <2> QED BY <1>1, <1>2, <2>1, <2>2, <2>3, <2>4, AskOne
<1>4. CASE Permit(a)
  <2> DEFINE r == [at |-> "permitted", since |-> asks[a].since, logged |-> day]
  <2>1. Room(asks[a].since, asker[a])  BY <1>4 DEF Permit
  <2>2. asks' = [asks EXCEPT ![a] = r]
    <3>1. asks' = [asks EXCEPT ![a] = [asks[a] EXCEPT !.at = "permitted", !.logged = day]]
      BY <1>4 DEF Permit, Go
    <3> QED BY <1>1, <3>1, AskExcept
  <2>3. r \in AskRow  BY <1>1 DEF AskRow
  <2>4. r.since = asks[a].since /\ r.logged = day  OBVIOUS
  <2> HIDE DEF r
  <2> QED BY <1>1, <1>2, <2>1, <2>2, <2>3, <2>4, AskOne
<1>5. CASE Deny(a) \/ MintFails(a) \/ \E k \in Key : Mint(a, k)
  <2> DEFINE r == [at |-> "over", since |-> asks[a].since, logged |-> asks[a].logged]
  <2>1. asks' = [asks EXCEPT ![a] = r]
    <3>1. asks' = [asks EXCEPT ![a] = [asks[a] EXCEPT !.at = "over"]]
      BY <1>5 DEF Deny, MintFails, Mint, GoOver, Go
    <3> QED BY <1>1, <3>1, AskExcept
  <2>2. r \in AskRow  BY <1>1 DEF AskRow
  <2>3. r.since = asks[a].since /\ r.logged = asks[a].logged  OBVIOUS
  <2> HIDE DEF r
  <2> QED BY <1>1, <1>2, <2>1, <2>2, <2>3, AskOne
<1> QED BY <1>3, <1>4, <1>5 DEF Thread

LEMMA ThreadFrame ==
  ASSUME NEW a \in Ask, Begin(a) \/ Permit(a) \/ Deny(a) \/ MintFails(a)
  PROVE  UNCHANGED <<row, req, seg, key, keys, spend, born, slips>>
BY DEF Begin, Permit, Deny, MintFails, Alone, vars

(* A crash ends the requests in flight; what was logged stays. *)
LEMMA CrashIs ==
  ASSUME KTyped, KCrash
  PROVE  /\ asks' \in [Ask -> AskRow]
         /\ \A a \in Ask : asks'[a].since = asks[a].since /\ asks'[a].logged = asks[a].logged
         /\ UNCHANGED <<row, key, keys, day, born, asker>>
         /\ spend' = NoSub /\ seg' = NoSeg /\ Bodies' = {}
         /\ \/ spend = NoSub /\ slips' = slips
            \/ spend \in Sub /\ Slip(spend)
<1>1. asks \in [Ask -> AskRow]  BY DEF KTyped, KTypeOK, AskRow
<1>2. asks' = [a \in Ask |-> IF asks[a].at = "idle" THEN asks[a] ELSE [asks[a] EXCEPT !.at = "over"]]
  BY DEF KCrash
<1>3. ASSUME NEW a \in Ask
      PROVE  /\ asks'[a] \in AskRow
             /\ asks'[a].since = asks[a].since /\ asks'[a].logged = asks[a].logged
  <2>1. day \in Day  BY DEF KTyped, KTypeOK
  <2>2. [asks[a] EXCEPT !.at = "over"] = [at |-> "over", since |-> asks[a].since, logged |-> asks[a].logged]
    BY <1>1, <2>1, AskExcept
  <2>3. asks'[a] \in {asks[a], [at |-> "over", since |-> asks[a].since, logged |-> asks[a].logged]}
    BY <1>2, <2>2
  <2> QED BY <1>1, <2>3 DEF AskRow
<1>4. asks' \in [Ask -> AskRow]  BY <1>2, <1>3
<1>5. UNCHANGED <<row, key, keys, day, born, asker>> /\ spend' = NoSub /\ seg' = NoSeg /\ Bodies' = {}
  BY DEF KCrash, GatewayCrash, dbVars, Bodies
<1>6. \/ spend = NoSub /\ slips' = slips
      \/ spend \in Sub /\ Slip(spend)
  BY DEF KCrash, KTyped, KTypeOK
<1> QED BY <1>3, <1>4, <1>5, <1>6

-----------------------------------------------------------------------------
LEMMA KTypedInit == KInit => KTyped
<1> SUFFICES ASSUME KInit PROVE KTyped  OBVIOUS
<1>1. keys \in [Key -> KeyRow]  BY KeyConstants DEF KInit
<1>2. Unasked \in AskRow  BY DEF Unasked, AskRow
<1>3. asks \in [Ask -> AskRow]  BY <1>2 DEF KInit
<1>4. /\ key \in [Sub -> Key \cup {EnvKey, NoKey}] /\ spend = NoSub /\ day \in Day
      /\ born \in [Sub -> Day \cup {Never}] /\ asker \in [Ask -> Address \cup {NoAddress}]
      /\ slips \in [Key -> Nat]
  BY DEF KInit, Day
<1> QED BY <1>1, <1>3, <1>4 DEF KTyped, KTypeOK, KeyRow, AskRow

LEMMA KTypedHandler ==
  ASSUME TypeInv, Ctl, KTyped, NEW s \in Sub, Handler(s)
  PROVE  KTyped'
<1> USE DEF KTyped, KTypeOK
<1>1. CASE KSubmit(s)
  <2>1. UNCHANGED <<key, keys, spend, day, born, asker, asks, slips, row, seg>>
    BY <1>1 DEF KSubmit, keyVars, Submit, dbVars
  <2> QED BY <2>1 DEF Free, NoSeg, Charged
<1>2. CASE KInsert(s)
  <2>1. /\ row' = [row EXCEPT ![s] = "RECEIVED"] /\ seg' = NoSeg
        /\ born' = [born EXCEPT ![s] = day]
        /\ spend' = IF Charged(key[s]) THEN s ELSE NoSub
        /\ UNCHANGED <<key, keys, day, asker, asks, slips>>
    BY <1>2 DEF KInsert, Insert, Move
  <2>2. row'[s] = "RECEIVED"  BY <2>1 DEF TypeInv
  <2> QED BY <2>1, <2>2, IngestAssumption DEF Free, Charged
<1>3. CASE Spend(s)
  <2>1. keys' \in [Key -> KeyRow]  BY <1>3, SpendIs
  <2>2. UNCHANGED <<key, day, born, asker, asks, slips>> /\ spend' = NoSub
    BY <1>3 DEF Spend
  <2> HIDE <1>3
  <2> QED BY <2>1, <2>2, Zenon DEF KeyRow
<1>4. CASE SpendFails(s) \/ StampFails(s)
  <2>1. UNCHANGED <<key, keys, day, born, asker, asks>> /\ spend' = NoSub /\ spend = s /\ Slip(s)
    BY <1>4 DEF SpendFails, StampFails
  <2>2. slips' \in [Key -> Nat]  BY <2>1, SlipIs
  <2> HIDE <1>4
  <2> QED BY <2>1, <2>2
<1> QED BY <1>1, <1>2, <1>3, <1>4 DEF Handler

LEMMA KTypedStep == TypeInv /\ Ctl /\ KTyped /\ [KNext]_<<vars, keyVars>> => KTyped'
<1> SUFFICES ASSUME TypeInv, Ctl, KTyped, [KNext]_<<vars, keyVars>> PROVE KTyped'  OBVIOUS
<1> USE DEF KTyped, KTypeOK
<1>1. CASE UNCHANGED <<vars, keyVars>>  BY <1>1 DEF vars, keyVars, Free, NoSeg, Charged
<1>2. CASE spend = NoSub /\ Rest /\ UNCHANGED keyVars  BY <1>2 DEF keyVars
<1>3. CASE (Runner \/ Clock) /\ UNCHANGED keyVars
  BY <1>3, RunnerStill DEF keyVars, Free, NoSeg, Charged
<1>4. CASE KCrash
  <2>1. /\ asks' \in [Ask -> AskRow] /\ UNCHANGED <<key, keys, day, born, asker>> /\ spend' = NoSub
        /\ slips' = slips \/ (spend \in Sub /\ Slip(spend))
    BY <1>4, CrashIs
  <2>2. slips' \in [Key -> Nat]  BY <2>1, SlipIs
  <2> HIDE <1>4
  <2> QED BY <2>1, <2>2 DEF AskRow
<1>5. ASSUME NEW k \in Key, Create(k) \/ Revoke(k) \/ Expire(k) PROVE KTyped'
  <2>1. PICK r \in KeyRow : Written(k, r)  BY <1>5, WriteIs
  <2>2. UNCHANGED <<row, seg, key, spend, day, born, asker, slips>>  BY <1>5, WriteIs
  <2>3. asks' = asks  BY <1>5 DEF Create, Revoke, Expire
  <2>4. \A j \in Key : keys[j].kind = "email" => keys'[j].kind = "email"
    BY <2>1 DEF Written, NoRow
  <2> HIDE <1>5
  <2> QED BY <2>1, <2>2, <2>3, <2>4 DEF Written, KeyRow, Free, NoSeg, Charged
<1>6. ASSUME NEW a \in Ask, Thread(a) PROVE KTyped'
  <2>1. asks' \in [Ask -> AskRow] /\ day' = day /\ asker' = asker  BY <1>6, ThreadIs
  <2>2. CASE \E k \in Key : Mint(a, k)
    <3>1. PICK k \in Key : Mint(a, k)  BY <2>2
    <3>2. PICK r \in KeyRow : Written(k, r)  BY <3>1, WriteIs
    <3>3. UNCHANGED <<row, seg, key, spend, day, born, asker, slips>>  BY <3>1, WriteIs
    <3>4. \A j \in Key : keys[j].kind = "email" => keys'[j].kind = "email"
      BY <3>2 DEF Written, NoRow
    <3> HIDE <1>6, <2>2, <3>1
    <3> QED BY <2>1, <3>2, <3>3, <3>4 DEF Written, KeyRow, AskRow, Free, NoSeg, Charged
  <2>3. CASE Begin(a) \/ Permit(a) \/ Deny(a) \/ MintFails(a)
    <3>1. UNCHANGED <<row, req, seg, key, keys, spend, born, slips>>  BY <2>3, ThreadFrame
    <3> HIDE <1>6, <2>3
    <3> QED BY <2>1, <3>1 DEF AskRow, Free, NoSeg, Charged
  <2> QED BY <1>6, <2>2, <2>3 DEF Thread
<1>7. CASE Midnight
  BY <1>7, KeyConstants DEF Midnight, vars, Free, NoSeg, Charged, Day
<1> QED BY <1>1, <1>2, <1>3, <1>4, <1>5, <1>6, <1>7, KTypedHandler DEF KNext

LEMMA KTypedAlways == KSpec => [](TypeInv /\ Ctl /\ SlotInv /\ KTyped)
<1>1. KSpec => [](TypeInv /\ Ctl /\ SlotInv)  BY KeysRefineIngest, Control, Slots, PTL
<1> QED BY <1>1, KTypedInit, KTypedStep, PTL DEF KSpec

(* The rows of uploader_keys and key_request_log are well-formed; an allowance never goes
   negative, and an owed charge is of a mailed key and of a row just inserted. *)
THEOREM KeysTypes == KSpec => []KTypeOK
<1>1. KTyped => KTypeOK  BY DEF KTyped
<1> QED BY <1>1, KTypedAlways, PTL
-----------------------------------------------------------------------------
(* The account of a key. *)
LEMMA SubFinite ==
  ASSUME NEW S, S \subseteq Sub
  PROVE  IsFiniteSet(S) /\ Cardinality(S) \in Nat
BY IngestAssumption, FS_Subset, FS_CardinalityType

LEMMA SubSmaller ==
  ASSUME NEW S, NEW T, S \subseteq T, T \subseteq Sub
  PROVE  Cardinality(S) <= Cardinality(T) /\ Cardinality(S) \in Nat /\ Cardinality(T) \in Nat
BY SubFinite, FS_Subset

LEMMA SubUnion ==
  ASSUME NEW S, NEW T, S \subseteq Sub, T \subseteq Sub
  PROVE  Cardinality(S \cup T) <= Cardinality(S) + Cardinality(T)
<1>1. IsFiniteSet(S) /\ IsFiniteSet(T) /\ Cardinality(S \cap T) \in Nat
      /\ Cardinality(S) \in Nat /\ Cardinality(T) \in Nat
  BY SubFinite
<1>2. Cardinality(S \cup T) = Cardinality(S) + Cardinality(T) - Cardinality(S \cap T)
  BY <1>1, FS_Union
<1> QED BY <1>1, <1>2

LEMMA KeyFacts ==
  ASSUME KTyped, NEW k \in Key
  PROVE  /\ Accepted(k) \subseteq Sub /\ Beginning(k) \subseteq Sub
         /\ Pending(k) \in {0, 1} /\ slips[k] \in Nat
         /\ keys[k] \in KeyRow /\ keys[k].left \in 0..Allowance
         /\ Accepted(k) = {s \in Rows : key[s] = k}
BY DEF KTyped, KTypeOK, KeyRow, Accepted, Beginning, Bodies, Rows, Pending

(* A step that accepts nothing, begins nothing and forgets no charge keeps it. *)
LEMMA BalanceFrame ==
  ASSUME KTyped, KTyped', NEW k \in Key, Balanced(k),
         Accepted(k)' \subseteq Accepted(k), Beginning(k)' \subseteq Beginning(k),
         keys'[k].kind = keys[k].kind, keys'[k].left = keys[k].left, keys'[k] = NoRow => keys[k] = NoRow,
         slips'[k] >= slips[k], slips'[k] + Pending(k)' >= slips[k] + Pending(k)
  PROVE  Balanced(k)'
<1>1. /\ Accepted(k) \subseteq Sub /\ Beginning(k) \subseteq Sub
      /\ Pending(k) \in {0, 1} /\ slips[k] \in Nat /\ keys[k].left \in 0..Allowance
  BY KeyFacts
<1>2. Pending(k)' \in {0, 1} /\ slips'[k] \in Nat  BY DEF KTyped, KTypeOK, Pending
<1>3. /\ Cardinality(Accepted(k)') <= Cardinality(Accepted(k))
      /\ Cardinality(Accepted(k)') \in Nat /\ Cardinality(Accepted(k)) \in Nat
  BY <1>1, SubSmaller
<1>4. /\ Cardinality(Accepted(k)' \cup Beginning(k)') <= Cardinality(Accepted(k) \cup Beginning(k))
      /\ Cardinality(Accepted(k)' \cup Beginning(k)') \in Nat
      /\ Cardinality(Accepted(k) \cup Beginning(k)) \in Nat
  <2>1. Accepted(k)' \cup Beginning(k)' \subseteq Accepted(k) \cup Beginning(k)  OBVIOUS
  <2>2. Accepted(k) \cup Beginning(k) \subseteq Sub  BY <1>1
  <2> QED BY <2>1, <2>2, SubSmaller
<1> DEFINE A == Cardinality(Accepted(k))
           B == Cardinality(Accepted(k) \cup Beginning(k))
<1>5. CASE keys[k].kind = "email" /\ keys[k].left > 0
  <2>1. Cardinality(Accepted(k)) <= Allowance - keys[k].left + Pending(k) + slips[k]
    BY <1>5 DEF Balanced
  <2>2. Cardinality(Accepted(k)') <= Allowance - keys'[k].left + Pending(k)' + slips'[k]
    BY <1>1, <1>2, <1>3, <2>1, KeyConstants
  <2>3. keys'[k] # NoRow  BY <1>5 DEF NoRow
  <2> QED BY <1>5, <2>2, <2>3 DEF Balanced
<1>6. CASE keys[k].kind = "email" /\ keys[k].left = 0
  <2>1. Cardinality(Accepted(k) \cup Beginning(k)) <= Allowance + (MaxInflight - 1) + slips[k]
    BY <1>6 DEF Balanced
  <2>2. Cardinality(Accepted(k)' \cup Beginning(k)') <= Allowance + (MaxInflight - 1) + slips'[k]
    BY <1>1, <1>2, <1>4, <2>1, KeyConstants
  <2>3. keys'[k] # NoRow  BY <1>6 DEF NoRow
  <2> QED BY <1>6, <2>2, <2>3 DEF Balanced
<1>7. CASE keys[k].kind # "email"
  BY <1>7 DEF Balanced
<1> QED BY <1>1, <1>5, <1>6, <1>7, KeyConstants

LEMMA BalanceStill ==
  ASSUME KTyped, KTyped', Account, Still,
         UNCHANGED <<key, keys>>,
         \A k \in Key : slips'[k] >= slips[k] /\ slips'[k] + Pending(k)' >= slips[k] + Pending(k)
  PROVE  Account'
<1> SUFFICES ASSUME NEW k \in Key PROVE Balanced(k)'  BY DEF Account
<1>1. Accepted(k)' \subseteq Accepted(k)  BY DEF Accepted, Rows, Still
<1>2. Beginning(k)' \subseteq Beginning(k)  BY DEF Beginning, Still
<1> QED BY <1>1, <1>2, BalanceFrame DEF Account

LEMMA BalanceSubmit ==
  ASSUME TypeInv, KTyped, KTyped', Account, NEW s \in Sub, KSubmit(s)
  PROVE  Account'
<1> SUFFICES ASSUME NEW k \in Key PROVE Balanced(k)'  BY DEF Account
<1>1. /\ UNCHANGED <<row, key, keys, spend, slips>>
      /\ Bodies' = Bodies \cup {s} /\ Authorised(key[s])
  BY DEF KSubmit, keyVars, Submit, dbVars, Bodies, TypeInv
<1>2. Accepted(k)' = Accepted(k) /\ Pending(k)' = Pending(k)  BY <1>1 DEF Accepted, Pending
<1>3. CASE key[s] = k
  <2>1. keys[k] # NoRow /\ (keys[k].kind = "email" => keys[k].left > 0)
    BY <1>1, <1>3, KeyConstants DEF Authorised, Usable, NoRow
  <2>2. keys'[k] # NoRow  BY <1>1, <2>1
  <2>3. ~(keys'[k].kind = "email" /\ keys'[k].left = 0)  BY <1>1, <2>1
  <2>4. keys[k].kind = "email" /\ keys[k].left > 0 =>
          Cardinality(Accepted(k)) <= Allowance - keys[k].left + Pending(k) + slips[k]
    BY DEF Account, Balanced
  <2>5. keys'[k].kind = "email" /\ keys'[k].left > 0 =>
          Cardinality(Accepted(k)') <= Allowance - keys'[k].left + Pending(k)' + slips'[k]
    BY <1>1, <1>2, <2>4
  <2> QED BY <2>2, <2>3, <2>5, Zenon DEF Balanced
<1>4. CASE key[s] # k
  <2>1. Beginning(k)' = Beginning(k)  BY <1>1, <1>4 DEF Beginning
  <2> QED BY <1>1, <1>2, <2>1 DEF Balanced, Account
<1> QED BY <1>3, <1>4

LEMMA InsertIs ==
  ASSUME TypeInv, Ctl, KTyped, NEW s \in Sub, KInsert(s)
  PROVE  /\ spend = NoSub /\ s \in Bodies /\ s \notin Rows
         /\ Rows' = Rows \cup {s} /\ Bodies' = Bodies \ {s}
         /\ born' = [born EXCEPT ![s] = day]
         /\ spend' = IF Charged(key[s]) THEN s ELSE NoSub
         /\ UNCHANGED <<key, keys, day, asker, asks, slips>>
<1>1. seg = Owe("insert", s) /\ row' = [row EXCEPT ![s] = "RECEIVED"] /\ req' = [req EXCEPT ![s] = "scan"]
  BY DEF KInsert, Insert, Move
<1>2. req[s] = "body" /\ row[s] = "none"  BY <1>1 DEF Ctl, Owe
<1>3. spend = NoSub  BY <1>1 DEF KTyped, Free, NoSeg, Owe
<1>4. Rows' = Rows \cup {s} /\ Bodies' = Bodies \ {s}  BY <1>1, <1>2 DEF Rows, Bodies, TypeInv
<1>5. /\ born' = [born EXCEPT ![s] = day]
      /\ spend' = IF Charged(key[s]) THEN s ELSE NoSub
      /\ UNCHANGED <<key, keys, day, asker, asks, slips>>
  BY DEF KInsert
<1> QED BY <1>2, <1>3, <1>4, <1>5 DEF Rows, Bodies

LEMMA BalanceInsert ==
  ASSUME TypeInv, Ctl, KTyped, KTyped', Account, NEW s \in Sub, KInsert(s)
  PROVE  Account'
<1> SUFFICES ASSUME NEW k \in Key PROVE Balanced(k)'  BY DEF Account
<1>1. /\ spend = NoSub /\ s \in Bodies /\ s \notin Rows
      /\ Rows' = Rows \cup {s} /\ Bodies' = Bodies \ {s}
      /\ spend' = IF Charged(key[s]) THEN s ELSE NoSub
      /\ UNCHANGED <<key, keys, slips>>
  BY InsertIs
<1>2. Accepted(k) = {u \in Rows : key[u] = k} /\ Accepted(k)' = {u \in Rows' : key'[u] = k}
  BY DEF Accepted, Rows
<1>3. CASE key[s] = k
  <2>1. Accepted(k)' = Accepted(k) \cup {s} /\ s \notin Accepted(k)  BY <1>1, <1>2, <1>3
  <2>2. Beginning(k)' = Beginning(k) \ {s} /\ s \in Beginning(k)  BY <1>1, <1>3 DEF Beginning
  <2>3. keys[k] # NoRow  BY <2>2 DEF Account, Balanced
  <2>4. Accepted(k)' \cup Beginning(k)' = Accepted(k) \cup Beginning(k)  BY <2>1, <2>2
  <2>5. Cardinality(Accepted(k)') = Cardinality(Accepted(k)) + 1 /\ Cardinality(Accepted(k)) \in Nat
    BY <2>1, KeyFacts, SubFinite, FS_AddElement
  <2>6. keys[k].kind = "email" => Pending(k)' = 1 /\ Pending(k) = 0
    BY <1>1, <1>3, IngestAssumption DEF Pending, Charged
  <2>7. keys[k].left \in 0..Allowance /\ slips[k] \in Nat  BY KeyFacts
  <2>8. keys[k].kind = "email" /\ keys[k].left > 0 =>
          Cardinality(Accepted(k)') <= Allowance - keys[k].left + Pending(k)' + slips[k]
    <3> SUFFICES ASSUME keys[k].kind = "email", keys[k].left > 0
                 PROVE  Cardinality(Accepted(k)') <= Allowance - keys[k].left + Pending(k)' + slips[k]
      OBVIOUS
    <3>1. Cardinality(Accepted(k)) <= Allowance - keys[k].left + Pending(k) + slips[k]
      BY DEF Account, Balanced
    <3> QED BY <2>5, <2>6, <2>7, <3>1, KeyConstants
  <2> QED BY <1>1, <2>3, <2>4, <2>8 DEF Balanced, Account
<1>4. CASE key[s] # k
  <2>1. Accepted(k)' = Accepted(k)  BY <1>1, <1>2, <1>4
  <2>2. Beginning(k)' = Beginning(k)  BY <1>1, <1>4 DEF Beginning
  <2>3. Pending(k)' = 0 /\ Pending(k) = 0  BY <1>1, <1>4 DEF Pending
  <2> QED BY <1>1, <2>1, <2>2, <2>3 DEF Balanced, Account
<1> QED BY <1>3, <1>4

LEMMA BalanceSpend ==
  ASSUME TypeInv, Ctl, SlotInv, KTyped, KTyped', Account, NEW s \in Sub, Spend(s)
  PROVE  Account'
<1> SUFFICES ASSUME NEW k \in Key PROVE Balanced(k)'  BY DEF Account
<1>1. /\ UNCHANGED <<row, req, key, slips>> /\ spend = s /\ spend' = NoSub /\ s # NoSub
  BY DEF Spend, vars
<1>2. /\ key[s] \in Key /\ keys[key[s]].kind = "email" /\ row[s] = "RECEIVED"
      /\ \A j \in Key \ {key[s]} : keys'[j] = keys[j]
      /\ keys'[key[s]] = [status |-> keys[key[s]].status, kind |-> "email",
                          left |-> IF keys[key[s]].left > 0 THEN keys[key[s]].left - 1 ELSE 0]
  BY SpendIs
<1>3. /\ Accepted(k)' = Accepted(k) /\ Beginning(k)' = Beginning(k)
  BY <1>1 DEF Accepted, Beginning, Bodies
<1>4. CASE key[s] # k
  <2>1. keys'[k] = keys[k] /\ Pending(k) = 0 /\ Pending(k)' = 0  BY <1>1, <1>2, <1>4 DEF Pending
  <2> QED BY <1>1, <1>3, <2>1 DEF Balanced, Account
<1>5. CASE key[s] = k
  <2>1. Pending(k) = 1 /\ Pending(k)' = 0  BY <1>1, <1>5 DEF Pending
  <2>2. keys[k].left \in 0..Allowance /\ slips[k] \in Nat  BY KeyFacts
  <2>3. /\ keys[k].kind = "email" /\ keys'[k].kind = "email" /\ keys'[k] # NoRow
        /\ keys'[k].left = IF keys[k].left > 0 THEN keys[k].left - 1 ELSE 0
    BY <1>2, <1>5 DEF NoRow
  <2>4. CASE keys[k].left = 0
    <3>1. keys'[k].left = 0  BY <2>3, <2>4
    <3>2. Cardinality(Accepted(k) \cup Beginning(k)) <= Allowance + (MaxInflight - 1) + slips[k]
      BY <2>3, <2>4 DEF Account, Balanced
    <3> QED BY <1>1, <1>3, <2>3, <3>1, <3>2 DEF Balanced
  <2>5. CASE keys[k].left > 0
    <3>1. Cardinality(Accepted(k)) <= Allowance - keys[k].left + Pending(k) + slips[k]
      BY <2>3, <2>5 DEF Account, Balanced
    <3>2. Cardinality(Accepted(k)) \in Nat /\ Cardinality(Beginning(k)) \in Nat
      BY KeyFacts, SubFinite
    <3>3. keys'[k].left = keys[k].left - 1  BY <2>3, <2>5
    <3>4. Cardinality(Accepted(k)) <= Allowance - keys'[k].left + slips[k]
      BY <2>1, <2>2, <3>1, <3>2, <3>3, KeyConstants
    <3>5. Cardinality(Beginning(k)) <= MaxInflight - 1
      <4>1. s \in Held /\ s \notin Beginning(k)
        BY <1>2 DEF Held, Inflight, L!Terminal, Beginning, Bodies, Ctl
      <4>2. Beginning(k) \subseteq Held \ {s}  BY <4>1 DEF Beginning, Bodies, Held
      <4>3. Cardinality(Held \ {s}) = Cardinality(Held) - 1  BY <4>1, SlotSets, FS_RemoveElement
      <4>4. Held \subseteq Sub  BY DEF Held, Inflight
      <4>5. Held \ {s} \subseteq Sub  BY <4>4
      <4>6. Cardinality(Beginning(k)) <= Cardinality(Held \ {s})  BY <4>2, <4>5, SubSmaller
      <4> QED BY <3>2, <4>3, <4>6, SlotSets, KeyConstants DEF SlotInv
    <3>6. keys'[k].left = 0 =>
            Cardinality(Accepted(k) \cup Beginning(k)) <= Allowance + (MaxInflight - 1) + slips[k]
      <4>1. Cardinality(Accepted(k) \cup Beginning(k)) <= Cardinality(Accepted(k)) + Cardinality(Beginning(k))
        BY KeyFacts, SubUnion
      <4>2. Cardinality(Accepted(k) \cup Beginning(k)) \in Nat
        <5>1. Accepted(k) \cup Beginning(k) \subseteq Sub  BY KeyFacts
        <5> QED BY <5>1, SubFinite
      <4> QED BY <2>2, <3>2, <3>4, <3>5, <4>1, <4>2, KeyConstants
    <3>7. Cardinality(Accepted(k)) <= Allowance - keys'[k].left + Pending(k)' + slips[k]
      BY <2>1, <2>2, <3>2, <3>3, <3>4, KeyConstants
    <3> QED BY <1>1, <1>3, <2>3, <3>6, <3>7 DEF Balanced
  <2> QED BY <2>2, <2>4, <2>5, KeyConstants
<1> QED BY <1>4, <1>5
LEMMA BalanceSlip ==
  ASSUME KTyped, KTyped', Account, Still, UNCHANGED <<key, keys>>,
         NEW s \in Sub, spend = s, spend' = NoSub, Slip(s)
  PROVE  Account'
<1>1. /\ slips'[key[s]] = slips[key[s]] + 1
      /\ \A j \in Key \ {key[s]} : slips'[j] = slips[j]
      /\ key[s] \in Key
  BY SlipIs
<1>2. \A k \in Key : slips'[k] >= slips[k] /\ slips'[k] + Pending(k)' >= slips[k] + Pending(k)
  <2> SUFFICES ASSUME NEW k \in Key
               PROVE  slips'[k] >= slips[k] /\ slips'[k] + Pending(k)' >= slips[k] + Pending(k)
    OBVIOUS
  <2>1. slips[k] \in Nat /\ Pending(k) \in {0, 1} /\ Pending(k)' = 0  BY KeyFacts DEF Pending
  <2>2. CASE k = key[s]  BY <1>1, <2>1, <2>2
  <2>3. CASE k # key[s]
    <3>1. Pending(k) = 0  BY <2>3 DEF Pending
    <3> QED BY <1>1, <2>1, <2>3, <3>1
  <2> QED BY <2>2, <2>3
<1> QED BY <1>2, BalanceStill

LEMMA BalanceKey ==
  ASSUME KTyped, KTyped', Account, NEW k \in Key, NEW r \in KeyRow, Written(k, r),
         UNCHANGED <<row, req, key, spend, slips>>
  PROVE  Account'
<1> SUFFICES ASSUME NEW j \in Key PROVE Balanced(j)'  BY DEF Account
<1>1. Accepted(j)' = Accepted(j) /\ Beginning(j)' = Beginning(j) /\ Pending(j)' = Pending(j)
  BY DEF Accepted, Beginning, Bodies, Pending
<1>2. slips[j] \in Nat /\ Pending(j) \in {0, 1} /\ slips'[j] = slips[j]  BY KeyFacts
<1>3. CASE j # k
  <2>1. keys'[j] = keys[j]  BY <1>3 DEF Written
  <2> QED BY <1>1, <1>2, <2>1, BalanceFrame DEF Account
<1>4. CASE j = k /\ keys[k] = NoRow /\ r \in {Issued, Mailed}
  <2>1. Accepted(j) = {} /\ Beginning(j) = {}  BY <1>4 DEF Account, Balanced
  <2>2. /\ keys'[j] # NoRow
        /\ ~(keys'[j].kind = "email" /\ keys'[j].left = 0)
        /\ keys'[j].kind = "email" => keys'[j].left = Allowance
    BY <1>4, KeyConstants DEF Written, NoRow, Issued, Mailed
  <2>3. Cardinality(Accepted(j)') = 0  BY <1>1, <2>1, FS_EmptySet
  <2>4. 0 <= Allowance - Allowance + Pending(j)' + slips'[j]  BY <1>1, <1>2, KeyConstants
  <2> QED BY <2>2, <2>3, <2>4 DEF Balanced
<1>5. CASE j = k /\ r.kind = keys[k].kind /\ r.left = keys[k].left /\ keys[k] # NoRow
  <2>1. keys'[j].kind = keys[j].kind /\ keys'[j].left = keys[j].left  BY <1>5 DEF Written
  <2> QED BY <1>1, <1>2, <1>5, <2>1, BalanceFrame DEF Account, Written
<1> QED BY <1>3, <1>4, <1>5 DEF Written
LEMMA AccountInit == KInit => Account
<1> SUFFICES ASSUME KInit, NEW k \in Key PROVE Balanced(k)  BY DEF Account
<1>1. Accepted(k) = {} /\ Beginning(k) = {}
  BY DEF KInit, Init, Accepted, Beginning, Bodies
<1>2. Cardinality(Accepted(k)) = 0 /\ Accepted(k) \cup Beginning(k) = {}  BY <1>1, FS_EmptySet
<1>3. keys[k] \in {NoRow, Mailed, Dead} /\ slips[k] = 0  BY DEF KInit
<1>4. Pending(k) = 0  BY DEF KInit, Pending
<1>5. keys[k].kind = "email" => keys[k].left = Allowance
  BY <1>3 DEF NoRow, Mailed, Dead
<1> QED BY <1>1, <1>2, <1>3, <1>4, <1>5, KeyConstants DEF Balanced

LEMMA AccountStep ==
  TypeInv /\ Ctl /\ SlotInv /\ KTyped /\ Account /\ [KNext]_<<vars, keyVars>> => Account'
<1> SUFFICES ASSUME TypeInv, Ctl, SlotInv, KTyped, Account, [KNext]_<<vars, keyVars>>
             PROVE  Account'
  OBVIOUS
<1>0. KTyped'  BY KTypedStep
<1>a. \A k \in Key : slips[k] \in Nat /\ Pending(k) \in {0, 1}  BY KeyFacts
<1>1. ASSUME Still, UNCHANGED <<key, keys, spend, slips>> PROVE Account'
  <2>1. \A k \in Key : slips'[k] = slips[k] /\ Pending(k)' = Pending(k)  BY <1>1 DEF Pending
  <2> QED BY <1>0, <1>1, <1>a, <2>1, BalanceStill
<1>2. ASSUME UNCHANGED <<row, req>> PROVE Still  BY <1>2 DEF Still, Rows, Bodies
<1>3. CASE UNCHANGED <<vars, keyVars>>
  BY <1>1, <1>2, <1>3 DEF vars, keyVars
<1>4. ASSUME NEW s \in Sub, Handler(s) PROVE Account'
  <2>1. CASE KSubmit(s)  BY <1>0, <2>1, BalanceSubmit
  <2>2. CASE KInsert(s)  BY <1>0, <2>2, BalanceInsert
  <2>3. CASE Spend(s)  BY <1>0, <2>3, BalanceSpend
  <2>4. CASE SpendFails(s)
    <3>1. UNCHANGED <<row, req, key, keys>> /\ spend = s /\ spend' = NoSub /\ Slip(s)
      BY <2>4 DEF SpendFails, vars
    <3> QED BY <1>0, <1>2, <3>1, BalanceSlip
  <2>5. CASE StampFails(s)
    <3>1. UNCHANGED <<key, keys>> /\ spend = s /\ spend' = NoSub /\ Slip(s) /\ Scanned(s, "error")
      BY <2>5 DEF StampFails
    <3>2. Still  BY <3>1, ScannedStill DEF Verdicts
    <3> QED BY <1>0, <3>1, <3>2, BalanceSlip
  <2> QED BY <1>4, <2>1, <2>2, <2>3, <2>4, <2>5 DEF Handler
<1>5. CASE spend = NoSub /\ Rest /\ UNCHANGED keyVars
  BY <1>1, <1>5, RestStill DEF keyVars
<1>6. CASE (Runner \/ Clock) /\ UNCHANGED keyVars
  BY <1>1, <1>2, <1>6, RunnerStill DEF keyVars
<1>7. CASE KCrash
  <2>1. /\ UNCHANGED <<row, key, keys>> /\ spend' = NoSub /\ Bodies' = {}
        /\ \/ spend = NoSub /\ slips' = slips
           \/ spend \in Sub /\ Slip(spend)
    BY <1>7, CrashIs
  <2>2. Still  BY <2>1 DEF Still, Rows
  <2>3. CASE spend = NoSub /\ slips' = slips  BY <1>1, <2>1, <2>2, <2>3
  <2>4. CASE spend \in Sub /\ Slip(spend)  BY <1>0, <2>1, <2>2, <2>4, BalanceSlip
  <2> QED BY <2>1, <2>3, <2>4
<1>8. ASSUME NEW k \in Key, Create(k) \/ Revoke(k) \/ Expire(k) \/ \E a \in Ask : Mint(a, k)
      PROVE  Account'
  <2>1. PICK r \in KeyRow : Written(k, r)  BY <1>8, WriteIs
  <2>2. UNCHANGED <<row, req, key, spend, slips>>  BY <1>8, WriteIs
  <2> QED BY <1>0, <2>1, <2>2, BalanceKey
<1>9. ASSUME NEW a \in Ask, Thread(a) PROVE Account'
  <2>1. CASE Begin(a) \/ Permit(a) \/ Deny(a) \/ MintFails(a)
    BY <1>1, <1>2, <2>1, ThreadFrame
  <2>2. CASE \E k \in Key : Mint(a, k)  BY <1>8, <2>2
  <2> QED BY <1>9, <2>1, <2>2 DEF Thread
<1>10. CASE Midnight
  BY <1>1, <1>2, <1>10 DEF Midnight, vars
<1> QED BY <1>3, <1>4, <1>5, <1>6, <1>7, <1>8, <1>9, <1>10 DEF KNext

(* A mailed key admits its allowance, the uploads in flight beside the last that was
   charged, and those whose charge failed: never more. *)
THEOREM AllowanceIsBounded == KSpec => []AllowanceBound
<1>1. KTyped /\ Account => AllowanceBound
  <2> SUFFICES ASSUME KTyped, Account, NEW k \in Key, keys[k].kind = "email"
               PROVE  Cardinality(Accepted(k)) <= Allowance + (MaxInflight - 1) + slips[k]
    BY DEF AllowanceBound
  <2>1. /\ Accepted(k) \subseteq Sub /\ Beginning(k) \subseteq Sub /\ Pending(k) \in {0, 1}
        /\ slips[k] \in Nat /\ keys[k].left \in 0..Allowance
    BY KeyFacts
  <2>2. Cardinality(Accepted(k)) <= Cardinality(Accepted(k) \cup Beginning(k))
        /\ Cardinality(Accepted(k)) \in Nat /\ Cardinality(Accepted(k) \cup Beginning(k)) \in Nat
    <3>1. Accepted(k) \cup Beginning(k) \subseteq Sub  BY <2>1
    <3> QED BY <3>1, SubSmaller
  <2>3. CASE keys[k].left > 0
    <3>1. Cardinality(Accepted(k)) <= Allowance - keys[k].left + Pending(k) + slips[k]
      BY <2>3 DEF Account, Balanced
    <3> QED BY <2>1, <2>2, <2>3, <3>1, KeyConstants
  <2>4. CASE keys[k].left = 0
    <3>1. Cardinality(Accepted(k) \cup Beginning(k)) <= Allowance + (MaxInflight - 1) + slips[k]
      BY <2>4 DEF Account, Balanced
    <3> QED BY <2>1, <2>2, <3>1, KeyConstants
  <2> QED BY <2>1, <2>3, <2>4, KeyConstants
<1> QED BY <1>1, AccountInit, AccountStep, KTypedAlways, PTL DEF KSpec

-----------------------------------------------------------------------------
(* The rows of a day. *)
LEMMA RowsInit == KInit => DayRows
<1> SUFFICES ASSUME KInit PROVE DayRows  OBVIOUS
<1>1. Rows = {} /\ Bodies = {}  BY DEF KInit, Init, Rows, Bodies
<1>2. \A d : RowsOf(d) = {}  BY <1>1 DEF RowsOf
<1>3. RowsOf(day) \cup Bodies = {}  BY <1>1, <1>2
<1> QED BY <1>1, <1>2, <1>3, FS_EmptySet, KeyConstants DEF DayRows

LEMMA RowsFrame ==
  ASSUME KTyped, DayRows, Still, UNCHANGED <<born, day>>
  PROVE  DayRows'
<1>1. \A d : RowsOf(d)' = RowsOf(d)  BY DEF RowsOf, Still
<1>2. Bodies \subseteq Sub /\ RowsOf(day) \subseteq Sub  BY DEF Bodies, RowsOf, Rows
<1>3. RowsOf(day) \cup Bodies' \subseteq RowsOf(day) \cup Bodies  BY DEF Still
<1>4. RowsOf(day) \cup Bodies \subseteq Sub  BY <1>2
<1>5. Cardinality(RowsOf(day) \cup Bodies') <= Cardinality(RowsOf(day) \cup Bodies)
      /\ Cardinality(RowsOf(day) \cup Bodies') \in Nat /\ Cardinality(RowsOf(day) \cup Bodies) \in Nat
  BY <1>3, <1>4, SubSmaller
<1>6. RowsOf(day)' = RowsOf(day)  BY DEF RowsOf, Still
<1>7. Cardinality(RowsOf(day)' \cup Bodies') <= MaxPerDay
  BY <1>5, <1>6, KeyConstants DEF DayRows
<1> QED BY <1>1, <1>7 DEF DayRows, Still

LEMMA RowsSubmit ==
  ASSUME TypeInv, SlotInv, KTyped, DayRows, NEW s \in Sub, KSubmit(s)
  PROVE  DayRows'
<1>1. UNCHANGED <<row, day, born>> /\ Bodies' = Bodies \cup {s} /\ DayRoom /\ req[s] = "idle"
  BY DEF KSubmit, keyVars, Submit, dbVars, Bodies, TypeInv
<1>2. Today = RowsOf(day) /\ Rows' = Rows /\ \A d : RowsOf(d)' = RowsOf(d)
  BY <1>1 DEF Today, RowsOf, Rows
<1>3. RowsOf(day) \subseteq Sub /\ Bodies \subseteq Busy /\ Busy \subseteq Sub /\ Bodies' \subseteq Sub
  BY <1>1 DEF RowsOf, Rows, Bodies, Busy
<1>4. Cardinality(Bodies) <= reserved /\ Cardinality(Bodies) \in Nat /\ reserved \in Nat
  BY <1>3, SubSmaller DEF SlotInv
<1>5. Cardinality(Bodies') = Cardinality(Bodies) + 1
  <2>1. s \notin Bodies  BY <1>1 DEF Bodies
  <2>2. IsFiniteSet(Bodies)  BY <1>3, SubFinite
  <2> QED BY <1>1, <2>1, <2>2, FS_AddElement
<1>6. Cardinality(RowsOf(day) \cup Bodies') <= Cardinality(RowsOf(day)) + Cardinality(Bodies')
  BY <1>3, SubUnion
<1>7. Cardinality(RowsOf(day)) \in Nat /\ Cardinality(RowsOf(day) \cup Bodies') \in Nat
  <2>1. RowsOf(day) \cup Bodies' \subseteq Sub  BY <1>3
  <2> QED BY <1>3, <2>1, SubFinite
<1>8. Cardinality(RowsOf(day)) + reserved < MaxPerDay  BY <1>1, <1>2 DEF DayRoom
<1>9. Cardinality(RowsOf(day) \cup Bodies') <= MaxPerDay
  BY <1>4, <1>5, <1>6, <1>7, <1>8, KeyConstants
<1>10. RowsOf(day)' = RowsOf(day)  BY <1>1 DEF RowsOf, Rows
<1> QED BY <1>1, <1>2, <1>9, <1>10 DEF DayRows

LEMMA RowsInsert ==
  ASSUME TypeInv, Ctl, KTyped, DayRows, NEW s \in Sub, KInsert(s)
  PROVE  DayRows'
<1>1. /\ s \in Bodies /\ s \notin Rows /\ Rows' = Rows \cup {s} /\ Bodies' = Bodies \ {s}
      /\ born' = [born EXCEPT ![s] = day] /\ day' = day
  BY InsertIs
<1>2. born'[s] = day /\ \A u \in Sub \ {s} : born'[u] = born[u]  BY <1>1 DEF KTyped, KTypeOK
<1>3. \A u \in Rows : u \in Sub /\ u # s  BY <1>1 DEF Rows
<1>4. RowsOf(day)' = RowsOf(day) \cup {s}  BY <1>1, <1>2, <1>3 DEF RowsOf
<1>5. \A d : d # day => RowsOf(d)' = RowsOf(d)  BY <1>1, <1>2, <1>3 DEF RowsOf
<1>6. RowsOf(day)' \cup Bodies' = RowsOf(day) \cup Bodies  BY <1>1, <1>4
<1>7. Cardinality(RowsOf(day)') <= MaxPerDay
  <2>1. RowsOf(day) \cup Bodies \subseteq Sub  BY DEF RowsOf, Rows, Bodies
  <2>2. RowsOf(day)' \subseteq RowsOf(day) \cup Bodies  BY <1>6
  <2>3. Cardinality(RowsOf(day)') <= Cardinality(RowsOf(day) \cup Bodies)
        /\ Cardinality(RowsOf(day)') \in Nat /\ Cardinality(RowsOf(day) \cup Bodies) \in Nat
    BY <2>1, <2>2, SubSmaller
  <2> QED BY <2>3, KeyConstants DEF DayRows
<1>8. \A d \in Day : Cardinality(RowsOf(d)') <= MaxPerDay
  <2> SUFFICES ASSUME NEW d \in Day PROVE Cardinality(RowsOf(d)') <= MaxPerDay  OBVIOUS
  <2>1. CASE d = day
    <3>1. RowsOf(d)' = RowsOf(day)'  BY <1>1, <2>1 DEF RowsOf
    <3> QED BY <1>7, <3>1
  <2>2. CASE d # day  BY <1>5, <2>2 DEF DayRows
  <2> QED BY <2>1, <2>2
<1>9. \A u \in Rows' : born'[u] \in 0..day
  <2>1. day \in 0..day  BY DEF KTyped, KTypeOK, Day
  <2> QED BY <1>1, <1>2, <1>3, <2>1 DEF DayRows
<1> QED BY <1>1, <1>6, <1>8, <1>9 DEF DayRows

LEMMA RowsMidnight ==
  ASSUME KTyped, DayRows, Midnight
  PROVE  DayRows'
<1>1. UNCHANGED <<row, req, born>> /\ day' = day + 1  BY DEF Midnight, vars
<1>2. Rows' = Rows /\ Bodies' = Bodies  BY <1>1 DEF Rows, Bodies
<1>3. day \in Nat  BY KeyConstants DEF KTyped, KTypeOK, Day
<1>4. RowsOf(day)' = {}  BY <1>1, <1>2, <1>3 DEF RowsOf, DayRows
<1>5. RowsOf(day) \cup Bodies \subseteq Sub  BY DEF RowsOf, Rows, Bodies
<1>6. Cardinality(Bodies) <= Cardinality(RowsOf(day) \cup Bodies)
      /\ Cardinality(Bodies) \in Nat /\ Cardinality(RowsOf(day) \cup Bodies) \in Nat
  BY <1>5, SubSmaller
<1>7. RowsOf(day)' \cup Bodies' = Bodies  BY <1>2, <1>4
<1>8. Cardinality(RowsOf(day)' \cup Bodies') <= MaxPerDay  BY <1>6, <1>7, KeyConstants DEF DayRows
<1>9. \A d : RowsOf(d)' = RowsOf(d)  BY <1>1, <1>2 DEF RowsOf
<1>10. \A u \in Rows' : born'[u] \in 0..(day')  BY <1>1, <1>2, <1>3 DEF DayRows
<1> QED BY <1>8, <1>9, <1>10 DEF DayRows
LEMMA RowsStep ==
  TypeInv /\ Ctl /\ SlotInv /\ KTyped /\ DayRows /\ [KNext]_<<vars, keyVars>> => DayRows'
<1> SUFFICES ASSUME TypeInv, Ctl, SlotInv, KTyped, DayRows, [KNext]_<<vars, keyVars>>
             PROVE  DayRows'
  OBVIOUS
<1>1. ASSUME UNCHANGED <<row, req, born, day>> PROVE DayRows'
  <2>1. Still  BY <1>1 DEF Still, Rows, Bodies
  <2> QED BY <1>1, <2>1, RowsFrame
<1>2. CASE UNCHANGED <<vars, keyVars>>  BY <1>1, <1>2 DEF vars, keyVars
<1>3. ASSUME NEW s \in Sub, Handler(s) PROVE DayRows'
  <2>1. CASE KSubmit(s)  BY <2>1, RowsSubmit
  <2>2. CASE KInsert(s)  BY <2>2, RowsInsert
  <2>3. CASE Spend(s) \/ SpendFails(s)  BY <1>1, <2>3 DEF Spend, SpendFails, vars
  <2>4. CASE StampFails(s)
    <3>1. UNCHANGED <<born, day>> /\ Scanned(s, "error")  BY <2>4 DEF StampFails
    <3> QED BY <3>1, ScannedStill, RowsFrame DEF Verdicts
  <2> QED BY <1>3, <2>1, <2>2, <2>3, <2>4 DEF Handler
<1>4. CASE spend = NoSub /\ Rest /\ UNCHANGED keyVars  BY <1>4, RestStill, RowsFrame DEF keyVars
<1>5. CASE (Runner \/ Clock) /\ UNCHANGED keyVars  BY <1>1, <1>5, RunnerStill DEF keyVars
<1>6. CASE KCrash
  <2>1. UNCHANGED <<row, born, day>> /\ Bodies' = {}  BY <1>6, CrashIs
  <2>2. Still  BY <2>1 DEF Still, Rows
  <2> QED BY <2>1, <2>2, RowsFrame
<1>7. ASSUME NEW k \in Key, Create(k) \/ Revoke(k) \/ Expire(k) \/ \E a \in Ask : Mint(a, k)
      PROVE  DayRows'
  BY <1>1, <1>7, WriteIs
<1>8. ASSUME NEW a \in Ask, Thread(a) PROVE DayRows'
  <2>1. CASE Begin(a) \/ Permit(a) \/ Deny(a) \/ MintFails(a)
    BY <1>1, <1>8, <2>1, ThreadFrame, ThreadIs
  <2>2. CASE \E k \in Key : Mint(a, k)  BY <1>7, <2>2
  <2> QED BY <1>8, <2>1, <2>2 DEF Thread
<1>9. CASE Midnight  BY <1>9, RowsMidnight
<1> QED BY <1>2, <1>3, <1>4, <1>5, <1>6, <1>7, <1>8, <1>9 DEF KNext

-----------------------------------------------------------------------------
(* The requests of a day.  Counting one more stays within a cap with room for one. *)
LEMMA OneMore ==
  ASSUME NEW S, NEW T, NEW All, NEW x, IsFiniteSet(All), S \subseteq All, T \subseteq S \cup {x},
         NEW cap \in Nat, Cardinality(All) < cap
  PROVE  Cardinality(T) <= cap
<1>1. IsFiniteSet(S) /\ Cardinality(S) <= Cardinality(All)  BY FS_Subset
<1>2. Cardinality(S) \in Nat /\ Cardinality(All) \in Nat  BY <1>1, FS_CardinalityType
<1>3. IsFiniteSet(S \cup {x}) /\ Cardinality(S \cup {x}) <= Cardinality(S) + 1
  <2>1. CASE x \in S
    <3>1. S \cup {x} = S  BY <2>1
    <3> QED BY <1>1, <1>2, <3>1
  <2>2. CASE x \notin S
    <3>1. IsFiniteSet(S \cup {x}) /\ Cardinality(S \cup {x}) = Cardinality(S) + 1
      BY <1>1, <2>2, FS_AddElement
    <3> QED BY <1>2, <3>1
  <2> QED BY <2>1, <2>2
<1>4. IsFiniteSet(T) /\ Cardinality(T) <= Cardinality(S \cup {x})  BY <1>3, FS_Subset
<1>5. Cardinality(T) \in Nat /\ Cardinality(S \cup {x}) \in Nat  BY <1>3, <1>4, FS_CardinalityType
<1> QED BY <1>1, <1>2, <1>3, <1>4, <1>5

LEMMA AsksInit == KInit => DayAsks
<1> SUFFICES ASSUME KInit PROVE DayAsks  OBVIOUS
<1>1. \A d \in Day : Logged(d) = {}  BY KeyConstants DEF KInit, Unasked, Logged
<1>2. \A d \in Day : SameDay(d) = {} /\ \A who : SameDayFor(d, who) = {}
  BY <1>1 DEF SameDay, SameDayFor
<1> QED BY <1>1, <1>2, FS_EmptySet, KeyConstants DEF DayAsks

(* What is logged of requests, and on which day they began, stays. *)
LEMMA AsksFrame ==
  ASSUME DayAsks, asker' = asker,
         \A a \in Ask : \/ asks'[a].logged = asks[a].logged /\ asks'[a].since = asks[a].since
                        \/ asks'[a].logged \notin Day /\ asks[a].logged \notin Day
  PROVE  DayAsks'
<1>1. \A d \in Day : Logged(d)' = Logged(d)  BY DEF Logged
<1>2. \A d \in Day : SameDay(d)' = SameDay(d)  BY <1>1 DEF SameDay, Logged
<1>3. \A d \in Day : \A who : SameDayFor(d, who)' = SameDayFor(d, who)  BY <1>2 DEF SameDayFor
<1>4. \A d \in Day : /\ IsFiniteSet(Logged(d)')
                     /\ Cardinality(SameDay(d)') <= PerDay
                     /\ \A who \in Address : Cardinality(SameDayFor(d, who)') <= PerAddress
  BY <1>1, <1>2, <1>3 DEF DayAsks
<1> QED BY <1>4 DEF DayAsks

LEMMA AsksPermit ==
  ASSUME KTyped, DayAsks, NEW a \in Ask, asker' = asker,
         \A b \in Ask \ {a} : asks'[b] = asks[b],
         asks'[a].since = asks[a].since, asks'[a].logged = day, Room(asks[a].since, asker[a])
  PROVE  DayAsks'
<1> DEFINE t == asks[a].since
<1>0. day \in Day  BY DEF KTyped, KTypeOK
<1>1. \A d \in Day : Logged(d)' \subseteq Logged(d) \cup {a}  BY DEF Logged
<1>2. \A d \in Day : IsFiniteSet(Logged(d)')
  <2> SUFFICES ASSUME NEW d \in Day PROVE IsFiniteSet(Logged(d)')  OBVIOUS
  <2>1. IsFiniteSet(Logged(d))  BY DEF DayAsks
  <2>2. IsFiniteSet(Logged(d) \cup {a})  BY <2>1, FS_AddElement
  <2> QED BY <1>1, <2>2, FS_Subset
<1>3. \A d \in Day : d # t => SameDay(d)' \subseteq SameDay(d)
  BY DEF SameDay, Logged
<1>4. \A d \in Day : SameDay(d)' \subseteq SameDay(d) \cup {a}  BY DEF SameDay, Logged
<1>5. \A d \in Day : IsFiniteSet(SameDay(d)) /\ SameDay(d) \subseteq Logged(d)
  BY FS_Subset DEF DayAsks, SameDay
<1>6. \A d \in Day : Cardinality(SameDay(d)') <= PerDay
  <2> SUFFICES ASSUME NEW d \in Day PROVE Cardinality(SameDay(d)') <= PerDay  OBVIOUS
  <2>1. CASE d = t
    <3>1. Cardinality(Logged(d)) < PerDay  BY <2>1 DEF Room
    <3>2. IsFiniteSet(Logged(d))  BY DEF DayAsks
    <3> QED BY <1>4, <1>5, <3>1, <3>2, OneMore, KeyConstants
  <2>2. CASE d # t
    <3>1. SameDay(d)' \subseteq SameDay(d)  BY <1>3, <2>2
    <3>2. IsFiniteSet(SameDay(d)') /\ Cardinality(SameDay(d)') <= Cardinality(SameDay(d))
      BY <1>5, <3>1, FS_Subset
    <3>3. Cardinality(SameDay(d)') \in Nat /\ Cardinality(SameDay(d)) \in Nat
      BY <1>5, <3>2, FS_CardinalityType
    <3>4. Cardinality(SameDay(d)) <= PerDay  BY DEF DayAsks
    <3> QED BY <3>2, <3>3, <3>4, KeyConstants
  <2> QED BY <2>1, <2>2
<1>7. \A d \in Day, who \in Address : Cardinality(SameDayFor(d, who)') <= PerAddress
  <2> SUFFICES ASSUME NEW d \in Day, NEW who \in Address
               PROVE  Cardinality(SameDayFor(d, who)') <= PerAddress
    OBVIOUS
  <2>1. SameDayFor(d, who) \subseteq LoggedFor(d, who) /\ LoggedFor(d, who) \subseteq Logged(d)
    BY DEF SameDayFor, SameDay, LoggedFor
  <2>2. IsFiniteSet(LoggedFor(d, who)) /\ IsFiniteSet(SameDayFor(d, who))
    BY <2>1, FS_Subset DEF DayAsks
  <2>3. SameDayFor(d, who)' \subseteq SameDayFor(d, who) \cup {a}  BY <1>4 DEF SameDayFor
  <2>4. CASE d = t /\ asker[a] = who
    <3>1. Cardinality(LoggedFor(d, who)) < PerAddress  BY <2>4 DEF Room
    <3> QED BY <2>1, <2>2, <2>3, <3>1, OneMore, KeyConstants
  <2>5. CASE ~(d = t /\ asker[a] = who)
    <3>1. SameDayFor(d, who)' \subseteq SameDayFor(d, who)
      BY <1>3, <2>3, <2>5 DEF SameDayFor
    <3>2. IsFiniteSet(SameDayFor(d, who)') /\ Cardinality(SameDayFor(d, who)') <= Cardinality(SameDayFor(d, who))
      BY <2>2, <3>1, FS_Subset
    <3>3. Cardinality(SameDayFor(d, who)') \in Nat /\ Cardinality(SameDayFor(d, who)) \in Nat
      BY <2>2, <3>2, FS_CardinalityType
    <3>4. Cardinality(SameDayFor(d, who)) <= PerAddress  BY DEF DayAsks
    <3> QED BY <3>2, <3>3, <3>4, KeyConstants
  <2> QED BY <2>4, <2>5
<1> QED BY <1>2, <1>6, <1>7 DEF DayAsks

LEMMA AsksStep == KTyped /\ DayAsks /\ [KNext]_<<vars, keyVars>> => DayAsks'
<1> SUFFICES ASSUME KTyped, DayAsks, [KNext]_<<vars, keyVars>> PROVE DayAsks'  OBVIOUS
<1>1. ASSUME UNCHANGED <<asker, asks>> PROVE DayAsks'  BY <1>1, AsksFrame
<1>2. ASSUME NEW a \in Ask, Thread(a) PROVE DayAsks'
  <2>1. /\ asker' = asker
        /\ \A b \in Ask \ {a} : asks'[b] = asks[b]
        /\ \/ asks[a] = Unasked /\ asks'[a].logged = asks[a].logged
           \/ asks'[a].since = asks[a].since /\ asks'[a].logged = asks[a].logged
           \/ /\ asks'[a].since = asks[a].since /\ asks'[a].logged = day
              /\ Room(asks[a].since, asker[a])
    BY <1>2, ThreadIs
  <2>2. CASE asks[a] = Unasked /\ asks'[a].logged = asks[a].logged
    <3>1. asks[a].logged \notin Day /\ asks'[a].logged \notin Day  BY <2>2, KeyConstants DEF Unasked
    <3> QED BY <2>1, <3>1, AsksFrame
  <2>3. CASE asks'[a].since = asks[a].since /\ asks'[a].logged = asks[a].logged
    BY <2>1, <2>3, AsksFrame
  <2>4. CASE /\ asks'[a].since = asks[a].since /\ asks'[a].logged = day
             /\ Room(asks[a].since, asker[a])
    BY <2>1, <2>4, AsksPermit
  <2> QED BY <2>1, <2>2, <2>3, <2>4
<1>3. CASE KCrash  BY <1>3, CrashIs, AsksFrame
<1>4. ASSUME NEW s \in Sub, Handler(s) PROVE DayAsks'
  BY <1>1, <1>4 DEF Handler, KSubmit, KInsert, Spend, SpendFails, StampFails, keyVars
<1>5. ASSUME NEW k \in Key, Create(k) \/ Revoke(k) \/ Expire(k) PROVE DayAsks'
  BY <1>1, <1>5 DEF Create, Revoke, Expire, WriteKey
<1> QED BY <1>1, <1>2, <1>3, <1>4, <1>5 DEF KNext, Midnight, keyVars

(* No day has more rows than its cap, nor more keys requested and permitted than its caps,
   however uploads, requests, crashes and midnights interleave. *)
THEOREM DailyCapsHold == KSpec => []DailyCaps
<1>1. DayRows /\ DayAsks => DailyCaps
  <2>1. \A d : RowsOf(d) = {s \in Sub : row[s] # "none" /\ born[s] = d}  BY DEF RowsOf, Rows
  <2>2. \A d, who : SameDayFor(d, who) = {a \in LoggedFor(d, who) : asks[a].since = d}
    BY DEF SameDayFor, SameDay, LoggedFor
  <2> QED BY <2>1, <2>2 DEF DayRows, DayAsks, DailyCaps, SameDay
<1> QED BY <1>1, RowsInit, RowsStep, AsksInit, AsksStep, KTypedAlways, PTL DEF KSpec
=============================================================================
