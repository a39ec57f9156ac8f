-------------------------------- MODULE Keys --------------------------------
(***************************************************************************)
(* The keys that admit an upload (gateway/app.py 168-343, 2741-2849,        *)
(* gateway/db.py uploader_keys and key_request_log): curator-issued keys,   *)
(* keys a contributor asks for by mail, and the limits on both.  Composed   *)
(* with Ingest: an upload is authorised when it arrives, its row is         *)
(* inserted after the body came in, and only then is the allowance of its   *)
(* key spent, while other uploads, scans and the poll loop interleave.      *)
(*                                                                         *)
(* Requests for a key run in threads of their own, beside the event loop.   *)
(* An upload whose submitter is not the address its key is bound to, or     *)
(* that is malformed, is one of the early returns of Ingest's Refuse.       *)
(***************************************************************************)
EXTENDS Ingest

CONSTANTS Key, EnvKey,    \* rows of uploader_keys, and AUSMT_SUBMIT_KEY, which has none
          NoKey,          \* no key, or one that never existed
          Allowance,      \* AUSMT_SELFSERVE_KEY_ALLOWANCE
          MaxPerDay,      \* AUSMT_MAX_PER_DAY
          Ask, Address,   \* requests for a key, and who sends them
          NoAddress,      \* no well-formed address
          PerAddress,     \* AUSMT_KEYREQ_PER_EMAIL_DAILY; the cap by client ip is one more like it
          PerDay,         \* AUSMT_KEYREQ_GLOBAL_DAILY
          MaxDays,        \* bound on midnights
          MaxSlips        \* bound on failing statements of the database

ASSUME KeysAssumption ==
  /\ EnvKey \notin Key /\ NoKey \notin Key \cup {EnvKey} /\ NoAddress \notin Address
  /\ {Allowance, MaxPerDay, PerAddress, PerDay} \subseteq Nat \ {0}
  /\ {MaxDays, MaxSlips} \subseteq Nat

VARIABLES
  key,      \* [Sub -> the key the client of this id presents]
  keys,     \* uploader_keys: [Key -> status, kind and submissions left]
  spend,    \* the upload whose key is still to be charged           (memory)
  day,      \* the UTC day
  born,     \* [Sub -> day in created_utc of its row]
  asker,    \* [Ask -> the address in the request]
  asks,     \* [Ask -> where its thread is, the day it began, the day it was logged]
  slips     \* uploads of a key accepted and not charged             (history)

keyVars == <<key, keys, spend, day, born, asker, asks, slips>>

NoRow == [status |-> "none", kind |-> "none", left |-> 0]
Mailed == [status |-> "active", kind |-> "email", left |-> Allowance]
Issued == [status |-> "active", kind |-> "operator", left |-> 0]
Dead == [status |-> "revoked", kind |-> "operator", left |-> 0]

Never == 0 - 1
Unasked == [at |-> "idle", since |-> Never, logged |-> Never]

(* keys may have been issued, and revoked, on earlier days *)
KInit == /\ Init
         /\ key \in [Sub -> Key \cup {EnvKey, NoKey}]
         /\ keys \in [Key -> {NoRow, Mailed, Dead}]
         /\ spend = NoSub
         /\ day \in 0..MaxDays
         /\ born = [s \in Sub |-> Never]
         /\ asker \in [Ask -> Address \cup {NoAddress}]
         /\ asks = [a \in Ask |-> Unasked]
         /\ slips = [k \in Key |-> 0]

-----------------------------------------------------------------------------
(* The upload handler. *)

\* an exhausted key is not refused: AllowanceBound
FaultyUsable(k) == keys[k].status = "active"
Usable(k) == keys[k].status = "active" /\ (keys[k].kind = "email" => keys[k].left > 0)

(* _resolve_submit_auth *)
Authorised(k) == k = EnvKey \/ (k \in Key /\ Usable(k))

Accepted(k) == {s \in Sub : key[s] = k /\ row[s] # "none"}
Today == {s \in Sub : row[s] # "none" /\ born[s] = day}

\* uploads between check and insert are not counted: DailyCaps
FaultyDayRoom == Cardinality(Today) < MaxPerDay
DayRoom == Cardinality(Today) + reserved < MaxPerDay

KSubmit(s) ==
  /\ spend = NoSub
  /\ Authorised(key[s]) /\ DayRoom
  /\ Submit(s)
  /\ UNCHANGED keyVars

Charged(k) == k \in Key /\ keys[k].kind = "email"

(* insert_submission; the key is charged next, with no await between *)
KInsert(s) ==
  /\ Insert(s)
  /\ born' = [born EXCEPT ![s] = day]
  /\ spend' = IF Charged(key[s]) THEN s ELSE NoSub
  /\ UNCHANGED <<key, keys, day, asker, asks, slips>>

\* the count is read and written by two statements: KTypeOK
FaultySpent(k) == keys[k].left - 1
(* UPDATE ... WHERE allowance_remaining > 0 *)
Spent(k) == IF keys[k].left > 0 THEN keys[k].left - 1 ELSE 0

(* decrement_uploader_key_allowance *)
Spend(s) ==
  /\ spend = s /\ s # NoSub
  /\ keys' = [keys EXCEPT ![key[s]].left = Spent(key[s])]
  /\ spend' = NoSub
  /\ UNCHANGED <<vars, key, day, born, asker, asks, slips>>

Slip(s) == slips' = [slips EXCEPT ![key[s]] = @ + 1]
MaySlip(s) == slips[key[s]] < MaxSlips

(* it raises, and the upload goes on *)
SpendFails(s) ==
  /\ spend = s /\ s # NoSub /\ MaySlip(s)
  /\ Slip(s) /\ spend' = NoSub
  /\ UNCHANGED <<vars, key, keys, day, born, asker, asks>>

(* stamp_uploader_key_used before it raises: the handler ends, and the row stays
   at RECEIVED like one whose scan gave no answer *)
StampFails(s) ==
  /\ spend = s /\ s # NoSub /\ MaySlip(s)
  /\ Scanned(s, "error")
  /\ Slip(s) /\ spend' = NoSub
  /\ UNCHANGED <<key, keys, day, born, asker, asks>>

(* what else the event loop runs *)
Rest == \/ \E s \in Sub : \/ Refuse(s) \/ Promote(s) \/ RejectAV(s) \/ QueueJob(s)
                          \/ \E v \in Verdicts : Scanned(s, v)
                          \/ Poll(s)
        \/ PollPass \/ Curator

(* requests in flight are lost with the process *)
KCrash ==
  /\ GatewayCrash
  /\ asks' = [a \in Ask |-> IF asks[a].at = "idle" THEN asks[a] ELSE [asks[a] EXCEPT !.at = "over"]]
  /\ IF spend = NoSub THEN UNCHANGED slips ELSE Slip(spend)
  /\ spend' = NoSub
  /\ UNCHANGED <<key, keys, day, born, asker>>

-----------------------------------------------------------------------------
(* The rows of uploader_keys. *)

WriteKey(k, r) ==
  /\ keys' = [keys EXCEPT ![k] = r]
  /\ UNCHANGED <<vars, key, spend, day, born, asker, slips>>

(* handle_uploader_create *)
Create(k) == keys[k] = NoRow /\ WriteKey(k, Issued) /\ UNCHANGED asks

(* handle_uploader_revoke: a row stays, and is revoked once *)
Revoke(k) == /\ keys[k].status \in {"active", "expired"}
             /\ WriteKey(k, [keys[k] EXCEPT !.status = "revoked"])
             /\ UNCHANGED asks

(* expires_utc has passed *)
Expire(k) == /\ keys[k].status = "active" /\ keys[k].kind = "email"
             /\ WriteKey(k, [keys[k] EXCEPT !.status = "expired"])
             /\ UNCHANGED asks

-----------------------------------------------------------------------------
(* A request for a key, in its thread. *)

Go(a, r) == asks' = [asks EXCEPT ![a] = r]
GoOver(a) == Go(a, [asks[a] EXCEPT !.at = "over"])
Alone == UNCHANGED <<vars, key, keys, spend, day, born, asker, slips>>

(* handle_request_key reads the day *)
Begin(a) ==
  /\ asks[a] = Unasked /\ asker[a] \in Address
  /\ Go(a, [asks[a] EXCEPT !.at = "begun", !.since = day])
  /\ Alone

Logged(d) == {b \in Ask : asks[b].logged = d}
LoggedFor(d, who) == {b \in Logged(d) : asker[b] = who}

Room(d, who) == Cardinality(LoggedFor(d, who)) < PerAddress /\ Cardinality(Logged(d)) < PerDay

(* try_record_key_request: the counts of the day it began, then a row with the day
   it is now, under the lock of the database *)
Permit(a) ==
  /\ asks[a].at = "begun" /\ Room(asks[a].since, asker[a])
  /\ Go(a, [asks[a] EXCEPT !.at = "permitted", !.logged = day])
  /\ Alone

(* over a cap, or the statement fails: no key *)
Deny(a) ==
  /\ asks[a].at = "begun"
  /\ GoOver(a)
  /\ Alone

(* create_email_verified_key; the mail may not arrive, the key is there *)
Mint(a, k) ==
  /\ asks[a].at = "permitted" /\ keys[k] = NoRow
  /\ WriteKey(k, Mailed)
  /\ GoOver(a)

MintFails(a) ==
  /\ asks[a].at = "permitted"
  /\ GoOver(a)
  /\ Alone

Midnight ==
  /\ day < MaxDays /\ day' = day + 1
  /\ UNCHANGED <<vars, key, keys, spend, born, asker, asks, slips>>

-----------------------------------------------------------------------------
Handler(s) == KSubmit(s) \/ KInsert(s) \/ Spend(s) \/ SpendFails(s) \/ StampFails(s)

Thread(a) == Begin(a) \/ Permit(a) \/ Deny(a) \/ (\E k \in Key : Mint(a, k)) \/ MintFails(a)

KNext == \/ \E s \in Sub : Handler(s)
         \/ spend = NoSub /\ Rest /\ UNCHANGED keyVars
         \/ (Runner \/ Clock) /\ UNCHANGED keyVars
         \/ KCrash
         \/ \E k \in Key : Create(k) \/ Revoke(k) \/ Expire(k)
         \/ \E a \in Ask : Thread(a)
         \/ Midnight

KSpec == KInit /\ [][KNext]_<<vars, keyVars>>

-----------------------------------------------------------------------------
Day == 0..MaxDays

(* Types; the allowance of a key is never negative, and is charged to an upload
   whose row is there. *)
KTypeOK ==
  /\ key \in [Sub -> Key \cup {EnvKey, NoKey}]
  /\ keys \in [Key -> [status : {"none", "active", "expired", "revoked"},
                       kind : {"none", "email", "operator"}, left : 0..Allowance]]
  /\ spend \in Sub \cup {NoSub}
  /\ spend # NoSub => Charged(key[spend]) /\ row[spend] = "RECEIVED"
  /\ day \in Day /\ born \in [Sub -> Day \cup {Never}]
  /\ asker \in [Ask -> Address \cup {NoAddress}]
  /\ asks \in [Ask -> [at : {"idle", "begun", "permitted", "over"},
                       since : Day \cup {Never}, logged : Day \cup {Never}]]
  /\ slips \in [Key -> Nat]

(* A key is good for its allowance: no more uploads are accepted under it, but for
   those that were already being received when the last submission was spent, of
   which the in-flight cap leaves room for one less than it admits, and for those
   that could not be charged (app.py 2838-2846 reads the allowance, 294-302 spends it). *)
AllowanceBound ==
  \A k \in Key : keys[k].kind = "email" =>
     Cardinality(Accepted(k)) <= Allowance + (MaxInflight - 1) + slips[k]

(* The caps of a day hold for the day a row is written on, though an upload is counted
   when it begins and a request for a key by the day it began, which another midnight
   may separate from the row (app.py 179-183, 2766-2779, db.py 587-621). *)
DailyCaps ==
  \A d \in Day :
    /\ Cardinality({s \in Sub : row[s] # "none" /\ born[s] = d}) <= MaxPerDay
    /\ Cardinality({a \in Logged(d) : asks[a].since = d}) <= PerDay
    /\ \A who \in Address : Cardinality({a \in LoggedFor(d, who) : asks[a].since = d}) <= PerAddress
=============================================================================
