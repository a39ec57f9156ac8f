-------------------------------- MODULE Stats --------------------------------
(***************************************************************************)
(* Usage analytics.  The front door logs every request in a file it rolls  *)
(* (deploy/frontdoor/Caddyfile); a timer on the box copies the files       *)
(* (deploy/frontdoor/ship-frontdoor-logs.sh), and once a day another one   *)
(* folds the days that are over into stats.json and appends them to the    *)
(* archive (deploy/scripts/aggregate_stats.py).  Nothing locks the three   *)
(* out of each other: a roll may come between the listing and the copying  *)
(* of the files, a copy while the fold reads them, and each may be cut.    *)
(*                                                                         *)
(* A line of the log is its index in log.  Sizes are one byte a line.      *)
(***************************************************************************)
EXTENDS Integers, Sequences, FiniteSets, FiniteSetsExt, SequencesExt, TLC

CONSTANTS
  Net, Path,     \* masked client networks; paths below /data/ and /go/ts/
  Served,        \* the paths the served manifest and ts_access.json publish
  Traffic,       \* the sequences of requests that may come
  MaxDay, MaxFaults,    \* bounds: days, failures and kills
  MonthDays, DailyKeep, RollKeep   \* days of a month, of the daily window; rolls kept

Kind == {"visit", "api", "download", "handoff", "ignore"}
Client == {"browser", "scripted", "crawler"}
Request == [kind : Kind, status : {200, 206, 302, 304, 404},
            client : Client,
            net : Net, path : Path, bulk : BOOLEAN]

ASSUME StatsAssumption ==
  /\ Served \subseteq Path /\ Traffic \subseteq Seq(Request)
  /\ {MaxDay, MonthDays, DailyKeep, RollKeep} \subseteq Nat \ {0} /\ MaxFaults \in Nat

VARIABLES
  today, coming,            \* the requests still to come
  log,                      \* the lines: a sequence of [day, req]
  live, rolls,              \* the front door: the file written to, the rolls
  pull,                     \* the copying: rolls listed and still to come
  boxLive, boxRolls,        \* the copies on the box
  fold,                     \* the fold: the copies still to read, what was read
  book,                     \* stats.json: the watermark and the rows
  archive, torn,            \* the archive; its last line lacks its end
  faults,                   \* failures so far
  \* history of the present stats.json: the lines counted, days whose append failed,
  \* and the rows the archive held when it began
  folded, unsure, era

statsVars == <<today, coming, log, live, rolls, pull, boxLive, boxRolls, fold, book, archive, torn,
               faults, folded, unsure, era>>
clients == <<today, coming, log>>
frontDoor == <<live, rolls>>
box == <<boxLive, boxRolls>>
results == <<book, archive, torn, folded, unsure, era>>

Days == 1..MaxDay
Month(d) == (d - 1) \div MonthDays

(* what a loop over the days D adds up, f being a function of the day *)
Total(f, D) ==
  LET upto[d \in 0 .. MaxDay] == IF d = 0 THEN 0 ELSE upto[d - 1] + (IF d \in D THEN f[d] ELSE 0)
  IN upto[MaxDay]

Increasing(s) == \A j, k \in DOMAIN s : j < k => s[j] < s[k]
Sorted(S) == CHOOSE s \in [1 .. Cardinality(S) -> S] : Increasing(s) /\ ToSet(s) = S

-----------------------------------------------------------------------------
(* What a line counts for. *)

Answers == [visit |-> {200, 304}, api |-> {200, 304}, download |-> {200, 206},
            handoff |-> {302}, ignore |-> {}]
Admitted(r) == r.client # "crawler" /\ r.status \in Answers[r.kind]

(* only days that are over, and only days above the watermark *)
\* the day that is not over is counted as well: DayWhole
FaultyComplete(d, now) == d <= now
Complete(d, now) == d < now
\* the last day of the fold before is counted again: ArchivedOnce
FaultyUnfolded(d, last) == d >= last
Unfolded(d, last) == d > last

Measure == {"visits", "api", "downloads", "bytes", "single", "bulk", "browser", "scripted",
            "unattributed", "handoffs", "handoffBytes", "drift", "networks", "exports", "days"}
Zero == [m \in Measure |-> 0]
Row(rows, p) == IF p \in DOMAIN rows THEN rows[p] ELSE Zero

(* the rows a line lands in: totals, month, day, and the archive row of this run *)
All == <<"all", 0>>
Landing(d) == {All, <<"month", Month(d)>>, <<"day", d>>, <<"archive", d>>}
Landed(p) == {d \in Days : p \in Landing(d)}

(* the served manifest or hand-off index has the path; otherwise the request is drift *)
Published(r) == r.path \in Served
Label(r) == IF r.bulk THEN "bulk" ELSE "single"

(* the measures a line adds one to; a copy of a download already counted adds bytes only *)
Marks(r, first) ==
  CASE r.kind = "visit"   -> {"visits"}
    [] r.kind = "api"     -> {"api"}
    [] r.kind = "handoff" -> {"handoffs", IF Published(r) THEN "handoffBytes" ELSE "drift"}
    [] OTHER -> {"bytes"} \cup (IF ~first THEN {}
                                ELSE {"downloads", r.client, Label(r)} \cup
                                     (IF Published(r) THEN {} ELSE {"unattributed"}))

(* a day row carries no split, no client and no archive detail *)
DayMeasure == {"visits", "api", "downloads", "bytes", "handoffs", "handoffBytes", "drift"}
Grain(p) == IF p[1] = "day" THEN DayMeasure ELSE Measure
Bumped(row, marks) == [m \in Measure |-> row[m] + IF m \in marks THEN 1 ELSE 0]

(* a counted download turns out to be part of an export: it moves *)
\* the download is added to the one class and not taken from the other: CountsExact
FaultyReclassified(row) == [row EXCEPT !["bulk"] = @ + 1]
Reclassified(row) == [row EXCEPT !["single"] = @ - 1, !["bulk"] = @ + 1]

(* one line; seen, nets and exporters live as long as the run *)
Count(acc, i) ==
  LET r == log[i].req
      d == log[i].day
      key == <<d, r.net, r.path>>
      load == r.kind = "download"
      first == key \notin DOMAIN acc.seen
      moves == load /\ ~first /\ r.bulk /\ acc.seen[key] = "single"
      bump(p) == Bumped(Row(acc.rows, p), Marks(r, first) \cap Grain(p))
      after(p) == IF moves /\ p[1] # "day" THEN Reclassified(bump(p)) ELSE bump(p)
  IN [rows |-> [p \in Landing(d) \cup DOMAIN acc.rows |->
                  IF p \in Landing(d) THEN after(p) ELSE acc.rows[p]],
      seen |-> IF load /\ (first \/ moves)
                 THEN [k \in {key} \cup DOMAIN acc.seen |->
                         IF k = key THEN Label(r) ELSE acc.seen[k]]
                 ELSE acc.seen,
      nets |-> acc.nets \cup {<<d, r.net>>},
      exporters |-> acc.exporters \cup (IF load /\ r.bulk THEN {<<d, r.net>>} ELSE {})]

(* The stats.json a fold goes on from: one it could not read or parse counts as none,
   the empty skeleton with no watermark, and the figures begin again. *)
Skeleton == [last |-> 0, rows |-> [p \in {All} |-> Zero]]
Prev == IF fold.lost THEN Skeleton ELSE book
Past == IF fold.lost THEN << >> ELSE folded

(* one after the other, in the order they were read *)
Start == [rows |-> Prev.rows, seen |-> << >>, nets |-> {}, exporters |-> {}]
Tally(used) ==
  LET after[k \in 0 .. Len(used)] == IF k = 0 THEN Start ELSE Count(after[k - 1], used[k])
  IN after[Len(used)]

(* after the lines: networks, their peak in a month, exports and active days, of the
   days of this run *)
Networks(pairs, d) == {x[2] : x \in {y \in pairs : y[1] = d}}
Of(pairs, d) == Cardinality(Networks(pairs, d))
Closed(acc, days) ==
  LET exports == [d \in Days |-> Of(acc.exporters, d)]
      closed(p, D) ==
        LET row == acc.rows[p]
        IN CASE p[1] = "all" -> [row EXCEPT !["exports"] = @ + Total(exports, D)]
             [] p[1] = "month" -> [row EXCEPT !["exports"] = @ + Total(exports, D),
                                              !["days"] = @ + Cardinality(D),
                                              !["networks"] = Max({@} \cup {Of(acc.nets, d) : d \in D})]
             [] p[1] = "day" -> [row EXCEPT !["networks"] = Of(acc.nets, p[2])]
             [] OTHER -> [row EXCEPT !["networks"] = Of(acc.nets, p[2]), !["exports"] = exports[p[2]]]
  IN [p \in DOMAIN acc.rows |->
        IF days \cap Landed(p) = {} THEN acc.rows[p] ELSE closed(p, days \cap Landed(p))]

(* daily rows are a window that ends at the watermark; months are for good *)
InWindow(p, last) == p[1] # "archive" /\ (p[1] = "day" => p[2] > last - DailyKeep)
Pruned(rows, last) == [p \in {q \in DOMAIN rows : InWindow(q, last)} |-> rows[p]]

(* the fold of the lines read, on the day now: the new book, and the archive's rows *)
Counts(i, now) == /\ Complete(log[i].day, now) /\ Unfolded(log[i].day, Prev.last)
                  /\ Admitted(log[i].req)
Used(lines, now) ==
  LET at == Sorted({k \in DOMAIN lines : Counts(lines[k], now)})
  IN [j \in DOMAIN at |-> lines[at[j]]]
Aggregate(lines, now) ==
  LET used == Used(lines, now)
      days == {log[used[k]].day : k \in DOMAIN used}
      rows == Closed(Tally(used), days)
      last == Max({Prev.last, now - 1})
      order == Sorted(days)
  IN [used |-> used,
      book |-> [last |-> last, rows |-> Pruned(rows, last)],
      rows |-> [k \in DOMAIN order |-> [day |-> order[k], row |-> rows[<<"archive", order[k]>>]]]]

-----------------------------------------------------------------------------
Idle == [pc |-> "idle", day |-> 0, left |-> {}, lines |-> << >>, rows |-> << >>,
         lost |-> FALSE, sound |-> FALSE]
(* since: the day a pull began that ended with nothing in its way, 0 if the last did not *)
Still == [on |-> FALSE, todo |-> {}, since |-> 0, smooth |-> FALSE]

StatsInit ==
  /\ today = 1 /\ coming \in Traffic /\ log = << >>
  /\ live = << >> /\ rolls = {} /\ pull = Still
  /\ boxLive = << >> /\ boxRolls = {}
  /\ fold = Idle
  /\ book = Skeleton
  /\ archive = << >> /\ torn = FALSE
  /\ faults = 0 /\ folded = << >> /\ unsure = {} /\ era = 0

Fail == faults < MaxFaults /\ faults' = faults + 1

(* External: a request is answered and logged; the file is full; a day ends. *)
Arrive ==
  /\ coming # << >>
  /\ log' = Append(log, [day |-> today, req |-> Head(coming)])
  /\ coming' = Tail(coming)
  /\ live' = Append(live, Len(log) + 1)
  /\ UNCHANGED <<today, rolls, pull, box, fold, results, faults>>

(* a roll is named after its time: the first line tells them apart and orders them *)
Oldest(S) == CHOOSE f \in S : \A g \in S : f[1] <= g[1]
RollUp ==
  /\ live # << >>
  /\ LET all == rolls \cup {live}
     IN rolls' = IF Cardinality(all) > RollKeep THEN all \ {Oldest(all)} ELSE all
  /\ live' = << >>
  /\ pull' = [pull EXCEPT !.smooth = FALSE]
  /\ UNCHANGED <<clients, box, fold, results, faults>>

Midnight ==
  /\ today < MaxDay
  /\ today' = today + 1
  /\ UNCHANGED <<coming, log, frontDoor, pull, box, fold, results, faults>>

(* The pull: rsync lists the directory, then copies file by file in order of
   name, the rolls by their time and the live file last. *)
PullStart ==
  /\ ~pull.on
  /\ pull' = [on |-> TRUE, todo |-> rolls, since |-> today, smooth |-> TRUE]
  /\ fold' = [fold EXCEPT !.sound = FALSE]
  /\ UNCHANGED <<clients, frontDoor, box, results, faults>>

PullRoll ==
  /\ pull.on /\ pull.todo # {}
  /\ LET f == Oldest(pull.todo)
     IN /\ pull' = [pull EXCEPT !.todo = @ \ {f}, !.smooth = @ /\ f \in rolls]
        /\ boxRolls' = IF f \in rolls THEN boxRolls \cup {f} ELSE boxRolls
  /\ UNCHANGED <<clients, frontDoor, boxLive, fold, results, faults>>

PullLive ==
  /\ pull.on /\ pull.todo = {}
  /\ boxLive' = live
  /\ pull' = [Still EXCEPT !.since = IF pull.smooth THEN pull.since ELSE 0]
  /\ UNCHANGED <<clients, frontDoor, boxRolls, fold, results, faults>>

PullFail ==
  /\ Fail
  /\ pull.on
  /\ pull' = Still
  /\ UNCHANGED <<clients, frontDoor, box, fold, results>>

-----------------------------------------------------------------------------
(* The fold: stats.json and the list of files, then each file, then the result. *)
Started(lost) == [Idle EXCEPT !.pc = "read", !.day = today, !.left = boxRolls \cup {<< >>},
                              !.lost = lost, !.sound = ~pull.on /\ pull.since = today]
FoldStart ==
  /\ fold.pc = "idle"
  /\ fold' = Started(FALSE)
  /\ UNCHANGED <<clients, frontDoor, pull, box, results, faults>>

(* stats.json cannot be opened, or is truncated or no JSON object *)
FoldStartLost ==
  /\ Fail
  /\ fold.pc = "idle"
  /\ fold' = Started(TRUE)
  /\ UNCHANGED <<clients, frontDoor, pull, box, results>>

(* << >> stands for the live copy, whose name sorts after those of the rolls *)
NextFile == IF fold.left = {<< >>} THEN << >> ELSE Oldest(fold.left \ {<< >>})

FoldRead ==
  /\ fold.pc = "read" /\ fold.left # {}
  /\ LET f == NextFile
     IN fold' = [fold EXCEPT !.left = @ \ {f}, !.lines = @ \o (IF f = << >> THEN boxLive ELSE f)]
  /\ UNCHANGED <<clients, frontDoor, pull, box, results, faults>>

(* a file that cannot be opened is named on stderr and the fold goes on without it *)
FoldSkip ==
  /\ Fail
  /\ fold.pc = "read" /\ fold.left # {}
  /\ fold' = [fold EXCEPT !.left = @ \ {NextFile}, !.sound = FALSE]
  /\ UNCHANGED <<clients, frontDoor, pull, box, results>>

FoldWrite ==
  /\ fold.pc = "read" /\ fold.left = {}
  /\ LET new == Aggregate(fold.lines, fold.day)
     IN /\ book' = new.book
        /\ folded' = Past \o new.used
        /\ IF fold.lost THEN unsure' = {} /\ era' = Len(archive) ELSE UNCHANGED <<unsure, era>>
        /\ fold' = IF new.rows = << >> THEN Idle
                   ELSE [Idle EXCEPT !.pc = "append", !.rows = new.rows]
  /\ UNCHANGED <<clients, frontDoor, pull, box, archive, torn, faults>>

(* The append.  A cut one, or one on a full disk, leaves the first k rows and
   perhaps the start of the next; what is appended to a torn line is lost with it. *)
Appended(rows) == archive \o (IF torn /\ rows # << >> THEN Tail(rows) ELSE rows)
DaysOf(rows) == {rows[k].day : k \in DOMAIN rows}

FoldAppend ==
  /\ fold.pc = "append"
  /\ archive' = Appended(fold.rows) /\ torn' = FALSE
  /\ unsure' = IF torn THEN unsure \cup {fold.rows[1].day} ELSE unsure
  /\ fold' = Idle
  /\ UNCHANGED <<clients, frontDoor, pull, box, book, folded, era, faults>>

FoldCut ==
  /\ Fail
  /\ fold.pc = "append"
  /\ \E k \in 0 .. Len(fold.rows) - 1, part \in BOOLEAN :
       /\ archive' = Appended(SubSeq(fold.rows, 1, k))
       /\ torn' = (part \/ (torn /\ k = 0))
  /\ unsure' = unsure \cup DaysOf(fold.rows)
  /\ fold' = Idle
  /\ UNCHANGED <<clients, frontDoor, pull, box, book, folded, era>>

(* killed, or stopped by an exception, before stats.json is replaced *)
FoldStop ==
  /\ Fail
  /\ fold.pc = "read"
  /\ fold' = Idle
  /\ UNCHANGED <<clients, frontDoor, pull, box, results>>

StatsNext ==
  \/ Arrive \/ RollUp \/ Midnight
  \/ PullStart \/ PullRoll \/ PullLive \/ PullFail
  \/ FoldStart \/ FoldStartLost \/ FoldRead \/ FoldSkip \/ FoldWrite
  \/ FoldAppend \/ FoldCut \/ FoldStop

StatsSpec == StatsInit /\ [][StatsNext]_statsVars

-----------------------------------------------------------------------------
(* What the figures of a day should be, from the lines counted, whatever their order. *)
Lines(s, d, K) == {k \in DOMAIN s : log[s[k]].day = d /\ log[s[k]].req.kind \in K}
Asked(s, k) == log[s[k]].req
Loads(s, d) == Lines(s, d, {"download"})
Copy(r) == <<r.net, r.path>>
Copies(s, d) == {Copy(Asked(s, k)) : k \in Loads(s, d)}
Exported(s, d) == {Copy(Asked(s, k)) : k \in {j \in Loads(s, d) : Asked(s, j).bulk}}
Handed(s, d) == Lines(s, d, {"handoff"})
Nets(s, d) == {Asked(s, k).net : k \in Lines(s, d, Kind)}
Exporters(s, d) == {c[1] : c \in Exported(s, d)}
Figure(s, d) == [
  visits |-> Cardinality(Lines(s, d, {"visit"})), api |-> Cardinality(Lines(s, d, {"api"})),
  downloads |-> Cardinality(Copies(s, d)), bytes |-> Cardinality(Loads(s, d)),
  bulk |-> Cardinality(Exported(s, d)), single |-> Cardinality(Copies(s, d) \ Exported(s, d)),
  unattributed |-> Cardinality({c \in Copies(s, d) : c[2] \notin Served}),
  handoffs |-> Cardinality(Handed(s, d)),
  drift |-> Cardinality({k \in Handed(s, d) : Asked(s, k).path \notin Served}),
  networks |-> Cardinality(Nets(s, d)), exports |-> Cardinality(Exporters(s, d))]

Figures(s) == [d \in Days |-> Figure(s, d)]
Sum(fig, m, D) == Total([d \in Days |-> fig[d][m]], D)
Active(s) == {log[s[k]].day : k \in DOMAIN s}
Additive == {"visits", "api", "downloads", "bytes", "bulk", "single", "unattributed", "handoffs",
             "drift"}
FigureMeasure == Additive \cup {"networks", "exports"}

(* what a line changes, and what is settled after the lines *)
Counted(fig, p, row) ==
  /\ \A m \in Additive \cap Grain(p) : row[m] = Sum(fig, m, Landed(p))
  /\ row["handoffBytes"] + row["drift"] = row["handoffs"]
  /\ p[1] # "day" => row["browser"] + row["scripted"] = row["downloads"]
Settled(fig, p, row, days) ==
  /\ p[1] = "day" => row["networks"] = Sum(fig, "networks", Landed(p))
  /\ p[1] # "day" => row["exports"] = Sum(fig, "exports", Landed(p))
  /\ p[1] = "month" => /\ row["days"] = Cardinality(days \cap Landed(p))
                       /\ row["networks"] = Max({fig[d].networks : d \in days \cap Landed(p)})

(* The rows of a stats.json with this watermark are those of the lines s. *)
Exact(rows, last, s) ==
  LET fig == Figures(s)
      days == Active(s)
  IN /\ fig \in [Days -> [FigureMeasure -> Nat]]
     /\ DOMAIN rows = {All} \cup {<<"month", Month(d)>> : d \in days}
                      \cup {<<"day", d>> : d \in {x \in days : x > last - DailyKeep}}
     /\ \A p \in DOMAIN rows : Counted(fig, p, rows[p]) /\ Settled(fig, p, rows[p], days)

(* Totals, months, days and archive state the same figures: those of the lines
   counted since the present stats.json began, each network's download of a file
   once a day, as an export if any of its lines was one, and every line's bytes;
   whatever order the lines came in, whenever the window was pruned, and whatever
   a stats.json that could not be read had counted before.  (aggregate, the
   within-day dedupe and the bulk/single split that must be revisable.) *)
CountsExact == Exact(book.rows, book.last, folded)

(* A fold after a pull that began on its day, that nothing got in the way of and no
   other followed, counts whole the days above the watermark it goes by, and each of
   their lines once: what reached no file on either side before is all that is missing.
   No later fold adds to a day below the watermark, unless stats.json could not be
   read: then counting begins again from no watermark, and ends no earlier than the
   lost one stood.  (The last pull before the fold has run, ausmt-frontdoor-logs.timer;
   last_folded_date < d < today, aggregate; _coerce_prev.) *)
Kept == UNION {ToSet(f) : f \in rolls \cup boxRolls \cup {live, boxLive}}
Times(i) == Cardinality({k \in DOMAIN folded : folded[k] = i})
DayWhole ==
  [][/\ fold.sound /\ FoldWrite =>
          \A i \in DOMAIN log : log[i].day \in Prev.last + 1 .. book'.last =>
            Times(i)' = IF i \in Kept /\ Admitted(log[i].req) THEN 1 ELSE 0
     /\ ~(fold.lost /\ FoldWrite) =>
          \A i \in DOMAIN log : log[i].day <= book.last => Times(i)' = Times(i)
     /\ book'.last >= book.last]_statsVars

(* What was appended to the archive since the present stats.json began holds a day at
   most once, in order, with the figures stats.json was given, and none that stats.json
   has not; a day counted is missing there only if its own append was cut short or met
   a line torn by an earlier one.  Rows of before are never rewritten, so a stats.json
   that could not be read leaves a day's row of before beside its new one, and is all
   that can.  (append_daily_archive after write_stats_atomic; _coerce_prev.) *)
Recent == SubSeq(archive, era + 1, Len(archive))
ArchivedOnce ==
  /\ \A j, k \in DOMAIN Recent : j < k => Recent[j].day < Recent[k].day
  /\ \A k \in DOMAIN Recent : LET a == Recent[k] IN
       /\ a.day \in Active(folded)
       /\ LET figure == Figure(folded, a.day) IN \A m \in DOMAIN figure : a.row[m] = figure[m]
  /\ Active(folded) \subseteq DaysOf(Recent) \cup DaysOf(fold.rows) \cup unsure
=============================================================================
