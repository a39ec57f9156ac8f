----------------------------- MODULE StatsProofs -----------------------------
(***************************************************************************)
(* Proofs about Stats: a day is counted whole and once, the figures are    *)
(* those of the lines counted, and the archive has each day once since the *)
(* present stats.json began, for any traffic, any number of days, rolls    *)
(* kept, failures, kills and losses of stats.json.                         *)
(***************************************************************************)
EXTENDS Stats, FiniteSetTheorems, WellFoundedInduction, TLAPS

-----------------------------------------------------------------------------
(* Induction over the naturals, for a set of them. *)
LEMMA NatSetInduction ==
  ASSUME NEW S, 0 \in S, \A n \in Nat : n \in S => n + 1 \in S
  PROVE  Nat \subseteq S
<1> DEFINE T == {n \in Nat : n \notin S}
<1>1. SUFFICES ASSUME T # {} PROVE FALSE
  OBVIOUS
<1>2. PICK n \in T : \A m \in T : ~(<<m, n>> \in OpToRel(<, Nat))
  BY <1>1, NatLessThanWellFounded, WFMin
<1>3. \A m \in T : ~(m < n)
  BY <1>2 DEF OpToRel
<1>4. n # 0
  OBVIOUS
<1>5. n - 1 \in Nat /\ n - 1 < n
  BY <1>4
<1>6. n - 1 \in S
  BY <1>3, <1>5
<1>7. QED
  BY <1>5, <1>6

(* A set of natural numbers that is not empty has a least element. *)
LEMMA Least ==
  ASSUME NEW S \in SUBSET Nat, S # {}
  PROVE  \E m \in S : \A n \in S : m <= n
<1>1. PICK m \in S : \A n \in S : ~(<<n, m>> \in OpToRel(<, Nat))
  BY NatLessThanWellFounded, WFMin
<1>2. \A n \in S : ~(n < m)
  BY <1>1 DEF OpToRel
<1> QED
  BY <1>2

(* The greater of two numbers. *)
LEMMA MaxOfTwo ==
  ASSUME NEW a \in Int, NEW b \in Int
  PROVE  /\ Max({a, b}) \in {a, b}
         /\ Max({a, b}) >= a /\ Max({a, b}) >= b
<1>1. \E x \in {a, b} : \A y \in {a, b} : x >= y
  OBVIOUS
<1> QED
  BY <1>1 DEF Max

(* Sets of numbers up to n are finite. *)
LEMMA UpTo ==
  ASSUME NEW n \in Nat, NEW S \in SUBSET (1 .. n)
  PROVE  IsFiniteSet(S) /\ Cardinality(S) \in Nat
<1>1. IsFiniteSet(1 .. n)
  BY FS_Interval, 1 \in Int, n \in Int
<1>2. IsFiniteSet(S)
  BY <1>1, FS_Subset
<1> QED
  BY <1>2, FS_CardinalityType

-----------------------------------------------------------------------------
(* Sorted sequences: every set of numbers up to n is the range of one. *)
LEMMA SortedExists ==
  ASSUME NEW n \in Nat, NEW S \in SUBSET (1 .. n)
  PROVE  \E s \in [1 .. Cardinality(S) -> S] : Increasing(s) /\ ToSet(s) = S
<1> DEFINE P(m) == \A T \in SUBSET (1 .. m) :
                     \E s \in [1 .. Cardinality(T) -> T] : Increasing(s) /\ ToSet(s) = T
           Good == {m \in Nat : P(m)}
<1>1. 0 \in Good
  <2>1. ASSUME NEW T \in SUBSET (1 .. 0) 
        PROVE  \E s \in [1 .. Cardinality(T) -> T] : Increasing(s) /\ ToSet(s) = T
    <3>0. T = {}
      OBVIOUS
    <3>1. T = {} /\ Cardinality(T) = 0
      BY <3>0, FS_EmptySet
    <3>2. << >> \in [1 .. Cardinality(T) -> T] /\ Increasing(<< >>) /\ ToSet(<< >>) = T
      BY <3>1 DEF Increasing, ToSet
    <3> QED
      BY <3>2
  <2> QED
    BY <2>1
<1>2. ASSUME NEW m \in Nat, m \in Good PROVE m + 1 \in Good
  <2>1. ASSUME NEW T \in SUBSET (1 .. m + 1)
        PROVE  \E s \in [1 .. Cardinality(T) -> T] : Increasing(s) /\ ToSet(s) = T
    <3>1. CASE m + 1 \notin T
      <4>1. T \in SUBSET (1 .. m)
        BY <3>1
      <4> QED
        BY <4>1, <1>2
    <3>2. CASE m + 1 \in T
      <4> DEFINE U == T \ {m + 1}
                 c == Cardinality(U)
      <4>1. U \in SUBSET (1 .. m)
        OBVIOUS
      <4>2. PICK s \in [1 .. Cardinality(U) -> U] : Increasing(s) /\ ToSet(s) = U
        BY <4>1, <1>2
      <4>3. IsFiniteSet(T)
        BY UpTo, m + 1 \in Nat
      <4>a. Cardinality(T) \in Nat /\ Cardinality(U) = Cardinality(T) - 1
        BY <4>3, <3>2, FS_RemoveElement, FS_CardinalityType
      <4>b. Cardinality(U) \in Nat
        BY <4>1, UpTo
      <4>4. c \in Nat /\ Cardinality(T) = c + 1
        BY <4>a, <4>b
      <4> HIDE DEF c, U
      <4> DEFINE t == [k \in 1 .. c + 1 |-> IF k = c + 1 THEN m + 1 ELSE s[k]]
      <4>5. U \subseteq 1 .. m /\ T = U \cup {m + 1}
        BY <3>2 DEF U
      <4>6. s \in [1 .. c -> U]
        BY <4>2 DEF c
      <4>7. t \in [1 .. Cardinality(T) -> T]
        <5>1. \A k \in 1 .. c + 1 : k # c + 1 => k \in 1 .. c
          BY <4>4
        <5>2. \A k \in 1 .. c + 1 : t[k] \in T
          BY <5>1, <4>5, <4>6
        <5> QED
          BY <5>2, <4>4
      <4>8. Increasing(t)
        <5> SUFFICES ASSUME NEW j \in 1 .. c + 1, NEW k \in 1 .. c + 1, j < k PROVE t[j] < t[k]
          BY DEF Increasing
        <5>a. j \in 1 .. c /\ j # c + 1
          BY <4>4
        <5>1. j \in 1 .. c /\ t[j] = s[j] /\ s[j] \in 1 .. m
          BY <5>a, <4>5, <4>6
        <5>2. CASE k = c + 1
          BY <5>1, <5>2
        <5>3. CASE k # c + 1
          <6>1. k \in 1 .. c /\ t[k] = s[k]
            BY <5>3, <4>4
          <6>2. DOMAIN s = 1 .. c
            BY <4>6
          <6> QED
            BY <6>1, <6>2, <5>1, <4>2 DEF Increasing
        <5> QED
          BY <5>2, <5>3
      <4>9. ToSet(t) = T
        <5>1. t[c + 1] = m + 1 /\ \A k \in 1 .. c : t[k] = s[k]
          BY <4>4
        <5>2. DOMAIN t = 1 .. c \cup {c + 1}
          BY <4>4
        <5>3. DOMAIN s = 1 .. c
          BY <4>6
        <5> QED
          BY <5>1, <5>2, <5>3, <4>2, <4>5 DEF ToSet
      <4> QED
        BY <4>7, <4>8, <4>9
    <3> QED
      BY <3>1, <3>2
  <2>2. P(m + 1)
    BY <2>1
  <2> HIDE DEF P
  <2> QED
    BY <2>2
<1>3. Nat \subseteq Good
  BY <1>1, <1>2, NatSetInduction
<1> QED
  BY <1>3

LEMMA SortedProps ==
  ASSUME NEW n \in Nat, NEW S \in SUBSET (1 .. n)
  PROVE  /\ Cardinality(S) \in Nat /\ IsFiniteSet(S)
         /\ Sorted(S) \in [1 .. Cardinality(S) -> S] /\ Sorted(S) \in Seq(S)
         /\ Increasing(Sorted(S)) /\ ToSet(Sorted(S)) = S
<1>1. IsFiniteSet(S) /\ Cardinality(S) \in Nat
  BY UpTo
<1>2. /\ Sorted(S) \in [1 .. Cardinality(S) -> S]
      /\ Increasing(Sorted(S)) /\ ToSet(Sorted(S)) = S
  BY SortedExists DEF Sorted
<1> QED
  BY <1>1, <1>2

(* The lines used: those of the lines read that count, in the order they were read. *)
LEMMA UsedProps ==
  ASSUME NEW lines \in Seq(Nat), NEW now
  PROVE  LET used == Used(lines, now)
         IN /\ used \in Seq(Nat)
            /\ ToSet(used) = {i \in ToSet(lines) : Counts(i, now)}
            /\ Increasing(lines) => Increasing(used)
<1> DEFINE K == {k \in DOMAIN lines : Counts(lines[k], now)}
           at == Sorted(K)
           c == Cardinality(K)
<1>1. DOMAIN lines = 1 .. Len(lines) /\ Len(lines) \in Nat /\ K \in SUBSET (1 .. Len(lines))
  OBVIOUS
<1>2. /\ c \in Nat /\ at \in [1 .. c -> K]
      /\ Increasing(at) /\ ToSet(at) = K
  BY <1>1, SortedProps
<1>3. Used(lines, now) = [j \in 1 .. c |-> lines[at[j]]]
  BY <1>2 DEF Used
<1>4. K \subseteq DOMAIN lines /\ (\A k \in DOMAIN lines : lines[k] \in Nat)
  OBVIOUS
<1>5. \A i : i \in ToSet(lines) /\ Counts(i, now) <=> \E k \in K : i = lines[k]
  BY DEF ToSet
<1> HIDE DEF K, at, c
<1>6. Used(lines, now) \in Seq(Nat)
  <2>1. \A j \in 1 .. c : lines[at[j]] \in Nat
    BY <1>2, <1>4
  <2> QED
    BY <2>1, <1>2, <1>3
<1>7. ToSet(Used(lines, now)) = {i \in ToSet(lines) : Counts(i, now)}
  <2> DEFINE u == Used(lines, now)
  <2>1. DOMAIN u = 1 .. c /\ \A j \in 1 .. c : u[j] = lines[at[j]]
    BY <1>3
  <2> HIDE DEF u
  <2>2. \A i : i \in ToSet(u) <=> \E j \in 1 .. c : i = lines[at[j]]
    BY <2>1 DEF ToSet
  <2>3. \A k : k \in K <=> \E j \in 1 .. c : k = at[j]
    BY <1>2 DEF ToSet
  <2>4. \A i : i \in ToSet(u) <=> i \in ToSet(lines) /\ Counts(i, now)
    BY <1>5, <2>2, <2>3
  <2> QED
    BY <2>4 DEF u
<1>8. Increasing(lines) => Increasing(Used(lines, now))
  <2> SUFFICES ASSUME Increasing(lines), NEW j \in 1 .. c, NEW k \in 1 .. c, j < k
               PROVE  lines[at[j]] < lines[at[k]]
    BY <1>3 DEF Increasing
  <2>1. at[j] \in K /\ at[k] \in K /\ at[j] < at[k]
    BY <1>2 DEF Increasing
  <2> QED
    BY <2>1, <1>4 DEF Increasing
<1> QED
  BY <1>6, <1>7, <1>8

-----------------------------------------------------------------------------
(* Types: files and folds are about lines of the log, which only grows. *)
Index == DOMAIN log
File == Seq(Index) \ {<< >>}
Typed ==
  /\ today \in Days /\ coming \in Seq(Request) /\ log \in Seq([day : Days, req : Request])
  /\ live \in Seq(Index) /\ boxLive \in Seq(Index)
  /\ rolls \subseteq File /\ boxRolls \subseteq File
  /\ pull \in [on : BOOLEAN, todo : SUBSET File, since : 0 .. today, smooth : BOOLEAN]
  /\ DOMAIN fold = {"pc", "day", "left", "lines", "rows", "lost", "sound"}
  /\ fold.lost \in BOOLEAN /\ fold.pc \in {"idle", "read", "append"} /\ fold.day \in 0 .. today
  /\ fold.left \subseteq Seq(Index) /\ fold.lines \in Seq(Index) /\ fold.sound \in BOOLEAN
  /\ book.last \in 0 .. today - 1
  /\ folded \in Seq(Index)

(* The lines of the log are in order of their days, and those counted have been passed. *)
Logged ==
  /\ \A k \in Index : log[k].day <= today
  /\ \A k \in DOMAIN folded : log[folded[k]].day <= book.last

(* The files hold runs of the log that do not overlap: what was rolled, here or there,
   comes before what the front door writes to, and of two rolls one comes before the
   other. *)
Before(f, g) == \A j \in DOMAIN f : \A k \in DOMAIN g : f[j] < g[k]
Rolled == rolls \cup boxRolls
Filed ==
  /\ \A f \in Rolled \cup {live, boxLive} : Increasing(f)
  /\ \A f \in Rolled : Before(f, live)
  /\ \A f, g \in Rolled : f # g => Before(f, g) \/ Before(g, f)

(* A smooth pull has copied the rolls it no longer lists; after one, the box holds each
   line of the days before it began that the front door holds, and holds it once. *)
Within(F) == UNION {ToSet(f) : f \in F}
Pulled ==
  /\ pull.on /\ pull.smooth => rolls \subseteq pull.todo \cup boxRolls
  /\ ~pull.on /\ pull.since # 0 =>
       /\ \A f \in boxRolls : Before(f, boxLive)
       /\ \A i \in Within(rolls \cup {live}) :
            log[i].day < pull.since => i \in Within(boxRolls \cup {boxLive})

(* A fold goes up to a day that no fold has passed; a sound one has read, in order, the
   copies it no longer lists. *)
Folding ==
  /\ fold.pc = "read" => fold.day \in Days /\ book.last < fold.day
  /\ fold.sound =>
       /\ fold.pc = "read" /\ ~pull.on /\ pull.since = fold.day
       /\ fold.left \subseteq boxRolls \cup {<< >>}
       /\ << >> \in fold.left \/ fold.left = {}
       /\ Increasing(fold.lines)
       /\ ToSet(fold.lines) = Within(boxRolls \ fold.left) \cup
                              (IF << >> \in fold.left THEN {} ELSE ToSet(boxLive))
       /\ \A f \in fold.left \ {<< >>} : Before(fold.lines, f)
       /\ << >> \in fold.left => Before(fold.lines, boxLive)

WholeInv == Typed /\ Logged /\ Filed /\ Pulled /\ Folding

-----------------------------------------------------------------------------
(* The oldest of some files is one of them. *)
LEMMA OldestOfFiles ==
  ASSUME NEW S \in SUBSET File, S # {}, log \in Seq([day : Days, req : Request])
  PROVE  /\ Oldest(S) \in S
         /\ \A g \in S : Oldest(S)[1] <= g[1]
<1> DEFINE N == {f[1] : f \in S}
<1>1. \A f \in S : f[1] \in Nat
  BY DEF File, Index
<1>2. N \in SUBSET Nat /\ N # {}
  BY <1>1
<1>3. PICK m \in N : \A n \in N : m <= n
  BY <1>2, Least
<1>4. PICK f \in S : f[1] = m
  BY <1>3
<1>5. \A g \in S : f[1] <= g[1]
  BY <1>3, <1>4
<1> QED
  BY <1>5 DEF Oldest

LEMMA Bounds == /\ MaxDay \in Nat \ {0} /\ MonthDays \in Nat \ {0} /\ DailyKeep \in Nat \ {0}
                /\ Days \subseteq Nat
  BY StatsAssumption DEF Days

(* The sequences there are, and their elements. *)
LEMMA OfIndexes ==
  ASSUME Typed
  PROVE  /\ folded \in Seq(Index) /\ \A k \in DOMAIN folded : folded[k] \in Index
         /\ fold.lines \in Seq(Index) /\ \A k \in DOMAIN fold.lines : fold.lines[k] \in Index
         /\ boxLive \in Seq(Index) /\ \A g \in boxRolls : g \in Seq(Index) /\ g # << >>
<1> DEFINE I == Index
<1>1. folded \in Seq(I) /\ fold.lines \in Seq(I) /\ boxLive \in Seq(I) /\ boxRolls \subseteq File
  BY DEF Typed
<1>2. \A g \in boxRolls : g \in Seq(I) /\ g # << >>
  BY <1>1 DEF File
<1> HIDE DEF I
<1>3. \A k \in DOMAIN folded : folded[k] \in I
  BY <1>1
<1>4. \A k \in DOMAIN fold.lines : fold.lines[k] \in I
  BY <1>1
<1> QED
  BY <1>1, <1>2, <1>3, <1>4 DEF I

LEMMA TypedInit == StatsInit => Typed
<1> SUFFICES ASSUME StatsInit PROVE Typed
  OBVIOUS
<1>1. coming \in Seq(Request)
  BY StatsAssumption DEF StatsInit
<1> QED
  BY <1>1, Bounds DEF StatsInit, Skeleton, Typed, Still, Idle, Index, File, Days

(* A fold starts on its day with all the copies to read, whether it could read stats.json
   or not. *)
LEMMA StartedSay ==
  ASSUME FoldStart \/ FoldStartLost
  PROVE  /\ DOMAIN fold' = {"pc", "day", "left", "lines", "rows", "lost", "sound"}
         /\ fold.pc = "idle" /\ fold'.pc = "read" /\ fold'.day = today
         /\ fold'.left = boxRolls \cup {<< >>} /\ fold'.lines = << >> /\ fold'.rows = << >>
         /\ fold'.lost \in BOOLEAN /\ fold'.sound \in BOOLEAN
         /\ fold'.sound = (~pull.on /\ pull.since = today)
         /\ UNCHANGED <<today, coming, log, live, rolls, pull, boxLive, boxRolls>>
         /\ UNCHANGED <<book, archive, torn, folded, unsure, era>>
<1>1. PICK l \in BOOLEAN : fold' = Started(l)
  BY DEF FoldStart, FoldStartLost
<1> DEFINE S == boxRolls \cup {<< >>}
           e == ~pull.on /\ pull.since = today
<1>2. fold' = [Idle EXCEPT !.pc = "read", !.day = today, !.left = S, !.lost = l, !.sound = e]
  BY <1>1 DEF Started
<1>3. e \in BOOLEAN
  OBVIOUS
<1> HIDE DEF S, e
<1>4. /\ DOMAIN fold' = {"pc", "day", "left", "lines", "rows", "lost", "sound"}
      /\ fold'.pc = "read" /\ fold'.day = today /\ fold'.left = S /\ fold'.lines = << >>
      /\ fold'.rows = << >> /\ fold'.lost = l /\ fold'.sound = e
  BY <1>2 DEF Idle
<1>5. fold.pc = "idle" /\ UNCHANGED <<today, coming, log, live, rolls, pull, boxLive, boxRolls>>
      /\ UNCHANGED <<book, archive, torn, folded, unsure, era>>
  BY DEF FoldStart, FoldStartLost, clients, frontDoor, box, results
<1> QED
  BY <1>1, <1>3, <1>4, <1>5 DEF S, e

(* The stats.json a fold goes on from is the one there is, or none. *)
LEMMA OfPrev ==
  ASSUME Typed
  PROVE  /\ Prev.last \in 0 .. today - 1 /\ Prev.last \in Nat /\ Prev.last < today
         /\ Prev.last = book.last \/ (fold.lost /\ Prev.last = 0)
         /\ Past \in Seq(Index) /\ \A k \in DOMAIN Past : Past[k] \in Index
<1>1. today \in Nat /\ today >= 1 /\ book.last \in 0 .. today - 1
  BY Bounds DEF Typed, Days
<1>2. folded \in Seq(Index) /\ \A k \in DOMAIN folded : folded[k] \in Index
  BY OfIndexes
<1>3. CASE fold.lost
  <2>1. Prev.last = 0 /\ Past = << >>
    BY <1>3 DEF Prev, Past, Skeleton
  <2> QED
    BY <1>1, <1>3, <2>1
<1>4. CASE ~fold.lost
  <2>1. Prev = book /\ Past = folded
    BY <1>4 DEF Prev, Past
  <2> QED
    BY <1>1, <1>2, <2>1
<1> QED
  BY <1>3, <1>4

LEMMA PastLogged ==
  ASSUME Typed, Logged
  PROVE  \A k \in DOMAIN Past : log[Past[k]].day <= Prev.last
<1>1. CASE fold.lost
  BY <1>1 DEF Past
<1>2. CASE ~fold.lost
  BY <1>2 DEF Past, Prev, Logged
<1> QED
  BY <1>1, <1>2

(* What a fold writes: its watermark is below the day it began on, and the lines it
   counted are lines it read. *)
LEMMA WrittenTyped ==
  ASSUME Typed, fold.pc = "read", fold.day \in Days,
         NEW new, new = Aggregate(fold.lines, fold.day)
  PROVE  /\ new.used = Used(fold.lines, fold.day) /\ new.used \in Seq(Index)
         /\ new.book.last \in 0 .. today - 1
         /\ new.book.last >= Prev.last /\ new.book.last >= fold.day - 1
         /\ new.book.last \in {Prev.last, fold.day - 1}
<1>1. fold.lines \in Seq(Nat) /\ fold.lines \in Seq(Index)
  <2>1. Index \subseteq Nat
    BY DEF Typed, Index
  <2>2. fold.lines \in Seq(Index)
    BY DEF Typed
  <2>3. \A l \in Seq(Index) : l \in Seq(Nat)
    <3> SUFFICES ASSUME NEW l \in Seq(Index) PROVE l \in Seq(Nat)
      OBVIOUS
    <3>1. \A k \in DOMAIN l : l[k] \in Index
      OBVIOUS
    <3>2. \A k \in DOMAIN l : l[k] \in Nat
      BY <2>1, <3>1
    <3> QED
      BY <3>2
  <2> QED
    BY <2>2, <2>3
<1>2. /\ new.used = Used(fold.lines, fold.day)
      /\ new.book.last = Max({Prev.last, fold.day - 1})
  BY DEF Aggregate
<1>3. /\ new.used \in Seq(Nat)
      /\ ToSet(new.used) \subseteq ToSet(fold.lines)
  BY <1>1, <1>2, UsedProps
<1>4. ToSet(fold.lines) \subseteq Index
  BY <1>1 DEF ToSet
<1>5. new.used \in Seq(Index)
  <2>1. \A k \in DOMAIN new.used : new.used[k] \in Index
    BY <1>3, <1>4 DEF ToSet
  <2> QED
    BY <2>1, <1>3
<1>6. Prev.last \in Int /\ fold.day - 1 \in Int /\ fold.day - 1 \in 0 .. today - 1
  <2>1. today \in Nat /\ fold.day \in Nat \ {0}
    BY Bounds DEF Typed, Days
  <2>2. fold.day <= today /\ Prev.last \in Int
    BY OfPrev DEF Typed
  <2> QED
    BY <2>1, <2>2
<1>7. /\ new.book.last >= Prev.last /\ new.book.last >= fold.day - 1
      /\ new.book.last \in {Prev.last, fold.day - 1}
  <2> DEFINE a == Prev.last
             b == fold.day - 1
  <2>1. a \in Int /\ b \in Int /\ new.book.last = Max({a, b})
    BY <1>2, <1>6
  <2> HIDE DEF a, b
  <2>2. Max({a, b}) \in {a, b} /\ Max({a, b}) >= a /\ Max({a, b}) >= b
    BY <2>1, MaxOfTwo
  <2> QED
    BY <2>1, <2>2 DEF a, b
<1>8. Prev.last \in 0 .. today - 1
  BY OfPrev
<1> QED
  BY <1>2, <1>5, <1>6, <1>7, <1>8

LEMMA TypedNext ==
  ASSUME Typed, fold.pc = "read" => fold.day \in Days, [StatsNext]_statsVars
  PROVE  Typed'
<1> USE DEF Typed
<1> today \in Nat /\ today >= 1
  BY Bounds DEF Days
<1>1. CASE Arrive
  <2>1. coming' \in Seq(Request) /\ Head(coming) \in Request
    BY <1>1 DEF Arrive
  <2>a. log' = Append(log, [day |-> today, req |-> Head(coming)])
    BY <1>1 DEF Arrive
  <2>b. [day |-> today, req |-> Head(coming)] \in [day : Days, req : Request]
    BY <2>1
  <2>2. /\ log' \in Seq([day : Days, req : Request])
        /\ Index' = Index \cup {Len(log) + 1}
    <3> DEFINE R == [day : Days, req : Request]
               x == [day |-> today, req |-> Head(coming)]
    <3>1. log \in Seq(R) /\ x \in R /\ log' = Append(log, x)
      BY <2>a, <2>b
    <3> HIDE DEF R, x, Typed
    <3>2. log' \in Seq(R) /\ DOMAIN log' = DOMAIN log \cup {Len(log) + 1}
      BY <3>1
    <3> QED
      BY <3>2 DEF R, Index
  <2>3. Seq(Index) \subseteq Seq(Index') /\ File \subseteq File'
    BY <2>2 DEF File
  <2>4. live' \in Seq(Index')
    <3>1. live \in Seq(Index') /\ Len(log) + 1 \in Index'
      BY <2>2, <2>3
    <3> QED
      BY <3>1, <1>1 DEF Arrive
  <2> QED
    BY <1>1, <2>1, <2>2, <2>3, <2>4 DEF Arrive, box, results, frontDoor
<1>2. CASE RollUp
  <2>1. rolls' \subseteq rolls \cup {live} /\ live' = << >> /\ live \in File
    BY <1>2 DEF RollUp, File
  <2>2. UNCHANGED Index /\ UNCHANGED File
    BY <1>2 DEF RollUp, clients, Index, File
  <2>3. pull' \in [on : BOOLEAN, todo : SUBSET File, since : 0 .. today, smooth : BOOLEAN]
    BY <1>2 DEF RollUp
  <2>4. rolls' \subseteq File /\ live' \in Seq(Index)
    BY <2>1
  <2> QED
    BY <1>2, <2>2, <2>3, <2>4 DEF RollUp, clients, box, results
<1>3. CASE Midnight
  <2>1. today' \in Days /\ today' = today + 1
    BY <1>3, Bounds DEF Midnight, Days
  <2>2. UNCHANGED Index /\ UNCHANGED File
    BY <1>3 DEF Midnight, clients, Index, File
  <2> QED
    BY <1>3, <2>1, <2>2 DEF Midnight, clients, frontDoor, box, results
<1>4. CASE PullStart
  <2>2. UNCHANGED Index /\ UNCHANGED File
    BY <1>4 DEF PullStart, clients, Index, File
  <2> QED
    BY <1>4, <2>2 DEF PullStart, clients, frontDoor, box, results
<1>5. CASE PullRoll
  <2>1. Oldest(pull.todo) \in pull.todo
    BY <1>5, OldestOfFiles DEF PullRoll
  <2>2. UNCHANGED Index /\ UNCHANGED File
    BY <1>5 DEF PullRoll, clients, Index, File
  <2> QED
    BY <1>5, <2>1, <2>2 DEF PullRoll, clients, frontDoor, results
<1>6. CASE PullLive
  <2>1. pull' \in [on : BOOLEAN, todo : SUBSET File, since : 0 .. today, smooth : BOOLEAN]
    <3>1. IF pull.smooth THEN pull.since \in 0 .. today ELSE 0 \in 0 .. today
      OBVIOUS
    <3> QED
      BY <1>6, <3>1 DEF PullLive, Still
  <2>2. UNCHANGED Index /\ UNCHANGED File
    BY <1>6 DEF PullLive, clients, Index, File
  <2> QED
    BY <1>6, <2>1, <2>2 DEF PullLive, clients, frontDoor, results
<1>7. CASE PullFail
  <2>2. UNCHANGED Index /\ UNCHANGED File
    BY <1>7 DEF PullFail, clients, Index, File
  <2> QED
    BY <1>7, <2>2 DEF PullFail, clients, frontDoor, box, results, Still
<1>8. CASE FoldStart \/ FoldStartLost
  <2>2. UNCHANGED Index /\ UNCHANGED File
    BY <1>8, StartedSay DEF Index, File
  <2>1. << >> \in Seq(Index)
    OBVIOUS
  <2>3. boxRolls \cup {<< >>} \subseteq Seq(Index) /\ << >> \in Seq(Index)
    BY <2>1 DEF File
  <2> QED
    BY <1>8, <2>2, <2>3, StartedSay
<1>9. CASE FoldRead
  <2>2. UNCHANGED Index /\ UNCHANGED File
    BY <1>9 DEF FoldRead, clients, Index, File
  <2>3. NextFile \in Seq(Index)
    <3>1. CASE fold.left = {<< >>}
      BY <3>1 DEF NextFile
    <3>2. CASE fold.left # {<< >>}
      <4>1. fold.left \ {<< >>} \in SUBSET File /\ fold.left \ {<< >>} # {}
        BY <3>2, <1>9 DEF FoldRead, File
      <4> QED
        BY <3>2, <4>1, OldestOfFiles DEF NextFile
    <3> QED
      BY <3>1, <3>2
  <2>4. fold'.lines \in Seq(Index)
    BY <1>9, <2>3 DEF FoldRead
  <2> QED
    BY <1>9, <2>2, <2>4 DEF FoldRead, clients, frontDoor, box, results
<1>10. CASE FoldSkip
  <2>2. UNCHANGED Index /\ UNCHANGED File
    BY <1>10 DEF FoldSkip, clients, Index, File
  <2> QED
    BY <1>10, <2>2 DEF FoldSkip, clients, frontDoor, box, results
<1>11. CASE FoldWrite
  <2> DEFINE new == Aggregate(fold.lines, fold.day)
  <2>1. fold.pc = "read" /\ fold.day \in Days
    BY <1>11 DEF FoldWrite
  <2>2. UNCHANGED Index /\ UNCHANGED File
    BY <1>11 DEF FoldWrite, clients, Index, File
  <2>3. new.used \in Seq(Index) /\ new.book.last \in 0 .. today - 1
    BY <2>1, WrittenTyped
  <2>4. /\ book' = new.book /\ folded' = Past \o new.used /\ Past \in Seq(Index)
        /\ fold' = IF new.rows = << >> THEN Idle
                   ELSE [Idle EXCEPT !.pc = "append", !.rows = new.rows]
    BY <1>11, OfPrev DEF FoldWrite
  <2>5. UNCHANGED <<clients, frontDoor, pull, box>>
    BY <1>11 DEF FoldWrite
  <2> HIDE DEF new
  <2>6. book'.last \in 0 .. today - 1 /\ folded' \in Seq(Index)
    BY <2>3, <2>4
  <2>7. /\ DOMAIN fold' = {"pc", "day", "left", "lines", "rows", "lost", "sound"}
        /\ fold'.lost = FALSE /\ fold'.pc \in {"idle", "append"} /\ fold'.day = 0
        /\ fold'.left = {} /\ fold'.lines = << >> /\ fold'.sound = FALSE
    <3>1. CASE new.rows = << >>
      BY <2>4, <3>1 DEF Idle
    <3>2. CASE new.rows # << >>
      BY <2>4, <3>2 DEF Idle
    <3> QED
      BY <3>1, <3>2
  <2>8. UNCHANGED <<today, coming, log, live, boxLive, rolls, boxRolls, pull>> /\ today \in Nat
    BY <2>5, Bounds DEF clients, frontDoor, box, Typed
  <2>9. /\ fold'.lost \in BOOLEAN /\ fold'.pc \in {"idle", "read", "append"} /\ fold'.day \in 0 .. today
        /\ fold'.left \subseteq Seq(Index) /\ fold'.lines \in Seq(Index) /\ fold'.sound \in BOOLEAN
    <3>1. << >> \in Seq(Index) /\ 0 \in 0 .. today
      BY <2>8
    <3>2. fold'.lost \in BOOLEAN /\ fold'.pc \in {"idle", "read", "append"} /\ fold'.sound \in BOOLEAN
      BY <2>7
    <3>3. fold'.left \subseteq Seq(Index)
      BY <2>7
    <3>4. fold'.lines \in Seq(Index) /\ fold'.day \in 0 .. today
      BY <2>7, <3>1
    <3> QED
      BY <3>2, <3>3, <3>4
  <2>10. Index' = Index /\ File' = File /\ today' = today
    BY <2>2, <2>8
  <2>11. /\ today' \in Days /\ coming' \in Seq(Request) /\ log' \in Seq([day : Days, req : Request])
         /\ live' \in Seq(Index) /\ boxLive' \in Seq(Index) /\ rolls' \subseteq File /\ boxRolls' \subseteq File
         /\ pull' \in [on : BOOLEAN, todo : SUBSET File, since : 0 .. today, smooth : BOOLEAN]
    BY <2>8
  <2> QED
    BY <2>6, <2>7, <2>9, <2>10, <2>11
<1>12. CASE FoldAppend
  <2>2. UNCHANGED Index /\ UNCHANGED File
    BY <1>12 DEF FoldAppend, clients, Index, File
  <2> QED
    BY <1>12, <2>2 DEF FoldAppend, clients, frontDoor, box, Idle
<1>13. CASE FoldCut
  <2>2. UNCHANGED Index /\ UNCHANGED File
    BY <1>13 DEF FoldCut, clients, Index, File
  <2> QED
    BY <1>13, <2>2 DEF FoldCut, clients, frontDoor, box, Idle
<1>14. CASE FoldStop
  <2>2. UNCHANGED Index /\ UNCHANGED File
    BY <1>14 DEF FoldStop, clients, Index, File
  <2> QED
    BY <1>14, <2>2 DEF FoldStop, clients, frontDoor, box, results, Idle
<1>15. CASE UNCHANGED statsVars
  BY <1>15 DEF statsVars, Index, File
<1> QED
  BY <1>1, <1>2, <1>3, <1>4, <1>5, <1>6, <1>7, <1>8, <1>9, <1>10, <1>11, <1>12, <1>13,
     <1>14, <1>15 DEF StatsNext

-----------------------------------------------------------------------------
(* A concatenation has the elements of both. *)
LEMMA Joined ==
  ASSUME NEW S, NEW f \in Seq(S), NEW g \in Seq(S)
  PROVE  /\ f \o g \in Seq(S) /\ ToSet(f \o g) = ToSet(f) \cup ToSet(g)
         /\ \A k \in DOMAIN (f \o g) :
              IF k <= Len(f) THEN k \in DOMAIN f /\ (f \o g)[k] = f[k]
              ELSE k - Len(f) \in DOMAIN g /\ (f \o g)[k] = g[k - Len(f)]
         /\ \A k \in DOMAIN f : k \in DOMAIN (f \o g) /\ (f \o g)[k] = f[k]
         /\ \A k \in DOMAIN g : k + Len(f) \in DOMAIN (f \o g) /\ (f \o g)[k + Len(f)] = g[k]
<1>1. f \o g \in Seq(S) /\ Len(f \o g) = Len(f) + Len(g) /\ Len(f) \in Nat /\ Len(g) \in Nat
  OBVIOUS
<1>2. \A k \in DOMAIN (f \o g) :
        IF k <= Len(f) THEN k \in DOMAIN f /\ (f \o g)[k] = f[k]
        ELSE k - Len(f) \in DOMAIN g /\ (f \o g)[k] = g[k - Len(f)]
  BY <1>1
<1>3. \A k \in DOMAIN f : k \in DOMAIN (f \o g) /\ (f \o g)[k] = f[k]
  BY <1>1
<1>4. \A k \in DOMAIN g : k + Len(f) \in DOMAIN (f \o g) /\ (f \o g)[k + Len(f)] = g[k]
  BY <1>1
<1>5. ToSet(f \o g) = ToSet(f) \cup ToSet(g)
  <2>1. \A i \in ToSet(f \o g) : i \in ToSet(f) \cup ToSet(g)
    BY <1>2 DEF ToSet
  <2>2. \A i \in ToSet(f) \cup ToSet(g) : i \in ToSet(f \o g)
    BY <1>3, <1>4 DEF ToSet
  <2> QED
    BY <2>1, <2>2
<1> QED
  BY <1>1, <1>2, <1>3, <1>4, <1>5

(* An element more. *)
LEMMA OneMore ==
  ASSUME NEW S, NEW f \in Seq(S), NEW n \in S
  PROVE  /\ Append(f, n) \in Seq(S) /\ Len(f) \in Nat
         /\ DOMAIN Append(f, n) = DOMAIN f \cup {Len(f) + 1} /\ Len(f) + 1 \notin DOMAIN f
         /\ \A k \in DOMAIN f : Append(f, n)[k] = f[k] /\ k \in Nat /\ k < Len(f) + 1
         /\ Append(f, n)[Len(f) + 1] = n
         /\ ToSet(Append(f, n)) = ToSet(f) \cup {n}
<1>1. /\ Append(f, n) \in Seq(S) /\ Len(f) \in Nat
      /\ DOMAIN Append(f, n) = DOMAIN f \cup {Len(f) + 1} /\ Len(f) + 1 \notin DOMAIN f
  OBVIOUS
<1>2. \A k \in DOMAIN f : Append(f, n)[k] = f[k] /\ k \in Nat /\ k < Len(f) + 1
  OBVIOUS
<1>3. Append(f, n)[Len(f) + 1] = n
  OBVIOUS
<1> DEFINE g == Append(f, n)
<1> HIDE DEF g
<1>4. ToSet(g) = ToSet(f) \cup {n}
  <2>1. DOMAIN g = DOMAIN f \cup {Len(f) + 1} /\ (\A k \in DOMAIN f : g[k] = f[k]) /\ g[Len(f) + 1] = n
    BY <1>1, <1>2, <1>3 DEF g
  <2>2. \A i : (\E k \in DOMAIN g : i = g[k]) <=> (\E k \in DOMAIN f : i = f[k]) \/ i = n
    BY <2>1
  <2> QED
    BY <2>2 DEF ToSet
<1> QED
  BY <1>1, <1>2, <1>3, <1>4 DEF g

(* Increasing sequences, one before the other, make an increasing one. *)
LEMMA JoinedIncreasing ==
  ASSUME NEW S \in SUBSET Nat, NEW f \in Seq(S), NEW g \in Seq(S),
         Increasing(f), Increasing(g), Before(f, g)
  PROVE  Increasing(f \o g)
<1> SUFFICES ASSUME NEW j \in DOMAIN (f \o g), NEW k \in DOMAIN (f \o g), j < k
             PROVE  (f \o g)[j] < (f \o g)[k]
  BY DEF Increasing
<1>1. j \in Nat /\ k \in Nat /\ Len(f) \in Nat
  OBVIOUS
<1>2. CASE k <= Len(f)
  BY <1>1, <1>2, Joined DEF Increasing
<1>3. CASE j <= Len(f) /\ ~(k <= Len(f))
  BY <1>1, <1>3, Joined DEF Before
<1>4. CASE ~(j <= Len(f)) /\ ~(k <= Len(f))
  <2>1. j - Len(f) < k - Len(f)
    BY <1>1
  <2> QED
    BY <1>1, <1>4, <2>1, Joined DEF Increasing
<1> QED
  BY <1>1, <1>2, <1>3, <1>4

(* What the types say of the numbers a proof adds and compares. *)
LEMMA OfLog ==
  ASSUME Typed
  PROVE  /\ today \in Nat /\ today >= 1 /\ book.last \in Nat /\ book.last < today
         /\ fold.day \in Nat /\ pull.since \in Nat
         /\ Index = 1 .. Len(log) /\ Len(log) \in Nat
         /\ \A k \in Index : /\ log[k] \in [day : Days, req : Request]
                             /\ log[k].day \in Days /\ log[k].day \in Nat /\ log[k].req \in Request
<1>1. today \in Nat /\ today >= 1
  BY Bounds DEF Typed, Days
<1>2. book.last \in Nat /\ book.last < today /\ fold.day \in Nat /\ pull.since \in Nat
  BY <1>1 DEF Typed
<1>3. Index = 1 .. Len(log) /\ Len(log) \in Nat
  BY DEF Typed, Index
<1>4. \A k \in Index : log[k] \in [day : Days, req : Request]
  <2> DEFINE R == [day : Days, req : Request]
  <2>1. log \in Seq(R)
    BY DEF Typed
  <2> HIDE DEF R
  <2>2. \A k \in Index : log[k] \in R
    BY <2>1 DEF Index
  <2> QED
    BY <2>2 DEF R
<1>5. \A k \in Index : log[k].day \in Days /\ log[k].req \in Request
  BY <1>4
<1>6. \A k \in Index : log[k].day \in Nat
  BY <1>5, Bounds
<1> QED
  BY <1>1, <1>2, <1>3, <1>4, <1>5, <1>6

(* A request that arrives makes a line of today, after all others. *)
LEMMA Grown ==
  ASSUME Typed, Arrive
  PROVE  /\ Len(log) + 1 \notin Index /\ Index' = Index \cup {Len(log) + 1}
         /\ \A k \in Index : log'[k] = log[k]
         /\ log'[Len(log) + 1] = [day |-> today, req |-> Head(coming)]
         /\ Head(coming) \in Request
<1>1. Head(coming) \in Request
  BY DEF Typed, Arrive
<1>2. /\ log \in Seq([day : Days, req : Request])
      /\ log' = Append(log, [day |-> today, req |-> Head(coming)])
  BY DEF Typed, Arrive
<1>3. [day |-> today, req |-> Head(coming)] \in [day : Days, req : Request]
  BY <1>1 DEF Typed
<1> HIDE DEF Arrive, Typed
<1> QED
  BY <1>1, <1>2, <1>3 DEF Index

(* The lines a fold counts are admitted lines of days it passes and none before it had. *)
LEMMA WrittenDays ==
  ASSUME Typed, fold.pc = "read", fold.day \in Days,
         NEW new, new = Aggregate(fold.lines, fold.day),
         NEW k \in DOMAIN new.used
  PROVE  /\ new.used[k] \in Index
         /\ Admitted(log[new.used[k]].req)
         /\ log[new.used[k]].day \in Days
         /\ log[new.used[k]].day > Prev.last
         /\ log[new.used[k]].day < fold.day
         /\ log[new.used[k]].day <= new.book.last
<1>1. /\ new.used = Used(fold.lines, fold.day) /\ new.used \in Seq(Index)
      /\ new.book.last >= fold.day - 1 /\ new.book.last \in Int
  BY WrittenTyped DEF Typed
<1>2. fold.lines \in Seq(Nat)
  <2>1. \A n \in Index : n \in Nat
    BY DEF Typed, Index
  <2>2. \A n \in DOMAIN fold.lines : fold.lines[n] \in Nat
    BY <2>1 DEF Typed
  <2> QED
    BY <2>2 DEF Typed
<1>3. Counts(new.used[k], fold.day)
  BY <1>1, <1>2, UsedProps DEF ToSet
<1>4. new.used[k] \in Index
  BY <1>1
<1>5. fold.day \in Nat /\ log[new.used[k]].day \in Nat /\ log[new.used[k]].day \in Days
  BY <1>4, OfLog
<1> QED
  BY <1>1, <1>3, <1>4, <1>5 DEF Counts, Complete, Unfolded

LEMMA LoggedNext ==
  ASSUME Typed, Typed', Logged, fold.pc = "read" => fold.day \in Days, [StatsNext]_statsVars
  PROVE  Logged'
<1>0. today \in Nat /\ book.last \in Nat /\ \A k \in Index : log[k].day \in Nat
  BY OfLog
<1>1. CASE Arrive
  <2>1. Index' = Index \cup {Len(log) + 1} /\ \A k \in Index : log'[k] = log[k]
    BY <1>1, Grown
  <2>2. log'[Len(log) + 1].day = today
    BY <1>1, Grown
  <2>3. \A k \in DOMAIN folded : folded[k] \in Index
    BY OfIndexes
  <2>4. UNCHANGED <<today, book, folded>>
    BY <1>1 DEF Arrive, results
  <2>5. \A k \in Index' : log'[k].day <= today
    BY <1>0, <2>1, <2>2 DEF Logged
  <2>6. \A k \in DOMAIN folded : log'[folded[k]].day <= book.last
    BY <2>1, <2>3 DEF Logged
  <2> QED
    BY <2>4, <2>5, <2>6 DEF Logged
<1>2. CASE Midnight
  BY <1>0, <1>2 DEF Logged, Midnight, clients, results, Index
<1>3. CASE FoldWrite
  <2> DEFINE new == Aggregate(fold.lines, fold.day)
  <2>1. fold.pc = "read" /\ fold.day \in Days /\ UNCHANGED <<today, log>>
    BY <1>3 DEF FoldWrite, clients
  <2>2. /\ new.used \in Seq(Index) /\ Past \in Seq(Index)
        /\ new.book.last >= Prev.last /\ new.book.last \in Nat /\ Prev.last \in Nat
    <3>1. /\ new.used \in Seq(Index) /\ new.book.last >= Prev.last
          /\ new.book.last \in 0 .. today - 1
      BY <2>1, WrittenTyped
    <3> QED
      BY <3>1, <1>0, OfPrev
  <2>3. \A k \in DOMAIN new.used : log[new.used[k]].day <= new.book.last
    BY <2>1, WrittenDays
  <2>4. folded' = Past \o new.used /\ book' = new.book
    BY <1>3 DEF FoldWrite
  <2> HIDE DEF new
  <2>5. ASSUME NEW k \in DOMAIN folded' PROVE log[folded'[k]].day <= book'.last
    <3>1. CASE k <= Len(Past)
      <4>1. k \in DOMAIN Past /\ folded'[k] = Past[k]
        BY <2>2, <2>4, <2>5, <3>1, Joined
      <4>2. Past[k] \in Index /\ log[Past[k]].day <= Prev.last
        BY <4>1, OfPrev, PastLogged
      <4> QED
        BY <4>1, <4>2, <2>2, <2>4, <1>0
    <3>2. CASE ~(k <= Len(Past))
      BY <2>2, <2>3, <2>4, <2>5, <3>2, Joined
    <3> QED
      BY <3>1, <3>2
  <2> QED
    BY <2>1, <2>5 DEF Logged, Index
<1>4. CASE UNCHANGED <<today, log, book, folded>>
  BY <1>4 DEF Logged, Index
<1> QED
  BY <1>1, <1>2, <1>3, <1>4 DEF StatsNext, statsVars, clients, results, RollUp, PullStart, PullRoll,
     PullLive, PullFail, FoldStart, FoldStartLost, FoldRead, FoldSkip, FoldAppend, FoldCut, FoldStop

LEMMA FiledNext ==
  ASSUME Typed, Filed, [StatsNext]_statsVars
  PROVE  Filed'
<1>0. /\ Index = 1 .. Len(log) /\ Len(log) \in Nat
      /\ \A f \in Rolled \cup {live, boxLive} : f \in Seq(Index)
  BY OfLog DEF Typed, Rolled, File
<1>1. CASE Arrive
  <2> DEFINE n == Len(log) + 1
  <2>1. live' = Append(live, n) /\ UNCHANGED <<rolls, boxRolls, boxLive>>
    BY <1>1 DEF Arrive, box
  <2>2. \A f \in Rolled \cup {live, boxLive} : \A k \in DOMAIN f : f[k] \in Nat /\ f[k] < n
    <3> SUFFICES ASSUME NEW f \in Rolled \cup {live, boxLive}, NEW k \in DOMAIN f
                 PROVE  f[k] \in Nat /\ f[k] < n
      OBVIOUS
    <3>1. f[k] \in Index
      BY <1>0
    <3> QED
      BY <3>1, <1>0
  <2>3. DOMAIN live' = DOMAIN live \cup {Len(live) + 1} /\ live'[Len(live) + 1] = n
    BY <1>0, <2>1
  <2>4. \A k \in DOMAIN live : live'[k] = live[k] /\ k < Len(live) + 1
    BY <1>0, <2>1
  <2>5. Increasing(live')
    <3> SUFFICES ASSUME NEW j \in DOMAIN live', NEW k \in DOMAIN live', j < k PROVE live'[j] < live'[k]
      BY DEF Increasing
    <3>1. j \in DOMAIN live /\ live'[j] = live[j] /\ live[j] < n
      BY <1>0, <2>2, <2>3, <2>4
    <3>2. CASE k = Len(live) + 1
      BY <3>1, <3>2, <2>3
    <3>3. CASE k \in DOMAIN live
      BY <3>1, <3>3, <2>4 DEF Filed, Increasing
    <3> QED
      BY <3>2, <3>3, <2>3
  <2>6. \A f \in Rolled : Before(f, live')
    <3> SUFFICES ASSUME NEW f \in Rolled, NEW j \in DOMAIN f, NEW k \in DOMAIN live' PROVE f[j] < live'[k]
      BY DEF Before
    <3>1. CASE k = Len(live) + 1
      BY <3>1, <2>2, <2>3
    <3>2. CASE k \in DOMAIN live
      BY <3>2, <2>4 DEF Filed, Before
    <3> QED
      BY <3>1, <3>2, <2>3
  <2> QED
    BY <2>1, <2>5, <2>6 DEF Filed, Rolled
<1>2. CASE RollUp
  <2>1. rolls' \subseteq rolls \cup {live} /\ live' = << >> /\ UNCHANGED <<boxRolls, boxLive>>
    BY <1>2 DEF RollUp, box
  <2>2. Rolled' \subseteq Rolled \cup {live}
    BY <2>1 DEF Rolled
  <2>3. Increasing(<< >>) /\ \A f : Before(f, << >>)
    BY DEF Increasing, Before
  <2> QED
    BY <2>1, <2>2, <2>3 DEF Filed
<1>3. CASE PullRoll
  <2>1. /\ boxRolls' \subseteq boxRolls \cup rolls /\ UNCHANGED <<live, rolls, boxLive>>
    BY <1>3 DEF PullRoll, frontDoor
  <2>2. Rolled' \subseteq Rolled
    BY <2>1 DEF Rolled
  <2> QED
    BY <2>1, <2>2 DEF Filed
<1>4. CASE PullLive
  BY <1>4 DEF Filed, PullLive, frontDoor, Rolled
<1>5. CASE UNCHANGED <<live, rolls, boxLive, boxRolls>>
  BY <1>5 DEF Filed, Rolled
<1> QED
  BY <1>1, <1>2, <1>3, <1>4, <1>5 DEF StatsNext, statsVars, frontDoor, box, Midnight, PullStart,
     PullFail, FoldStart, FoldStartLost, FoldRead, FoldSkip, FoldWrite, FoldAppend, FoldCut, FoldStop

LEMMA PulledNext ==
  ASSUME Typed, Filed, Pulled, [StatsNext]_statsVars
  PROVE  Pulled'
<1>1. CASE Arrive
  <2> DEFINE n == Len(log) + 1
  <2>1. live' = Append(live, n) /\ UNCHANGED <<rolls, boxRolls, boxLive, pull, today>>
    BY <1>1 DEF Arrive, box
  <2>2. /\ live \in Seq(Index) /\ Index = 1 .. Len(log) /\ Len(log) \in Nat
        /\ \A f \in rolls : f \in Seq(Index)
    BY OfLog DEF Typed, File
  <2>3. ToSet(live') = ToSet(live) \cup {n}
    <3>1. live \in Seq(Nat) /\ n \in Nat
      <4>1. \A k \in DOMAIN live : live[k] \in Nat
        BY <2>2
      <4> QED
        BY <4>1, <2>2
    <3> QED
      BY <3>1, <2>1, OneMore
  <2>4. log'[n].day = today /\ pull.since <= today /\ \A k \in Index : log'[k] = log[k]
    BY <1>1, Grown DEF Typed
  <2>5. pull.since \in Nat /\ today \in Nat
    BY OfLog
  <2>6. ASSUME ~pull.on, pull.since # 0,
               NEW i \in Within(rolls \cup {live})', log'[i].day < pull.since
        PROVE  i \in Within(boxRolls \cup {boxLive})
    <3>1. i # n
      BY <2>4, <2>5, <2>6
    <3>2. i \in Within(rolls \cup {live})
      <4>1. PICK f \in rolls \cup {live'} : i \in ToSet(f)
        BY <2>6, <2>1 DEF Within
      <4> QED
        BY <4>1, <3>1, <2>3 DEF Within
    <3>3. i \in Index
      <4>1. PICK f \in rolls \cup {live} : i \in ToSet(f)
        BY <3>2 DEF Within
      <4>2. f \in Seq(Index)
        BY <2>2
      <4> QED
        BY <4>1, <4>2 DEF ToSet
    <3> QED
      BY <3>2, <3>3, <2>4, <2>6 DEF Pulled
  <2> QED
    BY <2>1, <2>6 DEF Pulled
<1>2. CASE RollUp
  <2>1. /\ rolls' \subseteq rolls \cup {live} /\ live' = << >> /\ UNCHANGED <<boxRolls, boxLive, log>>
        /\ pull' = [pull EXCEPT !.smooth = FALSE]
    BY <1>2 DEF RollUp, box, clients
  <2>2. ~pull'.smooth /\ pull'.on = pull.on /\ pull'.since = pull.since
    BY <2>1 DEF Typed
  <2>3. Within(rolls \cup {live})' \subseteq Within(rolls \cup {live})
    BY <2>1 DEF Within, ToSet
  <2> QED
    BY <2>1, <2>2, <2>3 DEF Pulled
<1>3. CASE PullStart
  BY <1>3 DEF Pulled, PullStart, frontDoor
<1>4. CASE PullRoll
  <2> DEFINE f == Oldest(pull.todo)
  <2>1. /\ pull' = [pull EXCEPT !.todo = @ \ {f}, !.smooth = @ /\ f \in rolls]
        /\ boxRolls' = (IF f \in rolls THEN boxRolls \cup {f} ELSE boxRolls)
        /\ pull.on /\ rolls' = rolls
    BY <1>4 DEF PullRoll, frontDoor
  <2> HIDE DEF f
  <2>2. pull'.on /\ pull'.todo = pull.todo \ {f} /\ (pull'.smooth <=> pull.smooth /\ f \in rolls)
    BY <2>1 DEF Typed
  <2> QED
    BY <2>1, <2>2 DEF Pulled
<1>5. CASE PullLive
  <2>1. /\ pull.on /\ pull.todo = {} /\ boxLive' = live /\ UNCHANGED <<live, rolls, boxRolls, log>>
        /\ pull' = [Still EXCEPT !.since = IF pull.smooth THEN pull.since ELSE 0]
    BY <1>5 DEF PullLive, frontDoor, clients
  <2>2. pull'.on = FALSE /\ pull'.since = (IF pull.smooth THEN pull.since ELSE 0)
    BY <2>1 DEF Still
  <2>3. ASSUME pull'.since # 0 PROVE rolls \subseteq boxRolls
    BY <2>1, <2>2, <2>3 DEF Pulled
  <2>4. \A f \in boxRolls : Before(f, live)
    BY DEF Filed, Rolled
  <2>5. ASSUME pull'.since # 0
        PROVE  Within(rolls \cup {live}) \subseteq Within(boxRolls \cup {live})
    BY <2>3, <2>5 DEF Within
  <2> QED
    BY <2>1, <2>2, <2>4, <2>5 DEF Pulled
<1>6. CASE PullFail
  BY <1>6 DEF Pulled, PullFail, Still
<1>7. CASE UNCHANGED <<log, live, rolls, boxLive, boxRolls, pull>>
  BY <1>7 DEF Pulled
<1> QED
  BY <1>1, <1>2, <1>3, <1>4, <1>5, <1>6, <1>7 DEF StatsNext, statsVars, frontDoor, box, clients,
     Midnight, FoldStart, FoldStartLost, FoldRead, FoldSkip, FoldWrite, FoldAppend, FoldCut, FoldStop

(* Of the rolls still to be read, the oldest comes before the others. *)
LEMMA OldestFirst ==
  ASSUME Typed, Filed, NEW S \in SUBSET Rolled, S # {}
  PROVE  /\ Oldest(S) \in S
         /\ \A g \in S \ {Oldest(S)} : Before(Oldest(S), g)
<1>1. S \in SUBSET File /\ log \in Seq([day : Days, req : Request])
  BY DEF Typed, Rolled
<1>2. Oldest(S) \in S /\ \A g \in S : Oldest(S)[1] <= g[1]
  BY <1>1, OldestOfFiles
<1>3. ASSUME NEW g \in S, g # Oldest(S) PROVE Before(Oldest(S), g)
  <2> DEFINE f == Oldest(S)
  <2> HIDE DEF f
  <2>1. f \in Seq(Index) /\ f # << >> /\ g \in Seq(Index) /\ g # << >> /\ Index = 1 .. Len(log)
        /\ f \in S
    BY <1>1, <1>2, OfLog DEF File, f
  <2>2. 1 \in DOMAIN f /\ 1 \in DOMAIN g /\ f[1] \in Index /\ g[1] \in Index
    BY <2>1
  <2>3. f[1] \in Int /\ g[1] \in Int /\ f[1] <= g[1]
    BY <2>1, <2>2, <1>2 DEF f
  <2>4. ~Before(g, f)
    BY <2>2, <2>3 DEF Before
  <2>5. f # g /\ f \in Rolled /\ g \in Rolled
    BY <2>1, <1>3 DEF f
  <2> QED
    BY <2>4, <2>5 DEF Filed, f
<1> QED
  BY <1>2, <1>3

LEMMA FoldingNext ==
  ASSUME Typed, Filed, Pulled, Folding, [StatsNext]_statsVars
  PROVE  Folding'
<1>0. today \in Days /\ 0 \notin Days
  BY Bounds DEF Typed, Days
<1>1. CASE PullStart
  BY <1>1 DEF Folding, Typed, PullStart, results
<1>2. CASE RollUp
  <2>1. /\ pull'.on = pull.on /\ pull'.since = pull.since /\ UNCHANGED <<fold, boxRolls, boxLive, book>>
    BY <1>2 DEF RollUp, Typed, box, results
  <2> QED
    BY <2>1 DEF Folding
<1>3. CASE PullRoll \/ PullLive \/ PullFail
  <2>1. pull.on /\ fold' = fold /\ book' = book
    BY <1>3 DEF PullRoll, PullLive, PullFail, results
  <2> QED
    BY <2>1 DEF Folding
<1>4. CASE FoldStart \/ FoldStartLost
  <2>1. /\ fold'.pc = "read" /\ fold'.day = today /\ fold'.left = boxRolls \cup {<< >>}
        /\ fold'.lines = << >> /\ fold'.sound = (~pull.on /\ pull.since = today)
        /\ UNCHANGED <<pull, boxRolls, boxLive, book>>
    BY <1>4, StartedSay
  <2>2. book.last < today
    BY OfLog
  <2>3. Increasing(<< >>) /\ (\A f : Before(<< >>, f)) /\ ToSet(<< >>) = {} /\ Within({}) = {}
    BY DEF Increasing, Before, ToSet, Within
  <2>4. boxRolls \ (boxRolls \cup {<< >>}) = {}
    OBVIOUS
  <2> QED
    BY <1>0, <2>1, <2>2, <2>3, <2>4 DEF Folding
<1>5. CASE FoldRead
  <2> DEFINE f == NextFile
             read == IF f = << >> THEN boxLive ELSE f
  <2>1. /\ fold.pc = "read" /\ fold.left # {} /\ UNCHANGED <<pull, boxRolls, boxLive, book>>
        /\ fold' = [fold EXCEPT !.left = @ \ {f}, !.lines = @ \o read]
    BY <1>5 DEF FoldRead, box, results
  <2>2. /\ fold'.pc = fold.pc /\ fold'.day = fold.day /\ fold'.sound = fold.sound
        /\ fold'.left = fold.left \ {f} /\ fold'.lines = fold.lines \o read
    BY <2>1 DEF Typed
  <2> SUFFICES ASSUME fold.sound
               PROVE  /\ fold'.left \subseteq boxRolls \cup {<< >>}
                      /\ << >> \in fold'.left \/ fold'.left = {}
                      /\ Increasing(fold'.lines)
                      /\ ToSet(fold'.lines) = Within(boxRolls \ fold'.left) \cup
                              (IF << >> \in fold'.left THEN {} ELSE ToSet(boxLive))
                      /\ \A g \in fold'.left \ {<< >>} : Before(fold'.lines, g)
                      /\ << >> \in fold'.left => Before(fold'.lines, boxLive)
    BY <2>1, <2>2 DEF Folding
  <2>3. /\ fold.left \subseteq boxRolls \cup {<< >>} /\ << >> \in fold.left
        /\ Increasing(fold.lines)
        /\ ToSet(fold.lines) = Within(boxRolls \ fold.left)
        /\ \A g \in fold.left \ {<< >>} : Before(fold.lines, g)
        /\ Before(fold.lines, boxLive)
        /\ ~pull.on /\ pull.since # 0
    BY <2>1, <1>0 DEF Folding
  <2>4. /\ Index \in SUBSET Nat /\ fold.lines \in Seq(Index) /\ boxLive \in Seq(Index)
        /\ \A g \in boxRolls : g \in Seq(Index) /\ g # << >>
    <3>1. Index = 1 .. Len(log) /\ Len(log) \in Nat
      BY OfLog
    <3> QED
      BY <3>1, OfIndexes
  <2>5. \A g \in boxRolls : Increasing(g) /\ Before(g, boxLive)
    BY <2>3 DEF Pulled, Filed, Rolled
  <2>6. Increasing(boxLive)
    BY DEF Filed
  <2>7. CASE fold.left = {<< >>}
    <3>1. f = << >> /\ read = boxLive
      BY <2>7 DEF NextFile
    <3>2. fold'.left = {} /\ fold'.lines = fold.lines \o boxLive
      BY <2>2, <2>7, <3>1
    <3>3. Increasing(fold.lines \o boxLive) /\ ToSet(fold.lines \o boxLive) = ToSet(fold.lines) \cup ToSet(boxLive)
      BY <2>3, <2>4, <2>6, Joined, JoinedIncreasing
    <3>4. boxRolls \ fold.left = boxRolls \ {}
      BY <2>4, <2>7
    <3> QED
      BY <2>3, <3>2, <3>3, <3>4
  <2>8. CASE fold.left # {<< >>}
    <3> DEFINE S == fold.left \ {<< >>}
    <3>1. S \in SUBSET Rolled /\ S # {} /\ S \subseteq boxRolls
      BY <2>1, <2>3, <2>8 DEF Rolled
    <3>2. f = Oldest(S)
      BY <2>8 DEF NextFile
    <3>3. f \in S /\ \A g \in S \ {f} : Before(f, g)
      BY <3>1, <3>2, OldestFirst
    <3> HIDE DEF f
    <3>4. read = f /\ f \in boxRolls /\ f \in Seq(Index) /\ Increasing(f) /\ Before(fold.lines, f)
          /\ Before(f, boxLive) /\ f # << >>
      BY <3>1, <3>3, <2>3, <2>4, <2>5
    <3>5. /\ Increasing(fold.lines \o f)
          /\ ToSet(fold.lines \o f) = ToSet(fold.lines) \cup ToSet(f)
      <4>1. Increasing(fold.lines \o f)
        BY <2>3, <2>4, <3>4, JoinedIncreasing
      <4>2. ToSet(fold.lines \o f) = ToSet(fold.lines) \cup ToSet(f)
        BY <2>4, <3>4, Joined
      <4> QED
        BY <4>1, <4>2
    <3>6. << >> \in fold'.left /\ fold'.left \ {<< >>} = S \ {f} /\ fold'.lines = fold.lines \o f
      BY <2>2, <2>3, <3>4
    <3>7. ASSUME NEW g, Before(fold.lines, g), Before(f, g) PROVE Before(fold.lines \o f, g)
      <4> SUFFICES ASSUME NEW j \in DOMAIN (fold.lines \o f), NEW k \in DOMAIN g
                   PROVE  (fold.lines \o f)[j] < g[k]
        BY DEF Before
      <4> QED
        BY <2>4, <3>4, <3>7, Joined DEF Before
    <3>8. \A g \in S \ {f} : Before(fold.lines \o f, g)
      BY <2>3, <3>3, <3>7
    <3>9. Before(fold.lines \o f, boxLive)
      BY <2>3, <3>4, <3>7
    <3>10. Within(boxRolls \ fold'.left) = Within(boxRolls \ fold.left) \cup ToSet(f)
      <4>1. boxRolls \ fold'.left = (boxRolls \ fold.left) \cup {f}
        BY <2>2, <3>3, <3>4
      <4> QED
        BY <4>1 DEF Within
    <3> QED
      BY <2>2, <2>3, <3>5, <3>6, <3>8, <3>9, <3>10
  <2> QED
    BY <2>7, <2>8
<1>6. CASE FoldSkip
  BY <1>6 DEF Folding, FoldSkip, Typed, results
<1>7. CASE FoldWrite
  <2>1. fold'.pc # "read" /\ ~fold'.sound
    <3> DEFINE new == Aggregate(fold.lines, fold.day)
    <3>1. fold' = IF new.rows = << >> THEN Idle ELSE [Idle EXCEPT !.pc = "append", !.rows = new.rows]
      BY <1>7 DEF FoldWrite
    <3> HIDE DEF new
    <3> QED
      BY <3>1 DEF Idle
  <2> QED
    BY <2>1 DEF Folding
<1>8. CASE FoldAppend \/ FoldCut \/ FoldStop
  <2>1. fold'.pc # "read" /\ ~fold'.sound
    BY <1>8 DEF FoldAppend, FoldCut, FoldStop, Idle
  <2> QED
    BY <2>1 DEF Folding
<1>9. CASE UNCHANGED <<fold, pull, boxRolls, boxLive, book>>
  BY <1>9 DEF Folding
<1> QED
  BY <1>1, <1>2, <1>3, <1>4, <1>5, <1>6, <1>7, <1>8, <1>9 DEF StatsNext, statsVars, box, results, Arrive, Midnight

(* The files of the front door and of the box are runs of the log which do not overlap,
   a smooth pull leaves each line on the box in one copy, and a sound fold has read, in
   order, the files it no longer lists: at every roll, copy, read and failure of the
   front door, ship-frontdoor-logs.sh and aggregate_stats.py. *)
THEOREM FilesInOrder == StatsSpec => []WholeInv
<1>1. StatsInit => WholeInv
  <2> SUFFICES ASSUME StatsInit PROVE WholeInv
    OBVIOUS
  <2>1. Typed
    BY TypedInit
  <2>2. /\ log = << >> /\ folded = << >> /\ rolls = {} /\ boxRolls = {} /\ live = << >> /\ boxLive = << >>
        /\ ~pull.on /\ pull.since = 0 /\ fold.pc = "idle" /\ fold.sound = FALSE
    BY DEF StatsInit, Still, Idle
  <2>3. Logged
    BY <2>2 DEF Logged, Index
  <2>4. Filed
    BY <2>2 DEF Filed, Rolled, Increasing, Before
  <2> QED
    BY <2>1, <2>2, <2>3, <2>4 DEF WholeInv, Pulled, Folding
<1>2. WholeInv /\ [StatsNext]_statsVars => WholeInv'
  <2> SUFFICES ASSUME WholeInv, [StatsNext]_statsVars PROVE WholeInv'
    OBVIOUS
  <2>1. Typed /\ Logged /\ Filed /\ Pulled /\ Folding /\ (fold.pc = "read" => fold.day \in Days)
    BY DEF WholeInv, Folding
  <2>2. Typed'
    BY <2>1, TypedNext
  <2> QED
    BY <2>1, <2>2, LoggedNext, FiledNext, PulledNext, FoldingNext DEF WholeInv
<1> QED
  BY <1>1, <1>2, PTL DEF StatsSpec

-----------------------------------------------------------------------------
(* How often a line counted by this fold has been counted: as often as this fold did. *)
LEMMA TimesOfNew ==
  ASSUME Typed, NEW u \in Seq(Index), folded' = Past \o u, NEW i,
         \A k \in DOMAIN Past : Past[k] # i, Increasing(u)
  PROVE  Times(i)' = IF i \in ToSet(u) THEN 1 ELSE 0
<1> DEFINE S == {k \in DOMAIN folded' : folded'[k] = i}
<1>1. Past \in Seq(Index) /\ Times(i)' = Cardinality(S)
  BY OfPrev DEF Times
<1>2. CASE i \in ToSet(u)
  <2>1. PICK k \in DOMAIN u : u[k] = i
    BY <1>2 DEF ToSet
  <2>2. k + Len(Past) \in S
    BY <1>1, <2>1, Joined
  <2>3. ASSUME NEW j \in S PROVE j = k + Len(Past)
    <3>1. ~(j <= Len(Past)) /\ j - Len(Past) \in DOMAIN u /\ u[j - Len(Past)] = i
      BY <1>1, <2>3, Joined
    <3>2. \A n \in DOMAIN u : u[n] \in Int /\ n \in Int
      <4>1. \A n \in DOMAIN u : u[n] \in Index
        OBVIOUS
      <4> QED
        BY <4>1, OfLog
    <3>3. j - Len(Past) = k
      <4> DEFINE h == j - Len(Past)
      <4>1. h \in DOMAIN u /\ u[h] = i /\ h \in Int /\ k \in Int /\ u[h] \in Int
        BY <3>1, <3>2
      <4> HIDE DEF h
      <4>2. ~(h < k) /\ ~(k < h)
        BY <2>1, <4>1 DEF Increasing
      <4> QED
        BY <4>1, <4>2 DEF h
    <3> QED
      BY <1>1, <2>3, <3>3
  <2>4. S = {k + Len(Past)}
    BY <2>2, <2>3
  <2> QED
    BY <1>1, <1>2, <2>4, FS_Singleton
<1>3. CASE i \notin ToSet(u)
  <2>1. ASSUME NEW j \in S PROVE FALSE
    BY <1>1, <1>3, <2>1, Joined DEF ToSet
  <2>2. S = {}
    BY <2>1
  <2> QED
    BY <1>1, <1>3, <2>2, FS_EmptySet
<1> QED
  BY <1>2, <1>3

LEMMA TimesOfOld ==
  ASSUME Typed, NEW u \in Seq(Index), folded' = folded \o u, NEW i, i \notin ToSet(u)
  PROVE  Times(i)' = Times(i)
<1>1. folded \in Seq(Index)
  BY DEF Typed
<1>2. {k \in DOMAIN folded' : folded'[k] = i} = {k \in DOMAIN folded : folded[k] = i}
  BY <1>1, Joined DEF ToSet
<1> QED
  BY <1>2 DEF Times

(* The front door's lines of a day that was over when a smooth pull began, and the box's,
   are those a sound fold has read when it has read all. *)
LEMMA AllRead ==
  ASSUME WholeInv, fold.sound, fold.left = {}, NEW i \in Kept, log[i].day < fold.day
  PROVE  i \in ToSet(fold.lines)
<1>1. /\ ~pull.on /\ pull.since = fold.day /\ fold.day \in Days
      /\ ToSet(fold.lines) = Within(boxRolls \ {}) \cup ToSet(boxLive)
  BY DEF WholeInv, Folding
<1>2. pull.since # 0
  BY <1>1, Bounds DEF Days
<1>3. Kept = Within(rolls \cup {live}) \cup Within(boxRolls) \cup ToSet(boxLive)
  BY DEF Kept, Within
<1>4. Within(boxRolls \cup {boxLive}) = Within(boxRolls) \cup ToSet(boxLive)
  BY DEF Within
<1>5. boxRolls \ {} = boxRolls
  OBVIOUS
<1>6. \A n \in Within(rolls \cup {live}) : log[n].day < fold.day => n \in Within(boxRolls \cup {boxLive})
  BY <1>1, <1>2 DEF WholeInv, Pulled
<1> QED
  BY <1>1, <1>3, <1>4, <1>5, <1>6

(* A fold after a smooth pull that was the last counts each line of the days above the
   watermark it goes by once.  No fold adds to a day below the watermark unless it could
   not read stats.json, and none leaves the watermark lower than it was: for any number
   of kills and of files that cannot be read (aggregate, last_folded_date). *)
THEOREM DaysWhole == StatsSpec => DayWhole
<1> DEFINE Whole ==
      /\ fold.sound /\ FoldWrite =>
           \A i \in DOMAIN log : log[i].day \in Prev.last + 1 .. book'.last =>
             Times(i)' = IF i \in Kept /\ Admitted(log[i].req) THEN 1 ELSE 0
      /\ ~(fold.lost /\ FoldWrite) =>
           \A i \in DOMAIN log : log[i].day <= book.last => Times(i)' = Times(i)
      /\ book'.last >= book.last
<1>1. ASSUME WholeInv, [StatsNext]_statsVars PROVE [Whole]_statsVars
  <2>1. CASE FoldWrite
    <3> DEFINE new == Aggregate(fold.lines, fold.day)
    <3>1. /\ Typed /\ Logged /\ Folding /\ fold.pc = "read" /\ fold.left = {} /\ fold.day \in Days
          /\ book.last < fold.day
      BY <1>1, <2>1 DEF WholeInv, FoldWrite, Folding
    <3>2. /\ new.used \in Seq(Index) /\ new.used = Used(fold.lines, fold.day)
          /\ new.book.last \in {Prev.last, fold.day - 1}
          /\ new.book.last >= Prev.last /\ new.book.last >= fold.day - 1
      BY <3>1, WrittenTyped
    <3>3. folded' = Past \o new.used /\ book' = new.book
      BY <2>1 DEF FoldWrite
    <3>4. \A k \in DOMAIN new.used : log[new.used[k]].day > Prev.last
      BY <3>1, WrittenDays
    <3>5. fold.lines \in Seq(Nat)
      <4> DEFINE I == Index
      <4>1. fold.lines \in Seq(I) /\ \A i \in I : i \in Nat
        BY <3>1, OfIndexes, OfLog
      <4> HIDE DEF I
      <4> QED
        BY <4>1
    <3>6. /\ ToSet(new.used) = {i \in ToSet(fold.lines) : Counts(i, fold.day)}
          /\ Increasing(fold.lines) => Increasing(new.used)
      BY <3>2, <3>5, UsedProps
    <3>7. /\ fold.day \in Nat /\ book.last \in Nat /\ Prev.last \in Nat
          /\ \A k \in Index : log[k].day \in Nat
          /\ \A k \in DOMAIN Past : Past[k] \in Index /\ log[Past[k]].day <= Prev.last
      BY <3>1, OfLog, OfPrev, PastLogged
    <3> HIDE DEF new
    <3>8. ASSUME fold.sound, NEW i \in Index, log[i].day \in Prev.last + 1 .. book'.last
          PROVE  Times(i)' = IF i \in Kept /\ Admitted(log[i].req) THEN 1 ELSE 0
      <4>1. log[i].day < fold.day /\ log[i].day > Prev.last
        BY <3>2, <3>3, <3>7, <3>8
      <4>2. \A k \in DOMAIN Past : Past[k] # i
        BY <3>7, <4>1
      <4>3. Times(i)' = IF i \in ToSet(new.used) THEN 1 ELSE 0
        <5>1. Increasing(new.used)
          BY <3>1, <3>6, <3>8 DEF Folding
        <5> QED
          BY <3>1, <3>2, <3>3, <4>2, <5>1, TimesOfNew
      <4>4. i \in ToSet(new.used) <=> i \in ToSet(fold.lines) /\ Admitted(log[i].req)
        BY <3>6, <4>1 DEF Counts, Complete, Unfolded
      <4>5. i \in Kept => i \in ToSet(fold.lines)
        BY <1>1, <3>1, <3>8, <4>1, AllRead
      <4>6. i \in ToSet(fold.lines) => i \in Kept
        <5>1. ToSet(fold.lines) = Within(boxRolls \ {}) \cup ToSet(boxLive)
          BY <3>1, <3>8 DEF Folding
        <5>2. Within(boxRolls \ {}) \subseteq Kept /\ ToSet(boxLive) \subseteq Kept
          BY DEF Within, Kept
        <5> QED
          BY <5>1, <5>2
      <4> QED
        BY <4>3, <4>4, <4>5, <4>6
    <3>9. ASSUME ~fold.lost, NEW i \in Index, log[i].day <= book.last PROVE Times(i)' = Times(i)
      <4>1. Prev = book /\ Past = folded
        BY <3>9 DEF Prev, Past
      <4>2. i \notin ToSet(new.used)
        BY <3>4, <3>7, <3>9, <4>1 DEF ToSet
      <4> QED
        BY <3>1, <3>2, <3>3, <4>1, <4>2, TimesOfOld
    <3>10. book'.last >= book.last
      <4>1. book'.last \in Int
        BY <3>2, <3>3, <3>7
      <4> QED
        BY <3>1, <3>2, <3>3, <3>7, <4>1
    <3> QED
      BY <2>1, <3>8, <3>9, <3>10 DEF Index
  <2>2. CASE ~FoldWrite /\ UNCHANGED <<book, folded>>
    <3>1. \A i : Times(i)' = Times(i)
      BY <2>2 DEF Times
    <3>2. book.last \in Nat /\ book'.last = book.last
      BY <1>1, <2>2, OfLog DEF WholeInv
    <3> QED
      BY <2>2, <3>1, <3>2
  <2> QED
    BY <1>1, <2>1, <2>2 DEF StatsNext, statsVars, results, Arrive, RollUp, Midnight, PullStart,
       PullRoll, PullLive, PullFail, FoldStart, FoldStartLost, FoldRead, FoldSkip, FoldAppend, FoldCut, FoldStop
<1>2. DayWhole <=> [][Whole]_statsVars
  BY DEF DayWhole
<1> QED
  BY <1>1, <1>2, FilesInOrder, PTL DEF StatsSpec

-----------------------------------------------------------------------------
(* What the loop over the lines has done when it has counted the lines of s: those of
   earlier folds, of days up to the watermark, and the first of those used by this one. *)
New(s) == {d \in Active(s) : d > Prev.last}
RowsOf(s) == {All} \cup {<<"month", Month(d)>> : d \in Active(s)}
                   \cup {<<"day", d>> : d \in {x \in Active(s) : x > Prev.last - DailyKeep}}
                   \cup {<<"archive", d>> : d \in New(s)}
Later == {"networks", "exports", "days"}
RowsTallied(rows, s) ==
  /\ DOMAIN rows = RowsOf(s) /\ DOMAIN Prev.rows \subseteq RowsOf(s)
  /\ \A p \in DOMAIN rows :
       /\ rows[p] \in [Measure -> Int]
       /\ Counted(Figures(s), p, rows[p])
       /\ \A m \in Later : rows[p][m] = Row(Prev.rows, p)[m]
SeenTallied(seen, s) ==
  \A d \in Days : d > Prev.last => \A n \in Net, f \in Path :
    /\ <<d, n, f>> \in DOMAIN seen <=> <<n, f>> \in Copies(s, d)
    /\ <<n, f>> \in Copies(s, d) =>
         seen[<<d, n, f>>] = IF <<n, f>> \in Exported(s, d) THEN "bulk" ELSE "single"
NetsTallied(acc, s) ==
  \A d \in Days : d > Prev.last =>
    Networks(acc.nets, d) = Nets(s, d) /\ Networks(acc.exporters, d) = Exporters(s, d)
Tallied(acc, s) ==
  RowsTallied(acc.rows, s) /\ SeenTallied(acc.seen, s) /\ NetsTallied(acc, s)

-----------------------------------------------------------------------------
(* Sums over days.  The loop of Total has a result, and it is what its steps say. *)
Summing(f, D, u, n) ==
  u = [d \in 0 .. n |-> IF d = 0 THEN 0 ELSE u[d - 1] + (IF d \in D THEN f[d] ELSE 0)]

LEMMA SummingExists ==
  ASSUME NEW f, NEW D
  PROVE  \E u : Summing(f, D, u, MaxDay)
<1> DEFINE S == {n \in Nat : \E u : Summing(f, D, u, n)}
<1>1. 0 \in S
  <2>1. Summing(f, D, [d \in 0 .. 0 |-> 0], 0)
    BY DEF Summing
  <2> QED
    BY <2>1
<1>2. ASSUME NEW n \in Nat, n \in S PROVE n + 1 \in S
  <2>1. PICK u : Summing(f, D, u, n)
    BY <1>2
  <2> DEFINE step(d, v) == v + (IF d \in D THEN f[d] ELSE 0)
             w == [d \in 0 .. n + 1 |-> IF d = 0 THEN 0 ELSE step(d, u[d - 1])]
  <2>2. \A d \in 0 .. n : u[d] = IF d = 0 THEN 0 ELSE step(d, u[d - 1])
    BY <2>1 DEF Summing
  <2>3. \A d \in 0 .. n + 1 : w[d] = IF d = 0 THEN 0 ELSE step(d, u[d - 1])
    OBVIOUS
  <2>4. \A d \in 0 .. n + 1 : d # 0 => d - 1 \in 0 .. n /\ d - 1 \in 0 .. n + 1
    OBVIOUS
  <2> HIDE DEF step
  <2>5. \A d \in 0 .. n : w[d] = u[d]
    BY <2>2, <2>3
  <2>6. w = [d \in 0 .. n + 1 |-> IF d = 0 THEN 0 ELSE step(d, w[d - 1])]
    BY <2>3, <2>4, <2>5
  <2>7. Summing(f, D, w, n + 1)
    BY <2>6 DEF Summing, step
  <2> QED
    BY <2>7
<1>3. Nat \subseteq S
  BY <1>1, <1>2, NatSetInduction
<1> QED
  BY <1>3, Bounds

LEMMA TotalSteps ==
  ASSUME NEW f, NEW D
  PROVE  \E u : /\ Total(f, D) = u[MaxDay] /\ u[0] = 0
                /\ \A d \in Days : u[d] = u[d - 1] + (IF d \in D THEN f[d] ELSE 0)
<1> DEFINE u == CHOOSE v : Summing(f, D, v, MaxDay)
<1>1. Summing(f, D, u, MaxDay)
  BY SummingExists
<1>2. Total(f, D) = u[MaxDay]
  BY DEF Total, Summing
<1> HIDE DEF u
<1>3. \A d \in 0 .. MaxDay : u[d] = IF d = 0 THEN 0 ELSE u[d - 1] + (IF d \in D THEN f[d] ELSE 0)
  BY <1>1 DEF Summing
<1>4. 0 \in 0 .. MaxDay /\ \A d \in Days : d \in 0 .. MaxDay /\ d # 0
  BY Bounds DEF Days
<1> QED
  BY <1>2, <1>3, <1>4

(* Sums of two functions, each over its days, add up to a third if they do so each day. *)
LEMMA TotalsAdd ==
  ASSUME NEW f, NEW D, NEW g, NEW E, NEW h, NEW F,
         \A d \in Days : /\ d \in D => f[d] \in Int
                         /\ d \in E => g[d] \in Int
                         /\ (IF d \in F THEN h[d] ELSE 0)
                              = (IF d \in D THEN f[d] ELSE 0) + (IF d \in E THEN g[d] ELSE 0)
  PROVE  /\ Total(f, D) \in Int /\ Total(g, E) \in Int
         /\ Total(h, F) = Total(f, D) + Total(g, E)
<1>1. PICK u : /\ Total(f, D) = u[MaxDay] /\ u[0] = 0
               /\ \A d \in Days : u[d] = u[d - 1] + (IF d \in D THEN f[d] ELSE 0)
  BY TotalSteps
<1>2. PICK v : /\ Total(g, E) = v[MaxDay] /\ v[0] = 0
               /\ \A d \in Days : v[d] = v[d - 1] + (IF d \in E THEN g[d] ELSE 0)
  BY TotalSteps
<1>3. PICK w : /\ Total(h, F) = w[MaxDay] /\ w[0] = 0
               /\ \A d \in Days : w[d] = w[d - 1] + (IF d \in F THEN h[d] ELSE 0)
  BY TotalSteps
<1> DEFINE S == {n \in Nat : n <= MaxDay => u[n] \in Int /\ v[n] \in Int /\ w[n] = u[n] + v[n]}
<1>4. 0 \in S
  BY <1>1, <1>2, <1>3
<1>5. ASSUME NEW n \in Nat, n \in S PROVE n + 1 \in S
  <2> SUFFICES ASSUME n + 1 <= MaxDay
               PROVE  u[n + 1] \in Int /\ v[n + 1] \in Int /\ w[n + 1] = u[n + 1] + v[n + 1]
    OBVIOUS
  <2>1. n + 1 \in Days /\ (n + 1) - 1 = n /\ u[n] \in Int /\ v[n] \in Int /\ w[n] = u[n] + v[n]
    BY <1>5, Bounds DEF Days
  <2> DEFINE a == IF n + 1 \in D THEN f[n + 1] ELSE 0
             b == IF n + 1 \in E THEN g[n + 1] ELSE 0
             c == IF n + 1 \in F THEN h[n + 1] ELSE 0
  <2>2. a \in Int /\ b \in Int /\ c = a + b
    BY <2>1
  <2>3. u[n + 1] = u[n] + a /\ v[n + 1] = v[n] + b /\ w[n + 1] = w[n] + c
    BY <1>1, <1>2, <1>3, <2>1
  <2> HIDE DEF a, b, c
  <2> QED
    BY <2>1, <2>2, <2>3
<1>6. Nat \subseteq S
  BY <1>4, <1>5, NatSetInduction
<1>7. MaxDay \in S
  BY <1>6, Bounds
<1> QED
  BY <1>1, <1>2, <1>3, <1>7, Bounds

LEMMA TotalOfNone ==
  ASSUME NEW f, NEW D, \A d \in Days : d \in D => f[d] = 0
  PROVE  Total(f, D) = 0
<1>1. Total(f, D) \in Int /\ Total(f, D) = Total(f, D) + Total(f, D)
  BY TotalsAdd
<1>2. \A t \in Int : t = t + t => t = 0
  OBVIOUS
<1> QED
  BY <1>1, <1>2

LEMMA TotalSame ==
  ASSUME NEW f, NEW g, NEW D, \A d \in Days : d \in D => g[d] = f[d]
  PROVE  Total(g, D) = Total(f, D)
<1>1. PICK u : /\ Total(f, D) = u[MaxDay] /\ u[0] = 0
               /\ \A d \in Days : u[d] = u[d - 1] + (IF d \in D THEN f[d] ELSE 0)
  BY TotalSteps
<1>2. PICK v : /\ Total(g, D) = v[MaxDay] /\ v[0] = 0
               /\ \A d \in Days : v[d] = v[d - 1] + (IF d \in D THEN g[d] ELSE 0)
  BY TotalSteps
<1> DEFINE S == {n \in Nat : n <= MaxDay => v[n] = u[n]}
<1>3. 0 \in S
  BY <1>1, <1>2
<1>4. ASSUME NEW n \in Nat, n \in S PROVE n + 1 \in S
  <2> SUFFICES ASSUME n + 1 <= MaxDay PROVE v[n + 1] = u[n + 1]
    OBVIOUS
  <2>1. n + 1 \in Days /\ (n + 1) - 1 = n /\ v[n] = u[n]
    BY <1>4, Bounds DEF Days
  <2> QED
    BY <1>1, <1>2, <2>1
<1>5. MaxDay \in S
  BY <1>3, <1>4, NatSetInduction, Bounds
<1> QED
  BY <1>1, <1>2, <1>5, Bounds

LEMMA TotalOfOne ==
  ASSUME NEW f, NEW e \in Days, f[e] \in Int
  PROVE  Total(f, {e}) = f[e]
<1>1. PICK u : /\ Total(f, {e}) = u[MaxDay] /\ u[0] = 0
               /\ \A d \in Days : u[d] = u[d - 1] + (IF d \in {e} THEN f[d] ELSE 0)
  BY TotalSteps
<1> DEFINE S == {n \in Nat : n <= MaxDay => u[n] = IF n < e THEN 0 ELSE f[e]}
<1>2. e \in Nat /\ e >= 1 /\ e <= MaxDay
  BY Bounds DEF Days
<1>3. 0 \in S
  BY <1>1, <1>2
<1>4. ASSUME NEW n \in Nat, n \in S PROVE n + 1 \in S
  <2> SUFFICES ASSUME n + 1 <= MaxDay PROVE u[n + 1] = IF n + 1 < e THEN 0 ELSE f[e]
    OBVIOUS
  <2>1. n + 1 \in Days /\ (n + 1) - 1 = n /\ u[n] = IF n < e THEN 0 ELSE f[e]
    BY <1>4, Bounds DEF Days
  <2>2. u[n + 1] = u[n] + (IF n + 1 = e THEN f[e] ELSE 0)
    BY <1>1, <2>1
  <2>3. CASE n + 1 < e
    BY <1>2, <2>1, <2>2, <2>3
  <2>4. CASE n + 1 = e
    BY <1>2, <2>1, <2>2, <2>4
  <2>5. CASE n + 1 > e
    BY <1>2, <2>1, <2>2, <2>5
  <2> QED
    BY <1>2, <2>3, <2>4, <2>5
<1>5. MaxDay \in S
  BY <1>3, <1>4, NatSetInduction, Bounds
<1> QED
  BY <1>1, <1>2, <1>5, Bounds

-----------------------------------------------------------------------------
(* The figures of a day are finite, and nothing for a day without lines. *)
LEMMA ImageFinite ==
  ASSUME NEW f, IsFiniteSet(DOMAIN f)
  PROVE  IsFiniteSet({f[x] : x \in DOMAIN f})
<1> DEFINE S == DOMAIN f
           T == {f[x] : x \in S}
           g == [x \in S |-> f[x]]
<1>1. g \in Surjection(S, T)
  BY DEF Surjection
<1> HIDE DEF S, T, g
<1>2. IsFiniteSet(T)
  BY <1>1, FS_Surjection DEF S
<1> QED
  BY <1>2 DEF T, S

LEMMA LinesFinite ==
  ASSUME Typed, NEW s \in Seq(Index), NEW d, NEW K
  PROVE  /\ IsFiniteSet(Lines(s, d, K))
         /\ IsFiniteSet(Copies(s, d)) /\ IsFiniteSet(Exported(s, d)) /\ Exported(s, d) \subseteq Copies(s, d)
         /\ IsFiniteSet(Nets(s, d)) /\ IsFiniteSet(Exporters(s, d))
<1>1. ASSUME NEW L PROVE IsFiniteSet(Lines(s, d, L))
  <2>1. Lines(s, d, L) \in SUBSET (1 .. Len(s)) /\ Len(s) \in Nat
    BY DEF Lines
  <2> QED
    BY <2>1, UpTo
<1>2. IsFiniteSet(Copies(s, d))
  <2> DEFINE f == [k \in Loads(s, d) |-> Copy(Asked(s, k))]
  <2>1. IsFiniteSet(DOMAIN f)
    BY <1>1 DEF Loads
  <2>2. Copies(s, d) = {f[k] : k \in DOMAIN f}
    BY DEF Copies
  <2> HIDE DEF f
  <2> QED
    BY <2>1, <2>2, ImageFinite
<1>3. Exported(s, d) \subseteq Copies(s, d)
  BY DEF Exported, Copies
<1>4. IsFiniteSet(Exported(s, d))
  BY <1>2, <1>3, FS_Subset
<1>5. IsFiniteSet(Nets(s, d))
  <2> DEFINE f == [k \in Lines(s, d, Kind) |-> Asked(s, k).net]
  <2>1. IsFiniteSet(DOMAIN f)
    BY <1>1
  <2>2. Nets(s, d) = {f[k] : k \in DOMAIN f}
    BY DEF Nets
  <2> HIDE DEF f
  <2> QED
    BY <2>1, <2>2, ImageFinite
<1>6. IsFiniteSet(Exporters(s, d))
  <2> DEFINE f == [c \in Exported(s, d) |-> c[1]]
  <2>1. IsFiniteSet(DOMAIN f)
    BY <1>4
  <2>2. Exporters(s, d) = {f[c] : c \in DOMAIN f}
    BY DEF Exporters
  <2> HIDE DEF f
  <2> QED
    BY <2>1, <2>2, ImageFinite
<1> QED
  BY <1>1, <1>2, <1>3, <1>4, <1>5, <1>6

LEMMA FigureType ==
  ASSUME Typed, NEW s \in Seq(Index), NEW d
  PROVE  Figure(s, d) \in [FigureMeasure -> Nat]
<1>1. \A L : Cardinality(Lines(s, d, L)) \in Nat
  BY LinesFinite, FS_CardinalityType
<1>2. /\ Cardinality(Copies(s, d)) \in Nat /\ Cardinality(Exported(s, d)) \in Nat
      /\ Cardinality(Nets(s, d)) \in Nat /\ Cardinality(Exporters(s, d)) \in Nat
  BY LinesFinite, FS_CardinalityType
<1>3. /\ Cardinality(Copies(s, d) \ Exported(s, d)) \in Nat
      /\ Cardinality({c \in Copies(s, d) : c[2] \notin Served}) \in Nat
  <2>1. /\ IsFiniteSet(Copies(s, d) \ Exported(s, d))
        /\ IsFiniteSet({c \in Copies(s, d) : c[2] \notin Served})
    BY LinesFinite, FS_Subset
  <2> QED
    BY <2>1, FS_CardinalityType
<1>4. Cardinality({k \in Handed(s, d) : Asked(s, k).path \notin Served}) \in Nat
  <2>1. IsFiniteSet(Handed(s, d))
    BY LinesFinite DEF Handed
  <2>2. IsFiniteSet({k \in Handed(s, d) : Asked(s, k).path \notin Served})
    BY <2>1, FS_Subset
  <2> QED
    BY <2>2, FS_CardinalityType
<1> QED
  BY <1>1, <1>2, <1>3, <1>4 DEF Figure, FigureMeasure, Additive, Loads, Handed

LEMMA FigureOfNone ==
  ASSUME Typed, NEW s \in Seq(Index), NEW d, d \notin Active(s)
  PROVE  \A m \in FigureMeasure : Figure(s, d)[m] = 0
<1>1. \A L : Lines(s, d, L) = {}
  BY DEF Lines, Active
<1>2. /\ Copies(s, d) = {} /\ Exported(s, d) = {} /\ Copies(s, d) \ Exported(s, d) = {}
      /\ {c \in Copies(s, d) : c[2] \notin Served} = {}
      /\ {k \in Handed(s, d) : Asked(s, k).path \notin Served} = {}
      /\ Loads(s, d) = {} /\ Handed(s, d) = {} /\ Nets(s, d) = {} /\ Exporters(s, d) = {}
  BY <1>1 DEF Copies, Exported, Loads, Handed, Nets, Exporters
<1>3. Cardinality({}) = 0
  BY FS_EmptySet
<1> DEFINE f == Figure(s, d)
<1>4. /\ f.visits = 0 /\ f.api = 0 /\ f.downloads = 0 /\ f.bytes = 0 /\ f.bulk = 0 /\ f.single = 0
      /\ f.unattributed = 0 /\ f.handoffs = 0 /\ f.drift = 0 /\ f.networks = 0 /\ f.exports = 0
  BY <1>1, <1>2, <1>3 DEF Figure
<1> HIDE DEF f
<1>5. \A m \in FigureMeasure : f[m] = 0
  BY <1>4 DEF FigureMeasure, Additive
<1> QED
  BY <1>5 DEF f

-----------------------------------------------------------------------------
(* One line more. *)
LEMMA LinesGrow ==
  ASSUME Typed, NEW s \in Seq(Index), NEW i \in Index, NEW d, NEW K
  PROVE  /\ Lines(Append(s, i), d, K) = Lines(s, d, K) \cup
                 (IF log[i].day = d /\ log[i].req.kind \in K THEN {Len(s) + 1} ELSE {})
         /\ Len(s) + 1 \notin Lines(s, d, K)
         /\ \A k \in Lines(s, d, K) : Asked(Append(s, i), k) = Asked(s, k)
         /\ Asked(Append(s, i), Len(s) + 1) = log[i].req
<1> DEFINE t == Append(s, i)
<1>1. /\ DOMAIN t = DOMAIN s \cup {Len(s) + 1} /\ Len(s) + 1 \notin DOMAIN s
      /\ \A k \in DOMAIN s : t[k] = s[k]
      /\ t[Len(s) + 1] = i
  BY OneMore
<1> HIDE DEF t
<1>2. /\ Lines(t, d, K) = Lines(s, d, K) \cup
                 (IF log[i].day = d /\ log[i].req.kind \in K THEN {Len(s) + 1} ELSE {})
      /\ Len(s) + 1 \notin Lines(s, d, K)
      /\ \A k \in Lines(s, d, K) : Asked(t, k) = Asked(s, k)
  BY <1>1 DEF Lines, Asked
<1>3. Asked(t, Len(s) + 1) = log[i].req
  BY <1>1 DEF Asked
<1> QED
  BY <1>2, <1>3 DEF t

LEMMA ActiveGrows ==
  ASSUME Typed, NEW s \in Seq(Index), NEW i \in Index
  PROVE  Append(s, i) \in Seq(Index) /\ Active(Append(s, i)) = Active(s) \cup {log[i].day}
<1> DEFINE t == Append(s, i)
<1>1. /\ t \in Seq(Index) /\ DOMAIN t = DOMAIN s \cup {Len(s) + 1} /\ Len(s) + 1 \notin DOMAIN s
      /\ \A k \in DOMAIN s : t[k] = s[k]
      /\ t[Len(s) + 1] = i
  BY OneMore
<1> HIDE DEF t
<1>2. \A d : (\E k \in DOMAIN t : d = log[t[k]].day) <=> (\E k \in DOMAIN s : d = log[s[k]].day) \/ d = log[i].day
  BY <1>1
<1> QED
  BY <1>1, <1>2 DEF Active, t

(* The figures of a day are those of its lines: they stay with a line of another day, ... *)
LEMMA SetsSame ==
  ASSUME NEW s, NEW t, NEW d,
         \A K : /\ Lines(t, d, K) = Lines(s, d, K)
                /\ \A k \in Lines(s, d, K) : Asked(t, k) = Asked(s, k)
  PROVE  /\ Copies(t, d) = Copies(s, d) /\ Exported(t, d) = Exported(s, d)
         /\ Nets(t, d) = Nets(s, d) /\ Exporters(t, d) = Exporters(s, d)
         /\ Figure(t, d) = Figure(s, d)
<1>1. Loads(t, d) = Loads(s, d) /\ \A k \in Loads(s, d) : Asked(t, k) = Asked(s, k)
  BY DEF Loads
<1>2. Handed(t, d) = Handed(s, d) /\ \A k \in Handed(s, d) : Asked(t, k) = Asked(s, k)
  BY DEF Handed
<1>3. Copies(t, d) = Copies(s, d) /\ Exported(t, d) = Exported(s, d)
  BY <1>1 DEF Copies, Exported
<1>4. Nets(t, d) = Nets(s, d)
  BY DEF Nets
<1>5. Exporters(t, d) = Exporters(s, d)
  BY <1>3 DEF Exporters
<1>6. {k \in Handed(t, d) : Asked(t, k).path \notin Served} = {k \in Handed(s, d) : Asked(s, k).path \notin Served}
  BY <1>2
<1>7. \A K : Lines(t, d, K) = Lines(s, d, K)
  OBVIOUS
<1>8. Figure(t, d) = Figure(s, d)
  BY <1>1, <1>2, <1>3, <1>4, <1>5, <1>6, <1>7 DEF Figure
<1> QED
  BY <1>3, <1>4, <1>5, <1>8

LEMMA SetsStay ==
  ASSUME Typed, NEW s \in Seq(Index), NEW i \in Index, NEW d, log[i].day # d
  PROVE  LET t == Append(s, i)
         IN /\ Copies(t, d) = Copies(s, d) /\ Exported(t, d) = Exported(s, d)
            /\ Nets(t, d) = Nets(s, d) /\ Exporters(t, d) = Exporters(s, d)
            /\ Figure(t, d) = Figure(s, d)
<1> DEFINE t == Append(s, i)
<1>1. ASSUME NEW K
      PROVE  Lines(t, d, K) = Lines(s, d, K) /\ \A k \in Lines(s, d, K) : Asked(t, k) = Asked(s, k)
  <2>1. /\ Lines(t, d, K) = Lines(s, d, K) \cup
                (IF log[i].day = d /\ log[i].req.kind \in K THEN {Len(s) + 1} ELSE {})
        /\ \A k \in Lines(s, d, K) : Asked(t, k) = Asked(s, k)
    BY LinesGrow
  <2> QED
    BY <2>1
<1> HIDE DEF t
<1>2. /\ Copies(t, d) = Copies(s, d) /\ Exported(t, d) = Exported(s, d)
      /\ Nets(t, d) = Nets(s, d) /\ Exporters(t, d) = Exporters(s, d)
      /\ Figure(t, d) = Figure(s, d)
  BY <1>1, SetsSame
<1> QED
  BY <1>2 DEF t

(* ... or of this one. *)
LEMMA SetsGrow ==
  ASSUME Typed, NEW s \in Seq(Index), NEW i \in Index
  PROVE  LET t == Append(s, i)
             d == log[i].day
             r == log[i].req
             load == r.kind = "download"
         IN /\ Copies(t, d) = IF load THEN Copies(s, d) \cup {Copy(r)} ELSE Copies(s, d)
            /\ Exported(t, d) = IF load /\ r.bulk THEN Exported(s, d) \cup {Copy(r)} ELSE Exported(s, d)
            /\ Nets(t, d) = Nets(s, d) \cup {r.net}
            /\ Exporters(t, d) = IF load /\ r.bulk THEN Exporters(s, d) \cup {r.net} ELSE Exporters(s, d)
<1> DEFINE t == Append(s, i)
           d == log[i].day
           r == log[i].req
           load == r.kind = "download"
           n == Len(s) + 1
<1>1. /\ Lines(t, d, {"download"}) = Lines(s, d, {"download"}) \cup (IF load THEN {n} ELSE {})
      /\ \A k \in Lines(s, d, {"download"}) : Asked(t, k) = Asked(s, k)
      /\ Asked(t, n) = r
  BY LinesGrow
<1>2. /\ Lines(t, d, Kind) = Lines(s, d, Kind) \cup {n}
      /\ \A k \in Lines(s, d, Kind) : Asked(t, k) = Asked(s, k)
  <2>1. r.kind \in Kind
    BY OfLog DEF Request
  <2> QED
    BY <2>1, LinesGrow
<1> HIDE DEF t, d, r, load, n
<1>3. /\ Loads(t, d) = IF load THEN Loads(s, d) \cup {n} ELSE Loads(s, d)
      /\ \A k \in Loads(s, d) : Asked(t, k) = Asked(s, k)
  BY <1>1 DEF Loads
<1>4. Copies(t, d) = IF load THEN Copies(s, d) \cup {Copy(r)} ELSE Copies(s, d)
  <2>1. CASE load
    <3>1. \A c : (\E k \in Loads(t, d) : c = Copy(Asked(t, k)))
                 <=> (\E k \in Loads(s, d) : c = Copy(Asked(s, k))) \/ c = Copy(r)
      BY <1>1, <1>3, <2>1
    <3> QED
      BY <3>1, <2>1 DEF Copies
  <2>2. CASE ~load
    BY <1>3, <2>2 DEF Copies
  <2> QED
    BY <2>1, <2>2
<1>5. Exported(t, d) = IF load /\ r.bulk THEN Exported(s, d) \cup {Copy(r)} ELSE Exported(s, d)
  <2> DEFINE S == {k \in Loads(s, d) : Asked(s, k).bulk}
             T == {k \in Loads(t, d) : Asked(t, k).bulk}
  <2>1. \A k \in S : Asked(t, k) = Asked(s, k)
    BY <1>3
  <2>2. CASE load /\ r.bulk
    <3>1. T = S \cup {n}
      BY <1>1, <1>3, <2>2
    <3>2. \A c : (\E k \in T : c = Copy(Asked(t, k))) <=> (\E k \in S : c = Copy(Asked(s, k))) \/ c = Copy(r)
      BY <1>1, <2>1, <3>1
    <3> QED
      BY <3>2, <2>2 DEF Exported
  <2>3. CASE ~(load /\ r.bulk)
    <3>1. T = S
      BY <1>1, <1>3, <2>3
    <3> QED
      BY <2>1, <3>1, <2>3 DEF Exported
  <2> QED
    BY <2>2, <2>3
<1>6. Nets(t, d) = Nets(s, d) \cup {r.net}
  <2>1. \A c : (\E k \in Lines(t, d, Kind) : c = Asked(t, k).net)
               <=> (\E k \in Lines(s, d, Kind) : c = Asked(s, k).net) \/ c = r.net
    BY <1>1, <1>2
  <2> QED
    BY <2>1 DEF Nets
<1>7. Exporters(t, d) = IF load /\ r.bulk THEN Exporters(s, d) \cup {r.net} ELSE Exporters(s, d)
  <2>1. Copy(r)[1] = r.net
    BY DEF Copy
  <2>2. CASE load /\ r.bulk
    <3> DEFINE E == Exported(s, d)
               F == Exported(t, d)
               e == Copy(r)
    <3>1. F = E \cup {e} /\ e[1] = r.net
      BY <1>5, <2>1, <2>2
    <3> HIDE DEF E, F, e
    <3>2. {c[1] : c \in F} = {c[1] : c \in E} \cup {r.net}
      BY <3>1
    <3> QED
      BY <3>2, <2>2 DEF Exporters, E, F
  <2>3. CASE ~(load /\ r.bulk)
    BY <1>5, <2>3 DEF Exporters
  <2> QED
    BY <2>2, <2>3
<1> QED
  BY <1>4, <1>5, <1>6, <1>7 DEF t, d, r, load

(* By how much the figures of its day change with a line. *)
Plus(x, b) == IF b THEN x + 1 ELSE x
LEMMA FigureGrows ==
  ASSUME Typed, NEW s \in Seq(Index), NEW i \in Index
  PROVE  LET d == log[i].day
             r == log[i].req
             f == Figure(s, d)
             g == Figure(Append(s, i), d)
             load == r.kind = "download"
             first == Copy(r) \notin Copies(s, d)
             export == Copy(r) \in Exported(s, d)
         IN /\ g.visits = Plus(f.visits, r.kind = "visit")
            /\ g.api = Plus(f.api, r.kind = "api")
            /\ g.downloads = Plus(f.downloads, load /\ first)
            /\ g.bytes = Plus(f.bytes, load)
            /\ g.bulk = Plus(f.bulk, load /\ r.bulk /\ ~export)
            /\ g.single = IF load /\ first /\ ~r.bulk THEN f.single + 1
                          ELSE IF load /\ ~first /\ r.bulk /\ ~export THEN f.single - 1
                          ELSE f.single
            /\ g.unattributed = Plus(f.unattributed, load /\ first /\ r.path \notin Served)
            /\ g.handoffs = Plus(f.handoffs, r.kind = "handoff")
            /\ g.drift = Plus(f.drift, r.kind = "handoff" /\ r.path \notin Served)
<1> DEFINE t == Append(s, i)
           d == log[i].day
           r == log[i].req
           f == Figure(s, d)
           g == Figure(t, d)
           load == r.kind = "download"
           c == Copy(r)
           C == Copies(s, d)
           X == Exported(s, d)
           n == Len(s) + 1
<1>1. ASSUME NEW S, NEW x, IsFiniteSet(S), x \notin S
      PROVE  Cardinality(S \cup {x}) = Cardinality(S) + 1
  BY <1>1, FS_AddElement
<1>2. /\ IsFiniteSet(C) /\ IsFiniteSet(X) /\ X \subseteq C /\ IsFiniteSet(C \ X)
      /\ IsFiniteSet({x \in C : x[2] \notin Served})
  BY LinesFinite, FS_Subset
<1>3. ASSUME NEW kind \in Kind
      PROVE  Cardinality(Lines(t, d, {kind})) = Plus(Cardinality(Lines(s, d, {kind})), r.kind = kind)
  <2>1. /\ Lines(t, d, {kind}) = Lines(s, d, {kind}) \cup (IF r.kind = kind THEN {n} ELSE {})
        /\ n \notin Lines(s, d, {kind})
    BY LinesGrow
  <2>2. IsFiniteSet(Lines(s, d, {kind}))
    BY LinesFinite
  <2>3. CASE r.kind = kind
    <3>1. Lines(t, d, {kind}) = Lines(s, d, {kind}) \cup {n}
      BY <2>1, <2>3
    <3>2. Cardinality(Lines(s, d, {kind}) \cup {n}) = Cardinality(Lines(s, d, {kind})) + 1
      BY <2>1, <2>2, <1>1
    <3> QED
      BY <2>3, <3>1, <3>2 DEF Plus
  <2>4. CASE r.kind # kind
    <3>1. Lines(t, d, {kind}) = Lines(s, d, {kind})
      BY <2>1, <2>4
    <3> QED
      BY <2>4, <3>1 DEF Plus
  <2> QED
    BY <2>3, <2>4
<1>4. /\ Copies(t, d) = IF load THEN C \cup {c} ELSE C
      /\ Exported(t, d) = IF load /\ r.bulk THEN X \cup {c} ELSE X
  BY SetsGrow
<1>5. c[2] = r.path
  BY DEF Copy
<1>6. /\ f.visits = Cardinality(Lines(s, d, {"visit"})) /\ g.visits = Cardinality(Lines(t, d, {"visit"}))
      /\ f.api = Cardinality(Lines(s, d, {"api"})) /\ g.api = Cardinality(Lines(t, d, {"api"}))
      /\ f.bytes = Cardinality(Lines(s, d, {"download"})) /\ g.bytes = Cardinality(Lines(t, d, {"download"}))
      /\ f.handoffs = Cardinality(Lines(s, d, {"handoff"}))
      /\ g.handoffs = Cardinality(Lines(t, d, {"handoff"}))
  BY DEF Figure, Loads, Handed
<1>7. /\ f.downloads = Cardinality(C) /\ g.downloads = Cardinality(Copies(t, d))
      /\ f.bulk = Cardinality(X) /\ g.bulk = Cardinality(Exported(t, d))
      /\ f.single = Cardinality(C \ X) /\ g.single = Cardinality(Copies(t, d) \ Exported(t, d))
      /\ f.unattributed = Cardinality({x \in C : x[2] \notin Served})
      /\ g.unattributed = Cardinality({x \in Copies(t, d) : x[2] \notin Served})
      /\ f.drift = Cardinality({k \in Handed(s, d) : Asked(s, k).path \notin Served})
      /\ g.drift = Cardinality({k \in Handed(t, d) : Asked(t, k).path \notin Served})
  BY DEF Figure
<1> HIDE DEF f, g
<1>8. /\ g.visits = Plus(f.visits, r.kind = "visit") /\ g.api = Plus(f.api, r.kind = "api")
      /\ g.bytes = Plus(f.bytes, load) /\ g.handoffs = Plus(f.handoffs, r.kind = "handoff")
  BY <1>3, <1>6 DEF Kind
<1>9. g.drift = Plus(f.drift, r.kind = "handoff" /\ r.path \notin Served)
  <2> DEFINE S == {k \in Handed(s, d) : Asked(s, k).path \notin Served}
             T == {k \in Handed(t, d) : Asked(t, k).path \notin Served}
  <2>1. /\ Handed(t, d) = Handed(s, d) \cup (IF r.kind = "handoff" THEN {n} ELSE {})
        /\ n \notin Handed(s, d) /\ Asked(t, n) = r
        /\ \A k \in Handed(s, d) : Asked(t, k) = Asked(s, k)
    <3>1. /\ Lines(t, d, {"handoff"}) = Lines(s, d, {"handoff"}) \cup (IF r.kind = "handoff" THEN {n} ELSE {})
          /\ n \notin Lines(s, d, {"handoff"}) /\ Asked(t, n) = r
          /\ \A k \in Lines(s, d, {"handoff"}) : Asked(t, k) = Asked(s, k)
      BY LinesGrow
    <3> QED
      BY <3>1 DEF Handed
  <2>2. IsFiniteSet(S)
    <3>1. IsFiniteSet(Handed(s, d))
      BY LinesFinite DEF Handed
    <3> QED
      BY <3>1, FS_Subset
  <2>3. f.drift = Cardinality(S) /\ g.drift = Cardinality(T)
    BY <1>7
  <2> HIDE DEF t, d, r, n, load, c, C, X
  <2>4. CASE r.kind = "handoff" /\ r.path \notin Served
    <3>1. T = S \cup {n} /\ n \notin S
      BY <2>1, <2>4
    <3> HIDE DEF S, T
    <3>2. Cardinality(S \cup {n}) = Cardinality(S) + 1
      BY <1>1, <2>2, <3>1
    <3> QED
      BY <2>3, <2>4, <3>1, <3>2 DEF Plus
  <2>5. CASE ~(r.kind = "handoff" /\ r.path \notin Served)
    <3>1. T = S
      BY <2>1, <2>5
    <3> HIDE DEF S, T
    <3> QED
      BY <2>3, <2>5, <3>1 DEF Plus
  <2> QED
    BY <2>4, <2>5
<1> HIDE DEF t, d, r, n, load, c, C, X
<1>10. g.downloads = Plus(f.downloads, load /\ c \notin C)
  <2>1. CASE load /\ c \notin C
    <3>1. Copies(t, d) = C \cup {c}
      BY <1>4, <2>1
    <3>2. Cardinality(C \cup {c}) = Cardinality(C) + 1
      BY <1>1, <1>2, <2>1
    <3> QED
      BY <1>7, <2>1, <3>1, <3>2 DEF Plus
  <2>2. CASE ~(load /\ c \notin C)
    <3>1. Copies(t, d) = C
      BY <1>4, <2>2
    <3> QED
      BY <1>7, <2>2, <3>1 DEF Plus
  <2> QED
    BY <2>1, <2>2
<1>11. g.bulk = Plus(f.bulk, load /\ r.bulk /\ c \notin X)
  <2>1. CASE load /\ r.bulk /\ c \notin X
    <3>1. Exported(t, d) = X \cup {c}
      BY <1>4, <2>1
    <3>2. Cardinality(X \cup {c}) = Cardinality(X) + 1
      BY <1>1, <1>2, <2>1
    <3> QED
      BY <1>7, <2>1, <3>1, <3>2 DEF Plus
  <2>2. CASE ~(load /\ r.bulk /\ c \notin X)
    <3>1. Exported(t, d) = X
      BY <1>4, <2>2
    <3> QED
      BY <1>7, <2>2, <3>1 DEF Plus
  <2> QED
    BY <2>1, <2>2
<1>12. g.single = IF load /\ c \notin C /\ ~r.bulk THEN f.single + 1
                  ELSE IF load /\ c \in C /\ r.bulk /\ c \notin X THEN f.single - 1
                  ELSE f.single
  <2> DEFINE S == C \ X
             T == Copies(t, d) \ Exported(t, d)
  <2>1. CASE load /\ c \notin C /\ ~r.bulk
    <3>1. T = S \cup {c} /\ c \notin S
      BY <1>2, <1>4, <2>1
    <3>2. Cardinality(S \cup {c}) = Cardinality(S) + 1
      BY <1>1, <1>2, <3>1
    <3> QED
      BY <1>7, <2>1, <3>1, <3>2
  <2>2. CASE load /\ c \in C /\ r.bulk /\ c \notin X
    <3>1. T = S \ {c} /\ c \in S
      BY <1>2, <1>4, <2>2
    <3>2. Cardinality(S \ {c}) = Cardinality(S) - 1
      BY <1>2, <3>1, FS_RemoveElement
    <3> QED
      BY <1>7, <2>2, <3>1, <3>2
  <2>3. CASE ~(load /\ c \notin C /\ ~r.bulk) /\ ~(load /\ c \in C /\ r.bulk /\ c \notin X)
    <3>1. T = S
      BY <1>2, <1>4, <2>3
    <3> QED
      BY <1>7, <2>3, <3>1
  <2> QED
    BY <2>1, <2>2, <2>3
<1>13. g.unattributed = Plus(f.unattributed, load /\ c \notin C /\ r.path \notin Served)
  <2> DEFINE S == {x \in C : x[2] \notin Served}
             T == {x \in Copies(t, d) : x[2] \notin Served}
  <2>1. CASE load /\ c \notin C /\ r.path \notin Served
    <3>1. T = S \cup {c} /\ c \notin S
      BY <1>4, <1>5, <2>1
    <3>2. g.unattributed = Cardinality(T) /\ f.unattributed = Cardinality(S) /\ IsFiniteSet(S)
      BY <1>2, <1>7
    <3> HIDE DEF S, T
    <3>3. Cardinality(S \cup {c}) = Cardinality(S) + 1
      BY <1>1, <3>1, <3>2
    <3> QED
      BY <2>1, <3>1, <3>2, <3>3 DEF Plus
  <2>2. CASE ~(load /\ c \notin C /\ r.path \notin Served)
    <3>1. T = S
      BY <1>4, <1>5, <2>2
    <3>2. g.unattributed = Cardinality(T) /\ f.unattributed = Cardinality(S) /\ IsFiniteSet(S)
      BY <1>2, <1>7
    <3> HIDE DEF S, T
    <3> QED
      BY <2>2, <3>1, <3>2 DEF Plus
  <2> QED
    BY <2>1, <2>2
<1> QED
  BY <1>8, <1>9, <1>10, <1>11, <1>12, <1>13 DEF t, d, r, load, c, C, X, f, g

(* What a line is marked with, measure by measure. *)
LEMMA MarksSay ==
  ASSUME NEW r \in Request, Admitted(r), NEW first \in BOOLEAN
  PROVE  LET M == Marks(r, first)
             load == r.kind = "download"
         IN /\ "visits" \in M <=> r.kind = "visit"
            /\ "api" \in M <=> r.kind = "api"
            /\ "bytes" \in M <=> load
            /\ "downloads" \in M <=> load /\ first
            /\ "single" \in M <=> load /\ first /\ ~r.bulk
            /\ "bulk" \in M <=> load /\ first /\ r.bulk
            /\ "unattributed" \in M <=> load /\ first /\ r.path \notin Served
            /\ "browser" \in M <=> load /\ first /\ r.client = "browser"
            /\ "scripted" \in M <=> load /\ first /\ r.client # "browser"
            /\ "handoffs" \in M <=> r.kind = "handoff"
            /\ "drift" \in M <=> r.kind = "handoff" /\ r.path \notin Served
            /\ "handoffBytes" \in M <=> r.kind = "handoff" /\ r.path \in Served
            /\ M \cap Later = {}
<1>1. /\ r.kind \in {"visit", "api", "download", "handoff"}
      /\ r.client \in {"browser", "scripted"} /\ r.bulk \in BOOLEAN
  <2>1. /\ r.kind \in Kind /\ r.client \in Client /\ r.bulk \in BOOLEAN
    BY DEF Request
  <2>2. r.kind # "ignore" /\ r.client # "crawler"
    BY DEF Admitted, Answers
  <2> QED
    BY <2>1, <2>2 DEF Kind, Client
<1>2. CASE r.kind = "visit"
  BY <1>2 DEF Marks, Later
<1>3. CASE r.kind = "api"
  BY <1>3 DEF Marks, Later
<1>4. CASE r.kind = "handoff"
  BY <1>4 DEF Marks, Later, Published
<1>5. CASE r.kind = "download" /\ first
  BY <1>1, <1>5 DEF Marks, Later, Published, Label
<1>6. CASE r.kind = "download" /\ ~first
  <2>1. Marks(r, first) = {"bytes"}
    BY <1>6 DEF Marks
  <2> QED
    BY <1>6, <2>1 DEF Later
<1> QED
  BY <1>1, <1>2, <1>3, <1>4, <1>5, <1>6

(* What a line adds to each measure, after those of s. *)
First(s, i) == Copy(log[i].req) \notin Copies(s, log[i].day)
Moves(s, i) == /\ log[i].req.kind = "download" /\ ~First(s, i)
               /\ log[i].req.bulk /\ Copy(log[i].req) \notin Exported(s, log[i].day)
Gain(s, i, m) ==
  IF m \in Marks(log[i].req, First(s, i)) THEN 1
  ELSE IF Moves(s, i) /\ m = "bulk" THEN 1
  ELSE IF Moves(s, i) /\ m = "single" THEN 0 - 1
  ELSE 0

LEMMA FigureGains ==
  ASSUME Typed, NEW s \in Seq(Index), NEW i \in Index, Admitted(log[i].req)
  PROVE  \A m \in Additive : /\ Gain(s, i, m) \in Int
                             /\ Figure(Append(s, i), log[i].day)[m]
                                 = Figure(s, log[i].day)[m] + Gain(s, i, m)
<1> DEFINE d == log[i].day
           r == log[i].req
           f == Figure(s, d)
           g == Figure(Append(s, i), d)
           load == r.kind = "download"
           export == Copy(r) \in Exported(s, d)
           M == Marks(r, First(s, i))
<1>1. /\ "visits" \in M <=> r.kind = "visit"
      /\ "api" \in M <=> r.kind = "api"
      /\ "bytes" \in M <=> load
      /\ "downloads" \in M <=> load /\ First(s, i)
      /\ "single" \in M <=> load /\ First(s, i) /\ ~r.bulk
      /\ "bulk" \in M <=> load /\ First(s, i) /\ r.bulk
      /\ "unattributed" \in M <=> load /\ First(s, i) /\ r.path \notin Served
      /\ "handoffs" \in M <=> r.kind = "handoff"
      /\ "drift" \in M <=> r.kind = "handoff" /\ r.path \notin Served
  <2>1. First(s, i) \in BOOLEAN /\ r \in Request
    BY OfLog DEF First
  <2> QED
    BY <2>1, MarksSay
<1>2. /\ g.visits = Plus(f.visits, r.kind = "visit")
      /\ g.api = Plus(f.api, r.kind = "api")
      /\ g.downloads = Plus(f.downloads, load /\ First(s, i))
      /\ g.bytes = Plus(f.bytes, load)
      /\ g.bulk = Plus(f.bulk, load /\ r.bulk /\ ~export)
      /\ g.single = IF load /\ First(s, i) /\ ~r.bulk THEN f.single + 1
                    ELSE IF load /\ ~First(s, i) /\ r.bulk /\ ~export THEN f.single - 1
                    ELSE f.single
      /\ g.unattributed = Plus(f.unattributed, load /\ First(s, i) /\ r.path \notin Served)
      /\ g.handoffs = Plus(f.handoffs, r.kind = "handoff")
      /\ g.drift = Plus(f.drift, r.kind = "handoff" /\ r.path \notin Served)
  BY FigureGrows DEF First
<1>3. First(s, i) => ~export
  BY LinesFinite DEF First
<1>4. Moves(s, i) <=> load /\ ~First(s, i) /\ r.bulk /\ ~export
  BY DEF Moves
<1>5. \A m \in Additive : f[m] \in Int
  <2>1. f \in [FigureMeasure -> Nat]
    BY FigureType
  <2> QED
    BY <2>1 DEF FigureMeasure
<1>6. \A m : Gain(s, i, m) = IF m \in M THEN 1 ELSE IF Moves(s, i) /\ m = "bulk" THEN 1
                             ELSE IF Moves(s, i) /\ m = "single" THEN 0 - 1 ELSE 0
  BY DEF Gain
<1> HIDE DEF d, r, f, g, export, M, load
<1>7. \A m : Gain(s, i, m) \in Int
  BY <1>6
<1>8. /\ f.visits \in Int /\ f.api \in Int /\ f.downloads \in Int /\ f.bytes \in Int /\ f.bulk \in Int
      /\ f.single \in Int /\ f.unattributed \in Int /\ f.handoffs \in Int /\ f.drift \in Int
  BY <1>5 DEF Additive
<1> DEFINE gain(m) == Gain(s, i, m)
           up(m) == IF m \in M THEN 1 ELSE 0
<1>9. /\ gain("visits") = up("visits") /\ gain("api") = up("api") /\ gain("bytes") = up("bytes")
      /\ gain("downloads") = up("downloads") /\ gain("unattributed") = up("unattributed")
      /\ gain("handoffs") = up("handoffs") /\ gain("drift") = up("drift")
  BY <1>6
<1>10. /\ up("visits") = IF r.kind = "visit" THEN 1 ELSE 0
       /\ up("api") = IF r.kind = "api" THEN 1 ELSE 0
       /\ up("bytes") = IF load THEN 1 ELSE 0
       /\ up("downloads") = IF load /\ First(s, i) THEN 1 ELSE 0
       /\ up("unattributed") = IF load /\ First(s, i) /\ r.path \notin Served THEN 1 ELSE 0
       /\ up("handoffs") = IF r.kind = "handoff" THEN 1 ELSE 0
       /\ up("drift") = IF r.kind = "handoff" /\ r.path \notin Served THEN 1 ELSE 0
  BY <1>1
<1> HIDE DEF gain, up
<1>11. /\ g.visits = f.visits + gain("visits") /\ g.api = f.api + gain("api")
       /\ g.bytes = f.bytes + gain("bytes")
  <2>1. g.visits = f.visits + gain("visits")
    BY <1>2, <1>8, <1>9, <1>10 DEF Plus
  <2>2. g.api = f.api + gain("api")
    BY <1>2, <1>8, <1>9, <1>10 DEF Plus
  <2>3. g.bytes = f.bytes + gain("bytes")
    BY <1>2, <1>8, <1>9, <1>10 DEF Plus
  <2> QED
    BY <2>1, <2>2, <2>3
<1>12. /\ g.downloads = f.downloads + gain("downloads") /\ g.unattributed = f.unattributed + gain("unattributed")
       /\ g.handoffs = f.handoffs + gain("handoffs") /\ g.drift = f.drift + gain("drift")
  <2>1. g.downloads = f.downloads + gain("downloads")
    BY <1>2, <1>8, <1>9, <1>10 DEF Plus
  <2>2. g.unattributed = f.unattributed + gain("unattributed")
    BY <1>2, <1>8, <1>9, <1>10 DEF Plus
  <2>3. g.handoffs = f.handoffs + gain("handoffs") /\ g.drift = f.drift + gain("drift")
    BY <1>2, <1>8, <1>9, <1>10 DEF Plus
  <2> QED
    BY <2>1, <2>2, <2>3
<1>13. g.bulk = f.bulk + gain("bulk")
  <2>1. gain("bulk") = IF load /\ r.bulk /\ ~export THEN 1 ELSE 0
    BY <1>1, <1>3, <1>4, <1>6 DEF gain
  <2> QED
    BY <1>2, <1>8, <2>1 DEF Plus
<1>14. g.single = f.single + gain("single")
  <2>1. gain("single") = IF load /\ First(s, i) /\ ~r.bulk THEN 1
                         ELSE IF load /\ ~First(s, i) /\ r.bulk /\ ~export THEN 0 - 1 ELSE 0
    BY <1>1, <1>4, <1>6 DEF gain
  <2> QED
    BY <1>2, <1>8, <2>1
<1>15. \A m \in Additive : g[m] = f[m] + Gain(s, i, m)
  <2>1. \A m \in Additive : g[m] = f[m] + gain(m)
    BY <1>11, <1>12, <1>13, <1>14 DEF Additive
  <2> QED
    BY <2>1 DEF gain
<1> QED
  BY <1>7, <1>15 DEF f, g, d

-----------------------------------------------------------------------------
(* The rows a day lands in, and the days that land in a row. *)
LEMMA LandedIs ==
  ASSUME NEW d \in Days, NEW p \in Landing(d)
  PROVE  /\ d \in Landed(p) /\ Landed(p) \subseteq Days
         /\ \A e \in Landed(p) : \/ p = All
                                 \/ p = <<"month", Month(e)>>
                                 \/ e = d /\ (p = <<"day", d>> \/ p = <<"archive", d>>)
<1>1. ASSUME NEW e \in Landed(p)
      PROVE  \/ p = All
             \/ p = <<"month", Month(e)>>
             \/ e = d /\ (p = <<"day", d>> \/ p = <<"archive", d>>)
  <2>1. p \in Landing(e)
    BY DEF Landed
  <2>2. \/ p = All \/ p = <<"month", Month(e)>>
        \/ p = <<"day", e>> \/ p = <<"archive", e>>
    BY <2>1 DEF Landing
  <2>3. \/ p = All \/ p = <<"month", Month(d)>>
        \/ p = <<"day", d>> \/ p = <<"archive", d>>
    BY DEF Landing
  <2> QED
    BY <2>2, <2>3 DEF All
<1> QED
  BY <1>1 DEF Landed

LEMMA RowIsNew ==
  ASSUME Typed, NEW s \in Seq(Index), NEW d \in Days, d > Prev.last, NEW p \in Landing(d),
         p \notin RowsOf(s)
  PROVE  Landed(p) \cap Active(s) = {}
<1> SUFFICES ASSUME NEW e \in Landed(p), e \in Active(s) PROVE FALSE
  OBVIOUS
<1>1. \/ p = All \/ p = <<"month", Month(e)>>
      \/ e = d /\ (p = <<"day", d>> \/ p = <<"archive", d>>)
  BY LandedIs
<1>2. d > Prev.last - DailyKeep
  BY OfLog, OfPrev, Bounds
<1> QED
  BY <1>1, <1>2 DEF RowsOf, New

LEMMA RowsGrow ==
  ASSUME Typed, NEW s \in Seq(Index), NEW i \in Index, log[i].day > Prev.last
  PROVE  RowsOf(Append(s, i)) = Landing(log[i].day) \cup RowsOf(s)
<1> DEFINE t == Append(s, i)
           d == log[i].day
<1>1. Active(t) = Active(s) \cup {d}
  BY ActiveGrows
<1>2. d > Prev.last - DailyKeep /\ d > Prev.last
  BY OfLog, OfPrev, Bounds
<1> HIDE DEF t, d
<1>3. New(t) = New(s) \cup {d}
  BY <1>1, <1>2 DEF New
<1>4. {x \in Active(t) : x > Prev.last - DailyKeep} = {x \in Active(s) : x > Prev.last - DailyKeep} \cup {d}
  BY <1>1, <1>2
<1>5. \A p : p \in RowsOf(t) <=> p \in Landing(d) \/ p \in RowsOf(s)
  BY <1>1, <1>3, <1>4 DEF RowsOf, Landing
<1>6. RowsOf(t) = Landing(d) \cup RowsOf(s)
  BY <1>5
<1> QED
  BY <1>6 DEF t, d

(* What a line does to a row it lands in, ... *)
After(rows, p, s, i) ==
  LET bumped == Bumped(Row(rows, p), Marks(log[i].req, First(s, i)) \cap Grain(p))
  IN IF Moves(s, i) /\ p[1] # "day" THEN Reclassified(bumped) ELSE bumped

LEMMA AfterSay ==
  ASSUME Typed, NEW s \in Seq(Index), NEW i \in Index, Admitted(log[i].req),
         NEW rows, NEW p, Row(rows, p) \in [Measure -> Int]
  PROVE  /\ After(rows, p, s, i) \in [Measure -> Int]
         /\ \A m \in Measure : After(rows, p, s, i)[m]
                                 = Row(rows, p)[m] + (IF m \in Grain(p) THEN Gain(s, i, m) ELSE 0)
<1> DEFINE row == Row(rows, p)
           M == Marks(log[i].req, First(s, i))
           b == Bumped(row, M \cap Grain(p))
           a == After(rows, p, s, i)
<1>1. \A m \in Measure : row[m] \in Int
  OBVIOUS
<1>2. /\ b \in [Measure -> Int]
      /\ \A m \in Measure : b[m] = row[m] + IF m \in M /\ m \in Grain(p) THEN 1 ELSE 0
  BY <1>1 DEF Bumped
<1>3. \A m : Gain(s, i, m) = IF m \in M THEN 1 ELSE IF Moves(s, i) /\ m = "bulk" THEN 1
                             ELSE IF Moves(s, i) /\ m = "single" THEN 0 - 1 ELSE 0
  BY DEF Gain
<1>4. Moves(s, i) => "bulk" \notin M /\ "single" \notin M
  <2>1. First(s, i) \in BOOLEAN /\ log[i].req \in Request
    BY OfLog DEF First
  <2>2. Moves(s, i) => ~First(s, i)
    BY DEF Moves
  <2> QED
    BY <2>1, <2>2, MarksSay
<1>5. a = IF Moves(s, i) /\ p[1] # "day" THEN Reclassified(b) ELSE b
  BY DEF After
<1>6. /\ p[1] # "day" => Grain(p) = Measure
      /\ p[1] = "day" => "bulk" \notin Grain(p) /\ "single" \notin Grain(p)
  BY DEF Grain, DayMeasure
<1>7. "bulk" \in Measure /\ "single" \in Measure
  BY DEF Measure
<1> HIDE DEF row, M, b, a
<1>8. CASE Moves(s, i) /\ p[1] # "day"
  <2>1. a = Reclassified(b)
    BY <1>5, <1>8
  <2>2. /\ a \in [Measure -> Int]
        /\ \A m \in Measure : a[m] = IF m = "bulk" THEN b["bulk"] + 1
                                     ELSE IF m = "single" THEN b["single"] - 1 ELSE b[m]
    BY <1>2, <1>7, <2>1 DEF Reclassified
  <2>3. \A m \in Measure : a[m] = row[m] + (IF m \in Grain(p) THEN Gain(s, i, m) ELSE 0)
    <3> SUFFICES ASSUME NEW m \in Measure
                 PROVE  a[m] = row[m] + (IF m \in Grain(p) THEN Gain(s, i, m) ELSE 0)
      OBVIOUS
    <3>1. m \in Grain(p) /\ row[m] \in Int
      BY <1>1, <1>6, <1>8
    <3>2. CASE m = "bulk"
      BY <1>2, <1>3, <1>4, <1>8, <2>2, <3>1, <3>2
    <3>3. CASE m = "single"
      BY <1>2, <1>3, <1>4, <1>8, <2>2, <3>1, <3>3
    <3>4. CASE m # "bulk" /\ m # "single"
      BY <1>2, <1>3, <2>2, <3>1, <3>4
    <3> QED
      BY <3>2, <3>3, <3>4
  <2> QED
    BY <2>2, <2>3 DEF a, row
<1>9. CASE ~(Moves(s, i) /\ p[1] # "day")
  <2>1. a = b
    BY <1>5, <1>9
  <2>2. \A m \in Measure : m \in Grain(p) /\ m \notin M => Gain(s, i, m) = 0
    BY <1>3, <1>6, <1>9
  <2>3. \A m \in Measure : b[m] = row[m] + (IF m \in Grain(p) THEN Gain(s, i, m) ELSE 0)
    BY <1>1, <1>2, <1>3, <2>2
  <2> QED
    BY <1>2, <2>1, <2>3 DEF a, row
<1> QED
  BY <1>8, <1>9

(* ... and to the figures summed over the days of the row. *)
LEMMA SumGains ==
  ASSUME Typed, NEW s \in Seq(Index), NEW i \in Index, Admitted(log[i].req),
         NEW D, log[i].day \in D, NEW m \in Additive
  PROVE  /\ Sum(Figures(s), m, D) \in Int
         /\ Sum(Figures(Append(s, i)), m, D) = Sum(Figures(s), m, D) + Gain(s, i, m)
<1> DEFINE t == Append(s, i)
           e == log[i].day
           f == [d \in Days |-> Figures(s)[d][m]]
           g == [d \in Days |-> Figures(t)[d][m]]
           a == Gain(s, i, m)
<1>1. \A d \in Days : f[d] = Figure(s, d)[m] /\ g[d] = Figure(t, d)[m]
  BY DEF Figures
<1>2. \A d \in Days : f[d] \in Int
  <2> SUFFICES ASSUME NEW d \in Days PROVE f[d] \in Int
    OBVIOUS
  <2>1. Figure(s, d) \in [FigureMeasure -> Nat]
    BY FigureType
  <2>2. Figure(s, d)[m] \in Nat
    BY <2>1 DEF FigureMeasure
  <2> QED
    BY <1>1, <2>2
<1>3. \A d \in Days : d # e => g[d] = f[d]
  <2> SUFFICES ASSUME NEW d \in Days, d # e PROVE g[d] = f[d]
    OBVIOUS
  <2>1. Figure(t, d) = Figure(s, d)
    BY SetsStay
  <2> QED
    BY <1>1, <2>1
<1>4. a \in Int /\ Figure(t, e)[m] = Figure(s, e)[m] + a
  BY FigureGains
<1>5. e \in Days
  BY OfLog, OfPrev
<1>6. g[e] = f[e] + a
  BY <1>1, <1>4, <1>5
<1>7. Sum(Figures(s), m, D) = Total(f, D) /\ Sum(Figures(t), m, D) = Total(g, D)
  BY DEF Sum
<1>8. e \in D
  OBVIOUS
<1> HIDE DEF t, e, f, g, a
<1> DEFINE b == [d \in {e} |-> a]
<1>9. Total(b, {e}) = a
  BY <1>4, <1>5, TotalOfOne
<1>10. \A d \in Days : /\ d \in D => f[d] \in Int
                       /\ d \in {e} => b[d] \in Int
                       /\ (IF d \in D THEN g[d] ELSE 0)
                            = (IF d \in D THEN f[d] ELSE 0) + (IF d \in {e} THEN b[d] ELSE 0)
  BY <1>2, <1>3, <1>4, <1>6, <1>8
<1> HIDE DEF b
<1>11. Total(f, D) \in Int /\ Total(g, D) = Total(f, D) + Total(b, {e})
  BY <1>10, TotalsAdd
<1> QED
  BY <1>7, <1>9, <1>11 DEF t, a

LEMMA RowSoFar ==
  ASSUME Typed, NEW s \in Seq(Index), NEW d \in Days, d > Prev.last, NEW p \in Landing(d),
         NEW rows, RowsTallied(rows, s)
  PROVE  /\ Row(rows, p) \in [Measure -> Int]
         /\ Counted(Figures(s), p, Row(rows, p))
         /\ \A m \in Later : Row(rows, p)[m] = Row(Prev.rows, p)[m]
<1>1. CASE p \in DOMAIN rows
  BY <1>1 DEF RowsTallied, Row
<1>2. CASE p \notin DOMAIN rows
  <2>1. Row(rows, p) = Zero /\ Row(Prev.rows, p) = Zero /\ p \notin RowsOf(s)
    BY <1>2 DEF RowsTallied, Row
  <2>2. Landed(p) \cap Active(s) = {} /\ Landed(p) \subseteq Days
    BY <2>1, RowIsNew DEF Landed
  <2>3. \A m \in Measure : Zero[m] = 0
    BY DEF Zero
  <2>4. ASSUME NEW m \in Additive PROVE Sum(Figures(s), m, Landed(p)) = 0
    <3> DEFINE f == [e \in Days |-> Figures(s)[e][m]]
    <3>1. ASSUME NEW e \in Days, e \in Landed(p) PROVE f[e] = 0
      <4>1. Figure(s, e)[m] = 0
        BY <2>2, <3>1, FigureOfNone DEF FigureMeasure
      <4> QED
        BY <4>1 DEF Figures
    <3>2. Sum(Figures(s), m, Landed(p)) = Total(f, Landed(p))
      BY DEF Sum
    <3> HIDE DEF f
    <3> QED
      BY <3>1, <3>2, TotalOfNone
  <2>5. Zero \in [Measure -> Int]
    BY DEF Zero
  <2>6. \A m \in Additive \cap Grain(p) : Zero[m] = Sum(Figures(s), m, Landed(p))
    <3>1. \A m \in Additive : m \in Measure
      BY DEF Additive, Measure
    <3> QED
      BY <2>3, <2>4, <3>1
  <2>7. Counted(Figures(s), p, Zero)
    <3>1. /\ Zero["handoffBytes"] = 0 /\ Zero["drift"] = 0 /\ Zero["handoffs"] = 0
          /\ Zero["browser"] = 0 /\ Zero["scripted"] = 0 /\ Zero["downloads"] = 0
      BY <2>3 DEF Measure
    <3> QED
      BY <2>6, <3>1 DEF Counted
  <2> QED
    BY <2>1, <2>5, <2>7
<1> QED
  BY <1>1, <1>2

LEMMA RowCounted ==
  ASSUME Typed, NEW s \in Seq(Index), NEW i \in Index, log[i].day > Prev.last,
         Admitted(log[i].req), NEW rows, RowsTallied(rows, s), NEW p \in Landing(log[i].day)
  PROVE  LET a == After(rows, p, s, i)
         IN /\ a \in [Measure -> Int]
            /\ Counted(Figures(Append(s, i)), p, a)
            /\ \A m \in Later : a[m] = Row(Prev.rows, p)[m]
<1> DEFINE r == log[i].req
           d == log[i].day
           row == Row(rows, p)
           a == After(rows, p, s, i)
           M == Marks(r, First(s, i))
           now(m) == Sum(Figures(Append(s, i)), m, Landed(p))
           was(m) == Sum(Figures(s), m, Landed(p))
<1>1. d \in Days
  BY OfLog, OfPrev
<1>2. /\ row \in [Measure -> Int] /\ Counted(Figures(s), p, row)
      /\ \A m \in Later : row[m] = Row(Prev.rows, p)[m]
  BY <1>1, RowSoFar
<1>3. /\ a \in [Measure -> Int]
      /\ \A m \in Measure : a[m] = row[m] + (IF m \in Grain(p) THEN Gain(s, i, m) ELSE 0)
  BY <1>2, AfterSay
<1>4. d \in Landed(p)
  BY <1>1, LandedIs
<1>5. \A m \in Additive : now(m) = was(m) + Gain(s, i, m)
  BY <1>4, SumGains
<1>6. \A m \in Additive \cap Grain(p) : row[m] = was(m)
  BY <1>2 DEF Counted
<1>7. /\ "downloads" \in M <=> r.kind = "download" /\ First(s, i)
      /\ "browser" \in M <=> r.kind = "download" /\ First(s, i) /\ r.client = "browser"
      /\ "scripted" \in M <=> r.kind = "download" /\ First(s, i) /\ r.client # "browser"
      /\ "handoffs" \in M <=> r.kind = "handoff"
      /\ "drift" \in M <=> r.kind = "handoff" /\ r.path \notin Served
      /\ "handoffBytes" \in M <=> r.kind = "handoff" /\ r.path \in Served
      /\ M \cap Later = {}
  <2>1. First(s, i) \in BOOLEAN /\ r \in Request
    BY OfLog DEF First
  <2> QED
    BY <2>1, MarksSay
<1>8. \A m : Gain(s, i, m) = IF m \in M THEN 1 ELSE IF Moves(s, i) /\ m = "bulk" THEN 1
                             ELSE IF Moves(s, i) /\ m = "single" THEN 0 - 1 ELSE 0
  BY DEF Gain
<1>9. /\ row["handoffBytes"] + row["drift"] = row["handoffs"]
      /\ p[1] # "day" => row["browser"] + row["scripted"] = row["downloads"]
  BY <1>2 DEF Counted
<1>10. \A m \in Measure : row[m] \in Int
  BY <1>2
<1>11. /\ "handoffBytes" \in Grain(p) /\ "drift" \in Grain(p) /\ "handoffs" \in Grain(p)
       /\ p[1] # "day" => Grain(p) = Measure
       /\ {"handoffBytes", "drift", "handoffs", "browser", "scripted", "downloads"} \subseteq Measure
  BY DEF Grain, DayMeasure, Measure
<1> HIDE DEF r, d, row, a, M, now, was
<1>12. a["handoffBytes"] + a["drift"] = a["handoffs"]
  <2>1. /\ a["handoffBytes"] = row["handoffBytes"] + Gain(s, i, "handoffBytes")
        /\ a["drift"] = row["drift"] + Gain(s, i, "drift")
        /\ a["handoffs"] = row["handoffs"] + Gain(s, i, "handoffs")
    BY <1>3, <1>11
  <2>2. Gain(s, i, "handoffBytes") + Gain(s, i, "drift") = Gain(s, i, "handoffs")
    BY <1>7, <1>8
  <2>3. /\ Gain(s, i, "handoffBytes") \in Int /\ Gain(s, i, "drift") \in Int
        /\ row["handoffBytes"] \in Int /\ row["drift"] \in Int /\ row["handoffs"] \in Int
    BY <1>8, <1>10, <1>11
  <2> QED
    BY <1>9, <2>1, <2>2, <2>3
<1>13. p[1] # "day" => a["browser"] + a["scripted"] = a["downloads"]
  <2> SUFFICES ASSUME p[1] # "day" PROVE a["browser"] + a["scripted"] = a["downloads"]
    OBVIOUS
  <2>1. /\ a["browser"] = row["browser"] + Gain(s, i, "browser")
        /\ a["scripted"] = row["scripted"] + Gain(s, i, "scripted")
        /\ a["downloads"] = row["downloads"] + Gain(s, i, "downloads")
    BY <1>3, <1>11
  <2>2. Gain(s, i, "browser") + Gain(s, i, "scripted") = Gain(s, i, "downloads")
    BY <1>7, <1>8
  <2>3. /\ Gain(s, i, "browser") \in Int /\ Gain(s, i, "scripted") \in Int
        /\ row["browser"] \in Int /\ row["scripted"] \in Int /\ row["downloads"] \in Int
    BY <1>8, <1>10, <1>11
  <2> QED
    BY <1>9, <2>1, <2>2, <2>3
<1>14. \A m \in Additive \cap Grain(p) : a[m] = now(m)
  <2>1. \A m \in Additive : m \in Measure
    BY DEF Additive, Measure
  <2> QED
    BY <1>3, <1>5, <1>6, <2>1
<1>15. \A m \in Later : a[m] = Row(Prev.rows, p)[m]
  <2> SUFFICES ASSUME NEW m \in Later PROVE a[m] = row[m]
    BY <1>2
  <2>1. m \in Measure /\ m # "bulk" /\ m # "single"
    BY DEF Later, Measure
  <2>2. Gain(s, i, m) = 0
    BY <1>7, <1>8, <2>1
  <2> QED
    BY <1>3, <1>10, <2>1, <2>2
<1>16. Counted(Figures(Append(s, i)), p, a)
  BY <1>12, <1>13, <1>14 DEF Counted, now
<1> QED
  BY <1>3, <1>15, <1>16 DEF a

(* Counting a line, told from what has been counted. *)
LEMMA CountSay ==
  ASSUME Typed, NEW s \in Seq(Index), NEW i \in Index, log[i].day > Prev.last,
         NEW acc, Tallied(acc, s)
  PROVE  LET r == log[i].req
             d == log[i].day
             key == <<d, r.net, r.path>>
             load == r.kind = "download"
             c == Count(acc, i)
         IN /\ DOMAIN c.rows = Landing(d) \cup DOMAIN acc.rows
            /\ \A p \in DOMAIN c.rows :
                 c.rows[p] = IF p \in Landing(d) THEN After(acc.rows, p, s, i) ELSE acc.rows[p]
            /\ load /\ (First(s, i) \/ Moves(s, i)) =>
                 /\ DOMAIN c.seen = {key} \cup DOMAIN acc.seen
                 /\ \A k \in DOMAIN c.seen : c.seen[k] = IF k = key THEN Label(r) ELSE acc.seen[k]
            /\ ~(load /\ (First(s, i) \/ Moves(s, i))) => c.seen = acc.seen
            /\ c.nets = acc.nets \cup {<<d, r.net>>}
            /\ c.exporters = acc.exporters \cup (IF load /\ r.bulk THEN {<<d, r.net>>} ELSE {})
<1> DEFINE r == log[i].req
           d == log[i].day
           key == <<d, r.net, r.path>>
           load == r.kind = "download"
           first == key \notin DOMAIN acc.seen
           moves == load /\ ~first /\ r.bulk /\ acc.seen[key] = "single"
           c == Count(acc, i)
<1>1. d \in Days /\ d > Prev.last /\ r.net \in Net /\ r.path \in Path
  BY OfLog DEF Request
<1>2. Copy(r) = <<r.net, r.path>>
  BY DEF Copy
<1>3. /\ key \in DOMAIN acc.seen <=> Copy(r) \in Copies(s, d)
      /\ Copy(r) \in Copies(s, d) =>
           acc.seen[key] = IF Copy(r) \in Exported(s, d) THEN "bulk" ELSE "single"
  BY <1>1, <1>2 DEF Tallied, SeenTallied
<1>4. first <=> First(s, i)
  BY <1>3 DEF First
<1>5. moves <=> Moves(s, i)
  BY <1>3, <1>4 DEF Moves, First
<1>6. Marks(r, first) = Marks(r, First(s, i))
  <2>1. CASE first
    <3>1. first = TRUE /\ First(s, i) = TRUE
      BY <1>4, <2>1 DEF First
    <3> QED
      BY <3>1
  <2>2. CASE ~first
    <3>1. first = FALSE /\ First(s, i) = FALSE
      BY <1>4, <2>2 DEF First
    <3> QED
      BY <3>1
  <2> QED
    BY <2>1, <2>2
<1> DEFINE bump(p) == Bumped(Row(acc.rows, p), Marks(r, first) \cap Grain(p))
           after(p) == IF moves /\ p[1] # "day" THEN Reclassified(bump(p)) ELSE bump(p)
<1>7. \A p : after(p) = After(acc.rows, p, s, i)
  BY <1>5, <1>6 DEF After
<1>8. /\ c.rows = [p \in Landing(d) \cup DOMAIN acc.rows |->
                     IF p \in Landing(d) THEN after(p) ELSE acc.rows[p]]
      /\ c.seen = IF load /\ (first \/ moves)
                    THEN [k \in {key} \cup DOMAIN acc.seen |->
                            IF k = key THEN Label(r) ELSE acc.seen[k]]
                    ELSE acc.seen
      /\ c.nets = acc.nets \cup {<<d, r.net>>}
      /\ c.exporters = acc.exporters \cup (IF load /\ r.bulk THEN {<<d, r.net>>} ELSE {})
  BY DEF Count
<1> HIDE DEF after, c, moves, first, load, key
<1>9. /\ DOMAIN c.rows = Landing(d) \cup DOMAIN acc.rows
      /\ \A p \in DOMAIN c.rows :
           c.rows[p] = IF p \in Landing(d) THEN After(acc.rows, p, s, i) ELSE acc.rows[p]
  BY <1>7, <1>8
<1>10. ASSUME load /\ (First(s, i) \/ Moves(s, i))
       PROVE  /\ DOMAIN c.seen = {key} \cup DOMAIN acc.seen
              /\ \A k \in DOMAIN c.seen : c.seen[k] = IF k = key THEN Label(r) ELSE acc.seen[k]
  BY <1>4, <1>5, <1>8, <1>10
<1>11. ~(load /\ (First(s, i) \/ Moves(s, i))) => c.seen = acc.seen
  BY <1>4, <1>5, <1>8
<1> QED
  BY <1>8, <1>9, <1>10, <1>11 DEF c, load, key

LEMMA RowsStep ==
  ASSUME Typed, NEW s \in Seq(Index), NEW i \in Index, log[i].day > Prev.last,
         Admitted(log[i].req), NEW acc, Tallied(acc, s)
  PROVE  RowsTallied(Count(acc, i).rows, Append(s, i))
<1> DEFINE t == Append(s, i)
           d == log[i].day
           rows == Count(acc, i).rows
<1>1. /\ DOMAIN rows = Landing(d) \cup DOMAIN acc.rows
      /\ \A p \in DOMAIN rows :
           rows[p] = IF p \in Landing(d) THEN After(acc.rows, p, s, i) ELSE acc.rows[p]
  BY CountSay
<1>2. RowsTallied(acc.rows, s)
  BY DEF Tallied
<1>3. DOMAIN rows = RowsOf(t) /\ DOMAIN Prev.rows \subseteq RowsOf(t)
  BY <1>1, <1>2, RowsGrow DEF RowsTallied
<1>4. ASSUME NEW p \in DOMAIN rows
      PROVE  /\ rows[p] \in [Measure -> Int]
             /\ Counted(Figures(t), p, rows[p])
             /\ \A m \in Later : rows[p][m] = Row(Prev.rows, p)[m]
  <2>1. CASE p \in Landing(d)
    <3>1. rows[p] = After(acc.rows, p, s, i)
      BY <1>1, <2>1
    <3> QED
      BY <1>2, <2>1, <3>1, RowCounted
  <2>2. CASE p \notin Landing(d)
    <3>1. p \in DOMAIN acc.rows /\ rows[p] = acc.rows[p]
      BY <1>1, <1>4, <2>2
    <3>2. d \notin Landed(p) /\ Landed(p) \subseteq Days
      BY <2>2 DEF Landed
    <3>3. \A m : Sum(Figures(t), m, Landed(p)) = Sum(Figures(s), m, Landed(p))
      <4> SUFFICES ASSUME NEW m PROVE Sum(Figures(t), m, Landed(p)) = Sum(Figures(s), m, Landed(p))
        OBVIOUS
      <4> DEFINE f == [e \in Days |-> Figures(s)[e][m]]
                 g == [e \in Days |-> Figures(t)[e][m]]
      <4>1. \A e \in Days : e \in Landed(p) => g[e] = f[e]
        <5> SUFFICES ASSUME NEW e \in Days, e \in Landed(p) PROVE g[e] = f[e]
          OBVIOUS
        <5>1. Figure(t, e) = Figure(s, e)
          BY <3>2, SetsStay
        <5> QED
          BY <5>1 DEF Figures
      <4>2. Sum(Figures(s), m, Landed(p)) = Total(f, Landed(p)) /\ Sum(Figures(t), m, Landed(p)) = Total(g, Landed(p))
        BY DEF Sum
      <4> HIDE DEF f, g
      <4> QED
        BY <4>1, <4>2, TotalSame
    <3>4. /\ acc.rows[p] \in [Measure -> Int] /\ Counted(Figures(s), p, acc.rows[p])
          /\ \A m \in Later : acc.rows[p][m] = Row(Prev.rows, p)[m]
      BY <1>2, <3>1 DEF RowsTallied
    <3>5. Counted(Figures(t), p, acc.rows[p])
      BY <3>3, <3>4 DEF Counted
    <3> QED
      BY <3>1, <3>4, <3>5
  <2> QED
    BY <2>1, <2>2
<1> HIDE DEF rows, t
<1> QED
  BY <1>3, <1>4 DEF RowsTallied, rows, t

LEMMA SeenStep ==
  ASSUME Typed, NEW s \in Seq(Index), NEW i \in Index, log[i].day > Prev.last,
         NEW acc, Tallied(acc, s)
  PROVE  SeenTallied(Count(acc, i).seen, Append(s, i))
<1> DEFINE t == Append(s, i)
           r == log[i].req
           d == log[i].day
           key == <<d, r.net, r.path>>
           load == r.kind = "download"
           seen == Count(acc, i).seen
<1>1. /\ load /\ (First(s, i) \/ Moves(s, i)) =>
           /\ DOMAIN seen = {key} \cup DOMAIN acc.seen
           /\ \A k \in DOMAIN seen : seen[k] = IF k = key THEN Label(r) ELSE acc.seen[k]
      /\ ~(load /\ (First(s, i) \/ Moves(s, i))) => seen = acc.seen
  BY CountSay
<1>2. d \in Days /\ r.net \in Net /\ r.path \in Path /\ r.bulk \in BOOLEAN
  BY OfLog DEF Request
<1>3. Copy(r) = <<r.net, r.path>>
  BY DEF Copy
<1>4. SUFFICES ASSUME NEW e \in Days, e > Prev.last, NEW n \in Net, NEW f \in Path
               PROVE  /\ <<e, n, f>> \in DOMAIN seen <=> <<n, f>> \in Copies(t, e)
                      /\ <<n, f>> \in Copies(t, e) =>
                           seen[<<e, n, f>>] = IF <<n, f>> \in Exported(t, e) THEN "bulk" ELSE "single"
  BY DEF SeenTallied
<1>5. /\ <<e, n, f>> \in DOMAIN acc.seen <=> <<n, f>> \in Copies(s, e)
      /\ <<n, f>> \in Copies(s, e) =>
           acc.seen[<<e, n, f>>] = IF <<n, f>> \in Exported(s, e) THEN "bulk" ELSE "single"
  BY <1>4 DEF Tallied, SeenTallied
<1>6. <<e, n, f>> = key <=> e = d /\ <<n, f>> = Copy(r)
  BY <1>3
<1>7. CASE e # d
  <2>1. Copies(t, e) = Copies(s, e) /\ Exported(t, e) = Exported(s, e)
    BY <1>7, SetsStay
  <2>2. <<e, n, f>> \in DOMAIN seen <=> <<e, n, f>> \in DOMAIN acc.seen
    BY <1>1, <1>6, <1>7
  <2>3. <<e, n, f>> \in DOMAIN acc.seen => seen[<<e, n, f>>] = acc.seen[<<e, n, f>>]
    BY <1>1, <1>6, <1>7
  <2> QED
    BY <1>5, <2>1, <2>2, <2>3
<1>8. CASE e = d
  <2>1. /\ Copies(t, d) = IF load THEN Copies(s, d) \cup {Copy(r)} ELSE Copies(s, d)
        /\ Exported(t, d) = IF load /\ r.bulk THEN Exported(s, d) \cup {Copy(r)} ELSE Exported(s, d)
    BY SetsGrow
  <2>2. Exported(s, d) \subseteq Copies(s, d)
    BY LinesFinite
  <2> DEFINE x == <<n, f>>
             k == <<d, n, f>>
  <2>3. /\ k \in DOMAIN acc.seen <=> x \in Copies(s, d)
        /\ x \in Copies(s, d) => acc.seen[k] = IF x \in Exported(s, d) THEN "bulk" ELSE "single"
        /\ k = key <=> x = Copy(r)
    BY <1>5, <1>6, <1>8
  <2>4. /\ First(s, i) <=> Copy(r) \notin Copies(s, d)
        /\ Moves(s, i) <=> load /\ ~First(s, i) /\ r.bulk /\ Copy(r) \notin Exported(s, d)
    BY DEF First, Moves
  <2>5. Label(r) = IF r.bulk THEN "bulk" ELSE "single"
    BY DEF Label
  <2>6. SUFFICES /\ k \in DOMAIN seen <=> x \in Copies(t, d)
                 /\ x \in Copies(t, d) => seen[k] = IF x \in Exported(t, d) THEN "bulk" ELSE "single"
    BY <1>8
  <2> HIDE DEF t, r, d, key, load, seen, x, k
  <2>7. CASE load /\ (First(s, i) \/ Moves(s, i))
    <3>1. /\ k \in DOMAIN seen <=> k = key \/ k \in DOMAIN acc.seen
          /\ k = key => seen[k] = Label(r)
          /\ k # key /\ k \in DOMAIN acc.seen => seen[k] = acc.seen[k]
      BY <1>1, <2>7
    <3>2. Copies(t, d) = Copies(s, d) \cup {Copy(r)}
      BY <2>1, <2>7
    <3>3. k \in DOMAIN seen <=> x \in Copies(t, d)
      BY <2>3, <3>1, <3>2
    <3>4. CASE k = key
      <4>1. x \in Exported(t, d) <=> r.bulk
        BY <2>1, <2>2, <2>3, <2>4, <2>7, <3>4
      <4> QED
        BY <2>5, <3>1, <3>3, <3>4, <4>1
    <3>5. CASE k # key
      <4>1. x \in Exported(t, d) <=> x \in Exported(s, d)
        BY <2>1, <2>3, <3>5
      <4>2. x \in Copies(t, d) <=> x \in Copies(s, d)
        BY <2>3, <3>2, <3>5
      <4> QED
        BY <2>3, <3>1, <3>3, <3>5, <4>1, <4>2
    <3> QED
      BY <3>3, <3>4, <3>5
  <2>8. CASE ~(load /\ (First(s, i) \/ Moves(s, i)))
    <3>1. seen = acc.seen
      BY <1>1, <2>8
    <3>2. Copies(t, d) = Copies(s, d)
      BY <2>1, <2>4, <2>8
    <3>3. Exported(t, d) = Exported(s, d)
      BY <2>1, <2>4, <2>8
    <3> QED
      BY <2>3, <3>1, <3>2, <3>3
  <2> QED
    BY <2>7, <2>8
<1> QED
  BY <1>7, <1>8

LEMMA NetsStep ==
  ASSUME Typed, NEW s \in Seq(Index), NEW i \in Index, log[i].day > Prev.last,
         NEW acc, Tallied(acc, s)
  PROVE  NetsTallied(Count(acc, i), Append(s, i))
<1> DEFINE t == Append(s, i)
           r == log[i].req
           d == log[i].day
           load == r.kind = "download"
           c == Count(acc, i)
<1>1. /\ c.nets = acc.nets \cup {<<d, r.net>>}
      /\ c.exporters = acc.exporters \cup (IF load /\ r.bulk THEN {<<d, r.net>>} ELSE {})
  BY CountSay
<1>2. ASSUME NEW P, NEW e
      PROVE  Networks(P \cup {<<d, r.net>>}, e) = IF e = d THEN Networks(P, e) \cup {r.net} ELSE Networks(P, e)
  <2>1. CASE e = d
    <3>1. {y \in P \cup {<<d, r.net>>} : y[1] = e} = {y \in P : y[1] = e} \cup {<<d, r.net>>}
      BY <2>1
    <3>2. <<d, r.net>>[2] = r.net
      OBVIOUS
    <3> DEFINE A == {y \in P : y[1] = e}
               B == {y \in P \cup {<<d, r.net>>} : y[1] = e}
               v == <<d, r.net>>
    <3>3. B = A \cup {v} /\ v[2] = r.net
      BY <3>1, <3>2
    <3> HIDE DEF A, B, v
    <3>4. \A z : (\E x \in B : z = x[2]) <=> (\E x \in A : z = x[2]) \/ z = r.net
      BY <3>3
    <3>5. {x[2] : x \in B} = {x[2] : x \in A} \cup {r.net}
      BY <3>4
    <3> QED
      BY <2>1, <3>5 DEF Networks, A, B, v
  <2>2. CASE e # d
    <3>1. {y \in P \cup {<<d, r.net>>} : y[1] = e} = {y \in P : y[1] = e}
      BY <2>2
    <3> QED
      BY <2>2, <3>1 DEF Networks
  <2> QED
    BY <2>1, <2>2
<1>3. SUFFICES ASSUME NEW e \in Days, e > Prev.last
               PROVE  Networks(c.nets, e) = Nets(t, e) /\ Networks(c.exporters, e) = Exporters(t, e)
  BY DEF NetsTallied
<1>4. Networks(acc.nets, e) = Nets(s, e) /\ Networks(acc.exporters, e) = Exporters(s, e)
  BY <1>3 DEF Tallied, NetsTallied
<1>5. CASE e # d
  <2>1. Nets(t, e) = Nets(s, e) /\ Exporters(t, e) = Exporters(s, e)
    BY <1>5, SetsStay
  <2>2. Networks(c.nets, e) = Networks(acc.nets, e)
    BY <1>1, <1>2, <1>5
  <2>3. Networks(c.exporters, e) = Networks(acc.exporters, e)
    <3>1. CASE load /\ r.bulk
      <4>1. c.exporters = acc.exporters \cup {<<d, r.net>>}
        BY <1>1, <3>1
      <4> QED
        BY <1>2, <1>5, <4>1
    <3>2. CASE ~(load /\ r.bulk)
      <4>1. c.exporters = acc.exporters
        BY <1>1, <3>2
      <4> QED
        BY <4>1
    <3> QED
      BY <3>1, <3>2
  <2> QED
    BY <1>4, <2>1, <2>2, <2>3
<1>6. CASE e = d
  <2>1. /\ Nets(t, d) = Nets(s, d) \cup {r.net}
        /\ Exporters(t, d) = IF load /\ r.bulk THEN Exporters(s, d) \cup {r.net} ELSE Exporters(s, d)
    BY SetsGrow
  <2>2. Networks(c.nets, e) = Networks(acc.nets, e) \cup {r.net}
    BY <1>1, <1>2, <1>6
  <2>3. CASE load /\ r.bulk
    <3>1. Networks(c.exporters, e) = Networks(acc.exporters, e) \cup {r.net}
      BY <1>1, <1>2, <1>6, <2>3
    <3> QED
      BY <1>4, <1>6, <2>1, <2>2, <2>3, <3>1
  <2>4. CASE ~(load /\ r.bulk)
    <3>1. c.exporters = acc.exporters
      BY <1>1, <2>4
    <3> QED
      BY <1>4, <1>6, <2>1, <2>2, <2>4, <3>1
  <2> QED
    BY <2>3, <2>4
<1> QED
  BY <1>5, <1>6

LEMMA CountStep ==
  ASSUME Typed, NEW s \in Seq(Index), NEW i \in Index, log[i].day > Prev.last,
         Admitted(log[i].req), NEW acc, Tallied(acc, s)
  PROVE  Tallied(Count(acc, i), Append(s, i))
BY RowsStep, SeenStep, NetsStep DEF Tallied

-----------------------------------------------------------------------------
(* The loop over the lines has a result, and it is what its steps say. *)
Tallying(used, u, n) ==
  u = [k \in 0 .. n |-> IF k = 0 THEN Start ELSE Count(u[k - 1], used[k])]

LEMMA TallyingExists ==
  ASSUME NEW used
  PROVE  \A n \in Nat : \E u : Tallying(used, u, n)
<1> DEFINE S == {n \in Nat : \E u : Tallying(used, u, n)}
<1>1. 0 \in S
  <2>1. Tallying(used, [k \in 0 .. 0 |-> Start], 0)
    BY DEF Tallying
  <2> QED
    BY <2>1
<1>2. ASSUME NEW n \in Nat, n \in S PROVE n + 1 \in S
  <2>1. PICK u : Tallying(used, u, n)
    BY <1>2
  <2> DEFINE step(k, v) == Count(v, used[k])
             w == [k \in 0 .. n + 1 |-> IF k = 0 THEN Start ELSE step(k, u[k - 1])]
  <2>2. \A k \in 0 .. n : u[k] = IF k = 0 THEN Start ELSE step(k, u[k - 1])
    BY <2>1 DEF Tallying
  <2>3. \A k \in 0 .. n + 1 : w[k] = IF k = 0 THEN Start ELSE step(k, u[k - 1])
    OBVIOUS
  <2>4. \A k \in 0 .. n + 1 : k # 0 => k - 1 \in 0 .. n /\ k - 1 \in 0 .. n + 1
    OBVIOUS
  <2> HIDE DEF step
  <2>5. \A k \in 0 .. n : w[k] = u[k]
    BY <2>2, <2>3
  <2>6. w = [k \in 0 .. n + 1 |-> IF k = 0 THEN Start ELSE step(k, w[k - 1])]
    BY <2>3, <2>4, <2>5
  <2>7. Tallying(used, w, n + 1)
    BY <2>6 DEF Tallying, step
  <2> QED
    BY <2>7
<1>3. Nat \subseteq S
  BY <1>1, <1>2, NatSetInduction
<1> QED
  BY <1>3

LEMMA TallySteps ==
  ASSUME NEW used, Len(used) \in Nat
  PROVE  \E u : /\ Tally(used) = u[Len(used)] /\ u[0] = Start
                /\ \A k \in 1 .. Len(used) : u[k] = Count(u[k - 1], used[k])
<1> DEFINE u == CHOOSE v : Tallying(used, v, Len(used))
<1>1. Tallying(used, u, Len(used))
  BY TallyingExists
<1>2. Tally(used) = u[Len(used)]
  BY DEF Tally, Tallying
<1> HIDE DEF u
<1>3. \A k \in 0 .. Len(used) : u[k] = IF k = 0 THEN Start ELSE Count(u[k - 1], used[k])
  BY <1>1 DEF Tallying
<1>4. 0 \in 0 .. Len(used) /\ \A k \in 1 .. Len(used) : k \in 0 .. Len(used) /\ k # 0
  OBVIOUS
<1> QED
  BY <1>2, <1>3, <1>4

(* It starts from the figures of the lines counted before ... *)
RowsTyped == \A p \in DOMAIN book.rows : book.rows[p] \in [Measure -> Int]
Based ==
  /\ Exact(Prev.rows, Prev.last, Past)
  /\ \A p \in DOMAIN Prev.rows : Prev.rows[p] \in [Measure -> Int]
LEMMA StartTallied ==
  ASSUME WholeInv, Based
  PROVE  Tallied(Start, Past)
<1>1. Typed /\ Past \in Seq(Index) /\ Prev.last \in Nat
  BY OfPrev DEF WholeInv
<1>2. \A d \in Active(Past) : d <= Prev.last /\ d \in Nat
  <2>1. \A k \in DOMAIN Past : log[Past[k]].day <= Prev.last /\ Past[k] \in Index
    BY OfPrev, PastLogged DEF WholeInv
  <2> QED
    BY <1>1, <2>1, OfLog DEF Active
<1>3. New(Past) = {}
  BY <1>1, <1>2 DEF New
<1>4. RowsOf(Past) = DOMAIN Prev.rows
  BY <1>3 DEF RowsOf, Based, Exact
<1>5. RowsTallied(Prev.rows, Past)
  BY <1>4 DEF RowsTallied, Based, Exact, Row
<1>6. ASSUME NEW d \in Days, d > Prev.last
      PROVE  Copies(Past, d) = {} /\ Nets(Past, d) = {} /\ Exporters(Past, d) = {}
  <2>1. d \notin Active(Past)
    BY <1>1, <1>2, <1>6, OfLog, OfPrev, Bounds
  <2>2. \A K : Lines(Past, d, K) = {}
    BY <2>1 DEF Lines, Active
  <2> QED
    BY <2>2 DEF Copies, Nets, Exporters, Exported, Loads
<1>7. SeenTallied(<< >>, Past)
  BY <1>6 DEF SeenTallied
<1>8. \A d : Networks({}, d) = {}
  BY DEF Networks
<1>9. NetsTallied(Start, Past)
  BY <1>6, <1>8 DEF NetsTallied, Start
<1> QED
  BY <1>5, <1>7, <1>9 DEF Tallied, Start

(* ... and line by line comes to those of the lines used as well. *)
LEMMA TallyDone ==
  ASSUME WholeInv, Based,
         NEW used \in Seq(Index),
         \A k \in DOMAIN used : log[used[k]].day > Prev.last /\ Admitted(log[used[k]].req)
  PROVE  Tallied(Tally(used), Past \o used)
<1>1. Typed /\ Past \in Seq(Index) /\ Len(used) \in Nat
  BY OfPrev DEF WholeInv
<1>2. PICK u : /\ Tally(used) = u[Len(used)] /\ u[0] = Start
               /\ \A k \in 1 .. Len(used) : u[k] = Count(u[k - 1], used[k])
  BY <1>1, TallySteps
<1> DEFINE upto(n) == Past \o SubSeq(used, 1, n)
           S == {n \in Nat : n <= Len(used) => Tallied(u[n], upto(n))}
<1>3. 0 \in S
  <2>1. SubSeq(used, 1, 0) = << >>
    OBVIOUS
  <2>2. upto(0) = Past
    BY <1>1, <2>1
  <2> HIDE DEF upto
  <2> QED
    BY <1>2, <2>2, StartTallied
<1>4. ASSUME NEW n \in Nat, n \in S PROVE n + 1 \in S
  <2> SUFFICES ASSUME n + 1 <= Len(used) PROVE Tallied(u[n + 1], upto(n + 1))
    OBVIOUS
  <2>1. Tallied(u[n], upto(n)) /\ n + 1 \in 1 .. Len(used) /\ (n + 1) - 1 = n
    BY <1>1, <1>4
  <2>2. used[n + 1] \in Index /\ log[used[n + 1]].day > Prev.last /\ Admitted(log[used[n + 1]].req)
    BY <2>1
  <2>3. SubSeq(used, 1, n + 1) = Append(SubSeq(used, 1, n), used[n + 1]) /\ SubSeq(used, 1, n) \in Seq(Index)
    BY <2>1, <2>2
  <2>4. upto(n + 1) = Append(upto(n), used[n + 1]) /\ upto(n) \in Seq(Index)
    BY <1>1, <2>2, <2>3
  <2> HIDE DEF upto
  <2>5. Tallied(Count(u[n], used[n + 1]), Append(upto(n), used[n + 1]))
    BY <1>1, <2>1, <2>2, <2>4, CountStep
  <2> QED
    BY <1>2, <2>1, <2>4, <2>5
<1>5. Len(used) \in S
  BY <1>1, <1>3, <1>4, NatSetInduction
<1>6. upto(Len(used)) = Past \o used
  <2>1. SubSeq(used, 1, Len(used)) = used
    OBVIOUS
  <2> QED
    BY <2>1
<1> DEFINE n == Len(used)
<1>7. n \in Nat /\ n <= Len(used) /\ n \in S
  BY <1>1, <1>5
<1> HIDE DEF n
<1>8. Tallied(u[n], upto(n))
  BY <1>7
<1> HIDE DEF upto
<1> QED
  BY <1>2, <1>6, <1>8 DEF n

(* Lines of other days change nothing to a day. *)
LEMMA FigureJoined ==
  ASSUME NEW s \in Seq(Index), NEW u \in Seq(Index), NEW d, d \notin Active(u)
  PROVE  Figure(s \o u, d) = Figure(s, d)
<1> DEFINE t == s \o u
<1>1. /\ \A k \in DOMAIN t :
           IF k <= Len(s) THEN k \in DOMAIN s /\ t[k] = s[k]
           ELSE k - Len(s) \in DOMAIN u /\ t[k] = u[k - Len(s)]
      /\ \A k \in DOMAIN s : k \in DOMAIN t /\ t[k] = s[k]
  BY Joined
<1>2. \A k \in DOMAIN u : log[u[k]].day # d
  BY DEF Active
<1> HIDE DEF t
<1>3. ASSUME NEW K
      PROVE  Lines(t, d, K) = Lines(s, d, K) /\ \A k \in Lines(s, d, K) : Asked(t, k) = Asked(s, k)
  <2>1. \A k : k \in Lines(t, d, K) <=> k \in Lines(s, d, K)
    BY <1>1, <1>2 DEF Lines
  <2>2. \A k \in Lines(s, d, K) : Asked(t, k) = Asked(s, k)
    BY <1>1 DEF Lines, Asked
  <2> QED
    BY <2>1, <2>2
<1>4. Figure(t, d) = Figure(s, d)
  BY <1>3, SetsSame
<1> QED
  BY <1>4 DEF t

LEMMA ActiveJoined ==
  ASSUME NEW s \in Seq(Index), NEW u \in Seq(Index)
  PROVE  Active(s \o u) = Active(s) \cup Active(u)
<1> DEFINE t == s \o u
<1>1. /\ \A k \in DOMAIN t :
           IF k <= Len(s) THEN k \in DOMAIN s /\ t[k] = s[k]
           ELSE k - Len(s) \in DOMAIN u /\ t[k] = u[k - Len(s)]
      /\ \A k \in DOMAIN s : k \in DOMAIN t /\ t[k] = s[k]
      /\ \A k \in DOMAIN u : k + Len(s) \in DOMAIN t /\ t[k + Len(s)] = u[k]
  BY Joined
<1> HIDE DEF t
<1>2. \A d \in Active(t) : d \in Active(s) \cup Active(u)
  BY <1>1 DEF Active
<1>3. \A d \in Active(s) \cup Active(u) : d \in Active(t)
  BY <1>1 DEF Active
<1> QED
  BY <1>2, <1>3 DEF t

-----------------------------------------------------------------------------
(* The greatest of the numbers given for some days. *)
LEMMA MaxIs ==
  ASSUME NEW S \in SUBSET Int, NEW m \in S, \A x \in S : m >= x
  PROVE  Max(S) = m
<1>1. Max(S) \in S /\ \A x \in S : Max(S) >= x
  BY DEF Max
<1>2. Max(S) \in Int /\ m \in Int /\ Max(S) >= m /\ m >= Max(S)
  BY <1>1
<1> QED
  BY <1>2

LEMMA MaxOver ==
  ASSUME NEW f, \A d \in Days : f[d] \in Nat, NEW X \in SUBSET Days, X # {}
  PROVE  \E x \in X : (\A y \in X : f[x] >= f[y]) /\ Max({f[d] : d \in X}) = f[x]
<1>1. \A d \in X : d \in Nat /\ d <= MaxDay /\ d >= 1 /\ f[d] \in Nat
  BY Bounds DEF Days
<1> DEFINE S == {n \in Nat : (\E x \in X : x <= n) =>
                               \E x \in X : x <= n /\ \A y \in X : y <= n => f[x] >= f[y]}
<1>2. 0 \in S
  BY <1>1
<1>3. ASSUME NEW n \in Nat, n \in S PROVE n + 1 \in S
  <2> SUFFICES ASSUME \E x \in X : x <= n + 1
               PROVE  \E x \in X : x <= n + 1 /\ \A y \in X : y <= n + 1 => f[x] >= f[y]
    OBVIOUS
  <2>1. \A y \in X : y <= n + 1 => y <= n \/ y = n + 1
    BY <1>1
  <2>2. CASE \E x \in X : x <= n
    <3>1. PICK x \in X : x <= n /\ \A y \in X : y <= n => f[x] >= f[y]
      BY <1>3, <2>2
    <3>2. CASE n + 1 \in X /\ f[n + 1] >= f[x]
      <4>1. \A y \in X : y <= n + 1 => f[n + 1] >= f[y]
        BY <1>1, <2>1, <3>1, <3>2
      <4> QED
        BY <3>2, <4>1
    <3>3. CASE ~(n + 1 \in X /\ f[n + 1] >= f[x])
      <4>1. x <= n + 1 /\ \A y \in X : y <= n + 1 => f[x] >= f[y]
        BY <1>1, <2>1, <3>1, <3>3
      <4> QED
        BY <4>1
    <3> QED
      BY <3>2, <3>3
  <2>3. CASE ~ \E x \in X : x <= n
    <3>1. n + 1 \in X /\ \A y \in X : y <= n + 1 => y = n + 1
      BY <2>1, <2>3
    <3>2. n + 1 <= n + 1 /\ f[n + 1] >= f[n + 1]
      BY <1>1, <3>1
    <3> QED
      BY <3>1, <3>2
  <2> QED
    BY <2>2, <2>3
<1>4. MaxDay \in S
  BY <1>2, <1>3, NatSetInduction, Bounds
<1>5. PICK x \in X : \A y \in X : f[x] >= f[y]
  BY <1>1, <1>4
<1>6. Max({f[d] : d \in X}) = f[x]
  <2> DEFINE T == {f[d] : d \in X}
  <2>1. T \in SUBSET Int /\ f[x] \in T /\ \A y \in T : f[x] >= y
    BY <1>1, <1>5
  <2> HIDE DEF T
  <2>2. Max(T) = f[x]
    BY <2>1, MaxIs
  <2> QED
    BY <2>2 DEF T
<1> QED
  BY <1>5, <1>6

(* The greatest so far, and those of more days. *)
LEMMA MaxJoin ==
  ASSUME NEW f, \A d \in Days : f[d] \in Nat, NEW X \in SUBSET Days, NEW Y \in SUBSET Days, Y # {},
         NEW m, m = IF X = {} THEN 0 ELSE Max({f[d] : d \in X})
  PROVE  Max({m} \cup {f[d] : d \in Y}) = Max({f[d] : d \in X \cup Y})
<1>1. PICK z \in X \cup Y : /\ \A y \in X \cup Y : f[z] >= f[y]
                            /\ Max({f[d] : d \in X \cup Y}) = f[z]
  BY MaxOver
<1>2. \A d \in X \cup Y : f[d] \in Nat
  OBVIOUS
<1>3. m \in Nat /\ f[z] >= m /\ (z \in X => m >= f[z])
  <2>1. CASE X = {}
    <3>1. m = 0
      BY <2>1
    <3> QED
      BY <1>2, <2>1, <3>1
  <2>2. CASE X # {}
    <3>1. PICK x \in X : (\A y \in X : f[x] >= f[y]) /\ Max({f[d] : d \in X}) = f[x]
      BY <2>2, MaxOver
    <3>2. m = f[x]
      BY <2>2, <3>1
    <3> QED
      BY <1>1, <1>2, <3>1, <3>2
  <2> QED
    BY <2>1, <2>2
<1> DEFINE T == {m} \cup {f[d] : d \in Y}
<1>4. T \in SUBSET Int /\ \A x \in T : f[z] >= x
  BY <1>1, <1>2, <1>3
<1>5. f[z] \in T
  <2>1. CASE z \in Y
    BY <2>1
  <2>2. CASE z \in X
    <3>1. m = f[z]
      BY <1>2, <1>3, <2>2
    <3> QED
      BY <3>1
  <2> QED
    BY <2>1, <2>2
<1> HIDE DEF T
<1>6. Max(T) = f[z]
  BY <1>4, <1>5, MaxIs
<1> QED
  BY <1>1, <1>6 DEF T

-----------------------------------------------------------------------------
(* The lines of a fold are of days that are new to it. *)
Usable(used) ==
  used \in Seq(Index) /\ \A k \in DOMAIN used : log[used[k]].day > Prev.last /\ Admitted(log[used[k]].req)

LEMMA RunDays ==
  ASSUME WholeInv, NEW used, Usable(used)
  PROVE  LET t == Past \o used
             days == Active(used)
         IN /\ Past \in Seq(Index) /\ t \in Seq(Index)
            /\ Active(Past) \subseteq Days /\ Active(t) = Active(Past) \cup days
            /\ days \subseteq Days /\ days \cap Active(Past) = {} /\ New(t) = days
            /\ \A d \in Active(Past) : d <= Prev.last
            /\ \A d \in days : d > Prev.last
            /\ \A d \in Days : d \notin days => Figure(t, d) = Figure(Past, d)
            /\ \A d \in Days : d \notin Active(Past) => \A m \in FigureMeasure : Figure(Past, d)[m] = 0
            /\ \A d \in Days : Figure(t, d) \in [FigureMeasure -> Nat] /\ Figure(Past, d) \in [FigureMeasure -> Nat]
<1> DEFINE t == Past \o used
           days == Active(used)
<1>1. Typed /\ Past \in Seq(Index) /\ used \in Seq(Index)
  BY OfPrev DEF WholeInv, Usable
<1>2. Active(t) = Active(Past) \cup days /\ t \in Seq(Index)
  BY <1>1, ActiveJoined, Joined
<1>3. Prev.last \in Nat /\ \A d \in Days : d \in Nat
  BY <1>1, OfPrev, Bounds
<1>4. days \subseteq Days /\ \A d \in days : d > Prev.last
  <2> SUFFICES ASSUME NEW k \in DOMAIN used PROVE log[used[k]].day \in Days /\ log[used[k]].day > Prev.last
    BY DEF Active
  <2>1. used[k] \in Index
    BY <1>1
  <2> QED
    BY <1>1, <2>1, OfLog DEF Usable
<1>5. Active(Past) \subseteq Days /\ \A d \in Active(Past) : d <= Prev.last
  <2> SUFFICES ASSUME NEW k \in DOMAIN Past PROVE log[Past[k]].day \in Days /\ log[Past[k]].day <= Prev.last
    BY DEF Active
  <2>1. Past[k] \in Index
    BY <1>1
  <2> QED
    BY <1>1, <2>1, OfLog, PastLogged DEF WholeInv
<1>6. days \cap Active(Past) = {}
  BY <1>3, <1>4, <1>5
<1>7. New(t) = days
  BY <1>2, <1>3, <1>4, <1>5 DEF New
<1>8. \A d \in Days : d \notin days => Figure(t, d) = Figure(Past, d)
  BY <1>1, FigureJoined
<1>9. \A d \in Days : d \notin Active(Past) => \A m \in FigureMeasure : Figure(Past, d)[m] = 0
  BY <1>1, FigureOfNone
<1>10. \A d \in Days : Figure(t, d) \in [FigureMeasure -> Nat] /\ Figure(Past, d) \in [FigureMeasure -> Nat]
  BY <1>1, <1>2, FigureType
<1> HIDE DEF t, days
<1> QED
  BY <1>1, <1>2, <1>4, <1>5, <1>6, <1>7, <1>8, <1>9, <1>10 DEF t, days

(* A figure summed over some days, before the fold and with it. *)
LEMMA SumJoined ==
  ASSUME WholeInv, NEW used, Usable(used), NEW m \in FigureMeasure, NEW x, NEW D,
         \A d \in Active(used) \cap D : x[d] = Figure(Past \o used, d)[m]
  PROVE  /\ Total(x, Active(used) \cap D) \in Int /\ Sum(Figures(Past), m, D) \in Int
         /\ Sum(Figures(Past \o used), m, D) = Sum(Figures(Past), m, D) + Total(x, Active(used) \cap D)
<1> DEFINE t == Past \o used
           days == Active(used)
           E == days \cap D
           f == [d \in Days |-> Figures(Past)[d][m]]
           h == [d \in Days |-> Figures(t)[d][m]]
<1>1. /\ \A d \in Days : d \notin days => Figure(t, d) = Figure(Past, d)
      /\ \A d \in Days : d \notin Active(Past) => Figure(Past, d)[m] = 0
      /\ days \cap Active(Past) = {}
      /\ \A d \in Days : Figure(t, d)[m] \in Nat /\ Figure(Past, d)[m] \in Nat
  BY RunDays
<1>2. \A d \in Days : f[d] = Figure(Past, d)[m] /\ h[d] = Figure(t, d)[m]
  BY DEF Figures
<1>3. Sum(Figures(Past), m, D) = Total(f, D) /\ Sum(Figures(t), m, D) = Total(h, D)
  BY DEF Sum
<1>4. \A d \in E : x[d] = Figure(t, d)[m]
  OBVIOUS
<1>5. \A d : d \in E <=> d \in days /\ d \in D
  OBVIOUS
<1> HIDE DEF t, days, E, f, h
<1>6. \A d \in Days : /\ d \in D => f[d] \in Int
                      /\ d \in E => x[d] \in Int
                      /\ (IF d \in D THEN h[d] ELSE 0)
                           = (IF d \in D THEN f[d] ELSE 0) + (IF d \in E THEN x[d] ELSE 0)
  <2> SUFFICES ASSUME NEW d \in Days
               PROVE  /\ f[d] \in Int
                      /\ d \in E => x[d] \in Int
                      /\ (IF d \in D THEN h[d] ELSE 0)
                           = (IF d \in D THEN f[d] ELSE 0) + (IF d \in E THEN x[d] ELSE 0)
    OBVIOUS
  <2>1. /\ Figure(t, d)[m] \in Nat /\ Figure(Past, d)[m] \in Nat
        /\ f[d] = Figure(Past, d)[m] /\ h[d] = Figure(t, d)[m]
    BY <1>1, <1>2
  <2>2. CASE d \in E
    <3>1. d \in D /\ f[d] = 0 /\ x[d] = h[d]
      BY <1>1, <1>4, <1>5, <2>1, <2>2
    <3> QED
      BY <2>1, <2>2, <3>1
  <2>3. CASE d \notin E /\ d \in D
    <3>1. h[d] = f[d]
      BY <1>1, <1>5, <2>1, <2>3
    <3> QED
      BY <2>1, <2>3, <3>1
  <2>4. CASE d \notin E /\ d \notin D
    BY <2>1, <2>4
  <2> QED
    BY <2>2, <2>3, <2>4
<1>7. Total(f, D) \in Int /\ Total(x, E) \in Int /\ Total(h, D) = Total(f, D) + Total(x, E)
  BY <1>6, TotalsAdd
<1> QED
  BY <1>3, <1>7 DEF t, E, days

(* The rows of a fold: those there were, and those its days land in. *)
LEMMA RowsKept ==
  ASSUME WholeInv, Based
  PROVE  RowsOf(Past) = DOMAIN Prev.rows
<1>1. New(Past) = {}
  <2>1. Typed
    BY DEF WholeInv
  <2>2. \A k \in DOMAIN Past : log[Past[k]].day <= Prev.last /\ log[Past[k]].day \in Nat
    BY <2>1, OfPrev, PastLogged, OfLog DEF WholeInv
  <2>3. Prev.last \in Nat /\ \A d \in Active(Past) : d <= Prev.last /\ d \in Nat
    BY <2>1, <2>2, OfPrev DEF Active
  <2> QED
    BY <2>3 DEF New
<1> QED
  BY <1>1 DEF RowsOf, Based, Exact

LEMMA RowOfRun ==
  ASSUME WholeInv, Based, NEW used, Usable(used), NEW p \in RowsOf(Past \o used)
  PROVE  /\ p = All \/ \E d \in Active(Past \o used) : p \in Landing(d)
         /\ Active(used) \cap Landed(p) = {} => p \in DOMAIN Prev.rows
         /\ p \notin DOMAIN Prev.rows => Landed(p) \cap Active(Past) = {}
         /\ p[1] = "month" /\ p \in DOMAIN Prev.rows => Landed(p) \cap Active(Past) # {}
<1> DEFINE t == Past \o used
           days == Active(used)
<1>1. /\ Typed /\ Past \in Seq(Index) /\ days \subseteq Days /\ New(t) = days
      /\ Active(t) = Active(Past) \cup days /\ Active(Past) \subseteq Days
      /\ \A d \in days : d > Prev.last
  BY RunDays DEF WholeInv
<1>2. RowsOf(Past) = DOMAIN Prev.rows
  BY RowsKept
<1>3. p \in RowsOf(t)
  OBVIOUS
<1> HIDE DEF t, days
<1>4. p = All \/ \E d \in Active(t) : p \in Landing(d)
  BY <1>1, <1>3 DEF RowsOf, Landing
<1>5. \A d \in Days : p \in Landing(d) <=> d \in Landed(p)
  BY DEF Landed
<1>6. ASSUME days \cap Landed(p) = {} PROVE p \in RowsOf(Past)
  <2>1. CASE p = All
    BY <2>1 DEF RowsOf
  <2>2. CASE \E d \in Active(Past) : p = <<"month", Month(d)>>
    BY <2>2 DEF RowsOf
  <2>3. CASE \E d \in Active(Past) : d > Prev.last - DailyKeep /\ p = <<"day", d>>
    BY <2>3 DEF RowsOf
  <2>4. CASE \E d \in days : p \in Landing(d)
    BY <1>1, <1>5, <1>6, <2>4
  <2> QED
    BY <1>1, <1>3, <2>1, <2>2, <2>3, <2>4 DEF RowsOf, Landing
<1>7. ASSUME p \notin RowsOf(Past) PROVE Landed(p) \cap Active(Past) = {}
  <2>1. PICK d \in days : p \in Landing(d)
    BY <1>1, <1>5, <1>6, <1>7
  <2> QED
    BY <1>1, <1>7, <2>1, RowIsNew
<1>8. ASSUME p[1] = "month", p \in RowsOf(Past) PROVE Landed(p) \cap Active(Past) # {}
  <2>1. PICK d \in Active(Past) : p = <<"month", Month(d)>>
    BY <1>8 DEF RowsOf, All
  <2> QED
    BY <1>1, <1>5, <2>1 DEF Landing
<1> QED
  BY <1>2, <1>4, <1>6, <1>7, <1>8 DEF t, days

LEMMA OneDay ==
  ASSUME NEW d \in Days
  PROVE  Landed(<<"day", d>>) = {d} /\ Landed(<<"archive", d>>) = {d}
<1>1. /\ <<"day", d>> \in Landing(d) /\ <<"archive", d>> \in Landing(d)
      /\ <<"day", d>> # All /\ <<"archive", d>> # All
      /\ \A x : <<"day", d>> # <<"month", x>> /\ <<"archive", d>> # <<"month", x>>
  BY DEF Landing, All
<1>2. \A e \in Landed(<<"day", d>>) : e = d
  BY <1>1, LandedIs
<1>3. \A e \in Landed(<<"archive", d>>) : e = d
  BY <1>1, LandedIs
<1> QED
  BY <1>1, <1>2, <1>3, LandedIs

(* What a row states after the loop, from what it stated before. *)
ExportsOf(acc) == [d \in Days |-> Of(acc.exporters, d)]
NetsOf(acc, D) == {Of(acc.nets, d) : d \in D}
Closes(c, row, acc, D, p) ==
  /\ DOMAIN c = Measure
  /\ D = {} => c = row
  /\ \A m \in Measure \ Later : c[m] = row[m]
  /\ D # {} /\ p[1] = "all" => /\ c["exports"] = row["exports"] + Total(ExportsOf(acc), D)
                               /\ c["networks"] = row["networks"] /\ c["days"] = row["days"]
  /\ D # {} /\ p[1] = "month" =>
       /\ c["exports"] = row["exports"] + Total(ExportsOf(acc), D)
       /\ c["days"] = row["days"] + Cardinality(D)
       /\ c["networks"] = Max({row["networks"]} \cup NetsOf(acc, D))
  /\ D # {} /\ p[1] = "day" => /\ c["networks"] = Of(acc.nets, p[2])
                               /\ c["exports"] = row["exports"] /\ c["days"] = row["days"]
  /\ D # {} /\ p[1] = "archive" => /\ c["networks"] = Of(acc.nets, p[2])
                                   /\ c["exports"] = ExportsOf(acc)[p[2]] /\ c["days"] = row["days"]
LEMMA ClosedSay ==
  ASSUME NEW acc, NEW days, NEW p \in DOMAIN acc.rows, DOMAIN acc.rows[p] = Measure
  PROVE  Closes(Closed(acc, days)[p], acc.rows[p], acc, days \cap Landed(p), p)
<1> DEFINE c == Closed(acc, days)[p]
           row == acc.rows[p]
           D == days \cap Landed(p)
           exports == ExportsOf(acc)
<1>1. c = Closed(acc, days)[p] /\ row = acc.rows[p] /\ D = days \cap Landed(p)
  OBVIOUS
<1>2. /\ D = {} => c = row
      /\ D # {} /\ p[1] = "all" => c = [row EXCEPT !["exports"] = @ + Total(exports, D)]
      /\ D # {} /\ p[1] = "month" =>
           c = [row EXCEPT !["exports"] = @ + Total(exports, D), !["days"] = @ + Cardinality(D),
                           !["networks"] = Max({@} \cup NetsOf(acc, D))]
      /\ D # {} /\ p[1] = "day" => c = [row EXCEPT !["networks"] = Of(acc.nets, p[2])]
      /\ D # {} /\ p[1] \notin {"all", "month", "day"} =>
           c = [row EXCEPT !["networks"] = Of(acc.nets, p[2]), !["exports"] = ExportsOf(acc)[p[2]]]
  BY DEF Closed, ExportsOf, NetsOf
<1>3. "exports" \in Measure /\ "networks" \in Measure /\ "days" \in Measure
      /\ Later = {"networks", "exports", "days"}
  BY DEF Measure, Later
<1> HIDE DEF c, exports, row, D
<1>4. DOMAIN row = Measure
  BY <1>1
<1> SUFFICES Closes(c, row, acc, D, p)
  BY <1>1
<1>5. CASE D = {}
  BY <1>2, <1>4, <1>5 DEF exports, Closes
<1>6. CASE D # {} /\ p[1] = "all"
  BY <1>2, <1>3, <1>4, <1>6 DEF exports, Closes
<1>7. CASE D # {} /\ p[1] = "month"
  <2> DEFINE x == row["exports"] + Total(exports, D)
             y == row["days"] + Cardinality(D)
             z == Max({row["networks"]} \cup NetsOf(acc, D))
  <2>1. c = [row EXCEPT !["exports"] = x, !["days"] = y, !["networks"] = z]
    BY <1>2, <1>7
  <2> HIDE DEF x, y, z
  <2>2. /\ DOMAIN c = Measure /\ c["exports"] = x /\ c["days"] = y /\ c["networks"] = z
        /\ \A m \in Measure \ Later : c[m] = row[m]
    BY <1>3, <1>4, <2>1
  <2> QED
    BY <1>7, <2>2 DEF exports, Closes, x, y, z
<1>8. CASE D # {} /\ p[1] = "day"
  BY <1>2, <1>3, <1>4, <1>8 DEF exports, Closes
<1>9. CASE D # {} /\ p[1] \notin {"all", "month", "day"}
  <2>1. c = [row EXCEPT !["networks"] = Of(acc.nets, p[2]), !["exports"] = ExportsOf(acc)[p[2]]]
    BY <1>2, <1>9
  <2>2. /\ DOMAIN c = Measure /\ c["networks"] = Of(acc.nets, p[2]) /\ c["exports"] = ExportsOf(acc)[p[2]]
        /\ c["days"] = row["days"] /\ \A m \in Measure \ Later : c[m] = row[m]
    BY <1>3, <1>4, <2>1
  <2> QED
    BY <1>9, <2>2 DEF exports, Closes
<1> QED
  BY <1>5, <1>6, <1>7, <1>8, <1>9

LEMMA ClosedTyped ==
  ASSUME NEW acc, NEW days, NEW p \in DOMAIN acc.rows, acc.rows[p] \in [Measure -> Int],
         NEW c, c = Closed(acc, days)[p], \A m \in Measure : c[m] \in Int
  PROVE  c \in [Measure -> Int]
<1> DEFINE row == acc.rows[p]
<1>1. \/ c = row
      \/ \E x : c = [row EXCEPT !["exports"] = x]
      \/ \E x, y, z : c = [row EXCEPT !["exports"] = x, !["days"] = y, !["networks"] = z]
      \/ \E x : c = [row EXCEPT !["networks"] = x]
      \/ \E x, y : c = [row EXCEPT !["networks"] = x, !["exports"] = y]
  BY DEF Closed
<1>2. row \in [Measure -> Int]
  OBVIOUS
<1> HIDE DEF row
<1> QED
  BY <1>1, <1>2

(* A row that was there states what it stated; one that was not, nothing. *)
LEMMA RowBefore ==
  ASSUME WholeInv, Based, NEW used, Usable(used), NEW p \in RowsOf(Past \o used)
  PROVE  LET b == Row(Prev.rows, p)
             A == Active(Past) \cap Landed(p)
         IN /\ p[1] # "day" => b["exports"] = Sum(Figures(Past), "exports", Landed(p))
            /\ p[1] = "day" /\ Active(used) \cap Landed(p) = {} =>
                 b["networks"] = Sum(Figures(Past), "networks", Landed(p))
            /\ p[1] = "month" =>
                 /\ b["days"] = Cardinality(A)
                 /\ b["networks"] = IF A = {} THEN 0 ELSE Max({Figure(Past, d).networks : d \in A})
<1> DEFINE b == Row(Prev.rows, p)
           A == Active(Past) \cap Landed(p)
<1>1. /\ Active(used) \cap Landed(p) = {} => p \in DOMAIN Prev.rows
      /\ p \notin DOMAIN Prev.rows => Landed(p) \cap Active(Past) = {}
      /\ p[1] = "month" /\ p \in DOMAIN Prev.rows => Landed(p) \cap Active(Past) # {}
  BY RowOfRun
<1>2. Active(Past) \subseteq Days /\ Landed(p) \subseteq Days
  BY RunDays DEF Landed
<1>3. CASE p \in DOMAIN Prev.rows
  <2>1. b = Prev.rows[p] /\ Settled(Figures(Past), p, Prev.rows[p], Active(Past))
    BY <1>3 DEF Row, Based, Exact
  <2>2. {Figures(Past)[d].networks : d \in A} = {Figure(Past, d).networks : d \in A}
    BY <1>2 DEF Figures
  <2> QED
    BY <1>1, <1>3, <2>1, <2>2 DEF Settled
<1>4. CASE p \notin DOMAIN Prev.rows
  <2>1. b = Zero /\ A = {}
    BY <1>1, <1>4 DEF Row
  <2>2. b["exports"] = 0 /\ b["days"] = 0 /\ b["networks"] = 0
    BY <2>1 DEF Zero, Measure
  <2>3. Sum(Figures(Past), "exports", Landed(p)) = 0
    <3> DEFINE f == [d \in Days |-> Figures(Past)[d]["exports"]]
    <3>1. \A d \in Days : d \notin Active(Past) => Figure(Past, d)["exports"] = 0
      BY RunDays DEF FigureMeasure
    <3>2. \A d \in Days : d \in Landed(p) => f[d] = 0
      BY <2>1, <3>1 DEF Figures
    <3>3. Sum(Figures(Past), "exports", Landed(p)) = Total(f, Landed(p))
      BY DEF Sum
    <3> HIDE DEF f
    <3> QED
      BY <3>2, <3>3, TotalOfNone
  <2>4. Cardinality(A) = 0
    BY <2>1, FS_EmptySet
  <2> QED
    BY <1>1, <1>4, <2>1, <2>2, <2>3, <2>4
<1> QED
  BY <1>3, <1>4

(* What the fold writes of a row: the figures of all lines counted, its own among them. *)
LEMMA ClosedRow ==
  ASSUME WholeInv, Based, NEW used, Usable(used), NEW p \in RowsOf(Past \o used)
  PROVE  LET t == Past \o used
             rows == Closed(Tally(used), Active(used))
         IN /\ DOMAIN rows = RowsOf(t)
            /\ rows[p] \in [Measure -> Int]
            /\ Counted(Figures(t), p, rows[p])
            /\ Settled(Figures(t), p, rows[p], Active(t))
            /\ p[1] = "archive" => rows[p]["networks"] = Figure(t, p[2]).networks
<1> DEFINE t == Past \o used
           days == Active(used)
           acc == Tally(used)
           rows == Closed(acc, days)
           row == acc.rows[p]
           c == rows[p]
           b == Row(Prev.rows, p)
           D == days \cap Landed(p)
           A == Active(Past) \cap Landed(p)
           exports == ExportsOf(acc)
           networks == [d \in Days |-> Figure(t, d).networks]
           sum(m) == Sum(Figures(t), m, Landed(p))
           was(m) == Sum(Figures(Past), m, Landed(p))
<1>1. Tallied(acc, t)
  BY TallyDone DEF Usable
<1>2. DOMAIN acc.rows = RowsOf(t) /\ p \in DOMAIN acc.rows
  BY <1>1 DEF Tallied, RowsTallied
<1>3. /\ row \in [Measure -> Int] /\ Counted(Figures(t), p, row)
      /\ \A m \in Later : row[m] = b[m]
  BY <1>1, <1>2 DEF Tallied, RowsTallied
<1>4. /\ Active(t) = Active(Past) \cup days /\ days \subseteq Days /\ Active(Past) \subseteq Days
      /\ days \cap Active(Past) = {} /\ New(t) = days
      /\ \A d \in days : d > Prev.last
      /\ \A d \in Days : d \notin days => Figure(t, d) = Figure(Past, d)
      /\ \A d \in Days : Figure(t, d) \in [FigureMeasure -> Nat]
  BY RunDays
<1>5. \A d \in days : /\ Of(acc.nets, d) = Figure(t, d).networks
                      /\ Of(acc.exporters, d) = Figure(t, d).exports
  <2> SUFFICES ASSUME NEW d \in days
               PROVE  /\ Of(acc.nets, d) = Figure(t, d).networks
                      /\ Of(acc.exporters, d) = Figure(t, d).exports
    OBVIOUS
  <2>1. Networks(acc.nets, d) = Nets(t, d) /\ Networks(acc.exporters, d) = Exporters(t, d)
    BY <1>1, <1>4 DEF Tallied, NetsTallied
  <2> QED
    BY <2>1 DEF Of, Figure
<1>6. DOMAIN rows = RowsOf(t)
  BY <1>2 DEF Closed
<1>7. /\ DOMAIN c = Measure
      /\ D = {} => c = row
      /\ \A m \in Measure \ Later : c[m] = row[m]
      /\ D # {} /\ p[1] = "all" => /\ c["exports"] = row["exports"] + Total(exports, D)
                                   /\ c["networks"] = row["networks"] /\ c["days"] = row["days"]
      /\ D # {} /\ p[1] = "month" =>
           /\ c["exports"] = row["exports"] + Total(exports, D)
           /\ c["days"] = row["days"] + Cardinality(D)
           /\ c["networks"] = Max({row["networks"]} \cup NetsOf(acc, D))
      /\ D # {} /\ p[1] = "day" => /\ c["networks"] = Of(acc.nets, p[2])
                                   /\ c["exports"] = row["exports"] /\ c["days"] = row["days"]
      /\ D # {} /\ p[1] = "archive" => /\ c["networks"] = Of(acc.nets, p[2])
                                       /\ c["exports"] = ExportsOf(acc)[p[2]] /\ c["days"] = row["days"]
  <2>1. DOMAIN row = Measure /\ row = acc.rows[p] /\ D = days \cap Landed(p)
    BY <1>3
  <2> HIDE DEF acc, days
  <2>2. Closes(c, row, acc, D, p)
    BY <1>2, <2>1, ClosedSay
  <2> HIDE DEF c, row, D
  <2> QED
    BY <2>2 DEF Closes
<1>8. /\ p[1] # "day" => b["exports"] = was("exports")
      /\ p[1] = "day" /\ D = {} => b["networks"] = was("networks")
      /\ p[1] = "month" =>
           /\ b["days"] = Cardinality(A)
           /\ b["networks"] = IF A = {} THEN 0 ELSE Max({Figure(Past, d).networks : d \in A})
  BY RowBefore
<1>9. /\ Total(exports, D) \in Int /\ was("exports") \in Int
      /\ sum("exports") = was("exports") + Total(exports, D)
  <2> DEFINE m == "exports"
  <2>1. \A d \in days \cap Landed(p) : exports[d] = Figure(t, d)[m]
    BY <1>4, <1>5 DEF ExportsOf
  <2>2. m \in FigureMeasure
    BY DEF FigureMeasure
  <2> HIDE DEF exports, m
  <2>3. /\ Total(exports, D) \in Int /\ was(m) \in Int
        /\ sum(m) = was(m) + Total(exports, D)
    BY <2>1, <2>2, SumJoined
  <2> QED
    BY <2>3 DEF m
<1>10. D = {} => sum("networks") = was("networks") /\ sum("exports") = was("exports")
  <2> SUFFICES ASSUME D = {} PROVE sum("networks") = was("networks") /\ sum("exports") = was("exports")
    OBVIOUS
  <2>1. "exports" \in FigureMeasure /\ "networks" \in FigureMeasure
    BY DEF FigureMeasure
  <2>2. ASSUME NEW m \in FigureMeasure PROVE sum(m) = was(m)
    <3>1. \A d \in days \cap Landed(p) : << >>[d] = Figure(t, d)[m]
      OBVIOUS
    <3>2. /\ was(m) \in Int /\ sum(m) = was(m) + Total(<< >>, D)
      BY <3>1, SumJoined
    <3>3. Total(<< >>, D) = 0
      BY TotalOfNone
    <3> QED
      BY <3>2, <3>3
  <2> QED
    BY <2>1, <2>2
<1>11. p = All \/ \E d \in Active(t) : p \in Landing(d)
  BY RowOfRun
<1>12. p[1] \in {"all", "month", "day", "archive"}
  BY <1>11 DEF All, Landing
<1>13. ASSUME p[1] \in {"day", "archive"}
       PROVE  /\ p[2] \in Days /\ Landed(p) = {p[2]}
              /\ p[1] = "archive" => D = {p[2]}
  <2>1. \E d \in Active(t) : p = <<"day", d>> \/ p = <<"archive", d>>
    BY <1>11, <1>13 DEF All, Landing
  <2>2. p[2] \in Days /\ Landed(p) = {p[2]}
    <3>1. PICK d \in Days : p = <<"day", d>> \/ p = <<"archive", d>>
      BY <1>4, <2>1
    <3>2. p[2] = d
      BY <3>1
    <3>3. Landed(<<"day", d>>) = {d} /\ Landed(<<"archive", d>>) = {d}
      BY OneDay
    <3> QED
      BY <3>1, <3>2, <3>3
  <2>3. p[1] = "archive" => p[2] \in days
    <3>1. p \in RowsOf(t)
      OBVIOUS
    <3> QED
      BY <1>4, <3>1 DEF RowsOf, All
  <2> QED
    BY <2>2, <2>3
<1>14. Landed(p) \subseteq Days
  BY DEF Landed
<1>15. IsFiniteSet(A) /\ IsFiniteSet(D) /\ Cardinality(A) \in Nat /\ Cardinality(D) \in Nat
  <2>1. A \in SUBSET (1 .. MaxDay) /\ D \in SUBSET (1 .. MaxDay)
    BY <1>4 DEF Days
  <2> QED
    BY <2>1, Bounds, UpTo
<1>16. Counted(Figures(t), p, c)
  <2>1. /\ \A m \in Additive \cap Grain(p) : m \in Measure \ Later
        /\ {"handoffBytes", "drift", "handoffs", "browser", "scripted", "downloads"} \subseteq Measure \ Later
    BY DEF Additive, Measure, Later
  <2>2. /\ \A m \in Additive \cap Grain(p) : c[m] = row[m]
        /\ c["handoffBytes"] = row["handoffBytes"] /\ c["drift"] = row["drift"] /\ c["handoffs"] = row["handoffs"]
        /\ c["browser"] = row["browser"] /\ c["scripted"] = row["scripted"] /\ c["downloads"] = row["downloads"]
    BY <1>7, <2>1
  <2> HIDE DEF c, row
  <2> QED
    BY <1>3, <2>2 DEF Counted
<1>17. \A d \in Days : networks[d] \in Nat /\ networks[d] = Figures(t)[d].networks
  <2> SUFFICES ASSUME NEW d \in Days PROVE Figure(t, d)["networks"] \in Nat
    BY DEF Figures
  <2> QED
    BY <1>4 DEF FigureMeasure
<1>18. \A m \in FigureMeasure : p[1] \in {"day", "archive"} => sum(m) = Figure(t, p[2])[m]
  <2> SUFFICES ASSUME NEW m \in FigureMeasure, p[1] \in {"day", "archive"}
               PROVE  sum(m) = Figure(t, p[2])[m]
    OBVIOUS
  <2> DEFINE f == [d \in Days |-> Figures(t)[d][m]]
  <2>1. p[2] \in Days /\ Landed(p) = {p[2]}
    BY <1>13
  <2>2. f[p[2]] = Figure(t, p[2])[m] /\ Figure(t, p[2])[m] \in Int
    BY <1>4, <2>1 DEF Figures
  <2>3. sum(m) = Total(f, {p[2]})
    BY <2>1 DEF Sum
  <2> HIDE DEF f
  <2> QED
    BY <2>1, <2>2, <2>3, TotalOfOne
<1>19. /\ Active(t) \cap Landed(p) = A \cup D /\ A \cap D = {}
       /\ A \subseteq Days /\ D \subseteq Days /\ D \subseteq days
  BY <1>4
<1>20. /\ D = {} /\ p[1] = "month" => A # {}
       /\ \A d \in A : Figure(Past, d).networks = networks[d]
       /\ \A d \in D : Of(acc.nets, d) = networks[d]
  <2>1. D = {} /\ p[1] = "month" => A # {}
    BY RowOfRun
  <2> QED
    BY <1>4, <1>5, <1>19, <2>1
<1>21. {Figure(Past, d).networks : d \in A} = {networks[d] : d \in A} /\ NetsOf(acc, D) = {networks[d] : d \in D}
  <2>1. {Figure(Past, d).networks : d \in A} = {networks[d] : d \in A}
    <3> DEFINE f(d) == Figure(Past, d).networks
    <3>1. \A d \in A : f(d) = networks[d]
      BY <1>20
    <3> HIDE DEF f, networks, A
    <3>2. {f(d) : d \in A} = {networks[d] : d \in A}
      BY <3>1
    <3> QED
      BY <3>2 DEF f
  <2>2. NetsOf(acc, D) = {networks[d] : d \in D}
    <3> DEFINE f(d) == Of(acc.nets, d)
    <3>1. \A d \in D : f(d) = networks[d]
      BY <1>20
    <3> HIDE DEF f, networks, D
    <3>2. {f(d) : d \in D} = {networks[d] : d \in D}
      BY <3>1
    <3> QED
      BY <3>2 DEF f, NetsOf
  <2> QED
    BY <2>1, <2>2
<1>22. {Figures(t)[d].networks : d \in Active(t) \cap Landed(p)} = {networks[d] : d \in A \cup D}
  BY <1>17, <1>19
<1>23. p[1] = "month" => c["days"] = Cardinality(Active(t) \cap Landed(p))
  <2>1. Cardinality(A \cup D) = Cardinality(A) + Cardinality(D)
    <3>1. Cardinality(A \cup D) = Cardinality(A) + Cardinality(D) - Cardinality(A \cap D)
      BY <1>15, FS_Union
    <3>2. A \cap D = {} /\ Cardinality(A \cap D) = 0
      BY <1>19, FS_EmptySet
    <3> DEFINE nA == Cardinality(A)
               nD == Cardinality(D)
               nBoth == Cardinality(A \cap D)
    <3>3. nA \in Nat /\ nD \in Nat /\ nBoth = 0 /\ Cardinality(A \cup D) = nA + nD - nBoth
      BY <1>15, <3>1, <3>2
    <3> HIDE DEF nA, nD, nBoth
    <3>4. Cardinality(A \cup D) = nA + nD
      BY <3>3
    <3> QED
      BY <3>4 DEF nA, nD
  <2>2. D = {} => Cardinality(D) = 0
    BY FS_EmptySet
  <2>3. "days" \in Later
    BY DEF Later
  <2> QED
    BY <1>3, <1>7, <1>8, <1>15, <1>19, <2>1, <2>2, <2>3
<1>24. p[1] = "month" => c["networks"] = Max({networks[d] : d \in A \cup D})
  <2> SUFFICES ASSUME p[1] = "month" PROVE c["networks"] = Max({networks[d] : d \in A \cup D})
    OBVIOUS
  <2>1. row["networks"] = IF A = {} THEN 0 ELSE Max({networks[d] : d \in A})
    BY <1>3, <1>8, <1>21 DEF Later
  <2>2. CASE D = {}
    <3>1. A \cup D = A /\ A # {} /\ c["networks"] = row["networks"]
      BY <1>7, <1>20, <2>2
    <3> QED
      BY <2>1, <3>1
  <2>3. CASE D # {}
    <3>1. c["networks"] = Max({row["networks"]} \cup {networks[d] : d \in D})
      BY <1>7, <1>21, <2>3
    <3> HIDE DEF networks, A, D, row, c
    <3>2. \A d \in Days : networks[d] \in Nat
      BY <1>17
    <3>3. Max({row["networks"]} \cup {networks[d] : d \in D}) = Max({networks[d] : d \in A \cup D})
      BY <1>19, <2>1, <2>3, <3>2, MaxJoin
    <3> QED
      BY <3>1, <3>3
  <2> QED
    BY <2>2, <2>3
<1>25. p[1] = "month" => c["networks"] = Max({Figures(t)[d].networks : d \in Active(t) \cap Landed(p)})
  BY <1>22, <1>24
<1>26. p[1] # "day" => c["exports"] = sum("exports")
  <2> SUFFICES ASSUME p[1] # "day" PROVE c["exports"] = sum("exports")
    OBVIOUS
  <2>1. row["exports"] = was("exports")
    BY <1>3, <1>8 DEF Later
  <2>2. CASE D = {}
    BY <1>7, <1>10, <2>1, <2>2
  <2>3. CASE D # {} /\ p[1] \in {"all", "month"}
    <3>1. c["exports"] = row["exports"] + Total(exports, D)
      BY <1>7, <2>3
    <3> QED
      BY <1>9, <2>1, <3>1
  <2>4. CASE p[1] = "archive"
    <3>1. D # {} /\ p[2] \in days /\ p[2] \in Days
      BY <1>13, <2>4
    <3>2. c["exports"] = Of(acc.exporters, p[2])
      BY <1>7, <2>4, <3>1 DEF ExportsOf
    <3>3. sum("exports") = Figure(t, p[2])["exports"]
      BY <1>18, <2>4 DEF FigureMeasure
    <3> QED
      BY <1>5, <3>1, <3>2, <3>3
  <2> QED
    BY <1>12, <2>2, <2>3, <2>4
<1>27. p[1] \in {"day", "archive"} => c["networks"] = Figure(t, p[2]).networks
  <2> SUFFICES ASSUME p[1] \in {"day", "archive"} PROVE c["networks"] = Figure(t, p[2]).networks
    OBVIOUS
  <2>1. sum("networks") = Figure(t, p[2])["networks"]
    BY <1>18 DEF FigureMeasure
  <2>2. CASE D = {}
    <3>1. p[1] = "day" /\ c["networks"] = row["networks"]
      BY <1>7, <1>13, <2>2
    <3>2. row["networks"] = b["networks"]
      BY <1>3 DEF Later
    <3> QED
      BY <1>8, <1>10, <2>1, <2>2, <3>1, <3>2
  <2>3. CASE D # {}
    <3>1. p[2] \in days
      BY <1>13, <2>3
    <3> QED
      BY <1>5, <1>7, <2>3, <3>1
  <2> QED
    BY <2>2, <2>3
<1>28. p[1] = "day" => c["networks"] = sum("networks")
  <2>1. "networks" \in FigureMeasure
    BY DEF FigureMeasure
  <2> QED
    BY <1>18, <1>27, <2>1
<1>29. Settled(Figures(t), p, c, Active(t))
  BY <1>23, <1>25, <1>26, <1>28 DEF Settled
<1>30. c \in [Measure -> Int]
  <2>1. \A m \in Measure : row[m] \in Int
    BY <1>3
  <2>2. \A d \in Days : Figure(t, d)["networks"] \in Int /\ Figure(t, d)["exports"] \in Int
    BY <1>4 DEF FigureMeasure
  <2>3. c["networks"] \in Int
    <3>1. CASE p[1] = "month"
      <4>1. A \cup D # {} /\ A \cup D \in SUBSET Days
        BY <1>19, <1>20, <3>1
      <4> HIDE DEF networks, A, D, c
      <4>2. \A d \in Days : networks[d] \in Nat
        BY <1>17
      <4>3. \E x \in A \cup D : Max({networks[d] : d \in A \cup D}) = networks[x]
        BY <4>1, <4>2, MaxOver
      <4> QED
        BY <1>24, <3>1, <4>1, <4>2, <4>3
    <3>2. CASE p[1] \in {"day", "archive"}
      BY <1>13, <1>27, <2>2, <3>2
    <3>3. CASE p[1] = "all"
      <4>1. c["networks"] = row["networks"]
        BY <1>7, <3>3
      <4> QED
        BY <2>1, <4>1 DEF Measure
    <3> QED
      BY <1>12, <3>1, <3>2, <3>3
  <2>4. c["exports"] \in Int
    <3>1. CASE p[1] # "day"
      BY <1>9, <1>26, <3>1
    <3>2. CASE p[1] = "day"
      <4>1. c["exports"] = row["exports"]
        BY <1>7, <3>2
      <4> QED
        BY <2>1, <4>1 DEF Measure
    <3> QED
      BY <3>1, <3>2
  <2>5. c["days"] \in Int
    <3>1. c["days"] = row["days"] \/ c["days"] = row["days"] + Cardinality(D)
      BY <1>7, <1>12
    <3>2. row["days"] \in Int
      BY <2>1 DEF Measure
    <3> HIDE DEF c, row, D
    <3> QED
      BY <1>15, <3>1, <3>2
  <2>6. \A m \in Measure : c[m] \in Int
    BY <1>7, <2>1, <2>3, <2>4, <2>5 DEF Later
  <2>7. acc.rows[p] \in [Measure -> Int] /\ c = Closed(acc, days)[p]
    BY <1>3
  <2> HIDE DEF c, acc, days
  <2> QED
    BY <1>2, <2>6, <2>7, ClosedTyped
<1> QED
  BY <1>6, <1>16, <1>27, <1>29, <1>30

-----------------------------------------------------------------------------
(* The figures are of lines of the log, which stay what they are. *)
LEMMA FiguresCarried ==
  ASSUME NEW t, folded' = t, \A k \in DOMAIN t : log'[t[k]] = log[t[k]]
  PROVE  /\ Active(folded)' = Active(t) /\ Figures(folded)' = Figures(t)
         /\ \A d : Figure(folded, d)' = Figure(t, d)
<1>1. ASSUME NEW d, NEW K
      PROVE  /\ Lines(folded, d, K)' = Lines(t, d, K)
             /\ \A k \in Lines(t, d, K) : Asked(folded, k)' = Asked(t, k)
  BY DEF Lines, Asked
<1>2. Active(folded)' = Active(t)
  BY DEF Active
<1>3. ASSUME NEW d PROVE Figure(folded, d)' = Figure(t, d)
  <2>1. /\ Loads(folded, d)' = Loads(t, d) /\ \A k \in Loads(t, d) : Asked(folded, k)' = Asked(t, k)
    BY <1>1 DEF Loads
  <2>2. /\ Handed(folded, d)' = Handed(t, d) /\ \A k \in Handed(t, d) : Asked(folded, k)' = Asked(t, k)
    BY <1>1 DEF Handed
  <2>3. Copies(folded, d)' = Copies(t, d) /\ Exported(folded, d)' = Exported(t, d)
    BY <2>1 DEF Copies, Exported
  <2>4. Nets(folded, d)' = Nets(t, d)
    BY <1>1 DEF Nets
  <2>5. Exporters(folded, d)' = Exporters(t, d)
    BY <2>3 DEF Exporters
  <2>6. {k \in Handed(folded, d) : Asked(folded, k).path \notin Served}'
          = {k \in Handed(t, d) : Asked(t, k).path \notin Served}
    BY <2>2
  <2> QED
    BY <1>1, <2>1, <2>2, <2>3, <2>4, <2>5, <2>6 DEF Figure
<1>4. Figures(folded)' = Figures(t)
  BY <1>3 DEF Figures
<1> QED
  BY <1>2, <1>3, <1>4

LEMMA ExactKept ==
  ASSUME CountsExact, RowsTyped, UNCHANGED <<book, folded>>,
         \A k \in DOMAIN folded : log'[folded[k]] = log[folded[k]]
  PROVE  CountsExact' /\ RowsTyped'
<1>1. Active(folded)' = Active(folded) /\ Figures(folded)' = Figures(folded)
  BY FiguresCarried
<1>2. CountsExact'
  BY <1>1 DEF CountsExact, Exact
<1> QED
  BY <1>2 DEF RowsTyped

(* The rows a fold leaves in the Prev: the window ends where the fold did. *)
LEMMA RowsPruned ==
  ASSUME WholeInv, NEW used, Usable(used), NEW last \in Nat, last >= Prev.last, NEW rows,
         DOMAIN rows = RowsOf(Past \o used)
  PROVE  LET A == Active(Past \o used)
         IN DOMAIN Pruned(rows, last) = {All} \cup {<<"month", Month(d)>> : d \in A}
                                           \cup {<<"day", d>> : d \in {x \in A : x > last - DailyKeep}}
<1> DEFINE A == Active(Past \o used)
           R == {All} \cup {<<"month", Month(d)>> : d \in A}
                    \cup {<<"day", d>> : d \in {x \in A : x > last - DailyKeep}}
<1>1. A \subseteq Days /\ Typed
  BY RunDays DEF WholeInv
<1>2. Prev.last \in Nat /\ DailyKeep \in Nat /\ \A d \in A : d \in Nat
  BY <1>1, OfLog, OfPrev, Bounds
<1>3. \A p : p \in DOMAIN Pruned(rows, last) <=> p \in RowsOf(Past \o used) /\ InWindow(p, last)
  BY DEF Pruned
<1>4. \A p : p \in RowsOf(Past \o used)
               <=> \/ p = All \/ \E d \in A : p = <<"month", Month(d)>>
                   \/ \E d \in A : d > Prev.last - DailyKeep /\ p = <<"day", d>>
                   \/ \E d \in New(Past \o used) : p = <<"archive", d>>
  BY DEF RowsOf
<1>5. \A p : p \in R <=> \/ p = All \/ \E d \in A : p = <<"month", Month(d)>>
                         \/ \E d \in A : d > last - DailyKeep /\ p = <<"day", d>>
  OBVIOUS
<1> HIDE DEF A, R
<1>6. ASSUME NEW p, p \in RowsOf(Past \o used), InWindow(p, last) PROVE p \in R
  <2>1. p[1] # "archive" /\ (p[1] = "day" => p[2] > last - DailyKeep)
    BY <1>6 DEF InWindow
  <2>2. ASSUME NEW d \in A, p = <<"day", d>> PROVE p \in R
    <3>1. p[1] = "day" /\ p[2] = d
      BY <2>2
    <3> QED
      BY <1>5, <2>1, <2>2, <3>1
  <2> QED
    BY <1>4, <1>5, <1>6, <2>1, <2>2
<1>7. ASSUME NEW p \in R PROVE p \in RowsOf(Past \o used) /\ InWindow(p, last)
  <2>1. CASE p = All
    BY <1>4, <2>1 DEF InWindow, All
  <2>2. CASE \E d \in A : p = <<"month", Month(d)>>
    BY <1>4, <2>2 DEF InWindow
  <2>3. CASE \E d \in A : d > last - DailyKeep /\ p = <<"day", d>>
    <3>1. PICK d \in A : d > last - DailyKeep /\ p = <<"day", d>>
      BY <2>3
    <3>2. d > Prev.last - DailyKeep /\ p[1] = "day" /\ p[2] = d
      BY <1>2, <3>1
    <3> QED
      BY <1>4, <3>1, <3>2 DEF InWindow
  <2> QED
    BY <1>5, <2>1, <2>2, <2>3
<1>8. DOMAIN Pruned(rows, last) = R
  BY <1>3, <1>6, <1>7
<1> QED
  BY <1>8 DEF R, A

(* No rows are right of no lines: so it is with the stats.json there is at first, and
   with one that could not be read. *)
LEMMA ExactNone ==
  ASSUME Typed
  PROVE  /\ Exact(Skeleton.rows, Skeleton.last, << >>)
         /\ \A p \in DOMAIN Skeleton.rows : Skeleton.rows[p] \in [Measure -> Int]
<1> DEFINE none == << >>
           rows == Skeleton.rows
<1>1. none = << >> /\ rows = [p \in {All} |-> Zero] /\ none \in Seq(Index)
  BY DEF Skeleton
<1> HIDE DEF none, rows
<1>2. DOMAIN rows = {All} /\ rows[All] = Zero
  BY <1>1
<1>3. Active(none) = {}
  BY <1>1 DEF Active
<1>4. ASSUME NEW m \in FigureMeasure PROVE Sum(Figures(none), m, Landed(All)) = 0
  <2> DEFINE f == [d \in Days |-> Figures(none)[d][m]]
  <2>1. ASSUME NEW d \in Days, d \in Landed(All) PROVE f[d] = 0
    <3>1. d \notin Active(none)
      BY <1>3
    <3>2. Typed /\ none \in Seq(Index)
      BY <1>1
    <3>3. Figure(none, d)[m] = 0
      BY <3>1, <3>2, FigureOfNone
    <3> QED
      BY <3>3 DEF Figures
  <2>2. Sum(Figures(none), m, Landed(All)) = Total(f, Landed(All))
    BY DEF Sum
  <2> HIDE DEF f
  <2> QED
    BY <2>1, <2>2, TotalOfNone
<1>5. /\ Zero \in [Measure -> Int] /\ \A m \in Measure : Zero[m] = 0
      /\ "exports" \in FigureMeasure /\ \A m \in Additive : m \in Measure /\ m \in FigureMeasure
      /\ All[1] = "all"
  BY DEF Zero, FigureMeasure, Additive, Measure, All
<1>6. Counted(Figures(none), All, Zero)
  <2>1. /\ Zero["handoffBytes"] = 0 /\ Zero["drift"] = 0 /\ Zero["handoffs"] = 0
        /\ Zero["browser"] = 0 /\ Zero["scripted"] = 0 /\ Zero["downloads"] = 0
    BY <1>5 DEF Measure
  <2> QED
    BY <1>4, <1>5, <2>1 DEF Counted
<1>7. Settled(Figures(none), All, Zero, Active(none))
  <2>1. Zero["exports"] = 0
    BY <1>5 DEF Measure
  <2> QED
    BY <1>4, <1>5, <2>1 DEF Settled
<1>8. Figures(none) \in [Days -> [FigureMeasure -> Nat]]
  <2>1. Typed /\ none \in Seq(Index)
    BY <1>1
  <2>2. \A d \in Days : Figure(none, d) \in [FigureMeasure -> Nat]
    BY <2>1, FigureType
  <2> QED
    BY <2>2 DEF Figures
<1> QED
  BY <1>1, <1>2, <1>3, <1>5, <1>6, <1>7, <1>8 DEF Exact, none, rows

LEMMA ExactInit == StatsInit => CountsExact /\ RowsTyped
<1> SUFFICES ASSUME StatsInit PROVE CountsExact /\ RowsTyped
  OBVIOUS
<1>1. Typed /\ book = Skeleton /\ folded = << >>
  BY TypedInit DEF StatsInit
<1> QED
  BY <1>1, ExactNone DEF CountsExact, RowsTyped

(* What a fold goes on from is right: the rows there were, or none. *)
LEMMA ExactRead ==
  ASSUME Typed, CountsExact, RowsTyped
  PROVE  Based
<1>1. CASE fold.lost
  <2>1. Prev = Skeleton /\ Past = << >>
    BY <1>1 DEF Prev, Past
  <2> QED
    BY <2>1, ExactNone DEF Based
<1>2. CASE ~fold.lost
  <2>1. Prev = book /\ Past = folded
    BY <1>2 DEF Prev, Past
  <2> QED
    BY <2>1 DEF Based, CountsExact, RowsTyped
<1> QED
  BY <1>1, <1>2

LEMMA ExactWritten ==
  ASSUME WholeInv, CountsExact, RowsTyped, FoldWrite
  PROVE  CountsExact' /\ RowsTyped'
<1> DEFINE new == Aggregate(fold.lines, fold.day)
           used == new.used
           t == Past \o used
           rows == Closed(Tally(used), Active(used))
           last == new.book.last
<1>1. Typed /\ Based /\ fold.pc = "read" /\ fold.day \in Days
  BY ExactRead DEF WholeInv, Folding, FoldWrite
<1>2. used \in Seq(Index) /\ last \in 0 .. today - 1 /\ last >= Prev.last
  BY <1>1, WrittenTyped
<1>3. Usable(used)
  BY <1>1, <1>2, WrittenDays DEF Usable
<1>4. new.book = [last |-> last, rows |-> Pruned(rows, last)]
  BY DEF Aggregate, Active
<1>5. book' = new.book /\ folded' = t /\ log' = log
  BY DEF FoldWrite, clients
<1> HIDE DEF new, used, last
<1>6. Active(folded)' = Active(t) /\ Figures(folded)' = Figures(t)
  <2> HIDE DEF t
  <2> QED
    BY <1>5, FiguresCarried
<1>7. DOMAIN rows = RowsOf(t) /\ last \in Nat
  <2>1. All \in RowsOf(t)
    BY DEF RowsOf
  <2> QED
    BY <1>1, <1>2, <1>3, <2>1, ClosedRow, OfLog, OfPrev
<1>8. book'.last = last /\ book'.rows = Pruned(rows, last)
  BY <1>4, <1>5
<1>9. DOMAIN book'.rows = {All} \cup {<<"month", Month(d)>> : d \in Active(t)}
                              \cup {<<"day", d>> : d \in {x \in Active(t) : x > last - DailyKeep}}
  <2> DEFINE R == rows
  <2>1. DOMAIN R = RowsOf(Past \o used) /\ book'.rows = Pruned(R, last)
    BY <1>7, <1>8
  <2> HIDE DEF R
  <2> QED
    BY <1>2, <1>3, <1>7, <2>1, RowsPruned
<1>10. ASSUME NEW p \in DOMAIN book'.rows
       PROVE  /\ book'.rows[p] \in [Measure -> Int]
              /\ Counted(Figures(t), p, book'.rows[p])
              /\ Settled(Figures(t), p, book'.rows[p], Active(t))
  <2>1. p \in RowsOf(t) /\ book'.rows[p] = rows[p]
    BY <1>7, <1>8 DEF Pruned
  <2> QED
    BY <1>1, <1>3, <2>1, ClosedRow
<1>11. Figures(t) \in [Days -> [FigureMeasure -> Nat]]
  <2>1. \A d \in Days : Figure(t, d) \in [FigureMeasure -> Nat]
    BY <1>3, RunDays
  <2> HIDE DEF t
  <2> QED
    BY <2>1 DEF Figures
<1> HIDE DEF t, rows
<1>12. CountsExact'
  BY <1>6, <1>8, <1>9, <1>10, <1>11 DEF CountsExact, Exact
<1>13. RowsTyped'
  BY <1>10 DEF RowsTyped
<1> QED
  BY <1>12, <1>13

(* The figures stay those of the lines counted, in whatever order the files were read,
   wherever a fold was cut and whenever the window was pruned: for all requests, sizes of
   the window and of the month, and any number of failures. *)
THEOREM FiguresExact == StatsSpec => []CountsExact
<1> DEFINE Held == CountsExact /\ RowsTyped
<1>1. StatsInit => Held
  BY ExactInit
<1>2. WholeInv /\ Held /\ [StatsNext]_statsVars => Held'
  <2> SUFFICES ASSUME WholeInv, Held, [StatsNext]_statsVars PROVE Held'
    OBVIOUS
  <2>1. CASE FoldWrite
    BY <2>1, ExactWritten
  <2>2. CASE Arrive
    <3>1. folded \in Seq(Index) /\ log \in Seq([day : Days, req : Request])
      BY DEF WholeInv, Typed
    <3>2. UNCHANGED <<book, folded>> /\ log' = Append(log, [day |-> today, req |-> Head(coming)])
      BY <2>2 DEF Arrive, results
    <3>3. \A k \in DOMAIN folded : folded[k] \in DOMAIN log
      BY <3>1 DEF Index
    <3>4. \A i \in DOMAIN log : log'[i] = log[i]
      BY <3>1, <3>2
    <3> QED
      BY <3>2, <3>3, <3>4, ExactKept
  <2>3. CASE ~FoldWrite /\ ~Arrive
    <3>1. UNCHANGED <<book, folded, log>>
      BY <2>3 DEF StatsNext, statsVars, clients, results, RollUp, Midnight, PullStart, PullRoll, PullLive,
         PullFail, FoldStart, FoldStartLost, FoldRead, FoldSkip, FoldAppend, FoldCut, FoldStop
    <3> QED
      BY <3>1, ExactKept
  <2> QED
    BY <2>1, <2>2, <2>3
<1> QED
  BY <1>1, <1>2, FilesInOrder, PTL DEF StatsSpec

-----------------------------------------------------------------------------
(* The rows archived since the present stats.json began and those about to be appended:
   in order of their days, each with the figures of its day, and none missing but where
   an append was hurt. *)
Entry == [day : Days, row : [Measure -> Int]]
Right(rows) ==
  /\ rows \in Seq(Entry)
  /\ \A k \in DOMAIN rows : /\ rows[k].day \in Active(folded)
                            /\ \A m \in FigureMeasure : rows[k].row[m] = Figures(folded)[rows[k].day][m]
InOrder(rows) == \A j, k \in DOMAIN rows : j < k => rows[j].day < rows[k].day
Archiving ==
  /\ archive \in Seq(Entry) /\ era \in Nat /\ era <= Len(archive)
  /\ Right(Recent) /\ Right(fold.rows)
  /\ InOrder(Recent) /\ InOrder(fold.rows)
  /\ \A j \in DOMAIN Recent, k \in DOMAIN fold.rows : Recent[j].day < fold.rows[k].day
  /\ fold.pc = "append" <=> fold.rows # << >>
  /\ Active(folded) \subseteq DaysOf(Recent) \cup DaysOf(fold.rows) \cup unsure

(* The archive row of a day of the run states the figures of the day. *)
LEMMA ArchiveRow ==
  ASSUME WholeInv, Based, NEW used, Usable(used), NEW d \in Active(used),
         NEW row, row = Closed(Tally(used), Active(used))[<<"archive", d>>]
  PROVE  row \in [Measure -> Int] /\ \A m \in FigureMeasure : row[m] = Figure(Past \o used, d)[m]
<1> DEFINE t == Past \o used
           p == <<"archive", d>>
<1>1. /\ New(t) = Active(used) /\ Active(used) \subseteq Days
      /\ Figure(t, d) \in [FigureMeasure -> Nat]
  BY RunDays
<1>2. p \in RowsOf(t)
  BY <1>1 DEF RowsOf
<1>3. /\ row \in [Measure -> Int] /\ Counted(Figures(t), p, row)
      /\ Settled(Figures(t), p, row, Active(t))
      /\ row["networks"] = Figure(t, d)["networks"]
  BY <1>2, ClosedRow
<1>4. Landed(p) = {d} /\ d \in Days
  BY <1>1, OneDay
<1>5. ASSUME NEW m \in FigureMeasure PROVE Sum(Figures(t), m, Landed(p)) = Figure(t, d)[m]
  <2> DEFINE f == [e \in Days |-> Figures(t)[e][m]]
  <2>1. f[d] = Figure(t, d)[m] /\ Figure(t, d)[m] \in Int
    BY <1>1, <1>4 DEF Figures
  <2>2. Sum(Figures(t), m, Landed(p)) = Total(f, {d})
    BY <1>4 DEF Sum
  <2> HIDE DEF f
  <2> QED
    BY <1>4, <2>1, <2>2, TotalOfOne
<1>6. Grain(p) = Measure /\ p[1] # "day" /\ Additive \subseteq Measure
  BY DEF Grain, Additive, Measure
<1> HIDE DEF t, p
<1>7. \A m \in Additive : row[m] = Sum(Figures(t), m, Landed(p))
  BY <1>3, <1>6 DEF Counted
<1>8. row["exports"] = Sum(Figures(t), "exports", Landed(p))
  BY <1>3, <1>6 DEF Settled
<1>9. \A m \in FigureMeasure : row[m] = Figure(t, d)[m]
  BY <1>3, <1>5, <1>7, <1>8 DEF FigureMeasure
<1> QED
  BY <1>3, <1>9 DEF t

(* What an append leaves of the rows since the present stats.json began: those there were,
   the rows after them, and of those no day lost but the one that met a torn line. *)
LEMMA AppendedRecent ==
  ASSUME archive \in Seq(Entry), era \in Nat, era <= Len(archive), NEW x \in Seq(Entry)
  PROVE  SubSeq(archive \o x, era + 1, Len(archive \o x)) = Recent \o x
<1> DEFINE n == Len(archive)
           m == Len(x)
           left == SubSeq(archive \o x, era + 1, n + m)
           right == Recent \o x
<1>1. n \in Nat /\ m \in Nat /\ Len(archive \o x) = n + m /\ era <= n
  OBVIOUS
<1>2. /\ archive \o x \in Seq(Entry)
      /\ \A k \in 1 .. n + m : (archive \o x)[k] = IF k <= n THEN archive[k] ELSE x[k - n]
  OBVIOUS
<1>3. left \in Seq(Entry) /\ Len(left) = (n + m) - era
      /\ \A k \in 1 .. (n + m) - era : left[k] = (archive \o x)[k + era]
  BY <1>1, <1>2
<1>4. Recent \in Seq(Entry) /\ Len(Recent) = n - era /\ \A k \in 1 .. n - era : Recent[k] = archive[k + era]
  BY <1>1 DEF Recent
<1>5. right \in Seq(Entry) /\ Len(right) = (n - era) + m
      /\ \A k \in 1 .. (n - era) + m : right[k] = IF k <= n - era THEN Recent[k] ELSE x[k - (n - era)]
  <2> DEFINE r == Recent
  <2>1. r \in Seq(Entry) /\ Len(r) = n - era
    BY <1>4
  <2> HIDE DEF r, n
  <2>2. Len(r \o x) = Len(r) + m /\ r \o x \in Seq(Entry)
    BY <2>1
  <2>3. \A k \in 1 .. Len(r) + m : (r \o x)[k] = IF k <= Len(r) THEN r[k] ELSE x[k - Len(r)]
    BY <2>1
  <2> QED
    BY <2>1, <2>2, <2>3 DEF r
<1> HIDE DEF left, right, n, m
<1>6. \A k \in 1 .. (n + m) - era : left[k] = right[k]
  <2> SUFFICES ASSUME NEW k \in 1 .. (n + m) - era PROVE left[k] = right[k]
    OBVIOUS
  <2>1. k \in Nat /\ k + era \in 1 .. n + m /\ k \in 1 .. (n - era) + m
    BY <1>1
  <2>2. CASE k <= n - era
    <3>1. k + era <= n /\ k \in 1 .. n - era
      BY <1>1, <2>1, <2>2
    <3>2. (archive \o x)[k + era] = archive[k + era]
      BY <1>2, <2>1, <3>1
    <3>3. right[k] = archive[k + era]
      BY <1>4, <1>5, <2>1, <2>2, <3>1
    <3> QED
      BY <1>3, <3>2, <3>3
  <2>3. CASE ~(k <= n - era)
    <3>1. ~(k + era <= n) /\ (k + era) - n = k - (n - era)
      BY <1>1, <2>1, <2>3
    <3> QED
      BY <1>2, <1>3, <1>5, <2>1, <2>3, <3>1
  <2> QED
    BY <2>2, <2>3
<1>7. Len(left) = Len(right)
  BY <1>1, <1>3, <1>5
<1>8. left = right
  <2>1. DOMAIN left = 1 .. Len(left) /\ DOMAIN right = 1 .. Len(right)
    BY <1>3, <1>5
  <2>2. \A k \in DOMAIN left : left[k] = right[k]
    BY <1>3, <1>6, <2>1
  <2>3. left = [k \in DOMAIN left |-> left[k]] /\ right = [k \in DOMAIN right |-> right[k]]
    BY <1>3, <1>5
  <2> QED
    BY <1>7, <2>1, <2>2, <2>3
<1> QED
  BY <1>1, <1>8 DEF left, right, n, m

LEMMA AppendedSay ==
  ASSUME Archiving, NEW r,
         r = fold.rows \/ \E n \in 0 .. Len(fold.rows) - 1 : r = SubSeq(fold.rows, 1, n)
  PROVE  \E x \in Seq(Entry) :
           LET a == Recent \o x
           IN /\ Appended(r) = archive \o x
              /\ Right(a) /\ InOrder(a)
              /\ DaysOf(Recent) \subseteq DaysOf(a)
              /\ \A k \in DOMAIN r : (torn /\ k = 1) \/ r[k].day \in DaysOf(a)
<1> DEFINE x == IF torn /\ r # << >> THEN Tail(r) ELSE r
           c == IF torn /\ r # << >> THEN 1 ELSE 0
           a == Recent \o x
<1>1. /\ Recent \in Seq(Entry) /\ fold.rows \in Seq(Entry)
      /\ Right(Recent) /\ Right(fold.rows) /\ InOrder(Recent) /\ InOrder(fold.rows)
      /\ \A j \in DOMAIN Recent, k \in DOMAIN fold.rows : Recent[j].day < fold.rows[k].day
  BY DEF Archiving, Right
<1>2. r \in Seq(Entry) /\ \A k \in DOMAIN r : k \in DOMAIN fold.rows /\ r[k] = fold.rows[k] /\ k \in Nat
  BY <1>1
<1>3. /\ x \in Seq(Entry) /\ c \in {0, 1}
      /\ \A k \in DOMAIN x : k \in Nat /\ k + c \in DOMAIN r /\ x[k] = r[k + c]
      /\ \A k \in DOMAIN r : (torn /\ k = 1) \/ (k - c \in DOMAIN x /\ x[k - c] = r[k])
  <2>1. CASE torn /\ r # << >>
    BY <1>2, <2>1
  <2>2. CASE ~(torn /\ r # << >>)
    BY <1>2, <2>2
  <2> QED
    BY <2>1, <2>2
<1>4. \A k \in DOMAIN x : k \in Nat /\ k + c \in DOMAIN fold.rows /\ x[k] = fold.rows[k + c]
  BY <1>2, <1>3
<1>5. Appended(r) = archive \o x
  BY DEF Appended
<1> HIDE DEF x, c, a
<1>6. /\ a \in Seq(Entry) /\ Len(Recent) \in Nat /\ \A k \in DOMAIN a : k \in Nat
      /\ \A k \in DOMAIN a :
           IF k <= Len(Recent) THEN k \in DOMAIN Recent /\ a[k] = Recent[k]
           ELSE k - Len(Recent) \in DOMAIN x /\ a[k] = x[k - Len(Recent)]
      /\ \A k \in DOMAIN Recent : k \in DOMAIN a /\ a[k] = Recent[k]
      /\ \A k \in DOMAIN x : k + Len(Recent) \in DOMAIN a /\ a[k + Len(Recent)] = x[k]
  BY <1>1, <1>3, Joined DEF a
<1>7. Right(a)
  <2> SUFFICES ASSUME NEW k \in DOMAIN a
               PROVE  /\ a[k].day \in Active(folded)
                      /\ \A m \in FigureMeasure : a[k].row[m] = Figures(folded)[a[k].day][m]
    BY <1>6 DEF Right
  <2>1. (\E j \in DOMAIN Recent : a[k] = Recent[j]) \/ \E j \in DOMAIN fold.rows : a[k] = fold.rows[j]
    BY <1>4, <1>6
  <2> QED
    BY <1>1, <2>1 DEF Right
<1>8. InOrder(a)
  <2> SUFFICES ASSUME NEW j \in DOMAIN a, NEW k \in DOMAIN a, j < k PROVE a[j].day < a[k].day
    BY DEF InOrder
  <2> DEFINE n == Len(Recent)
  <2>1. j \in Nat /\ k \in Nat /\ n \in Nat /\ c \in Nat
    BY <1>3, <1>6
  <2>2. CASE k <= n
    BY <1>1, <1>6, <2>1, <2>2 DEF InOrder
  <2>3. CASE k > n
    <3>1. k - n \in DOMAIN x /\ a[k] = x[k - n]
      BY <1>6, <2>1, <2>3
    <3>2. (k - n) + c \in DOMAIN fold.rows /\ a[k] = fold.rows[(k - n) + c]
      BY <1>4, <3>1
    <3>3. CASE j <= n
      BY <1>1, <1>6, <3>2, <3>3
    <3>4. CASE j > n
      <4>1. j - n \in DOMAIN x /\ a[j] = x[j - n]
        BY <1>6, <2>1, <3>4
      <4>2. (j - n) + c \in DOMAIN fold.rows /\ a[j] = fold.rows[(j - n) + c]
        BY <1>4, <4>1
      <4>3. (j - n) + c < (k - n) + c
        BY <2>1
      <4> QED
        BY <1>1, <3>2, <4>2, <4>3 DEF InOrder
    <3> QED
      BY <2>1, <3>3, <3>4
  <2> QED
    BY <2>1, <2>2, <2>3
<1>9. \A k \in DOMAIN r : (torn /\ k = 1) \/ r[k].day \in DaysOf(a)
  BY <1>3, <1>6 DEF DaysOf
<1>10. DaysOf(Recent) \subseteq DaysOf(a)
  BY <1>6 DEF DaysOf
<1> QED
  BY <1>3, <1>5, <1>7, <1>8, <1>9, <1>10 DEF a

(* A fold that writes leaves rows for the days it counted, all after those archived. *)
LEMMA ArchivingWritten ==
  ASSUME WholeInv, CountsExact, RowsTyped, Archiving, FoldWrite
  PROVE  Archiving'
<1> DEFINE new == Aggregate(fold.lines, fold.day)
           used == new.used
           t == Past \o used
           days == Active(used)
           order == Sorted(days)
           rows == new.rows
           closed == Closed(Tally(used), days)
           old == IF fold.lost THEN << >> ELSE Recent
           was == IF fold.lost THEN {} ELSE unsure
<1>1. Typed /\ Based /\ fold.pc = "read" /\ fold.day \in Days
  BY ExactRead DEF WholeInv, Folding, FoldWrite
<1>2. used \in Seq(Index) /\ Usable(used)
  BY <1>1, WrittenTyped, WrittenDays DEF Usable
<1>3. /\ rows = [k \in DOMAIN order |-> [day |-> order[k], row |-> closed[<<"archive", order[k]>>]]]
      /\ archive' = archive /\ unsure' = was /\ log' = log /\ folded' = t
      /\ fold' = IF rows = << >> THEN Idle ELSE [Idle EXCEPT !.pc = "append", !.rows = rows]
  <2>1. /\ archive' = archive /\ unsure' = was /\ log' = log /\ folded' = t
        /\ fold' = IF rows = << >> THEN Idle ELSE [Idle EXCEPT !.pc = "append", !.rows = rows]
    BY DEF FoldWrite, clients
  <2>2. rows = [k \in DOMAIN order |-> [day |-> order[k], row |-> closed[<<"archive", order[k]>>]]]
    BY DEF Aggregate, Active
  <2> QED
    BY <2>1, <2>2
<1>4. fold.rows = << >>
  BY <1>1 DEF Archiving
<1>5. /\ Recent' = old /\ era' \in Nat /\ era' <= Len(archive')
      /\ old \in Seq(Entry) /\ InOrder(old) /\ Active(Past) \subseteq DaysOf(old) \cup was
      /\ \A k \in DOMAIN old : /\ old[k].day \in Active(Past)
                              /\ \A m \in FigureMeasure : old[k].row[m] = Figures(Past)[old[k].day][m]
  <2>1. CASE fold.lost
    <3>1. old = << >> /\ Past = << >> /\ era' = Len(archive) /\ archive' = archive
      BY <2>1 DEF FoldWrite, Past
    <3>2. Len(archive) \in Nat /\ SubSeq(archive, Len(archive) + 1, Len(archive)) = << >>
      BY DEF Archiving
    <3>3. Recent' = << >>
      BY <3>1, <3>2 DEF Recent
    <3>4. Active(Past) = {} /\ InOrder(<< >>)
      BY <3>1 DEF Active, InOrder
    <3> HIDE DEF old
    <3> QED
      BY <3>1, <3>2, <3>3, <3>4
  <2>2. CASE ~fold.lost
    <3>1. old = Recent /\ was = unsure /\ Past = folded /\ era' = era /\ archive' = archive
      BY <2>2 DEF FoldWrite, Past
    <3>2. Recent' = Recent
      BY <3>1 DEF Recent
    <3>3. DaysOf(fold.rows) = {}
      BY <1>4 DEF DaysOf
    <3> HIDE DEF old, was
    <3> QED
      BY <3>1, <3>2, <3>3 DEF Archiving, Right
  <2> QED
    BY <2>1, <2>2
<1> HIDE DEF new, used, rows, old, was
<1>6. fold'.rows = rows /\ (fold'.pc = "append" <=> rows # << >>)
  BY <1>3 DEF Idle
<1>7. Active(folded)' = Active(t) /\ Figures(folded)' = Figures(t)
  <2> HIDE DEF t
  <2> QED
    BY <1>3, FiguresCarried
<1>8. /\ Active(Past) \subseteq Days /\ days \subseteq Days /\ Active(t) = Active(Past) \cup days
      /\ days \cap Active(Past) = {}
      /\ \A d \in Active(Past) : d <= Prev.last
      /\ \A d \in days : d > Prev.last
      /\ \A d \in Days : d \notin days => Figure(t, d) = Figure(Past, d)
  BY <1>2, RunDays
<1>9. /\ Cardinality(days) \in Nat /\ order \in [1 .. Cardinality(days) -> days]
      /\ Increasing(order) /\ ToSet(order) = days
  <2>1. days \in SUBSET (1 .. MaxDay)
    BY <1>8 DEF Days
  <2> HIDE DEF days
  <2> QED
    BY <2>1, Bounds, SortedProps
<1>10. \A d \in days : /\ closed[<<"archive", d>>] \in [Measure -> Int]
                      /\ \A m \in FigureMeasure : closed[<<"archive", d>>][m] = Figure(t, d)[m]
  <2> HIDE DEF t
  <2> SUFFICES ASSUME NEW d \in days
               PROVE  /\ closed[<<"archive", d>>] \in [Measure -> Int]
                      /\ \A m \in FigureMeasure : closed[<<"archive", d>>][m] = Figure(t, d)[m]
    OBVIOUS
  <2> DEFINE row == closed[<<"archive", d>>]
  <2>1. row = Closed(Tally(used), Active(used))[<<"archive", d>>]
    OBVIOUS
  <2> HIDE DEF row
  <2>2. row \in [Measure -> Int] /\ \A m \in FigureMeasure : row[m] = Figure(t, d)[m]
    BY <1>1, <1>2, <2>1, ArchiveRow DEF t
  <2> QED
    BY <2>2 DEF row
<1>11. Prev.last \in Nat /\ \A d \in Days : d \in Nat
  BY <1>1, OfLog, OfPrev, Bounds
<1>12. \A d \in Days : Figures(t)[d] = Figure(t, d) /\ Figures(Past)[d] = Figure(Past, d)
  BY DEF Figures
<1> HIDE DEF t, days, order, closed
<1>13. /\ DOMAIN rows = 1 .. Cardinality(days) /\ DOMAIN rows = DOMAIN order
       /\ \A k \in DOMAIN rows : /\ rows[k] = [day |-> order[k], row |-> closed[<<"archive", order[k]>>]]
                                 /\ order[k] \in days
  BY <1>3, <1>9
<1>14. \A k \in DOMAIN rows : rows[k] \in Entry /\ rows[k].day = order[k]
                               /\ rows[k].row = closed[<<"archive", order[k]>>]
  BY <1>8, <1>10, <1>13 DEF Entry
<1>15. rows \in Seq(Entry)
  <2> DEFINE n == Cardinality(days)
  <2>1. n \in Nat /\ rows = [k \in 1 .. n |-> rows[k]] /\ \A k \in 1 .. n : rows[k] \in Entry
    BY <1>3, <1>9, <1>13, <1>14
  <2> HIDE DEF n
  <2>2. rows \in [1 .. n -> Entry]
    BY <2>1
  <2> QED
    BY <2>1, <2>2
<1>16. Right(fold.rows)'
  <2>1. \A k \in DOMAIN rows : /\ rows[k].day \in Active(t)
                               /\ \A m \in FigureMeasure : rows[k].row[m] = Figures(t)[rows[k].day][m]
    <3> SUFFICES ASSUME NEW k \in DOMAIN rows
                 PROVE  /\ rows[k].day \in Active(t)
                        /\ \A m \in FigureMeasure : rows[k].row[m] = Figures(t)[rows[k].day][m]
      OBVIOUS
    <3>1. order[k] \in days /\ order[k] \in Active(t) /\ order[k] \in Days
      BY <1>8, <1>13
    <3>2. \A m \in FigureMeasure : closed[<<"archive", order[k]>>][m] = Figures(t)[order[k]][m]
      BY <1>10, <1>12, <3>1
    <3> QED
      BY <1>14, <3>1, <3>2
  <2> DEFINE A == Active(t)
             f == Figures(t)
  <2>2. Active(folded)' = A /\ Figures(folded)' = f
    BY <1>7
  <2>3. \A k \in DOMAIN rows : /\ rows[k].day \in A
                               /\ \A m \in FigureMeasure : rows[k].row[m] = f[rows[k].day][m]
    BY <2>1
  <2> HIDE DEF A, f
  <2>4. rows \in Seq(Entry)
    BY <1>15
  <2> QED
    BY <1>6, <2>2, <2>3, <2>4 DEF Right
<1>17. Right(Recent)'
  <2>1. old \in Seq(Entry)
    BY <1>5
  <2>2. \A k \in DOMAIN old :
          /\ old[k].day \in Active(t)
          /\ \A m \in FigureMeasure : old[k].row[m] = Figures(t)[old[k].day][m]
    <3> SUFFICES ASSUME NEW k \in DOMAIN old
                 PROVE  /\ old[k].day \in Active(t)
                        /\ \A m \in FigureMeasure : old[k].row[m] = Figures(t)[old[k].day][m]
      OBVIOUS
    <3>1. /\ old[k].day \in Active(Past)
          /\ \A m \in FigureMeasure : old[k].row[m] = Figures(Past)[old[k].day][m]
      BY <1>5
    <3>2. old[k].day \in Days /\ old[k].day \notin days
      BY <1>8, <3>1
    <3> QED
      BY <1>8, <1>12, <3>1, <3>2
  <2> QED
    BY <1>5, <1>7, <2>1, <2>2 DEF Right
<1>18. InOrder(Recent)' /\ InOrder(fold.rows)'
  <2>1. InOrder(rows)
    <3> SUFFICES ASSUME NEW j \in DOMAIN rows, NEW k \in DOMAIN rows, j < k
                 PROVE  rows[j].day < rows[k].day
      BY DEF InOrder
    <3>1. order[j] < order[k]
      BY <1>9, <1>13 DEF Increasing
    <3> QED
      BY <1>14, <3>1
  <2> QED
    BY <1>6, <1>5, <2>1 DEF InOrder
<1>19. \A j \in DOMAIN old, k \in DOMAIN rows : old[j].day < rows[k].day
  <2> SUFFICES ASSUME NEW j \in DOMAIN old, NEW k \in DOMAIN rows
               PROVE  old[j].day < rows[k].day
    OBVIOUS
  <2>1. old[j].day \in Active(Past) /\ rows[k].day \in days
    BY <1>5, <1>13, <1>14
  <2> QED
    BY <1>8, <1>11, <2>1
<1>20. Active(t) \subseteq DaysOf(old) \cup DaysOf(rows) \cup was
  <2>2. days \subseteq DaysOf(rows)
    <3> SUFFICES ASSUME NEW d \in days PROVE d \in DaysOf(rows)
      OBVIOUS
    <3>1. PICK k \in DOMAIN order : order[k] = d
      BY <1>9 DEF ToSet
    <3>2. k \in DOMAIN rows /\ rows[k].day = d
      BY <1>13, <1>14, <3>1
    <3> QED
      BY <3>2 DEF DaysOf
  <2> QED
    BY <1>8, <1>5, <2>2
<1>21. (\A j \in DOMAIN Recent, k \in DOMAIN fold.rows : Recent[j].day < fold.rows[k].day)'
  BY <1>6, <1>19, <1>5
<1>22. (Active(folded) \subseteq DaysOf(Recent) \cup DaysOf(fold.rows) \cup unsure)'
  BY <1>3, <1>6, <1>7, <1>20, <1>5 DEF DaysOf
<1>23. (archive \in Seq(Entry) /\ era \in Nat /\ era <= Len(archive))'
  <2>1. archive' \in Seq(Entry)
    BY <1>3 DEF Archiving
  <2> QED
    BY <1>5, <2>1
<1> QED
  BY <1>6, <1>16, <1>17, <1>18, <1>21, <1>22, <1>23 DEF Archiving

(* The append puts them behind those there are, or names the days it may have lost. *)
LEMMA ArchivingAppended ==
  ASSUME Typed, Archiving, FoldAppend \/ FoldCut
  PROVE  Archiving'
<1>1. folded' = folded /\ log' = log /\ fold' = Idle /\ fold.rows # << >> /\ fold.rows \in Seq(Entry)
  BY DEF FoldAppend, FoldCut, clients, Archiving, Right
<1>2. Active(folded)' = Active(folded) /\ Figures(folded)' = Figures(folded)
  BY <1>1, FiguresCarried
<1>3. PICK r : /\ r = fold.rows \/ \E n \in 0 .. Len(fold.rows) - 1 : r = SubSeq(fold.rows, 1, n)
               /\ archive' = Appended(r)
               /\ \/ r = fold.rows /\ unsure' = IF torn THEN unsure \cup {fold.rows[1].day} ELSE unsure
                  \/ unsure' = unsure \cup DaysOf(fold.rows)
  <2>1. CASE FoldAppend
    BY <2>1 DEF FoldAppend
  <2>2. CASE FoldCut
    BY <2>2 DEF FoldCut
  <2> QED
    BY <2>1, <2>2
<1>4. PICK x \in Seq(Entry) :
         LET a == Recent \o x
         IN /\ Appended(r) = archive \o x
            /\ Right(a) /\ InOrder(a)
            /\ DaysOf(Recent) \subseteq DaysOf(a)
            /\ \A k \in DOMAIN r : (torn /\ k = 1) \/ r[k].day \in DaysOf(a)
  BY <1>3, AppendedSay
<1> DEFINE a == Recent \o x
<1>5. /\ archive' = archive \o x /\ era' = era /\ Recent' = a
      /\ archive' \in Seq(Entry) /\ era' \in Nat /\ era' <= Len(archive')
  <2>1. archive' = archive \o x /\ era' = era
    BY <1>3, <1>4 DEF FoldAppend, FoldCut
  <2>2. archive \in Seq(Entry) /\ era \in Nat /\ era <= Len(archive)
    BY DEF Archiving
  <2>3. Recent' = a
    BY <2>1, <2>2, AppendedRecent DEF Recent
  <2>4. archive \o x \in Seq(Entry) /\ Len(archive \o x) = Len(archive) + Len(x)
        /\ Len(archive) \in Nat /\ Len(x) \in Nat
    BY <2>2
  <2> QED
    BY <2>1, <2>2, <2>3, <2>4
<1>6. /\ Right(a) /\ InOrder(a) /\ DaysOf(Recent) \subseteq DaysOf(a)
      /\ \A k \in DOMAIN r : (torn /\ k = 1) \/ r[k].day \in DaysOf(a)
  BY <1>4
<1> HIDE DEF a
<1>7. DaysOf(Recent) \cup DaysOf(fold.rows) \cup unsure \subseteq DaysOf(a) \cup unsure'
  <2>1. unsure \subseteq unsure'
    BY <1>3
  <2>2. DaysOf(fold.rows) \subseteq DaysOf(a) \cup unsure'
    <3> SUFFICES ASSUME NEW k \in DOMAIN fold.rows PROVE fold.rows[k].day \in DaysOf(a) \cup unsure'
      BY DEF DaysOf
    <3> QED
      BY <1>3, <1>6 DEF DaysOf
  <2> QED
    BY <1>6, <2>1, <2>2
<1>8. fold'.rows = << >> /\ fold'.pc = "idle"
  BY <1>1 DEF Idle
<1>9. Right(Recent)' /\ InOrder(Recent)' /\ DaysOf(Recent)' = DaysOf(a)
  BY <1>2, <1>5, <1>6 DEF Right, InOrder, DaysOf
<1>10. Right(fold.rows)' /\ InOrder(fold.rows)'
  BY <1>8 DEF Right, InOrder
<1>11. (Active(folded) \subseteq DaysOf(Recent) \cup DaysOf(fold.rows) \cup unsure)'
  BY <1>2, <1>7, <1>9 DEF Archiving
<1> QED
  BY <1>5, <1>8, <1>9, <1>10, <1>11 DEF Archiving

(* Whatever else happens leaves the archive and the rows for it alone. *)
LEMMA ArchivingKept ==
  ASSUME Typed, Archiving, [StatsNext]_statsVars, ~FoldWrite, ~FoldAppend, ~FoldCut
  PROVE  Archiving'
<1>1. /\ folded \in Seq(Index) /\ DOMAIN fold = {"pc", "day", "left", "lines", "rows", "lost", "sound"}
      /\ log \in Seq([day : Days, req : Request])
  BY DEF Typed
<1>2. UNCHANGED <<archive, unsure, folded, era>> /\ \A k \in DOMAIN folded : log'[folded[k]] = log[folded[k]]
  <2>1. CASE Arrive
    <3>1. \A k \in DOMAIN folded : folded[k] \in DOMAIN log
      BY <1>1 DEF Index
    <3>2. UNCHANGED <<archive, unsure, folded, era>> /\ log' = Append(log, [day |-> today, req |-> Head(coming)])
      BY <2>1 DEF Arrive, results
    <3>3. \A i \in DOMAIN log : log'[i] = log[i]
      BY <1>1, <3>2
    <3> QED
      BY <3>1, <3>2, <3>3
  <2>2. CASE ~Arrive
    <3>1. UNCHANGED <<archive, unsure, folded, era, log>>
      BY <2>2 DEF StatsNext, statsVars, clients, results, RollUp, Midnight, PullStart, PullRoll, PullLive,
         PullFail, FoldStart, FoldStartLost, FoldRead, FoldSkip, FoldStop
    <3> QED
      BY <3>1
  <2> QED
    BY <2>1, <2>2
<1>3. fold'.rows = fold.rows /\ (fold'.pc = "append" <=> fold.pc = "append")
  <2>1. CASE UNCHANGED fold
    BY <2>1
  <2>2. CASE PullStart
    BY <1>1, <2>2 DEF PullStart
  <2>3. CASE FoldStart \/ FoldStartLost
    <3>1. fold.rows = << >>
      BY <2>3, StartedSay DEF Archiving
    <3> QED
      BY <2>3, <3>1, StartedSay
  <2>4. CASE FoldStop
    <3>1. fold.pc = "read" /\ fold.rows = << >> /\ fold' = Idle
      BY <2>4 DEF FoldStop, Archiving
    <3> QED
      BY <3>1 DEF Idle
  <2>5. CASE FoldRead \/ FoldSkip
    BY <1>1, <2>5 DEF FoldRead, FoldSkip
  <2> QED
    BY <2>1, <2>2, <2>3, <2>4, <2>5 DEF StatsNext, statsVars, Arrive, RollUp, Midnight, PullRoll, PullLive, PullFail
<1>4. Active(folded)' = Active(folded) /\ Figures(folded)' = Figures(folded)
  BY <1>2, FiguresCarried
<1>5. Recent' = Recent
  BY <1>2 DEF Recent
<1>6. /\ Right(Recent)' /\ Right(fold.rows)' /\ InOrder(Recent)' /\ InOrder(fold.rows)'
  BY <1>5, <1>3, <1>4 DEF Archiving, Right, InOrder
<1>7. (\A j \in DOMAIN Recent, k \in DOMAIN fold.rows : Recent[j].day < fold.rows[k].day)'
  BY <1>5, <1>3 DEF Archiving
<1>8. (Active(folded) \subseteq DaysOf(Recent) \cup DaysOf(fold.rows) \cup unsure)'
  BY <1>5, <1>2, <1>3, <1>4 DEF Archiving, DaysOf
<1>9. fold'.pc = "append" <=> fold'.rows # << >>
  BY <1>3 DEF Archiving
<1> QED
  BY <1>2, <1>6, <1>7, <1>8, <1>9 DEF Archiving

(* Since the present stats.json began, the archive has been given a day at most once, in
   order, with the figures of its lines, and none that was not counted; and a day counted
   is in it, on its way, or one whose append was cut short or met a torn line: for any
   number of kills, and of times stats.json could not be read, whenever they come. *)
THEOREM DaysArchivedOnce == StatsSpec => []ArchivedOnce
<1> DEFINE Held == WholeInv /\ CountsExact /\ RowsTyped
<1>1. StatsInit => RowsTyped /\ Archiving
  <2> SUFFICES ASSUME StatsInit PROVE Archiving
    BY ExactInit
  <2>1. /\ archive = << >> /\ era = 0 /\ Recent = << >>
        /\ fold.rows = << >> /\ fold.pc = "idle" /\ folded = << >>
    BY DEF StatsInit, Idle, Recent
  <2>2. Active(folded) = {}
    BY <2>1 DEF Active
  <2>3. Right(Recent) /\ Right(fold.rows) /\ InOrder(Recent) /\ InOrder(fold.rows)
    BY <2>1 DEF Right, InOrder
  <2> QED
    BY <2>1, <2>2, <2>3 DEF Archiving
<1>2. Held /\ Archiving /\ [StatsNext]_statsVars => RowsTyped' /\ Archiving'
  <2> SUFFICES ASSUME Held, Archiving, [StatsNext]_statsVars PROVE RowsTyped' /\ Archiving'
    OBVIOUS
  <2>1. Typed
    BY DEF WholeInv
  <2>2. CASE FoldWrite
    BY <2>2, ExactWritten, ArchivingWritten
  <2>3. CASE ~FoldWrite
    <3>1. book' = book
      BY <2>3 DEF StatsNext, statsVars, results, Arrive, RollUp, Midnight, PullStart, PullRoll, PullLive,
         PullFail, FoldStart, FoldStartLost, FoldRead, FoldSkip, FoldAppend, FoldCut, FoldStop
    <3>2. RowsTyped'
      BY <3>1 DEF RowsTyped
    <3>3. CASE FoldAppend \/ FoldCut
      BY <2>1, <3>2, <3>3, ArchivingAppended
    <3>4. CASE ~FoldAppend /\ ~FoldCut
      BY <2>1, <2>3, <3>2, <3>4, ArchivingKept
    <3> QED
      BY <3>3, <3>4
  <2> QED
    BY <2>2, <2>3
<1>3. WholeInv /\ Archiving => ArchivedOnce
  <2> SUFFICES ASSUME WholeInv, Archiving PROVE ArchivedOnce
    OBVIOUS
  <2>1. Typed /\ folded \in Seq(Index)
    BY DEF WholeInv, Typed
  <2>2. \A d \in Active(folded) : d \in Days
    <3> SUFFICES ASSUME NEW k \in DOMAIN folded PROVE log[folded[k]].day \in Days
      BY DEF Active
    <3>1. folded[k] \in Index
      BY <2>1, OfIndexes
    <3> QED
      BY <2>1, <3>1, OfLog
  <2>3. ASSUME NEW k \in DOMAIN Recent
        PROVE  /\ Recent[k].day \in Active(folded)
               /\ \A m \in DOMAIN Figure(folded, Recent[k].day) :
                    Recent[k].row[m] = Figure(folded, Recent[k].day)[m]
    <3>1. /\ Recent[k].day \in Active(folded)
          /\ \A m \in FigureMeasure : Recent[k].row[m] = Figures(folded)[Recent[k].day][m]
      BY DEF Archiving, Right
    <3>2. Figures(folded)[Recent[k].day] = Figure(folded, Recent[k].day)
      BY <2>2, <3>1 DEF Figures
    <3>3. DOMAIN Figure(folded, Recent[k].day) = FigureMeasure
      BY <2>1, FigureType
    <3> QED
      BY <3>1, <3>2, <3>3
  <2> QED
    BY <2>3 DEF ArchivedOnce, Archiving, InOrder
<1> QED
  BY <1>1, <1>2, <1>3, FilesInOrder, FiguresExact, PTL DEF StatsSpec
=============================================================================
