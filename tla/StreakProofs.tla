---------------------------- MODULE StreakProofs ----------------------------
(* Streaks, for every value of its constants. No circle of waiting             *)
(* transactions: each takes its row locks in one order, that of the tables     *)
(* below and, within a table, that of the keys. The ledger is the sum of the   *)
(* public results, each compared once, and the stored days, runs and summary   *)
(* are those of the awarded improvements.                                      *)
EXTENDS Streaks, SetLemmas

Fields == {"id", "day", "previous", "points", "result", "applied", "released", "pending"}
StreakShape ==
  /\ streakWorld \in StreakWorlds /\ today \in Nat /\ ungraded \subseteq StreakSubs
  /\ events = [s \in StreakSubs |-> events[s]]
  /\ \A s \in StreakSubs : DOMAIN events[s] = Fields /\ events[s].id \in Nat
  /\ drains = [w \in StreakWorkers |-> [ids |-> drains[w].ids, step |-> drains[w].step]]
  /\ \A w \in StreakWorkers :
       /\ drains[w].step \in {"read", "publish", "award"}
       /\ drains[w].step # "read" => drains[w].ids # <<>> /\ EventAt(w) \in StreakSubs
  /\ holder \in [StreakRows -> Transactions \cup {Nobody}]

\* Primary keys of events grow with time.
EventOrder ==
  /\ \A s \in Events : events[s].id <= Cardinality(Events)
  /\ \A s, e \in Events : events[s].id = events[e].id => s = e
  /\ Pending \subseteq Events /\ ungraded \cap Events = {}

\* A transaction that locks a, then b, then c.
Chain(t, a, b, c) ==
  /\ HeldBy(t) \subseteq {a, b, c}
  /\ b \in HeldBy(t) => a \in HeldBy(t)
  /\ c \in HeldBy(t) => b \in HeldBy(t)
GradeHolds(s) ==
  Chain(Grade(s), <<"problem", ProblemOf(s)>>, <<"submission", s>>, <<"progress", ProblemOf(s)>>)
AwardHolds(w) ==
  Chain(Drain(w), <<"summary", 0>>, <<"event", EventAt(w)>>, <<"progress", ProblemOf(EventAt(w))>>)

\* A reveal or a worker that publishes: what is held has no gap.
Shown(t) == IF t = Reveal THEN Offline ELSE {}
Waiting == Pending \cap Offline
Compared(t) == {ProblemOf(s) : s \in {e \in HeldEvents(t) : ~events[e].applied}}
PublishHolds(t) ==
  /\ HeldBy(t) \subseteq RowsIn("submission", Shown(t)) \cup RowsIn("event", Waiting)
                           \cup RowsIn("progress", Compared(t))
  /\ \A s, e \in Shown(t) : <<"submission", s>> \in HeldBy(t) /\ e < s => <<"submission", e>> \in HeldBy(t)
  /\ \A s, e \in Waiting :
       <<"event", s>> \in HeldBy(t) /\ events[e].id < events[s].id => <<"event", e>> \in HeldBy(t)
  /\ \A p, q \in Compared(t) : <<"progress", p>> \in HeldBy(t) /\ q < p => <<"progress", q>> \in HeldBy(t)
LockOrder ==
  /\ \A t \in Transactions : ~Underway(t) => HeldBy(t) = {}
  /\ \A s \in StreakSubs : GradeHolds(s)
  /\ PublishHolds(Reveal)
  /\ \A w \in StreakWorkers : drains[w].step = "publish" => PublishHolds(Drain(w))
  /\ \A w \in StreakWorkers : drains[w].step = "award" => AwardHolds(w)
StreakInv == StreakShape /\ EventOrder /\ LockOrder

\* The order of the tables.
LevelOf(r) ==
  CASE r[1] = "problem" -> 1
    [] r[1] = "submission" -> 2
    [] r[1] = "summary" -> 3
    [] r[1] = "event" -> 4
    [] r[1] = "progress" -> 5
Before(r, q) == LevelOf(r) < LevelOf(q) \/ (LevelOf(r) = LevelOf(q) /\ KeyOf(r) < KeyOf(q))

-----------------------------------------------------------------------------
(* What a transaction asks for next.                                           *)
LEMMA UnlockedIsOfOne ==
  ASSUME NEW n \in Nat, NEW all, DOMAIN all = 1..n, NEW held, NEW x \in Unlocked(all, held)
  PROVE  \E i \in 1..n :
           /\ Unlocked(all, held) = all[i] \ held
           /\ \A j \in 1..n : j > i => all[j] \cap held = {}
           /\ \A j \in 1..n : j < i => all[j] \subseteq held \/ \E k \in 1..n : k > j /\ all[k] \cap held # {}
<1> DEFINE open == {i \in DOMAIN all :
                      ~(all[i] \subseteq held) /\ \A j \in DOMAIN all : j > i => all[j] \cap held = {}}
           first == {k \in open : \A j \in open : k <= j}
<1>1. Unlocked(all, held) = UNION {all[i] \ held : i \in first}
  BY DEF Unlocked
<1>2. PICK i \in first : TRUE
  BY <1>1
<1>3. open \subseteq 1..n
  OBVIOUS
<1>4. first = {i}
  BY <1>2, <1>3
<1>5. Unlocked(all, held) = all[i] \ held
  BY <1>1, <1>4
<1> QED
  BY <1>2, <1>3, <1>5

LEMMA Typed ==
  ASSUME StreakInv
  PROVE  /\ \A s \in StreakSubs : s \in Nat /\ ProblemOf(s) \in StreakProblems /\ ProblemOf(s) \in Nat
         /\ Offline \subseteq StreakSubs /\ Waiting \subseteq StreakSubs
         /\ \A t : Compared(t) \subseteq StreakProblems
         /\ \A t : HeldEvents(t) \subseteq StreakSubs
<1>1. StreakSubs \subseteq Nat /\ StreakProblems \subseteq Nat
  BY StreakAssumption
<1>2. streakWorld.of \in [StreakSubs -> StreakProblems] /\ streakWorld.subs \subseteq StreakSubs
  <2>1. streakWorld \in StreakWorlds
    BY DEF StreakInv, StreakShape
  <2> QED
    BY <2>1, StreakAssumption
<1>3. \A s \in StreakSubs : ProblemOf(s) \in StreakProblems
  BY <1>2 DEF ProblemOf
<1>4. \A t : HeldEvents(t) \subseteq StreakSubs
  BY DEF HeldEvents
<1>5. \A t : Compared(t) \subseteq StreakProblems
  BY <1>3, <1>4 DEF Compared
<1>6. Offline \subseteq StreakSubs /\ Waiting \subseteq StreakSubs
  BY <1>2 DEF Offline, Waiting, Pending
<1> QED
  BY <1>1, <1>3, <1>4, <1>5, <1>6

LEMMA Prepended ==
  ASSUME NEW a, NEW b, NEW c
  PROVE  <<a>> \o <<b, c>> = <<a, b, c>>
<1> DEFINE S == {a, b, c}
           s == <<a>> \o <<b, c>>
<1>1. <<a>> \in Seq(S) /\ <<b, c>> \in Seq(S) /\ <<a, b, c>> \in Seq(S)
  OBVIOUS
<1>2. s \in Seq(S) /\ Len(s) = 3
  BY <1>1
<1>3. s[1] = a /\ s[2] = b /\ s[3] = c
  BY <1>1
<1> HIDE DEF s
<1>4. s = <<a, b, c>>
  BY <1>1, <1>2, <1>3
<1> QED
  BY <1>4 DEF s

LEMMA Kinds ==
  ASSUME NEW t \in Transactions
  PROVE  \/ \E s \in StreakSubs : t = Grade(s)
         \/ t = Reveal
         \/ \E w \in StreakWorkers : t = Drain(w)
BY DEF Transactions

LEMMA KeyTyped ==
  ASSUME StreakInv, NEW r \in StreakRows
  PROVE  KeyOf(r) \in Nat /\ LevelOf(r) \in 1..5
BY StreakAssumption DEF StreakInv, StreakShape, StreakRows, RowsIn, KeyOf, LevelOf

\* A chain asks for its first row that is not held.
LEMMA ChainWants ==
  ASSUME NEW t \in Transactions, NEW a, NEW b, NEW c, NEW C \in {{c}, {}}, Chain(t, a, b, c),
         a # b, a # c, b # c,
         Statements(t) = <<{a}, {b}, C>>, NEW q \in Wanted(t)
  PROVE  \/ q = a /\ HeldBy(t) = {}
         \/ q = b /\ HeldBy(t) = {a}
         \/ q = c /\ HeldBy(t) = {a, b}
<1> DEFINE all == Statements(t)
           held == HeldBy(t)
<1>1. q \in Unlocked(all, held)
  BY DEF Wanted
<1>2. DOMAIN all = 1..3 /\ all[1] = {a} /\ all[2] = {b} /\ all[3] = C
  OBVIOUS
<1> HIDE DEF all, held
<1>3. PICK i \in 1..3 :
        /\ Unlocked(all, held) = all[i] \ held
        /\ \A j \in 1..3 : j > i => all[j] \cap held = {}
        /\ \A j \in 1..3 : j < i => all[j] \subseteq held \/ \E k \in 1..3 : k > j /\ all[k] \cap held # {}
  BY <1>1, <1>2, UnlockedIsOfOne
<1>4. /\ held \subseteq {a, b, c}
      /\ b \in held => a \in held
      /\ c \in held => b \in held
  BY DEF Chain, held
<1>5. CASE i = 1
  BY <1>1, <1>2, <1>3, <1>4, <1>5 DEF held
<1>6. CASE i = 2
  BY <1>1, <1>2, <1>3, <1>4, <1>6 DEF held
<1>7. CASE i = 3
  BY <1>1, <1>2, <1>3, <1>4, <1>7 DEF held
<1> QED
  BY <1>5, <1>6, <1>7

\* A reveal, or a worker that publishes, asks for its first submission, event or progress
\* that is not held, and holds nothing of the tables after it.
LEMMA PublishWants ==
  ASSUME StreakInv, NEW t \in Transactions, PublishHolds(t), NEW q \in Wanted(t),
         t = Reveal \/ \E w \in StreakWorkers : t = Drain(w) /\ drains[w].step = "publish"
  PROVE  q \notin HeldBy(t) /\
         \/ \E s \in Shown(t) :
              /\ q = <<"submission", s>>
              /\ HeldBy(t) \cap RowsIn("event", Waiting) = {}
              /\ HeldBy(t) \cap RowsIn("progress", Compared(t)) = {}
              /\ \A e \in Shown(t) : e < s => <<"submission", e>> \in HeldBy(t)
         \/ \E s \in Waiting :
              /\ q = <<"event", s>>
              /\ HeldBy(t) \cap RowsIn("progress", Compared(t)) = {}
              /\ \A e \in Waiting : events[e].id < events[s].id => <<"event", e>> \in HeldBy(t)
         \/ \E p \in Compared(t) :
              /\ q = <<"progress", p>>
              /\ \A o \in Compared(t) : o < p => <<"progress", o>> \in HeldBy(t)
<1> DEFINE held == HeldBy(t)
           S == RowsIn("submission", Shown(t))
           E == RowsIn("event", Waiting)
           P == RowsIn("progress", Compared(t))
           rest == Unlocked(Statements(t), held)
<1>1. q \in rest /\ \A r \in rest : KeyOf(q) <= KeyOf(r)
  BY DEF Wanted
<1>2. PublishLocks(t) = <<E, P>>
  BY DEF PublishLocks, Waiting, Compared
<1>3. \/ rest = S \ held /\ E \cap held = {} /\ P \cap held = {}
      \/ rest = E \ held /\ P \cap held = {}
      \/ rest = P \ held
  <2> HIDE DEF S, E, P
  <2>1. CASE t = Reveal
    <3>1. Statements(t) = <<RowsIn("submission", Offline)>> \o PublishLocks(t)
      BY <2>1 DEF Statements, Reveal, RevealLocks
    <3>2. S = RowsIn("submission", Offline)
      BY <2>1 DEF S, Shown
    <3>3. Statements(t) = <<S, E, P>>
      BY <3>1, <3>2, <1>2, Prepended
    <3> HIDE DEF held
    <3>4. DOMAIN Statements(t) = 1..3 /\ Statements(t)[1] = S /\ Statements(t)[2] = E /\ Statements(t)[3] = P
      BY <3>3
    <3>5. PICK i \in 1..3 :
            /\ rest = Statements(t)[i] \ held
            /\ \A j \in 1..3 : j > i => Statements(t)[j] \cap held = {}
      <4> HIDE DEF rest
      <4>1. q \in Unlocked(Statements(t), held)
        BY <1>1 DEF rest
      <4> QED
        BY <4>1, <3>4, UnlockedIsOfOne DEF rest
    <3> HIDE DEF rest
    <3> QED
      BY <3>4, <3>5
  <2>2. CASE \E w \in StreakWorkers : t = Drain(w) /\ drains[w].step = "publish"
    <3>1. Statements(t) = <<E, P>>
      BY <2>2, <1>2 DEF Statements, Drain, Reveal
    <3> HIDE DEF held
    <3>4. DOMAIN Statements(t) = 1..2 /\ Statements(t)[1] = E /\ Statements(t)[2] = P
      BY <3>1
    <3>5. PICK i \in 1..2 :
            /\ rest = Statements(t)[i] \ held
            /\ \A j \in 1..2 : j > i => Statements(t)[j] \cap held = {}
      <4> HIDE DEF rest
      <4>1. q \in Unlocked(Statements(t), held)
        BY <1>1 DEF rest
      <4> QED
        BY <4>1, <3>4, UnlockedIsOfOne DEF rest
    <3> HIDE DEF rest
    <3> QED
      BY <3>4, <3>5
  <2> QED
    BY <2>1, <2>2
<1>4. Shown(t) \subseteq Nat /\ Compared(t) \subseteq Nat /\ \A s \in Waiting : events[s].id \in Nat
  BY Typed, StreakAssumption DEF Shown, StreakInv, StreakShape
<1> HIDE DEF rest, held
<1>5. CASE rest = S \ held /\ E \cap held = {} /\ P \cap held = {}
  BY <1>1, <1>4, <1>5 DEF RowsIn, KeyOf, held
<1>6. CASE rest = E \ held /\ P \cap held = {}
  BY <1>1, <1>4, <1>6 DEF RowsIn, KeyOf, held
<1>7. CASE rest = P \ held
  BY <1>1, <1>4, <1>7 DEF RowsIn, KeyOf, held
<1> QED
  BY <1>3, <1>5, <1>6, <1>7

LEMMA GradeWants ==
  ASSUME StreakInv, NEW s \in StreakSubs, GradeHolds(s), NEW q \in Wanted(Grade(s))
  PROVE  \/ q = <<"problem", ProblemOf(s)>> /\ HeldBy(Grade(s)) = {}
         \/ q = <<"submission", s>> /\ HeldBy(Grade(s)) = {<<"problem", ProblemOf(s)>>}
         \/ /\ q = <<"progress", ProblemOf(s)>>
            /\ HeldBy(Grade(s)) = {<<"problem", ProblemOf(s)>>, <<"submission", s>>}
<1> DEFINE a == <<"problem", ProblemOf(s)>>
           b == <<"submission", s>>
           c == <<"progress", ProblemOf(s)>>
<1>1. Grade(s) \in Transactions
  BY DEF Transactions
<1>2. Statements(Grade(s)) = <<{a}, {b}, {c}>>
  BY DEF Statements, Grade, Reveal, GradeLocks, RowsIn
<1>3. Chain(Grade(s), a, b, c)
  BY DEF GradeHolds
<1>4. a # b /\ a # c /\ b # c
  OBVIOUS
<1> HIDE DEF a, b, c
<1> QED
  BY <1>1, <1>2, <1>3, <1>4, ChainWants DEF a, b, c

LEMMA AwardWants ==
  ASSUME StreakInv, NEW w \in StreakWorkers, AwardHolds(w), drains[w].step = "award",
         NEW q \in Wanted(Drain(w))
  PROVE  \/ q = <<"summary", 0>> /\ HeldBy(Drain(w)) = {}
         \/ q = <<"event", EventAt(w)>> /\ HeldBy(Drain(w)) = {<<"summary", 0>>}
         \/ /\ q = <<"progress", ProblemOf(EventAt(w))>>
            /\ HeldBy(Drain(w)) = {<<"summary", 0>>, <<"event", EventAt(w)>>}
<1> DEFINE a == <<"summary", 0>>
           b == <<"event", EventAt(w)>>
           c == <<"progress", ProblemOf(EventAt(w))>>
           C == AwardLocks(EventAt(w))[3]
<1>1. Drain(w) \in Transactions
  BY DEF Transactions
<1>2. Statements(Drain(w)) = AwardLocks(EventAt(w))
  BY DEF Statements, Drain, Reveal
<1>3. AwardLocks(EventAt(w)) = <<{a}, {b}, C>> /\ C \in {{c}, {}}
  BY DEF AwardLocks, RowsIn
<1>4. Chain(Drain(w), a, b, c)
  BY DEF AwardHolds
<1>5. a # b /\ a # c /\ b # c
  OBVIOUS
<1> HIDE DEF a, b, c, C
<1> QED
  BY <1>1, <1>2, <1>3, <1>4, <1>5, ChainWants DEF a, b, c

\* The order in which rows are locked is the same for everybody.
LEMMA HeldBeforeWanted ==
  ASSUME StreakInv, NEW t \in Transactions, Underway(t), NEW r \in HeldBy(t), NEW q \in Wanted(t)
  PROVE  Before(r, q)
<1>1. CASE \E s \in StreakSubs : t = Grade(s)
  <2>1. PICK s \in StreakSubs : t = Grade(s)
    BY <1>1
  <2>2. GradeHolds(s)
    BY DEF StreakInv, LockOrder
  <2> QED
    BY <2>1, <2>2, GradeWants DEF Before, LevelOf
<1>2. ASSUME PublishHolds(t), t = Reveal \/ \E w \in StreakWorkers : t = Drain(w) /\ drains[w].step = "publish"
      PROVE  Before(r, q)
  <2>1. r \in RowsIn("submission", Shown(t)) \cup RowsIn("event", Waiting) \cup RowsIn("progress", Compared(t))
    BY <1>2 DEF PublishHolds
  <2>2. /\ Shown(t) \subseteq Nat /\ Compared(t) \subseteq Nat
        /\ \A s \in Waiting : events[s].id \in Nat
        /\ \A s, e \in Waiting : events[s].id = events[e].id => s = e
    BY Typed, StreakAssumption DEF Shown, StreakInv, StreakShape, EventOrder, Waiting
  <2>3. q \notin HeldBy(t)
    BY <1>2, PublishWants
  <2>4. CASE \E s \in Shown(t) :
              /\ q = <<"submission", s>>
              /\ HeldBy(t) \cap RowsIn("event", Waiting) = {}
              /\ HeldBy(t) \cap RowsIn("progress", Compared(t)) = {}
    <3>1. PICK s \in Shown(t) : q = <<"submission", s>>
      BY <2>4
    <3>2. PICK e \in Shown(t) : r = <<"submission", e>>
      BY <2>1, <2>4 DEF RowsIn
    <3>3. s # e /\ ~(s < e)
      BY <1>2, <2>3, <3>1, <3>2 DEF PublishHolds
    <3> QED
      BY <2>2, <3>1, <3>2, <3>3 DEF Before, LevelOf, KeyOf
  <2>5. CASE \E s \in Waiting : q = <<"event", s>> /\ HeldBy(t) \cap RowsIn("progress", Compared(t)) = {}
    <3>1. PICK s \in Waiting : q = <<"event", s>>
      BY <2>5
    <3>2. CASE \E e \in Shown(t) : r = <<"submission", e>>
      BY <3>1, <3>2 DEF Before, LevelOf
    <3>3. CASE \E e \in Waiting : r = <<"event", e>>
      <4>1. PICK e \in Waiting : r = <<"event", e>>
        BY <3>3
      <4>2. s # e /\ ~(events[s].id < events[e].id)
        BY <1>2, <2>3, <3>1, <4>1 DEF PublishHolds
      <4> QED
        BY <2>2, <3>1, <4>1, <4>2 DEF Before, LevelOf, KeyOf
    <3> QED
      BY <2>1, <2>5, <3>2, <3>3 DEF RowsIn
  <2>6. CASE \E p \in Compared(t) : q = <<"progress", p>>
    <3>1. PICK p \in Compared(t) : q = <<"progress", p>>
      BY <2>6
    <3>2. CASE \E e \in Shown(t) \cup Waiting : r[1] \in {"submission", "event"}
      BY <3>1, <3>2 DEF Before, LevelOf
    <3>3. CASE \E o \in Compared(t) : r = <<"progress", o>>
      <4>1. PICK o \in Compared(t) : r = <<"progress", o>>
        BY <3>3
      <4>2. p # o /\ ~(p < o)
        BY <1>2, <2>3, <3>1, <4>1 DEF PublishHolds
      <4> QED
        BY <2>2, <3>1, <4>1, <4>2 DEF Before, LevelOf, KeyOf
    <3> QED
      BY <2>1, <3>2, <3>3 DEF RowsIn
  <2> QED
    BY <1>2, <2>4, <2>5, <2>6, PublishWants
<1>3. CASE t = Reveal
  BY <1>2, <1>3 DEF StreakInv, LockOrder
<1>4. CASE \E w \in StreakWorkers : t = Drain(w)
  <2>1. PICK w \in StreakWorkers : t = Drain(w)
    BY <1>4
  <2>2. drains[w].step \in {"publish", "award"}
    BY <2>1 DEF Underway, Drain, Reveal
  <2>3. CASE drains[w].step = "publish"
    BY <1>2, <2>1, <2>3 DEF StreakInv, LockOrder
  <2>4. CASE drains[w].step = "award"
    <3>1. AwardHolds(w)
      BY <2>4 DEF StreakInv, LockOrder
    <3> QED
      BY <2>1, <2>4, <3>1, AwardWants DEF Before, LevelOf
  <2> QED
    BY <2>2, <2>3, <2>4
<1> QED
  BY <1>1, <1>3, <1>4, Kinds

-----------------------------------------------------------------------------
(* No circle.                                                                  *)
LEMMA FiniteRowsIn ==
  ASSUME NEW table, NEW S, IsFiniteSet(S)
  PROVE  IsFiniteSet(RowsIn(table, S))
<1> DEFINE f == [n \in S |-> <<table, n>>]
<1>1. DOMAIN f = S /\ \A n \in S : f[n] = <<table, n>>
  OBVIOUS
<1>2. RowsIn(table, S) = {f[n] : n \in DOMAIN f}
  BY DEF RowsIn
<1>3. f = [n \in DOMAIN f |-> f[n]]
  OBVIOUS
<1> HIDE DEF f
<1>4. IsFiniteSet({f[n] : n \in DOMAIN f})
  BY <1>1, <1>3, FiniteImage
<1> QED
  BY <1>2, <1>4

LEMMA FiniteRows == IsFiniteSet(StreakRows)
<1>1. /\ IsFiniteSet(RowsIn("problem", StreakProblems)) /\ IsFiniteSet(RowsIn("submission", StreakSubs))
      /\ IsFiniteSet(RowsIn("event", StreakSubs)) /\ IsFiniteSet(RowsIn("progress", StreakProblems))
  BY FiniteRowsIn, StreakAssumption
<1>2. IsFiniteSet(RowsIn("summary", {0}))
  BY FiniteRowsIn, FS_Singleton
<1> HIDE DEF RowsIn
<1> QED
  BY <1>1, <1>2, FS_Union DEF StreakRows

LEMMA WantedRows ==
  ASSUME StreakInv, NEW t \in Transactions, Underway(t)
  PROVE  Wanted(t) \subseteq StreakRows
<1> SUFFICES ASSUME NEW q \in Wanted(t) PROVE q \in StreakRows
  OBVIOUS
<1>1. CASE \E s \in StreakSubs : t = Grade(s)
  <2>1. PICK s \in StreakSubs : t = Grade(s)
    BY <1>1
  <2>2. GradeHolds(s)
    BY DEF StreakInv, LockOrder
  <2> QED
    BY <2>1, <2>2, GradeWants, Typed DEF StreakRows, RowsIn
<1>2. ASSUME PublishHolds(t), t = Reveal \/ \E w \in StreakWorkers : t = Drain(w) /\ drains[w].step = "publish"
      PROVE  q \in StreakRows
  BY <1>2, PublishWants, Typed DEF StreakRows, RowsIn, Shown
<1>3. CASE t = Reveal
  BY <1>2, <1>3 DEF StreakInv, LockOrder
<1>4. CASE \E w \in StreakWorkers : t = Drain(w)
  <2>1. PICK w \in StreakWorkers : t = Drain(w)
    BY <1>4
  <2>2. drains[w].step \in {"publish", "award"}
    BY <2>1 DEF Underway, Drain, Reveal
  <2>3. CASE drains[w].step = "publish"
    BY <1>2, <2>1, <2>3 DEF StreakInv, LockOrder
  <2>4. CASE drains[w].step = "award"
    <3>1. AwardHolds(w) /\ EventAt(w) \in StreakSubs
      BY <2>4 DEF StreakInv, LockOrder, StreakShape
    <3> QED
      BY <2>1, <2>4, <3>1, AwardWants, Typed DEF StreakRows, RowsIn
  <2> QED
    BY <2>2, <2>3, <2>4
<1> QED
  BY <1>1, <1>3, <1>4, Kinds

\* Of the rows that a circle waits for, the last in the order is held by somebody who
\* waits for none of them.
LEMMA NoCircle ==
  ASSUME StreakInv
  PROVE  NoLockCycle
<1> SUFFICES ASSUME NEW T, T # {}, T \subseteq Transactions,
                    \A t \in T : Underway(t) /\ \E r \in Wanted(t) : holder[r] \in T
             PROVE  FALSE
  <2>1. \A t : \A u \in WaitsFor(t) : Underway(t) /\ \E r \in Wanted(t) : holder[r] = u
    BY DEF WaitsFor
  <2> DEFINE waits == [t \in Transactions |-> WaitsFor(t)]
             blocked == {t \in Transactions : waits[t] # {}}
  <2>2. \A T \in SUBSET blocked : T # {} => \E t \in T : waits[t] \cap T = {}
    <3> SUFFICES ASSUME NEW T \in SUBSET blocked, T # {}, \A t \in T : waits[t] \cap T # {}
                 PROVE  FALSE
      OBVIOUS
    <3>1. T \subseteq Transactions /\ \A t \in T : WaitsFor(t) \cap T # {}
      OBVIOUS
    <3>2. \A t \in T : Underway(t) /\ \E r \in Wanted(t) : holder[r] \in T
      BY <2>1, <3>1
    <3> QED
      BY <3>1, <3>2
  <2> QED
    BY <2>2 DEF NoLockCycle
<1> DEFINE F == {q \in StreakRows : \E t \in T : q \in Wanted(t) /\ holder[q] \in T}
<1>1. F # {}
  BY WantedRows
<1>2. \A q \in F : KeyOf(q) \in Nat /\ LevelOf(q) \in Nat
  BY KeyTyped
<1>3. \A q \in F : \E r \in F : Before(q, r)
  <2> SUFFICES ASSUME NEW q \in F PROVE \E r \in F : Before(q, r)
    OBVIOUS
  <2>1. holder[q] \in T /\ q \in HeldBy(holder[q])
    BY DEF HeldBy
  <2>2. PICK r \in Wanted(holder[q]) : holder[r] \in T
    BY <2>1
  <2>3. r \in F
    BY <2>1, <2>2, WantedRows
  <2> QED
    BY <2>1, <2>2, <2>3, HeldBeforeWanted
<1>4. \A R \in SUBSET F : IsFiniteSet(R)
  BY FiniteRows, FS_Subset
<1> HIDE DEF F
<1>5. PICK L \in F : \A q \in F : LevelOf(q) <= LevelOf(L)
  <2> DEFINE g == [q \in F |-> LevelOf(q)]
             S == {g[q] : q \in DOMAIN g}
  <2>1. IsFiniteSet(S)
    BY <1>4, FiniteImage
  <2>2. S \subseteq Int /\ S # {}
    BY <1>1, <1>2
  <2>3. PICK n \in S : \A m \in S : m <= n
    <3> HIDE DEF S
    <3> QED
      BY <2>1, <2>2, GreatestExists
  <2> QED
    BY <2>3
<1>6. PICK q \in F : LevelOf(q) = LevelOf(L) /\ \A r \in F : LevelOf(r) = LevelOf(L) => KeyOf(r) <= KeyOf(q)
  <2> DEFINE G == {r \in F : LevelOf(r) = LevelOf(L)}
             g == [r \in G |-> KeyOf(r)]
             S == {g[r] : r \in DOMAIN g}
  <2>1. IsFiniteSet(G)
    BY <1>4
  <2>2. IsFiniteSet(S)
    <3> HIDE DEF G
    <3> QED
      BY <2>1, FiniteImage
  <2>3. S \subseteq Int /\ S # {}
    BY <1>2, <1>5
  <2>4. PICK n \in S : \A m \in S : m <= n
    <3> HIDE DEF S
    <3> QED
      BY <2>2, <2>3, GreatestExists
  <2> QED
    BY <2>4
<1>7. PICK r \in F : Before(q, r)
  BY <1>3
<1> QED
  BY <1>2, <1>5, <1>6, <1>7 DEF Before

-----------------------------------------------------------------------------
(* A row is locked.                                                            *)
LEMMA NobodyElse == Nobody \notin Transactions
BY DEF Nobody, Transactions, Grade, Reveal, Drain

LEMMA HeldEventRows ==
  ASSUME NEW t
  PROVE  /\ HeldEvents(t) = {s \in StreakSubs : <<"event", s>> \in HeldBy(t)}
         /\ HeldEvents(t)' = {s \in StreakSubs : <<"event", s>> \in HeldBy(t)'}
<1>1. \A s \in StreakSubs : <<"event", s>> \in StreakRows
  BY DEF StreakRows, RowsIn
<1> QED
  BY <1>1 DEF HeldEvents, HeldBy

\* What a transaction holds does not depend on the others.
LEMMA SamePublish ==
  ASSUME NEW t, PublishHolds(t), HeldBy(t)' = HeldBy(t), UNCHANGED <<events, streakWorld>>
  PROVE  PublishHolds(t)'
<1>1. HeldEvents(t)' = HeldEvents(t)
  BY HeldEventRows
<1>2. Compared(t)' = Compared(t)
  BY <1>1 DEF Compared, ProblemOf
<1>3. Shown(t)' = Shown(t) /\ Waiting' = Waiting
  BY DEF Shown, Waiting, Offline, Pending, KindOf
<1> QED
  BY <1>2, <1>3 DEF PublishHolds

LEMMA PublishLocksNext ==
  ASSUME StreakInv, NEW t \in Transactions, PublishHolds(t), NEW r \in Wanted(t),
         t = Reveal \/ \E w \in StreakWorkers : t = Drain(w) /\ drains[w].step = "publish",
         HeldBy(t)' = HeldBy(t) \cup {r}, UNCHANGED <<events, streakWorld>>
  PROVE  PublishHolds(t)'
<1>1. Shown(t)' = Shown(t) /\ Waiting' = Waiting
  BY DEF Shown, Waiting, Offline, Pending, KindOf
<1>2. HeldEvents(t)' = {s \in StreakSubs : <<"event", s>> \in HeldBy(t) \cup {r}}
  BY HeldEventRows
<1>3. HeldEvents(t) = {s \in StreakSubs : <<"event", s>> \in HeldBy(t)}
  BY HeldEventRows
<1>4. /\ Shown(t) \subseteq Nat /\ Compared(t) \subseteq Nat
      /\ \A s \in Waiting : events[s].id \in Nat
      /\ Waiting \subseteq StreakSubs
  BY Typed, StreakAssumption DEF Shown, StreakInv, StreakShape
<1>5. CASE \E s \in Shown(t) :
              /\ r = <<"submission", s>>
              /\ \A e \in Shown(t) : e < s => <<"submission", e>> \in HeldBy(t)
  <2>1. HeldEvents(t)' = HeldEvents(t)
    BY <1>2, <1>3, <1>5
  <2>2. Compared(t)' = Compared(t)
    BY <2>1 DEF Compared, ProblemOf
  <2> QED
    BY <1>1, <1>4, <1>5, <2>2 DEF PublishHolds, RowsIn
<1>6. CASE \E s \in Waiting :
              /\ r = <<"event", s>>
              /\ HeldBy(t) \cap RowsIn("progress", Compared(t)) = {}
              /\ \A e \in Waiting : events[e].id < events[s].id => <<"event", e>> \in HeldBy(t)
  <2>2. HeldBy(t)' \subseteq RowsIn("submission", Shown(t)) \cup RowsIn("event", Waiting)
    <3>1. r \in RowsIn("event", Waiting)
      BY <1>6 DEF RowsIn
    <3>2. HeldBy(t) \subseteq RowsIn("submission", Shown(t)) \cup RowsIn("event", Waiting)
      BY <1>6 DEF PublishHolds
    <3> QED
      BY <3>1, <3>2
  <2>1. \A p : <<"progress", p>> \notin HeldBy(t)'
    BY <2>2 DEF RowsIn
  <2>3. \A s, e \in Shown(t) : <<"submission", s>> \in HeldBy(t)' /\ e < s => <<"submission", e>> \in HeldBy(t)'
    BY <1>6 DEF PublishHolds
  <2>4. \A s, e \in Waiting : <<"event", s>> \in HeldBy(t)' /\ events[e].id < events[s].id
                               => <<"event", e>> \in HeldBy(t)'
    BY <1>6 DEF PublishHolds
  <2> QED
    BY <1>1, <2>1, <2>2, <2>3, <2>4 DEF PublishHolds
<1>7. CASE \E p \in Compared(t) :
              /\ r = <<"progress", p>>
              /\ \A o \in Compared(t) : o < p => <<"progress", o>> \in HeldBy(t)
  <2>1. HeldEvents(t)' = HeldEvents(t)
    BY <1>2, <1>3, <1>7
  <2>2. Compared(t)' = Compared(t)
    BY <2>1 DEF Compared, ProblemOf
  <2> QED
    BY <1>1, <1>4, <1>7, <2>2 DEF PublishHolds, RowsIn
<1> QED
  BY <1>5, <1>6, <1>7, PublishWants

LEMMA LockRow_LockOrder ==
  ASSUME StreakInv, NEW t \in Transactions, LockRow(t)
  PROVE  StreakInv'
<1> USE DEF clockVars, ledgerVars, awardVars
<1>1. PICK r \in Wanted(t) : holder[r] = Nobody /\ holder' = [holder EXCEPT ![r] = t]
  BY DEF LockRow
<1>2. /\ Underway(t) /\ UNCHANGED <<today, opening, revealDay, ungraded, events, drains, streakWorld>>
  BY DEF LockRow
<1>3. r \in StreakRows
  BY <1>2, WantedRows
<1>4. HeldBy(t)' = HeldBy(t) \cup {r} /\ \A u \in Transactions \ {t} : HeldBy(u)' = HeldBy(u)
  BY <1>1, <1>3, NobodyElse DEF HeldBy, StreakInv, StreakShape
<1>5. \A u : Underway(u)' = Underway(u)
  BY <1>2 DEF Underway
<1>6. StreakShape'
  BY <1>1, <1>2, <1>3 DEF StreakInv, StreakShape, EventAt
<1>7. EventOrder'
  BY <1>2 DEF StreakInv, EventOrder, Events, Pending
<1>8. \A u \in Transactions : ~Underway(u)' => HeldBy(u)' = {}
  BY <1>2, <1>4, <1>5 DEF StreakInv, LockOrder
<1>9. ASSUME NEW s \in StreakSubs PROVE GradeHolds(s)'
  <2>1. GradeHolds(s) /\ Grade(s) \in Transactions /\ ProblemOf(s)' = ProblemOf(s)
    BY <1>2 DEF StreakInv, LockOrder, Transactions, ProblemOf
  <2>2. CASE t = Grade(s)
    BY <1>4, <2>1, <2>2, GradeWants DEF GradeHolds, Chain
  <2>3. CASE t # Grade(s)
    BY <1>4, <2>1, <2>3 DEF GradeHolds, Chain
  <2> QED
    BY <2>2, <2>3
<1>10. PublishHolds(Reveal)'
  <2>1. PublishHolds(Reveal) /\ Reveal \in Transactions
    BY DEF StreakInv, LockOrder, Transactions
  <2> QED
    BY <1>2, <1>4, <2>1, SamePublish, PublishLocksNext
<1>11. ASSUME NEW w \in StreakWorkers, drains[w].step = "publish" PROVE PublishHolds(Drain(w))'
  <2>1. PublishHolds(Drain(w)) /\ Drain(w) \in Transactions
    BY <1>11 DEF StreakInv, LockOrder, Transactions
  <2> QED
    BY <1>2, <1>4, <1>11, <2>1, SamePublish, PublishLocksNext
<1>12. ASSUME NEW w \in StreakWorkers, drains[w].step = "award" PROVE AwardHolds(w)'
  <2>1. AwardHolds(w) /\ Drain(w) \in Transactions
    BY <1>12 DEF StreakInv, LockOrder, Transactions
  <2>2. EventAt(w)' = EventAt(w) /\ ProblemOf(EventAt(w))' = ProblemOf(EventAt(w))
    BY <1>2 DEF EventAt, ProblemOf
  <2>3. CASE t = Drain(w)
    BY <1>4, <1>12, <2>1, <2>2, <2>3, AwardWants DEF AwardHolds, Chain
  <2>4. CASE t # Drain(w)
    BY <1>4, <2>1, <2>2, <2>4 DEF AwardHolds, Chain
  <2> QED
    BY <2>3, <2>4
<1>13. LockOrder'
  BY <1>2, <1>8, <1>9, <1>10, <1>11, <1>12 DEF LockOrder
<1> QED
  BY <1>6, <1>7, <1>13 DEF StreakInv

-----------------------------------------------------------------------------
(* A transaction ends.                                                         *)
\* A transaction t0 that ends, or a step of none, changes no event that somebody else
\* holds and adds events after all others.
LEMMA Release ==
  ASSUME StreakInv, NEW t0, StreakShape',
         t0 \in Transactions => HeldBy(t0)' = {},
         \A t \in Transactions \ {t0} : HeldBy(t)' = HeldBy(t) /\ (Underway(t) => Underway(t)'),
         streakWorld' = streakWorld,
         \A w \in StreakWorkers : Drain(w) # t0 => drains'[w] = drains[w],
         \A s \in Events : <<"event", s>> \notin HeldBy(t0) => events'[s] = events[s],
         \A s \in Events : events'[s].id = events[s].id /\ (events'[s].pending => events[s].pending),
         \A s \in Pending' \ Events : \A e \in Events : events[e].id < events'[s].id
  PROVE  LockOrder'
<1>1. ASSUME NEW t \in Transactions, ~Underway(t)' PROVE HeldBy(t)' = {}
  <2>1. CASE t = t0
    BY <2>1
  <2>2. CASE t # t0
    BY <1>1, <2>2 DEF StreakInv, LockOrder
  <2> QED
    BY <2>1, <2>2
<1>2. ASSUME NEW s \in StreakSubs PROVE GradeHolds(s)'
  <2>1. GradeHolds(s) /\ Grade(s) \in Transactions /\ ProblemOf(s)' = ProblemOf(s)
    BY DEF StreakInv, LockOrder, Transactions, ProblemOf
  <2>2. HeldBy(Grade(s))' = {} \/ HeldBy(Grade(s))' = HeldBy(Grade(s))
    BY <2>1
  <2> QED
    BY <2>1, <2>2 DEF GradeHolds, Chain
<1>3. ASSUME NEW t \in Transactions, t # t0 => PublishHolds(t)
      PROVE  PublishHolds(t)'
  <2>1. CASE t = t0
    BY <2>1 DEF PublishHolds
  <2>2. CASE t # t0
    <3>1. HeldBy(t)' = HeldBy(t) /\ PublishHolds(t)
      BY <1>3, <2>2
    <3>2. Pending \subseteq Events /\ Events \subseteq StreakSubs
      BY DEF StreakInv, EventOrder, Events
    <3>3. \A s : <<"event", s>> \in HeldBy(t) => s \in Waiting
      BY <3>1 DEF PublishHolds, RowsIn
    <3>4. \A s : <<"event", s>> \in HeldBy(t) => events'[s] = events[s]
      BY <2>2, <3>2, <3>3 DEF Waiting, HeldBy
    <3>5. HeldEvents(t)' = HeldEvents(t) /\ \A s \in HeldEvents(t) : events'[s] = events[s]
      BY <3>1, <3>4, HeldEventRows
    <3>6. Compared(t)' = Compared(t)
      BY <3>5 DEF Compared, ProblemOf
    <3>7. Shown(t)' = Shown(t) /\ Offline' = Offline
      BY DEF Shown, Offline, KindOf
    <3>8. \A s : <<"event", s>> \in HeldBy(t) => s \in Waiting'
      BY <3>3, <3>4, <3>7 DEF Waiting, Pending
    <3>9. HeldBy(t)' \subseteq RowsIn("submission", Shown(t)') \cup RowsIn("event", Waiting')
                                 \cup RowsIn("progress", Compared(t)')
      BY <3>1, <3>6, <3>7, <3>8 DEF PublishHolds, RowsIn
    <3>10. ASSUME NEW s \in Waiting', NEW e \in Waiting', <<"event", s>> \in HeldBy(t)',
                  events'[e].id < events'[s].id
           PROVE  <<"event", e>> \in HeldBy(t)'
      <4>1. s \in Waiting /\ s \in Events
        BY <3>1, <3>2, <3>3, <3>10 DEF Waiting
      <4>2. CASE e \in Events
        <5>1. e \in Waiting
          BY <3>7, <4>2 DEF Waiting, Pending, Events
        <5>2. events[e].id < events[s].id
          BY <3>10, <4>1, <4>2
        <5> QED
          BY <3>1, <3>10, <4>1, <5>1, <5>2 DEF PublishHolds
      <4>3. CASE e \notin Events
        <5>1. e \in Pending'
          BY DEF Waiting
        <5>2. events[s].id < events'[e].id /\ events[s].id = events'[s].id
          BY <4>1, <4>3, <5>1
        <5>3. events[s].id \in Nat /\ events'[e].id \in Nat
          BY <3>2, <4>1, <5>1 DEF StreakInv, StreakShape, Pending
        <5>4. FALSE
          BY <3>10, <5>2, <5>3
        <5> QED
          BY <5>4
      <4> QED
        BY <4>2, <4>3
    <3> QED
      BY <3>1, <3>6, <3>7, <3>9, <3>10 DEF PublishHolds
  <2> QED
    BY <2>1, <2>2
<1>4. PublishHolds(Reveal)'
  BY <1>3 DEF StreakInv, LockOrder, Transactions
<1>5. ASSUME NEW w \in StreakWorkers, drains'[w].step = "publish" PROVE PublishHolds(Drain(w))'
  <2>1. Drain(w) \in Transactions
    BY DEF Transactions
  <2> QED
    BY <1>3, <1>5, <2>1 DEF StreakInv, LockOrder
<1>6. ASSUME NEW w \in StreakWorkers, drains'[w].step = "award" PROVE AwardHolds(w)'
  <2>1. Drain(w) \in Transactions
    BY DEF Transactions
  <2>2. CASE Drain(w) = t0
    BY <2>1, <2>2 DEF AwardHolds, Chain
  <2>3. CASE Drain(w) # t0
    <3>1. drains'[w] = drains[w] /\ HeldBy(Drain(w))' = HeldBy(Drain(w)) /\ AwardHolds(w)
      BY <1>6, <2>1, <2>3 DEF StreakInv, LockOrder
    <3>2. EventAt(w)' = EventAt(w) /\ ProblemOf(EventAt(w))' = ProblemOf(EventAt(w))
      BY <3>1 DEF EventAt, ProblemOf
    <3> QED
      BY <3>1, <3>2 DEF AwardHolds, Chain
  <2> QED
    BY <2>2, <2>3
<1> QED
  BY <1>1, <1>2, <1>4, <1>5, <1>6 DEF LockOrder

\* The same, when no event is added.
LEMMA Ends ==
  ASSUME StreakInv, NEW t0, StreakShape',
         t0 \in Transactions => HeldBy(t0)' = {},
         \A t \in Transactions \ {t0} : HeldBy(t)' = HeldBy(t) /\ (Underway(t) => Underway(t)'),
         streakWorld' = streakWorld, ungraded' \subseteq ungraded,
         \A w \in StreakWorkers : Drain(w) # t0 => drains'[w] = drains[w],
         \A s \in StreakSubs : <<"event", s>> \notin HeldBy(t0) => events'[s] = events[s],
         \A s \in StreakSubs : events'[s].id = events[s].id /\ (events'[s].pending => events[s].pending)
  PROVE  StreakInv'
<1>1. Events' = Events /\ Pending' \subseteq Pending /\ Pending' \subseteq Events
  BY DEF StreakInv, EventOrder, Events, Pending
<1>2. EventOrder'
  <2>1. \A s \in Events : s \in StreakSubs /\ events'[s].id = events[s].id
    BY DEF Events
  <2> QED
    BY <1>1, <2>1 DEF StreakInv, EventOrder
<1>3. LockOrder'
  <2>1. \A s \in Events : s \in StreakSubs
    BY DEF Events
  <2> QED
    BY <1>1, <2>1, Release
<1> QED
  BY <1>2, <1>3 DEF StreakInv

\* t holds nothing any more, and everybody else what it held.
LetsGo(t) ==
  /\ HeldBy(t)' = {}
  /\ \A u \in Transactions \ {t} : HeldBy(u)' = HeldBy(u)
  /\ holder' \in [StreakRows -> Transactions \cup {Nobody}]
LEMMA Unlocks ==
  ASSUME StreakInv, NEW t0 \in Transactions, Unlock(t0)
  PROVE  LetsGo(t0)
<1>1. holder \in [StreakRows -> Transactions \cup {Nobody}]
  BY DEF StreakInv, StreakShape
<1>2. \A r \in StreakRows : holder'[r] = IF holder[r] = t0 THEN Nobody ELSE holder[r]
  BY DEF Unlock
<1>3. holder' \in [StreakRows -> Transactions \cup {Nobody}]
  BY <1>1 DEF Unlock
<1> QED
  BY <1>2, <1>3, NobodyElse DEF HeldBy, LetsGo

LEMMA Names ==
  /\ \A s \in StreakSubs : Grade(s) \in Transactions
  /\ Reveal \in Transactions
  /\ \A w \in StreakWorkers : Drain(w) \in Transactions
  /\ \A s, e : Grade(s) = Grade(e) => s = e
  /\ \A v, w : Drain(v) = Drain(w) => v = w
  /\ \A s, w : Grade(s) # Drain(w) /\ Grade(s) # Reveal /\ Drain(w) # Reveal
BY DEF Transactions, Grade, Reveal, Drain

\* A transaction of somebody else stays underway.
LEMMA StillUnderway ==
  ASSUME StreakInv, NEW t \in Transactions, Underway(t), streakWorld' = streakWorld,
         today' \in {today, today + 1},
         \A s \in ungraded \ ungraded' : t # Grade(s),
         t = Reveal => opening' = opening /\ revealDay' = revealDay,
         \A w \in StreakWorkers : t = Drain(w) => drains'[w] = drains[w]
  PROVE  Underway(t)'
<1>1. CASE \E s \in StreakSubs : t = Grade(s)
  <2>1. PICK s \in StreakSubs : t = Grade(s)
    BY <1>1
  <2>2. s \in ungraded /\ streakWorld.day[s] <= today
    BY <2>1 DEF Underway, Grade, Reveal
  <2>3. today \in Nat /\ streakWorld.day[s] \in Nat
    BY StreakAssumption DEF StreakInv, StreakShape
  <2>4. s \in ungraded' /\ streakWorld'.day[s] <= today'
    BY <2>1, <2>2, <2>3
  <2> QED
    BY <2>1, <2>4 DEF Underway, Grade, Reveal
<1>2. CASE t = Reveal
  BY <1>2 DEF Underway, Reveal
<1>3. CASE \E w \in StreakWorkers : t = Drain(w)
  BY <1>3 DEF Underway, Drain, Reveal
<1> QED
  BY <1>1, <1>2, <1>3, Kinds

LEMMA EndsWithoutEvent_StreakInv ==
  ASSUME StreakInv, NEW s \in StreakSubs, EndsWithoutEvent(s)
  PROVE  StreakInv'
<1> USE DEF clockVars, ledgerVars, awardVars
<1>1. /\ Unlock(Grade(s)) /\ ungraded' = ungraded \ {s}
      /\ UNCHANGED <<today, opening, revealDay, events, drains, streakWorld>>
  BY DEF EndsWithoutEvent
<1>2. StreakShape'
  BY <1>1, Unlocks, Names DEF StreakInv, StreakShape, EventAt, LetsGo
<1>3. \A t \in Transactions \ {Grade(s)} : Underway(t) => Underway(t)'
  BY <1>1, StillUnderway
<1> QED
  BY <1>1, <1>2, <1>3, Unlocks, Names, Ends DEF LetsGo

LEMMA Nobody_StreakInv ==
  ASSUME StreakInv, UNCHANGED <<ungraded, events, drains, holder, streakWorld>>,
         today' \in {today, today + 1}, (opening' = opening /\ revealDay' = revealDay) \/ ~Underway(Reveal)
  PROVE  StreakInv'
<1>1. StreakShape'
  BY DEF StreakInv, StreakShape, EventAt
<1>2. \A t \in Transactions : HeldBy(t)' = HeldBy(t) /\ (Underway(t) => Underway(t)')
  BY StillUnderway DEF HeldBy
<1> QED
  BY <1>1, <1>2, NobodyElse, Ends

-----------------------------------------------------------------------------
(* The transactions that write the ledger.                                     *)
\* A settled event is the same row, and one that was pending.
LEMMA Settled ==
  ASSUME StreakInv, NEW t, NEW d, PublishEvents(t, d)
  PROVE  /\ events' = [s \in StreakSubs |-> events'[s]]
         /\ \A s \in StreakSubs :
              /\ DOMAIN events'[s] = Fields /\ events'[s].id = events[s].id
              /\ events'[s].pending => events[s].pending
              /\ <<"event", s>> \notin HeldBy(t) => events'[s] = events[s]
<1> DEFINE S == ToSettle(t)
<1>1. events' = [s \in StreakSubs |-> IF s \in S THEN SettledEvent(s, S, d) ELSE events[s]]
  BY DEF PublishEvents
<1>2. \A s \in S : s \in StreakSubs /\ events[s].pending /\ <<"event", s>> \in HeldBy(t)
  BY HeldEventRows DEF ToSettle
<1>3. \A s \in StreakSubs : DOMAIN events[s] = Fields
  BY DEF StreakInv, StreakShape
<1> HIDE DEF S
<1>4. ASSUME NEW s \in StreakSubs
      PROVE  DOMAIN SettledEvent(s, S, d) = Fields /\ SettledEvent(s, S, d).id = events[s].id
  <2>1. ASSUME NEW e, NEW a, NEW b, NEW f, DOMAIN f = Fields
        PROVE  /\ DOMAIN [f EXCEPT !.previous = a, !.points = b, !.applied = TRUE] = Fields
               /\ [f EXCEPT !.previous = a, !.points = b, !.applied = TRUE].id = f.id
               /\ DOMAIN [f EXCEPT !.day = d, !.released = TRUE, !.pending = e] = Fields
               /\ [f EXCEPT !.day = d, !.released = TRUE, !.pending = e].id = f.id
    BY <2>1 DEF Fields
  <2>2. DOMAIN events[s] = Fields
    BY <1>3
  <2> QED
    BY <2>1, <2>2 DEF SettledEvent
<1> QED
  BY <1>1, <1>2, <1>3, <1>4

LEMMA RevealEnds_StreakInv ==
  ASSUME StreakInv, RevealEnds
  PROVE  StreakInv'
<1> USE DEF clockVars, ledgerVars, awardVars
<1>1. /\ Unlock(Reveal) /\ PublishEvents(Reveal, opening)
      /\ UNCHANGED <<today, ungraded, drains, streakWorld>>
  BY DEF RevealEnds
<1>2. StreakShape'
  BY <1>1, Settled, Unlocks, Names DEF StreakInv, StreakShape, EventAt, LetsGo
<1>3. \A t \in Transactions \ {Reveal} : Underway(t) => Underway(t)'
  BY <1>1, StillUnderway
<1> QED
  BY <1>1, <1>2, <1>3, Settled, Unlocks, Names, Ends DEF LetsGo

\* A step of a worker after which it holds nothing.
LEMMA DrainEnds ==
  ASSUME StreakInv, NEW w \in StreakWorkers,
         LetsGo(Drain(w)),
         UNCHANGED <<clockVars, ungraded, streakWorld>>,
         \A v \in StreakWorkers \ {w} : drains'[v] = drains[v],
         drains' = [v \in StreakWorkers |-> [ids |-> drains'[v].ids, step |-> drains'[v].step]],
         drains'[w].step \in {"read", "publish", "award"},
         drains'[w].step # "read" => drains'[w].ids # <<>> /\ EventAt(w)' \in StreakSubs,
         events' = [s \in StreakSubs |-> events'[s]],
         \A s \in StreakSubs :
           /\ DOMAIN events'[s] = Fields /\ events'[s].id = events[s].id
           /\ events'[s].pending => events[s].pending
           /\ <<"event", s>> \notin HeldBy(Drain(w)) => events'[s] = events[s]
  PROVE  StreakInv'
<1> USE DEF clockVars
<1>4. ASSUME NEW v \in StreakWorkers
      PROVE  /\ drains'[v].step \in {"read", "publish", "award"}
             /\ drains'[v].step # "read" => drains'[v].ids # <<>> /\ EventAt(v)' \in StreakSubs
  BY DEF StreakInv, StreakShape, EventAt
<1>5. StreakShape'
  BY <1>4 DEF StreakInv, StreakShape, LetsGo
<1>6. \A t \in Transactions \ {Drain(w)} : Underway(t) => Underway(t)'
  BY StillUnderway
<1>7. \A v \in StreakWorkers : Drain(v) # Drain(w) => drains'[v] = drains[v]
  OBVIOUS
<1> QED
  BY <1>5, <1>6, <1>7, Ends DEF LetsGo

LEMMA ReaderHoldsNothing ==
  ASSUME StreakInv, NEW w \in StreakWorkers, drains[w].step = "read", UNCHANGED holder
  PROVE  LetsGo(Drain(w))
<1>1. ~Underway(Drain(w))
  BY DEF Underway, Drain, Reveal
<1>2. HeldBy(Drain(w)) = {}
  BY <1>1, Names DEF StreakInv, LockOrder
<1> QED
  BY <1>2 DEF HeldBy, StreakInv, StreakShape, LetsGo

LEMMA SameEvents ==
  ASSUME StreakInv, events' = events
  PROVE  /\ events' = [s \in StreakSubs |-> events'[s]]
         /\ \A s \in StreakSubs :
              /\ DOMAIN events'[s] = Fields /\ events'[s].id = events[s].id
              /\ events'[s].pending => events[s].pending
              /\ events'[s] = events[s]
BY DEF StreakInv, StreakShape

\* A worker goes on with the events ids in the given step.
Goes(w, ids, step) ==
  /\ \A v \in StreakWorkers \ {w} : drains'[v] = drains[v]
  /\ drains' = [v \in StreakWorkers |-> [ids |-> drains'[v].ids, step |-> drains'[v].step]]
  /\ drains'[w].ids = ids /\ drains'[w].step = step

LEMMA DrainUpdate ==
  ASSUME StreakInv, NEW w \in StreakWorkers, NEW ids, NEW step,
         drains' = [drains EXCEPT ![w] = [ids |-> ids, step |-> step]]
  PROVE  Goes(w, ids, step)
<1>1. drains = [v \in StreakWorkers |-> [ids |-> drains[v].ids, step |-> drains[v].step]]
  BY DEF StreakInv, StreakShape
<1>2. drains' = [v \in StreakWorkers |-> IF v = w THEN [ids |-> ids, step |-> step] ELSE drains[v]]
  BY <1>1
<1>3. drains'[w] = [ids |-> ids, step |-> step] /\ \A v \in StreakWorkers \ {w} : drains'[v] = drains[v]
  BY <1>2
<1>4. \A v \in StreakWorkers : drains'[v] = [ids |-> drains'[v].ids, step |-> drains'[v].step]
  <2>1. drains'[w] = [ids |-> drains'[w].ids, step |-> drains'[w].step]
    BY <1>3
  <2>2. ASSUME NEW v \in StreakWorkers \ {w}
        PROVE  drains'[v] = [ids |-> drains'[v].ids, step |-> drains'[v].step]
    <3>1. drains[v] = [ids |-> drains[v].ids, step |-> drains[v].step]
      BY <1>1
    <3> QED
      BY <1>3, <3>1
  <2> QED
    BY <2>1, <2>2
<1>5. drains' = [v \in StreakWorkers |-> drains'[v]]
  BY <1>2
<1>6. drains' = [v \in StreakWorkers |-> [ids |-> drains'[v].ids, step |-> drains'[v].step]]
  BY <1>4, <1>5
<1> QED
  BY <1>3, <1>6 DEF Goes

LEMMA DrainForms ==
  ASSUME StreakInv, NEW w \in StreakWorkers, NEW ids, NEW step
  PROVE  /\ drains' = [drains EXCEPT ![w].ids = ids] => Goes(w, ids, drains[w].step)
         /\ drains' = [drains EXCEPT ![w].step = step] => Goes(w, drains[w].ids, step)
         /\ drains' = [drains EXCEPT ![w] = [ids |-> ids, step |-> "read"]] => Goes(w, ids, "read")
<1>1. drains[w] = [ids |-> drains[w].ids, step |-> drains[w].step]
  BY DEF StreakInv, StreakShape
<1>2. ASSUME drains' = [drains EXCEPT ![w].ids = ids]
      PROVE  Goes(w, ids, drains[w].step)
  <2>1. drains' = [drains EXCEPT ![w] = [drains[w] EXCEPT !.ids = ids]]
    BY <1>2
  <2>2. [drains[w] EXCEPT !.ids = ids] = [ids |-> ids, step |-> drains[w].step]
    BY <1>1
  <2> QED
    BY <2>1, <2>2, DrainUpdate
<1>3. ASSUME drains' = [drains EXCEPT ![w].step = step]
      PROVE  Goes(w, drains[w].ids, step)
  <2>1. drains' = [drains EXCEPT ![w] = [drains[w] EXCEPT !.step = step]]
    BY <1>3
  <2>2. [drains[w] EXCEPT !.step = step] = [ids |-> drains[w].ids, step |-> step]
    BY <1>1
  <2> QED
    BY <2>1, <2>2, DrainUpdate
<1>4. drains' = [drains EXCEPT ![w] = [ids |-> ids, step |-> "read"]] => Goes(w, ids, "read")
  BY DrainUpdate
<1> QED
  BY <1>2, <1>3, <1>4

LEMMA NextForm ==
  ASSUME StreakInv, NEW w \in StreakWorkers, NextEvent(w)
  PROVE  Goes(w, drains'[w].ids, "read")
<1>1. PICK ids : drains' = [drains EXCEPT ![w] = [ids |-> ids, step |-> "read"]]
  BY DEF NextEvent
<1>2. Goes(w, ids, "read")
  BY <1>1, DrainForms
<1> QED
  BY <1>2 DEF Goes

LEMMA Drains_StreakInv ==
  ASSUME StreakInv, NEW w \in StreakWorkers, DrainReads(w) \/ ReadEvent(w) \/ DrainPublishes(w) \/ DrainFails(w)
  PROVE  StreakInv'
<1> USE DEF ledgerVars
<1>1. CASE DrainReads(w)
  <2>1. /\ UNCHANGED <<clockVars, ungraded, streakWorld, events, holder>>
        /\ drains[w].ids = <<>>
    BY <1>1 DEF DrainReads
  <2>2. drains[w].step = "read"
    BY <2>1 DEF StreakInv, StreakShape
  <2>3. PICK ids : drains' = [drains EXCEPT ![w].ids = ids]
    BY <1>1 DEF DrainReads
  <2>4. Goes(w, ids, "read")
    BY <2>2, <2>3, DrainForms
  <2> QED
    BY <2>1, <2>2, <2>4, ReaderHoldsNothing, SameEvents, DrainEnds DEF Goes
<1>2. CASE ReadEvent(w)
  <2>1. /\ UNCHANGED <<clockVars, ungraded, streakWorld, events, holder>>
        /\ drains[w].ids # <<>> /\ drains[w].step = "read"
    BY <1>2 DEF ReadEvent
  <2>2. CASE EventAt(w) \notin Pending
    <3>1. NextEvent(w)
      BY <1>2, <2>2 DEF ReadEvent
    <3>2. Goes(w, drains'[w].ids, "read")
      BY <3>1, NextForm
    <3> QED
      BY <2>1, <3>2, ReaderHoldsNothing, SameEvents, DrainEnds DEF Goes
  <2>3. CASE EventAt(w) \in Pending
    <3>1. PICK step \in {"publish", "award"} : drains' = [drains EXCEPT ![w].step = step]
      BY <1>2, <2>3 DEF ReadEvent
    <3>2. Goes(w, drains[w].ids, step)
      BY <3>1, DrainForms
    <3>3. EventAt(w)' = EventAt(w) /\ EventAt(w) \in StreakSubs
      BY <2>3, <3>2 DEF EventAt, Pending, Goes
    <3> QED
      BY <2>1, <3>2, <3>3, ReaderHoldsNothing, SameEvents, DrainEnds DEF Goes
  <2> QED
    BY <2>2, <2>3
<1>3. CASE DrainPublishes(w)
  <2>1. /\ UNCHANGED <<clockVars, ungraded, streakWorld>> /\ Unlock(Drain(w))
        /\ PublishEvents(Drain(w), revealDay) /\ drains[w].step = "publish"
        /\ drains' = [drains EXCEPT ![w].step = "award"]
    BY <1>3 DEF DrainPublishes
  <2>2. Goes(w, drains[w].ids, "award")
    BY <2>1, DrainForms
  <2>3. drains[w].ids # <<>> /\ EventAt(w) \in StreakSubs /\ EventAt(w)' = EventAt(w)
    BY <2>1, <2>2 DEF StreakInv, StreakShape, EventAt, Goes
  <2> QED
    BY <2>1, <2>2, <2>3, Unlocks, Names, Settled, DrainEnds DEF Goes
<1>4. CASE DrainFails(w)
  <2>1. UNCHANGED <<clockVars, ungraded, streakWorld, events>> /\ Unlock(Drain(w))
    BY <1>4 DEF DrainFails
  <2>2. \E ids : Goes(w, ids, "read")
    BY <1>4, NextForm, DrainForms DEF DrainFails
  <2> QED
    BY <2>1, <2>2, Unlocks, Names, SameEvents, DrainEnds DEF Goes
<1> QED
  BY <1>1, <1>2, <1>3, <1>4

\* A worker that has all locks has that of its event.
LEMMA AwardHasEvent ==
  ASSUME StreakInv, NEW w \in StreakWorkers, drains[w].step = "award", Wanted(Drain(w)) = {}
  PROVE  <<"event", EventAt(w)>> \in HeldBy(Drain(w))
<1> DEFINE a == <<"summary", 0>>
           b == <<"event", EventAt(w)>>
           c == <<"progress", ProblemOf(EventAt(w))>>
           C == AwardLocks(EventAt(w))[3]
           all == Statements(Drain(w))
           held == HeldBy(Drain(w))
           open == {i \in DOMAIN all :
                      ~(all[i] \subseteq held) /\ \A j \in DOMAIN all : j > i => all[j] \cap held = {}}
           first == {k \in open : \A j \in open : k <= j}
<1>1. all = AwardLocks(EventAt(w))
  BY DEF Statements, Drain, Reveal
<1>2. AwardLocks(EventAt(w)) = <<{a}, {b}, C>> /\ C \in {{c}, {}}
  BY DEF AwardLocks, RowsIn
<1>3. DOMAIN all = 1..3 /\ all[1] = {a} /\ all[2] = {b} /\ all[3] = C
  BY <1>1, <1>2
<1>4. held \subseteq {a, b, c} /\ (b \in held => a \in held) /\ (c \in held => b \in held)
  BY DEF StreakInv, LockOrder, AwardHolds, Chain
<1>5. Unlocked(all, held) = UNION {all[i] \ held : i \in first}
  BY DEF Unlocked
<1>6. KeyOf(a) \in Nat /\ KeyOf(b) \in Nat
  BY KeyTyped DEF StreakInv, StreakShape, StreakRows, RowsIn
<1>7. Wanted(Drain(w)) = {r \in Unlocked(all, held) : \A q \in Unlocked(all, held) : KeyOf(r) <= KeyOf(q)}
  BY DEF Wanted
<1> SUFFICES ASSUME b \notin held PROVE FALSE
  OBVIOUS
<1> HIDE DEF a, b, c, C, all, held
<1>8. \A j \in 1..3 : j > 1 => all[j] \cap held = {}
  BY <1>2, <1>3, <1>4
<1>9. PICK x \in {a, b}, i \in {1, 2} : all[i] = {x} /\ x \notin held /\ first = {i}
  <2>1. CASE a \notin held
    <3>1. 1 \in open /\ open \subseteq 1..3
      BY <1>3, <1>8, <2>1
    <3>2. first = {1}
      BY <3>1
    <3> QED
      BY <1>3, <2>1, <3>2
  <2>2. CASE a \in held
    <3>1. 2 \in open /\ 1 \notin open /\ open \subseteq 1..3
      BY <1>3, <1>8, <2>2
    <3>2. first = {2}
      BY <3>1
    <3> QED
      BY <1>3, <3>2
  <2> QED
    BY <2>1, <2>2
<1>10. Unlocked(all, held) = {x}
  BY <1>5, <1>9
<1>11. KeyOf(x) \in Nat
  BY <1>6, <1>9
<1> QED
  BY <1>7, <1>10, <1>11

LEMMA Award_StreakInv ==
  ASSUME StreakInv, NEW w \in StreakWorkers, AwardSkips(w) \/ AwardWaits(w) \/ AwardDecides(w)
  PROVE  StreakInv'
<1>1. AwardStep(w)
  BY DEF AwardSkips, AwardWaits, AwardDecides
<1>2. /\ drains[w].step = "award" /\ Wanted(Drain(w)) = {}
      /\ NextEvent(w) /\ Unlock(Drain(w)) /\ UNCHANGED <<clockVars, ungraded, streakWorld>>
  BY <1>1 DEF AwardStep, HasLocks
<1>3. Goes(w, drains'[w].ids, "read")
  BY <1>2, NextForm
<1>4. CASE AwardSkips(w) \/ AwardWaits(w)
  <2>1. events' = events
    BY <1>4 DEF AwardSkips, AwardWaits, ledgerVars
  <2> QED
    BY <1>2, <1>3, <2>1, Unlocks, Names, SameEvents, DrainEnds DEF Goes
<1>5. CASE AwardDecides(w)
  <2> DEFINE s == EventAt(w)
  <2>1. s \in StreakSubs /\ <<"event", s>> \in HeldBy(Drain(w))
    BY <1>2, AwardHasEvent DEF StreakInv, StreakShape
  <2>2. ~TooEarly(w)
    BY <1>5 DEF AwardDecides
  <2>3. events[s].pending
    BY <2>2 DEF TooEarly
  <2>4. DOMAIN events[s] = Fields
    BY <2>1 DEF StreakInv, StreakShape
  <2>5. ASSUME NEW a, NEW b
        PROVE  [events[s] EXCEPT !.previous = a, !.points = b, !.applied = TRUE] \in
                 {row \in {[events[s] EXCEPT !.previous = a, !.points = b, !.applied = TRUE]} :
                    DOMAIN row = Fields /\ row.id = events[s].id}
    BY <2>4 DEF Fields
  <2>6. PICK new : /\ DOMAIN new = Fields /\ new.id = events[s].id
                   /\ events' = [events EXCEPT ![s] = [new EXCEPT !.pending = FALSE]]
    BY <1>5, <2>4, <2>5 DEF AwardDecides
  <2>7. DOMAIN [new EXCEPT !.pending = FALSE] = Fields /\ [new EXCEPT !.pending = FALSE].id = events[s].id
    BY <2>6 DEF Fields
  <2>8. /\ events' = [e \in StreakSubs |-> events'[e]]
        /\ events'[s] = [new EXCEPT !.pending = FALSE]
        /\ \A e \in StreakSubs \ {s} : events'[e] = events[e]
    BY <2>1, <2>6 DEF StreakInv, StreakShape
  <2>9. \A e \in StreakSubs :
          /\ DOMAIN events'[e] = Fields /\ events'[e].id = events[e].id
          /\ events'[e].pending => events[e].pending
          /\ <<"event", e>> \notin HeldBy(Drain(w)) => events'[e] = events[e]
    BY <2>1, <2>3, <2>7, <2>8 DEF StreakInv, StreakShape
  <2> HIDE DEF s
  <2> QED
    BY <1>2, <1>3, <2>8, <2>9, Unlocks, Names, DrainEnds DEF Goes
<1> QED
  BY <1>4, <1>5

LEMMA RecordCompletion_StreakInv ==
  ASSUME StreakInv, NEW s \in StreakSubs, RecordCompletion(s)
  PROVE  StreakInv'
<1> USE DEF clockVars, awardVars
<1>1. /\ Unlock(Grade(s)) /\ ungraded' = ungraded \ {s} /\ Underway(Grade(s))
      /\ UNCHANGED <<today, opening, revealDay, drains, streakWorld>>
  BY DEF RecordCompletion, HasLocks
<1>2. s \in ungraded /\ s \notin Events
  BY <1>1 DEF Underway, Grade, Reveal, StreakInv, EventOrder
<1>3. Events \subseteq StreakSubs /\ IsFiniteSet(Events)
  BY FS_Subset, StreakAssumption DEF Events
<1>4. Cardinality(Events) \in Nat
  BY <1>3, FS_CardinalityType
<1>5. PICK row : /\ events' = [events EXCEPT ![s] = row]
                 /\ row.id = Cardinality(Events) + 1 /\ DOMAIN row = Fields
  <2> DEFINE after(result) == Improved(ProblemOf(s), {s}, [e \in {s} |-> result])
             Row(result) ==
               [id |-> Cardinality(Events) + 1, day |-> DayOf(s), previous |-> Total(best[ProblemOf(s)]),
                points |-> Total(after(result)), result |-> result, applied |-> AppliesNow(s),
                released |-> KindOf(s) = "offline" /\ revealDay # 0,
                pending |-> Total(after(result)) > Total(best[ProblemOf(s)]) \/ ~AppliesNow(s)]
  <2>1. PICK result \in ResultsOf(ProblemOf(s)) : events' = [events EXCEPT ![s] = Row(result)]
    BY DEF RecordCompletion
  <2> DEFINE row == Row(result)
  <2>2. row.id = Cardinality(Events) + 1 /\ DOMAIN row = Fields
    BY DEF Fields
  <2>3. events' = [events EXCEPT ![s] = row]
    BY <2>1
  <2> HIDE DEF row
  <2> QED
    BY <2>2, <2>3
<1>6. /\ events' = [e \in StreakSubs |-> events'[e]] /\ events'[s] = row
      /\ \A e \in StreakSubs \ {s} : events'[e] = events[e]
  BY <1>5 DEF StreakInv, StreakShape
<1>7. Events' = Events \cup {s} /\ \A e \in Events : events'[e] = events[e]
  BY <1>2, <1>4, <1>5, <1>6 DEF Events
<1>8. Cardinality(Events)' = Cardinality(Events) + 1
  BY <1>2, <1>3, <1>7, FS_AddElement
<1>9. \A e \in Events : events[e].id \in Nat /\ events[e].id <= Cardinality(Events)
  BY <1>3 DEF StreakInv, StreakShape, EventOrder
<1>10. EventOrder'
  <2>1. \A e \in Events' : events'[e].id <= Cardinality(Events)'
    BY <1>4, <1>5, <1>6, <1>7, <1>8, <1>9
  <2>2. \A e, f \in Events' : events'[e].id = events'[f].id => e = f
    BY <1>4, <1>5, <1>6, <1>7, <1>9 DEF StreakInv, EventOrder
  <2>3. Pending' \subseteq Events'
    BY <1>6, <1>7 DEF Pending, StreakInv, EventOrder
  <2>4. ungraded' \cap Events' = {}
    BY <1>1, <1>7 DEF StreakInv, EventOrder
  <2> QED
    BY <2>1, <2>2, <2>3, <2>4 DEF EventOrder
<1>11. StreakShape'
  <2>1. \A e \in StreakSubs : DOMAIN events'[e] = Fields /\ events'[e].id \in Nat
    BY <1>4, <1>5, <1>6 DEF StreakInv, StreakShape
  <2> QED
    BY <1>1, <1>6, <2>1, Unlocks, Names DEF StreakInv, StreakShape, EventAt, LetsGo
<1>12. \A t \in Transactions \ {Grade(s)} : Underway(t) => Underway(t)'
  BY <1>1, StillUnderway
<1>13. \A e \in Pending' \ Events : \A f \in Events : events[f].id < events'[e].id
  <2>1. \A e \in Pending' \ Events : e = s
    BY <1>6 DEF Pending, StreakInv, EventOrder
  <2> QED
    BY <1>4, <1>5, <1>6, <1>9, <2>1
<1>14. LockOrder'
  BY <1>1, <1>7, <1>11, <1>12, <1>13, Unlocks, Names, Release DEF LetsGo
<1> QED
  BY <1>10, <1>11, <1>14 DEF StreakInv

-----------------------------------------------------------------------------
(* The initial states, and the theorem.                                        *)
\* A sequence of all elements of a set has each of them at one place.
LEMMA PlaceOf ==
  ASSUME NEW S, IsFiniteSet(S), NEW order \in SetToSeqs(S), NEW s \in S
  PROVE  LET i == CHOOSE i \in DOMAIN order : order[i] = s
         IN i \in 1..Cardinality(S) /\ order[i] = s
<1> DEFINE D == 1..Cardinality(S)
<1>1. Cardinality(S) \in Nat
  BY FS_CardinalityType
<1>2. order \in [D -> S] /\ \A i, j \in D : i # j => order[i] # order[j]
  BY DEF SetToSeqs
<1>3. IsFiniteSet(D) /\ Cardinality(D) = Cardinality(S)
  BY <1>1, FS_Interval
<1> HIDE DEF D
<1>4. order \in Injection(D, S)
  BY <1>2 DEF Injection, IsInjective
<1>5. order \in Surjection(D, S)
  BY <1>3, <1>4, FS_Injection
<1>6. \E i \in D : order[i] = s
  BY <1>5 DEF Surjection
<1>7. DOMAIN order = D
  BY <1>2
<1> QED
  BY <1>6, <1>7 DEF D

LEMMA Init_StreakInv == StreakInit => StreakInv
<1> SUFFICES ASSUME StreakInit PROVE StreakInv
  OBVIOUS
<1> DEFINE L == streakWorld.legacy
<1>1. L \subseteq StreakSubs /\ streakWorld \in StreakWorlds /\ streakWorld.subs \subseteq StreakSubs
  BY StreakAssumption DEF StreakInit
<1>2. IsFiniteSet(L) /\ Cardinality(L) \in Nat
  BY <1>1, StreakAssumption, FS_Subset, FS_CardinalityType
<1> HIDE DEF L
<1>3. PICK order \in SetToSeqs(L), points \in 0..SubtaskPoints :
        events = [s \in StreakSubs |->
            IF s \in L
            THEN NewEvent(s, CHOOSE i \in DOMAIN order : order[i] = s, streakWorld.day[s],
                          [g \in Subtasks[ProblemOf(s)] |-> points])
            ELSE NoEvent]
  BY DEF StreakInit, L
<1>4. \A s \in L : /\ events[s].id \in 1..Cardinality(L) /\ order[events[s].id] = s
                   /\ DOMAIN events[s] = Fields
  <2> SUFFICES ASSUME NEW s \in L
               PROVE  /\ events[s].id \in 1..Cardinality(L) /\ order[events[s].id] = s
                      /\ DOMAIN events[s] = Fields
    OBVIOUS
  <2> DEFINE i == CHOOSE i \in DOMAIN order : order[i] = s
  <2>1. i \in 1..Cardinality(L) /\ order[i] = s
    BY <1>2, PlaceOf
  <2> HIDE DEF i
  <2>2. PICK day, result : events[s] = NewEvent(s, i, day, result)
    BY <1>1, <1>3 DEF i
  <2> QED
    BY <2>1, <2>2 DEF NewEvent, Fields
<1>5. \A s \in StreakSubs \ L : events[s] = NoEvent
  BY <1>3
<1>6. NoEvent.id = 0 /\ NoEvent.pending = FALSE /\ DOMAIN NoEvent = Fields
  BY DEF NoEvent, Fields
<1>7. Events = L
  BY <1>1, <1>2, <1>4, <1>5, <1>6 DEF Events
<1>8. \A w \in StreakWorkers : drains[w].step = "read"
  BY DEF StreakInit
<1>9. \A t : HeldBy(t) \subseteq {r \in StreakRows : t = Nobody}
  BY DEF StreakInit, HeldBy
<1>10. \A t \in Transactions : HeldBy(t) = {}
  BY <1>9, NobodyElse
<1>11. StreakShape
  <2>1. \A s \in StreakSubs : DOMAIN events[s] = Fields /\ events[s].id \in Nat
    BY <1>2, <1>4, <1>5, <1>6
  <2>2. today \in Nat /\ ungraded \subseteq StreakSubs
    BY <1>1 DEF StreakInit
  <2>3. events = [s \in StreakSubs |-> events[s]]
    BY <1>3
  <2>4. holder \in [StreakRows -> Transactions \cup {Nobody}]
    BY DEF StreakInit
  <2>5. drains = [w \in StreakWorkers |-> [ids |-> drains[w].ids, step |-> drains[w].step]]
    BY DEF StreakInit
  <2> QED
    BY <1>1, <1>8, <2>1, <2>2, <2>3, <2>4, <2>5 DEF StreakShape
<1>12. EventOrder
  <2>1. \A s \in Events : events[s].id <= Cardinality(Events)
    BY <1>4, <1>7
  <2>2. \A s, e \in Events : events[s].id = events[e].id => s = e
    BY <1>4, <1>7
  <2>3. Pending \subseteq Events
    BY <1>5, <1>6, <1>7 DEF Pending
  <2>4. ungraded \cap Events = {}
    BY <1>7 DEF StreakInit, L
  <2> QED
    BY <2>1, <2>2, <2>3, <2>4 DEF EventOrder
<1>13. LockOrder
  <2>1. \A s \in StreakSubs : GradeHolds(s)
    BY <1>10, Names DEF GradeHolds, Chain
  <2>2. PublishHolds(Reveal)
    BY <1>10, Names DEF PublishHolds
  <2> QED
    BY <1>8, <1>10, <2>1, <2>2 DEF LockOrder
<1> QED
  BY <1>11, <1>12, <1>13 DEF StreakInv

LEMMA Next_StreakInv == StreakInv /\ [StreakNext]_streakVars => StreakInv'
<1> SUFFICES ASSUME StreakInv, [StreakNext]_streakVars PROVE StreakInv'
  OBVIOUS
<1>1. ASSUME NEW s \in StreakSubs, LockRow(Grade(s)) \/ EndsWithoutEvent(s) \/ RecordCompletion(s)
      PROVE  StreakInv'
  BY <1>1, Names, LockRow_LockOrder, EndsWithoutEvent_StreakInv, RecordCompletion_StreakInv
<1>2. CASE RevealBegins
  <2>1. ~Underway(Reveal)
    BY <1>2 DEF RevealBegins, Underway, Reveal
  <2> QED
    BY <1>2, <2>1, Nobody_StreakInv DEF RevealBegins, ledgerVars
<1>3. CASE RevealStep
  BY <1>3, Names, LockRow_LockOrder, RevealEnds_StreakInv DEF RevealStep
<1>4. ASSUME NEW w \in streakWorld.workers, DrainStep(w) \/ DrainFails(w) PROVE StreakInv'
  <2>1. w \in StreakWorkers
    BY StreakAssumption DEF StreakInv, StreakShape
  <2> QED
    BY <1>4, <2>1, Names, LockRow_LockOrder, Drains_StreakInv, Award_StreakInv DEF DrainStep
<1>5. ASSUME NEW S, BecomeDue(S) PROVE StreakInv'
  BY <1>5, Nobody_StreakInv DEF BecomeDue, clockVars
<1>6. CASE NextDay
  BY <1>6, Nobody_StreakInv DEF NextDay, ledgerVars
<1>7. CASE ContestChanges
  BY <1>7, Nobody_StreakInv DEF ContestChanges, ledgerVars
<1>8. CASE UNCHANGED streakVars
  BY <1>8, Nobody_StreakInv DEF streakVars
<1> QED
  BY <1>1, <1>2, <1>3, <1>4, <1>5, <1>6, <1>7, <1>8 DEF StreakNext, GradingStep

\* utils/streaks.py:215: gradings, reveals and workers lock rows in one order, so that
\* no set of them waits in a circle, however many submissions, problems and workers there are.
THEOREM NobodyWaitsInCircle == StreakSpec => []NoLockCycle
<1>1. StreakSpec => []StreakInv
  BY Init_StreakInv, Next_StreakInv, PTL DEF StreakSpec
<1> QED
  BY <1>1, NoCircle, PTL
-----------------------------------------------------------------------------
(* The ledger: the best points, the events, and what is awarded for them.      *)
EventTyped(s) ==
  /\ events[s].day \in 1..LastDay /\ events[s].previous \in Int /\ events[s].points \in Int
  /\ events[s].result \in ResultsOf(ProblemOf(s))
  /\ events[s].applied \in BOOLEAN /\ events[s].pending \in BOOLEAN
LedgerTypes ==
  /\ today \in 1..LastDay /\ opening \in 0..LastDay /\ revealDay \in 0..LastDay
  /\ \A p \in StreakProblems : best[p] \in [Subtasks[p] -> Nat]
  /\ best = [p \in StreakProblems |-> best[p]]
  /\ \A s \in Events : EventTyped(s)
  /\ Events \subseteq streakWorld.subs \cup streakWorld.legacy /\ ungraded \subseteq streakWorld.subs

AppliedTo(p) == {s \in Events : ProblemOf(s) = p /\ events[s].applied}
Gain(S) == [s \in S |-> events[s].points - events[s].previous]
LedgerAdds ==
  \A p \in StreakProblems :
    /\ \A g \in Subtasks[p] :
         best[p][g] = Max({streakWorld.seed} \cup {events[s].result[g] : s \in AppliedTo(p)})
    /\ SumFunction(Gain(AppliedTo(p))) = Total(best[p]) - streakWorld.seed * Cardinality(Subtasks[p])

\* A withheld result is compared once it is public, and that of an offline attempt
\* counts for the day of its reveal: until then all of them wait for it.
Withholds ==
  /\ \A w \in StreakWorkers : drains[w].step = "publish" => revealDay # 0
  /\ \A s \in Events : KindOf(s) = "offline" =>
       IF revealDay = 0 THEN events[s].pending /\ ~events[s].applied
       ELSE events[s].day = revealDay \/ s \in streakWorld.legacy
  /\ \A s \in Events : KindOf(s) = "contest" /\ events[s].applied => contest # "running"

\* The reveal locks every row of a statement before it goes on to the next one.
RevealHolds ==
  /\ HeldBy(Reveal) \cap RowsIn("event", Waiting) # {} => RowsIn("submission", Offline) \subseteq HeldBy(Reveal)
  /\ HeldBy(Reveal) \cap RowsIn("progress", StreakProblems) # {} =>
       RowsIn("event", Waiting) \subseteq HeldBy(Reveal)

Awarded == {s \in Events : events[s].applied /\ ~events[s].pending /\ events[s].points > events[s].previous}
AwardsFit ==
  /\ {a.sub : a \in awards} = Awarded
  /\ \A a \in awards : a.day = events[a.sub].day
  /\ days = {a.day : a \in awards}

\* The runs are the maximal intervals of days.
IsRun(r) ==
  /\ r.start \in 1..LastDay /\ r.end \in 1..LastDay /\ r.start <= r.end /\ r.length = r.end - r.start + 1
  /\ r = [start |-> r.start, end |-> r.end, length |-> r.length]
  /\ r.start..r.end \subseteq days /\ r.start - 1 \notin days /\ r.end + 1 \notin days
RunsFit ==
  /\ days \subseteq 1..LastDay /\ IsFiniteSet(streaks)
  /\ \A r \in streaks : IsRun(r)
  /\ \A d \in days : \E r \in streaks : d \in r.start..r.end
  /\ summary = [last |-> Max({0} \cup days), current |-> summary.current,
                longest |-> Max({0} \cup {r.length : r \in streaks})]
  /\ \A r \in streaks : r.end = summary.last => summary.current = r.length
LedgerInv == LedgerTypes /\ LedgerAdds /\ Withholds /\ RevealHolds /\ AwardsFit /\ RunsFit

LEMMA WorldTyped ==
  ASSUME StreakInv
  PROVE  /\ \A s \in StreakSubs : streakWorld.day[s] \in 1..LastDay /\ KindOf(s) \in StreakKinds
         /\ streakWorld.last \in 1..LastDay /\ streakWorld.seed \in Nat
         /\ streakWorld.subs \subseteq StreakSubs /\ streakWorld.legacy \subseteq StreakSubs
         /\ streakWorld.workers \subseteq StreakWorkers
<1>1. streakWorld \in StreakWorlds
  BY DEF StreakInv, StreakShape
<1> QED
  BY <1>1, StreakAssumption DEF KindOf

LEMMA EventsTyped == IsFiniteSet(StreakSubs) /\ Events \subseteq StreakSubs /\ IsFiniteSet(Events)
  BY StreakAssumption, FS_Subset DEF Events

\* The results of some events in one subtask are numbers.
Values(S, result, g) == {result[s][g] : s \in S}
LEMMA ValuesTyped ==
  ASSUME NEW p \in StreakProblems, NEW S, IsFiniteSet(S), NEW result, \A s \in S : result[s] \in ResultsOf(p),
         NEW g \in Subtasks[p]
  PROVE  Values(S, result, g) \in SUBSET Nat /\ IsFiniteSet(Values(S, result, g))
<1> DEFINE f == [s \in S |-> result[s][g]]
<1>1. \A s \in S : result[s][g] \in Nat
  BY StreakAssumption DEF ResultsOf
<1>2. IsFiniteSet({f[s] : s \in DOMAIN f})
  <2>1. DOMAIN f = S /\ f = [x \in DOMAIN f |-> f[x]]
    OBVIOUS
  <2> HIDE DEF f
  <2> QED
    BY <2>1, FiniteImage
<1>3. {f[s] : s \in DOMAIN f} = Values(S, result, g)
  BY DEF Values
<1> QED
  BY <1>1, <1>2, <1>3 DEF Values

LEMMA ImprovedTyped ==
  ASSUME NEW p \in StreakProblems, best[p] \in [Subtasks[p] -> Nat], NEW S, IsFiniteSet(S),
         NEW result, \A s \in S : result[s] \in ResultsOf(p)
  PROVE  /\ Improved(p, S, result) \in [Subtasks[p] -> Nat]
         /\ \A g \in Subtasks[p] : Improved(p, S, result)[g] = Max({best[p][g]} \cup Values(S, result, g))
<1>1. ASSUME NEW g \in Subtasks[p] PROVE Max({best[p][g]} \cup Values(S, result, g)) \in Nat
  <2> DEFINE V == Values(S, result, g)
             W == {best[p][g]} \cup V
  <2>1. V \in SUBSET Nat /\ IsFiniteSet(V)
    BY ValuesTyped
  <2> HIDE DEF V
  <2>2. W \in SUBSET Nat /\ IsFiniteSet(W) /\ W # {}
    <3>1. best[p][g] \in Nat /\ W # {}
      OBVIOUS
    <3>2. IsFiniteSet({best[p][g]})
      BY FS_Singleton
    <3>3. IsFiniteSet(W)
      BY <2>1, <3>2, FS_Union
    <3> QED
      BY <2>1, <3>1, <3>3
  <2>3. Max(W) \in W
    <3> HIDE DEF W
    <3>1. W \in SUBSET Int
      BY <2>2
    <3> QED
      BY <2>2, <3>1, MaxFacts
  <2> QED
    BY <2>2, <2>3 DEF V
<1>2. Improved(p, S, result) = [g \in Subtasks[p] |-> Max({best[p][g]} \cup Values(S, result, g))]
  BY DEF Improved, Values
<1> QED
  BY <1>1, <1>2

LEMMA TotalTyped ==
  ASSUME NEW p \in StreakProblems, NEW v \in [Subtasks[p] -> Nat]
  PROVE  Total(v) \in Int
<1>1. IsFiniteSet(Subtasks[p])
  BY StreakAssumption
<1>2. DOMAIN v = Subtasks[p] /\ \A g \in Subtasks[p] : v[g] \in Int
  OBVIOUS
<1> QED
  BY <1>1, <1>2, SumIsInt DEF Total, SumFunction

-----------------------------------------------------------------------------
(* A transaction compares the results of the events N with the best so far.    *)
Among(N, p) == {s \in N : ProblemOf(s) = p}
Compares(N) ==
  /\ N \subseteq Events' /\ Events \subseteq Events'
  /\ \A s \in Events :
       /\ events'[s].result = events[s].result
       /\ events'[s].applied <=> events[s].applied \/ s \in N
       /\ events[s].applied =>
            s \notin N /\ events'[s].points = events[s].points /\ events'[s].previous = events[s].previous
  /\ \A s \in Events' \ Events : events'[s].applied <=> s \in N
  /\ \A p \in StreakProblems :
       /\ \A g \in Subtasks[p] :
            best'[p][g] = Max({best[p][g]} \cup {events'[s].result[g] : s \in Among(N, p)})
       /\ SumFunction([s \in Among(N, p) |-> events'[s].points - events'[s].previous])
            = Total(best'[p]) - Total(best[p])

LEMMA Compares_LedgerAdds ==
  ASSUME StreakInv, LedgerInv, LedgerTypes', streakWorld' = streakWorld, NEW N, Compares(N)
  PROVE  LedgerAdds'
<1> SUFFICES ASSUME NEW p \in StreakProblems
             PROVE  /\ \A g \in Subtasks[p] :
                         best'[p][g] = Max({streakWorld.seed} \cup {events'[s].result[g] : s \in AppliedTo(p)'})
                    /\ SumFunction(Gain(AppliedTo(p))')
                         = Total(best'[p]) - streakWorld.seed * Cardinality(Subtasks[p])
  BY DEF LedgerAdds, Total
<1> DEFINE M == Among(N, p)
           A == AppliedTo(p)
<1>1. /\ A \cap M = {} /\ AppliedTo(p)' = A \cup M
      /\ A \subseteq Events /\ M \subseteq Events' /\ Events \subseteq Events'
      /\ \A s \in A : /\ events'[s].result = events[s].result /\ events'[s].points = events[s].points
                      /\ events'[s].previous = events[s].previous
  BY DEF Compares, AppliedTo, Among, ProblemOf
<1>2. IsFiniteSet(A) /\ IsFiniteSet(M)
  <2>1. Events' \subseteq StreakSubs
    BY DEF Events
  <2> QED
    BY <1>1, <2>1, EventsTyped, FS_Subset
<1>3. /\ \A s \in A : events'[s].result \in ResultsOf(p) /\ EventTyped(s)
      /\ \A s \in M : events'[s].result \in ResultsOf(p) /\ EventTyped(s)'
  BY <1>1 DEF LedgerInv, LedgerTypes, EventTyped, Among, AppliedTo, ProblemOf
<1>4. best[p] \in [Subtasks[p] -> Nat] /\ best'[p] \in [Subtasks[p] -> Nat] /\ streakWorld.seed \in Nat
  BY WorldTyped DEF LedgerInv, LedgerTypes
<1>5. /\ \A g \in Subtasks[p] : best[p][g] = Max({streakWorld.seed} \cup {events[s].result[g] : s \in A})
      /\ SumFunction(Gain(A)) = Total(best[p]) - streakWorld.seed * Cardinality(Subtasks[p])
  BY DEF LedgerInv, LedgerAdds
<1>6. /\ \A g \in Subtasks[p] : best'[p][g] = Max({best[p][g]} \cup {events'[s].result[g] : s \in M})
      /\ SumFunction([s \in M |-> events'[s].points - events'[s].previous]) = Total(best'[p]) - Total(best[p])
  BY DEF Compares
<1> HIDE DEF A, M
<1>7. ASSUME NEW g \in Subtasks[p]
      PROVE  best'[p][g] = Max({streakWorld.seed} \cup {events'[s].result[g] : s \in A \cup M})
  <2> DEFINE result == [s \in A \cup M |-> events'[s].result]
             VA == Values(A, result, g)
             RA == {streakWorld.seed} \cup VA
             RM == Values(M, result, g)
  <2>1. VA = {events[s].result[g] : s \in A} /\ RM = {events'[s].result[g] : s \in M}
    BY <1>1 DEF Values
  <2>2. VA \in SUBSET Nat /\ IsFiniteSet(VA) /\ RM \in SUBSET Nat /\ IsFiniteSet(RM)
    <3>1. (\A s \in A : result[s] \in ResultsOf(p)) /\ (\A s \in M : result[s] \in ResultsOf(p))
      BY <1>3
    <3> HIDE DEF result
    <3> QED
      BY <1>2, <3>1, ValuesTyped
  <2>3. RA \in SUBSET Int /\ IsFiniteSet(RA) /\ RA # {} /\ RM \in SUBSET Int /\ IsFiniteSet(RM)
    <3> HIDE DEF VA, RM
    <3>1. IsFiniteSet(RA)
      BY <2>2, FS_Singleton, FS_Union
    <3>2. \A n \in VA \cup RM \cup {streakWorld.seed} : n \in Int
      BY <1>4, <2>2
    <3> QED
      BY <2>2, <3>1, <3>2
  <2>4. best[p][g] = Max(RA)
    BY <1>5, <2>1
  <2>5. best'[p][g] = Max({Max(RA)} \cup RM)
    BY <1>6, <2>1, <2>4
  <2>6. RA \cup RM = {streakWorld.seed} \cup {events'[s].result[g] : s \in A \cup M}
    BY DEF Values
  <2> HIDE DEF RA, RM
  <2>7. Max(RA \cup RM) = Max({Max(RA)} \cup RM)
    BY <2>3, MaxOfUnion
  <2> QED
    BY <2>5, <2>6, <2>7
<1>8. SumFunction(Gain(AppliedTo(p))') = Total(best'[p]) - streakWorld.seed * Cardinality(Subtasks[p])
  <2> DEFINE f == [s \in A \cup M |-> events'[s].points - events'[s].previous]
  <2>1. Gain(AppliedTo(p))' = f
    BY <1>1 DEF Gain
  <2>2. \A s \in A \cup M : f[s] \in Int
    <3>1. \A s \in A : events'[s].points \in Int /\ events'[s].previous \in Int
      BY <1>1, <1>3 DEF EventTyped
    <3>2. \A s \in M : events'[s].points \in Int /\ events'[s].previous \in Int
      BY <1>3 DEF EventTyped
    <3> QED
      BY <3>1, <3>2
  <2>3. SumFunctionOnSet(f, A) = SumFunction(Gain(A))
    <3>1. DOMAIN Gain(A) = A /\ \A s \in A : f[s] = Gain(A)[s]
      BY <1>1 DEF Gain
    <3> HIDE DEF f
    <3> QED
      BY <1>2, <3>1, SumOfSame DEF SumFunction
  <2>4. SumFunctionOnSet(f, M) = SumFunction([s \in M |-> events'[s].points - events'[s].previous])
    <3> DEFINE h == [s \in M |-> events'[s].points - events'[s].previous]
    <3>1. DOMAIN h = M /\ \A s \in M : f[s] = h[s]
      OBVIOUS
    <3> HIDE DEF f, h
    <3> QED
      BY <1>2, <3>1, SumOfSame DEF SumFunction, h
  <2>5. DOMAIN f = A \cup M
    OBVIOUS
  <2> HIDE DEF f
  <2>6. SumFunction(f) = SumFunctionOnSet(f, A) + SumFunctionOnSet(f, M)
    BY <1>1, <1>2, <2>2, <2>5, SumOfUnion DEF SumFunction, A, M
  <2>7. Total(best[p]) \in Int /\ Total(best'[p]) \in Int /\ streakWorld.seed * Cardinality(Subtasks[p]) \in Int
    <3>1. Cardinality(Subtasks[p]) \in Nat
      BY StreakAssumption, FS_CardinalityType
    <3> QED
      BY <1>4, <3>1, TotalTyped
  <2> DEFINE c == streakWorld.seed * Cardinality(Subtasks[p])
  <2> HIDE DEF c
  <2>8. SumFunction(Gain(A)) = Total(best[p]) - c
    BY <1>5 DEF c
  <2> QED
    BY <1>6, <2>1, <2>3, <2>4, <2>6, <2>7, <2>8 DEF c
<1> QED
  BY <1>1, <1>7, <1>8
-----------------------------------------------------------------------------
(* Days, runs and the summary.                                                 *)
LEMMA RunsApart ==
  ASSUME RunsFit, NEW r \in streaks, NEW q \in streaks, NEW e, e \in r.start..r.end, e \in q.start..q.end
  PROVE  r = q
<1>1. IsRun(r) /\ IsRun(q)
  BY DEF RunsFit
<1>2. ASSUME NEW i \in streaks, NEW j \in streaks, IsRun(i), IsRun(j), e \in i.start..i.end, e \in j.start..j.end
      PROVE  ~(i.start < j.start) /\ ~(i.end < j.end)
  <2>1. ASSUME i.start < j.start PROVE FALSE
    <3>1. j.start - 1 \in i.start..i.end
      BY <1>2, <2>1 DEF IsRun
    <3> QED
      BY <1>2, <3>1 DEF IsRun
  <2>2. ASSUME i.end < j.end PROVE FALSE
    <3>1. i.end + 1 \in j.start..j.end
      BY <1>2, <2>2 DEF IsRun
    <3> QED
      BY <1>2, <3>1 DEF IsRun
  <2> QED
    BY <2>1, <2>2
<1>3. r.start = q.start /\ r.end = q.end
  <2>1. ~(r.start < q.start) /\ ~(q.start < r.start) /\ ~(r.end < q.end) /\ ~(q.end < r.end)
    BY <1>1, <1>2
  <2> QED
    BY <1>1, <2>1 DEF IsRun
<1>4. r.length = q.length
  BY <1>1, <1>3 DEF IsRun
<1> QED
  BY <1>1, <1>3, <1>4 DEF IsRun

LEMMA SummaryFacts ==
  ASSUME RunsFit
  PROVE  /\ summary.last \in {0} \cup days /\ summary.last \in Nat /\ \A e \in days : e <= summary.last
         /\ summary.longest \in {0} \cup {r.length : r \in streaks} /\ summary.longest \in Nat
         /\ \A r \in streaks : r.length <= summary.longest /\ r.length \in Nat
<1> DEFINE f == [r \in streaks |-> r.length]
           L == {f[r] : r \in DOMAIN f}
           Z == {0} \cup L
           D == {0} \cup days
<1>1. \A r \in streaks : r.length \in Nat
  BY DEF RunsFit, IsRun
<1>2. L = {r.length : r \in streaks} /\ L \in SUBSET Nat
  BY <1>1
<1>3. IsFiniteSet(L)
  <2>1. IsFiniteSet(DOMAIN f) /\ f = [x \in DOMAIN f |-> f[x]]
    BY DEF RunsFit
  <2> HIDE DEF f
  <2> QED
    BY <2>1, FiniteImage
<1>4. summary.longest = Max(Z) /\ summary.last = Max(D)
  <2>1. summary.longest = Max({0} \cup {r.length : r \in streaks}) /\ summary.last = Max(D)
    BY DEF RunsFit
  <2> HIDE DEF L
  <2> QED
    BY <1>2, <2>1
<1>5. summary.longest \in Z /\ \A n \in Z : n <= summary.longest
  <2>1. Z \in SUBSET Int /\ Z # {}
    BY <1>2
  <2> HIDE DEF L
  <2>2. IsFiniteSet(Z)
    BY <1>3, FS_Singleton, FS_Union
  <2> HIDE DEF Z
  <2> QED
    BY <1>4, <2>1, <2>2, MaxFacts
<1>6. days \in SUBSET Nat /\ IsFiniteSet(days)
  <2>1. LastDay \in Nat /\ days \subseteq 1..LastDay
    BY StreakAssumption DEF RunsFit
  <2>2. IsFiniteSet(1..LastDay)
    BY <2>1, FS_Interval
  <2>3. IsFiniteSet(days)
    BY <2>1, <2>2, FS_Subset
  <2> QED
    BY <2>1, <2>3
<1> HIDE DEF L
<1>7. summary.last \in D /\ \A n \in D : n <= summary.last
  <2>1. IsFiniteSet(D)
    BY <1>6, FS_Singleton, FS_Union
  <2>2. D \in SUBSET Int /\ D # {}
    BY <1>6
  <2> HIDE DEF D
  <2> QED
    BY <1>4, <2>1, <2>2, MaxFacts
<1>8. \A r \in streaks : r.length \in Z
  BY <1>2
<1>9. summary.longest \in {0} \cup {r.length : r \in streaks} /\ summary.longest \in Nat
  BY <1>2, <1>5
<1>10. \A r \in streaks : r.length <= summary.longest
  BY <1>5, <1>8
<1>11. summary.last \in {0} \cup days /\ summary.last \in Nat /\ \A e \in days : e <= summary.last
  <2>1. \A n \in D : n \in Nat
    BY <1>6
  <2>2. days \subseteq D
    OBVIOUS
  <2>3. summary.last \in Nat /\ \A e \in days : e <= summary.last
    <3> HIDE DEF D
    <3> QED
      BY <1>7, <2>1, <2>2
  <2> QED
    BY <1>7, <2>3
<1> QED
  BY <1>1, <1>9, <1>10, <1>11

\* The part of the new run before the day d.
LEMMA JoinsBefore ==
  ASSUME RunsFit, NEW d \in 1..LastDay, d \notin days
  PROVE  LET a == RunWith(d).start
         IN /\ a \in 1..d /\ (\A e \in a..(d - 1) : e \in days) /\ a - 1 \notin days
            /\ \A r \in RunBefore(d) : r.start = a /\ r.end = d - 1
<1> DEFINE P == RunBefore(d)
           a == Min({d} \cup {r.start : r \in P})
<1>1. RunWith(d).start = a
  BY DEF RunWith
<1>2. \A r \in P : r \in streaks /\ r.end = d - 1 /\ IsRun(r)
  BY DEF RunBefore, RunsFit
<1>3. CASE P = {}
  <2>1. a = d
    <3>1. {d} \cup {r.start : r \in P} = {d}
      BY <1>3
    <3>2. Min({d}) = d
      BY MinIs
    <3> QED
      BY <3>1, <3>2
  <2>2. d - 1 \notin days
    <3> SUFFICES ASSUME d - 1 \in days PROVE FALSE
      OBVIOUS
    <3>1. PICK r \in streaks : d - 1 \in r.start..r.end
      BY DEF RunsFit
    <3>2. IsRun(r)
      BY DEF RunsFit
    <3>3. r.end = d - 1
      <4>1. d \notin r.start..r.end
        BY <3>2 DEF IsRun
      <4> QED
        BY <3>1, <3>2, <4>1 DEF IsRun
    <3> QED
      BY <1>3, <3>3 DEF RunBefore
  <2> HIDE DEF a, P
  <2> QED
    BY <1>1, <1>3, <2>1, <2>2 DEF P
<1>4. CASE P # {}
  <2>1. PICK r \in P : TRUE
    BY <1>4
  <2>2. \A q \in P : q = r
    <3>1. \A q \in P : d - 1 \in q.start..q.end
      BY <1>2 DEF IsRun
    <3> QED
      BY <1>2, <2>1, <3>1, RunsApart
  <2>3. a = r.start
    <3>1. {d} \cup {q.start : q \in P} = {d, r.start}
      BY <2>1, <2>2
    <3>2. r.start <= d /\ r.start \in Int
      BY <1>2, <2>1 DEF IsRun
    <3>3. Min({d, r.start}) = r.start
      <4>1. {d, r.start} \in SUBSET Int /\ \A y \in {d, r.start} : r.start <= y
        BY <3>2
      <4> QED
        BY <4>1, MinIs
    <3> QED
      BY <3>1, <3>3
  <2>4. IsRun(r) /\ r.end = d - 1
    BY <1>2
  <2> HIDE DEF a, P
  <2>5. a \in 1..d /\ (\A e \in a..(d - 1) : e \in days) /\ a - 1 \notin days
    BY <2>3, <2>4 DEF IsRun
  <2> QED
    BY <1>1, <2>2, <2>3, <2>4, <2>5 DEF P
<1> QED
  BY <1>3, <1>4

\* The part after it.
LEMMA JoinsAfter ==
  ASSUME RunsFit, NEW d \in 1..LastDay, d \notin days
  PROVE  LET b == RunWith(d).end
         IN /\ b \in d..LastDay /\ (\A e \in (d + 1)..b : e \in days) /\ b + 1 \notin days
            /\ \A r \in RunAfter(d) : r.start = d + 1 /\ r.end = b
            /\ b # d => \E r \in RunAfter(d) : TRUE
<1> DEFINE Q == RunAfter(d)
           b == Max({d} \cup {r.end : r \in Q})
<1>1. RunWith(d).end = b
  BY DEF RunWith
<1>2. \A r \in Q : r \in streaks /\ r.start = d + 1 /\ IsRun(r)
  BY DEF RunAfter, RunsFit
<1>3. CASE Q = {}
  <2>1. b = d
    <3>1. {d} \cup {r.end : r \in Q} = {d}
      BY <1>3
    <3>2. Max({d}) = d
      BY MaxIs
    <3> QED
      BY <3>1, <3>2
  <2>2. d + 1 \notin days
    <3> SUFFICES ASSUME d + 1 \in days PROVE FALSE
      OBVIOUS
    <3>1. PICK r \in streaks : d + 1 \in r.start..r.end
      BY DEF RunsFit
    <3>2. IsRun(r)
      BY DEF RunsFit
    <3>3. r.start = d + 1
      <4>1. d \notin r.start..r.end
        BY <3>2 DEF IsRun
      <4> QED
        BY <3>1, <3>2, <4>1 DEF IsRun
    <3> QED
      BY <1>3, <3>3 DEF RunAfter
  <2> HIDE DEF b, Q
  <2> QED
    BY <1>1, <1>3, <2>1, <2>2 DEF Q
<1>4. CASE Q # {}
  <2>1. PICK r \in Q : TRUE
    BY <1>4
  <2>2. \A q \in Q : q = r
    <3>1. \A q \in Q : d + 1 \in q.start..q.end
      BY <1>2 DEF IsRun
    <3> QED
      BY <1>2, <2>1, <3>1, RunsApart
  <2>3. b = r.end
    <3>1. {d} \cup {q.end : q \in Q} = {d, r.end}
      BY <2>1, <2>2
    <3>2. d <= r.end /\ r.end \in Int
      BY <1>2, <2>1 DEF IsRun
    <3>3. Max({d, r.end}) = r.end
      <4>1. {d, r.end} \in SUBSET Int /\ \A y \in {d, r.end} : y <= r.end
        BY <3>2
      <4> QED
        BY <4>1, MaxIs
    <3> QED
      BY <3>1, <3>3
  <2>4. IsRun(r) /\ r.start = d + 1
    BY <1>2
  <2> HIDE DEF b, Q
  <2>5. b \in d..LastDay /\ (\A e \in (d + 1)..b : e \in days) /\ b + 1 \notin days
    BY <2>3, <2>4 DEF IsRun
  <2> QED
    BY <1>1, <2>1, <2>2, <2>3, <2>4, <2>5 DEF Q
<1> QED
  BY <1>3, <1>4

LEMMA AddDay_RunsFit ==
  ASSUME RunsFit, NEW d \in 1..LastDay, AddDay(d)
  PROVE  RunsFit' /\ days' = days \cup {d}
<1>1. CASE d \in days
  <2>1. UNCHANGED <<days, streaks, summary>>
    BY <1>1 DEF AddDay
  <2> QED
    BY <1>1, <2>1 DEF RunsFit, IsRun
<1>2. CASE d \notin days
  <2>0. PICK run : run = RunWith(d)
    OBVIOUS
  <2> DEFINE P == RunBefore(d)
             Q == RunAfter(d)
             a == run.start
             b == run.end
             longest == Max({summary.longest, run.length})
  <2>1. /\ days' = days \cup {d}
        /\ streaks' = (streaks \ (P \cup Q)) \cup {run}
        /\ summary' = IF b >= summary.last
                      THEN [last |-> b, current |-> run.length, longest |-> longest]
                      ELSE [summary EXCEPT !.longest = longest]
    BY <1>2, <2>0 DEF AddDay
  <2>2. /\ a \in 1..d /\ (\A e \in a..(d - 1) : e \in days) /\ a - 1 \notin days
        /\ \A r \in P : r.start = a /\ r.end = d - 1
    BY <1>2, <2>0, JoinsBefore
  <2>3. /\ b \in d..LastDay /\ (\A e \in (d + 1)..b : e \in days) /\ b + 1 \notin days
        /\ \A r \in Q : r.start = d + 1 /\ r.end = b
        /\ b # d => \E r \in Q : TRUE
    BY <1>2, <2>0, JoinsAfter
  <2>4. run = [start |-> a, end |-> b, length |-> run.length] /\ run.length = b - a + 1
    BY <2>0 DEF RunWith
  <2>5. P \subseteq streaks /\ Q \subseteq streaks
        /\ P = {r \in streaks : r.end = d - 1} /\ Q = {r \in streaks : r.start = d + 1}
    BY DEF RunBefore, RunAfter
  <2>6. days \subseteq 1..LastDay /\ IsFiniteSet(streaks) /\ (\A r \in streaks : IsRun(r)) /\ LastDay \in Nat
    BY StreakAssumption DEF RunsFit
  <2> HIDE DEF P, Q, longest
  <2>7. run.length \in Nat \ {0}
    BY <2>2, <2>3, <2>4
  <2>8. IsRun(run)'
    <3>1. a \in 1..LastDay /\ b \in 1..LastDay /\ a <= b
      BY <2>2, <2>3, <2>6
    <3>2. a..b \subseteq days'
      <4> SUFFICES ASSUME NEW e \in a..b PROVE e \in days'
        OBVIOUS
      <4>1. e < d \/ e = d \/ d < e
        BY <3>1
      <4>2. e < d => e \in a..(d - 1)
        BY <2>2, <3>1
      <4>3. d < e => e \in (d + 1)..b
        BY <2>3, <3>1
      <4> QED
        BY <2>1, <2>2, <2>3, <4>1, <4>2, <4>3
    <3>3. a - 1 \notin days' /\ b + 1 \notin days'
      BY <2>1, <2>2, <2>3
    <3> QED
      BY <2>4, <3>1, <3>2, <3>3 DEF IsRun
  <2>9. ASSUME NEW r \in streaks \ (P \cup Q) PROVE IsRun(r)'
    <3>1. IsRun(r) /\ r.end # d - 1 /\ r.start # d + 1
      BY <2>5, <2>6
    <3> QED
      BY <2>1, <3>1 DEF IsRun
  <2>10. ASSUME NEW e \in days' PROVE \E r \in streaks' : e \in r.start..r.end
    <3>1. CASE e = d
      <4>1. e \in a..b
        BY <2>2, <2>3, <3>1
      <4> QED
        BY <2>1, <4>1
    <3>2. CASE e \in days
      <4>1. PICK r \in streaks : e \in r.start..r.end
        BY <3>2 DEF RunsFit
      <4>2. CASE r \in P
        <5>1. e \in a..b
          BY <2>2, <2>3, <4>1, <4>2
        <5> QED
          BY <2>1, <5>1
      <4>3. CASE r \in Q
        <5>1. e \in a..b
          BY <2>2, <2>3, <4>1, <4>3
        <5> QED
          BY <2>1, <5>1
      <4> QED
        BY <2>1, <4>1, <4>2, <4>3
    <3> QED
      BY <2>1, <3>1, <3>2
  <2>11. IsFiniteSet(streaks')
    <3>1. IsFiniteSet(streaks \ (P \cup Q))
      BY <2>6, FS_Subset
    <3> QED
      BY <2>1, <3>1, FS_Singleton, FS_Union
  <2>12. longest = Max({0} \cup {r.length : r \in streaks'})
    <3> DEFINE Z == {0} \cup {r.length : r \in streaks'}
    <3>1. longest = IF summary.longest <= run.length THEN run.length ELSE summary.longest
      BY <2>7, SummaryFacts, MaxOfTwo DEF longest
    <3>2. Z \in SUBSET Int
      BY <2>1, <2>7, SummaryFacts
    <3>3. \A r \in P \cup Q : r.length < run.length
      <4>1. \A r \in P \cup Q : IsRun(r)
        BY <2>5, <2>6
      <4>2. ASSUME NEW r \in P PROVE r.length < run.length
        BY <2>2, <2>3, <2>4, <4>1, <4>2 DEF IsRun
      <4>3. ASSUME NEW r \in Q PROVE r.length < run.length
        BY <2>2, <2>3, <2>4, <4>1, <4>3 DEF IsRun
      <4> QED
        BY <4>2, <4>3
    <3>4. \A n \in Z : n <= longest
      <4>1. \A r \in streaks : r.length <= longest
        BY <2>7, <3>1, SummaryFacts
      <4>2. 0 <= longest /\ run.length <= longest
        BY <2>7, <3>1, SummaryFacts
      <4> QED
        BY <2>1, <4>1, <4>2
    <3>5. longest \in Z
      <4>1. CASE longest = run.length
        BY <2>1, <4>1
      <4>2. CASE longest # run.length
        <5>1. longest = summary.longest /\ ~(summary.longest <= run.length)
          BY <3>1, <4>2
        <5>2. PICK r \in streaks : r.length = summary.longest
          <6>1. summary.longest # 0
            BY <2>7, <5>1, SummaryFacts
          <6> QED
            BY <6>1, SummaryFacts
        <5>3. r \notin P \cup Q
          <6> SUFFICES ASSUME r \in P \cup Q PROVE FALSE
            OBVIOUS
          <6>1. r.length < run.length
            BY <3>3
          <6> QED
            BY <2>7, <5>1, <5>2, <6>1, SummaryFacts
        <5> QED
          BY <2>1, <5>1, <5>2, <5>3
      <4> QED
        BY <4>1, <4>2
    <3> HIDE DEF Z
    <3>6. Max(Z) = longest
      BY <3>2, <3>4, <3>5, MaxIs
    <3> QED
      BY <3>6 DEF Z
  <2>13. b \in days'
    <3>1. b \in a..b
      BY <2>2, <2>3
    <3> QED
      BY <2>4, <2>8, <3>1 DEF IsRun
  <2>14. days' \subseteq 1..LastDay
    BY <2>1, <2>6
  <2>15. CASE b >= summary.last
    <3>1. summary' = [last |-> b, current |-> run.length, longest |-> longest]
      BY <2>1, <2>15
    <3>2. Max({0} \cup days') = b
      <4> DEFINE D == {0} \cup days'
      <4>1. D \in SUBSET Int /\ b \in D
        BY <2>13, <2>14
      <4>2. \A e \in D : e <= b
        <5>1. \A e \in days : e <= b
          <6> SUFFICES ASSUME NEW e \in days PROVE e <= b
            OBVIOUS
          <6>1. e <= summary.last /\ e \in Int /\ summary.last \in Int
            BY <2>6, SummaryFacts
          <6> QED
            BY <2>3, <2>15, <6>1
        <5>2. d <= b /\ 0 <= b
          BY <2>3
        <5> QED
          BY <2>1, <5>1, <5>2
      <4> HIDE DEF D
      <4>3. Max(D) = b
        BY <4>1, <4>2, MaxIs
      <4> QED
        BY <4>3 DEF D
    <3>3. ASSUME NEW r \in streaks', r.end = b PROVE run.length = r.length
      <4>1. CASE r = run
        BY <4>1
      <4>2. CASE r # run
        <5>1. r \in streaks \ (P \cup Q)
          BY <2>1, <4>2
        <5>2. IsRun(r) /\ b \in r.start..r.end
          BY <2>6, <3>3, <5>1 DEF IsRun
        <5>3. b # d
          BY <1>2, <5>2 DEF IsRun
        <5>4. PICK q \in Q : TRUE
          BY <2>3, <5>3
        <5>5. q \in streaks /\ IsRun(q) /\ q.end = b
          BY <2>3, <2>5, <2>6
        <5>6. b \in q.start..q.end
          BY <5>5 DEF IsRun
        <5>7. q = r
          BY <5>1, <5>2, <5>5, <5>6, RunsApart
        <5> QED
          BY <5>1, <5>7
      <4> QED
        BY <4>1, <4>2
    <3>4. summary'.last = b /\ summary'.current = run.length /\ summary'.longest = longest
          /\ summary' = [last |-> b, current |-> summary'.current, longest |-> longest]
      BY <3>1
    <3> QED
      BY <2>1, <2>8, <2>9, <2>10, <2>11, <2>12, <2>14, <3>2, <3>3, <3>4 DEF RunsFit
  <2>16. CASE ~(b >= summary.last)
    <3>1. /\ summary'.last = summary.last /\ summary'.current = summary.current /\ summary'.longest = longest
          /\ summary' = [last |-> summary.last, current |-> summary'.current, longest |-> longest]
      <4>1. summary' = [summary EXCEPT !.longest = longest]
        BY <2>1, <2>16
      <4>2. summary = [last |-> summary.last, current |-> summary.current, longest |-> summary.longest]
        BY DEF RunsFit
      <4> QED
        BY <4>1, <4>2
    <3>2. Max({0} \cup days') = summary.last
      <4> DEFINE D == {0} \cup days'
      <4>1. summary.last # 0
        BY <2>3, <2>16, SummaryFacts
      <4>2. D \in SUBSET Int /\ summary.last \in D
        BY <2>1, <2>14, <4>1, SummaryFacts
      <4>3. \A e \in D : e <= summary.last
        <5>1. d <= summary.last
          BY <2>3, <2>16, SummaryFacts
        <5> QED
          BY <2>1, <5>1, SummaryFacts
      <4> HIDE DEF D
      <4>4. Max(D) = summary.last
        BY <4>2, <4>3, MaxIs
      <4> QED
        BY <4>4 DEF D
    <3>3. ASSUME NEW r \in streaks', r.end = summary.last PROVE summary.current = r.length
      <4>1. r # run
        BY <2>3, <2>16, <3>3, SummaryFacts
      <4>2. r \in streaks
        BY <2>1, <4>1
      <4> QED
        BY <3>3, <4>2 DEF RunsFit
    <3> QED
      BY <2>1, <2>8, <2>9, <2>10, <2>11, <2>12, <2>14, <3>1, <3>2, <3>3 DEF RunsFit
  <2> QED
    BY <2>1, <2>15, <2>16
<1> QED
  BY <1>1, <1>2
-----------------------------------------------------------------------------
(* What a transaction holds when it has all of its locks.                      *)
LEMMA NothingOpen ==
  ASSUME StreakInv, NEW t \in Transactions, NEW n \in Nat, DOMAIN Statements(t) = 1..n, Wanted(t) = {},
         \A i \in 1..n : Statements(t)[i] \subseteq StreakRows
  PROVE  \A i \in 1..n : \/ Statements(t)[i] \subseteq HeldBy(t)
                         \/ \E j \in 1..n : j > i /\ Statements(t)[j] \cap HeldBy(t) # {}
<1> DEFINE all == Statements(t)
           held == HeldBy(t)
           open == {i \in DOMAIN all :
                      ~(all[i] \subseteq held) /\ \A j \in DOMAIN all : j > i => all[j] \cap held = {}}
           rest == Unlocked(all, held)
<1> SUFFICES ASSUME open # {} PROVE FALSE
  OBVIOUS
<1>1. rest = UNION {all[i] \ held : i \in {k \in open : \A j \in open : k <= j}}
  BY DEF Unlocked
<1>2. Wanted(t) = {r \in rest : \A q \in rest : KeyOf(r) <= KeyOf(q)}
  BY DEF Wanted
<1>3. open \in SUBSET Nat /\ open \subseteq 1..n
  OBVIOUS
<1>4. PICK k \in open : \A j \in open : k <= j
  <2> HIDE DEF open
  <2> QED
    BY <1>3, LeastExists
<1>5. k \in 1..n /\ ~(all[k] \subseteq held)
  OBVIOUS
<1> HIDE DEF all, open
<1>6. PICK r \in all[k] : r \notin held
  BY <1>5
<1>7. r \in rest
  BY <1>1, <1>4, <1>6
<1>8. rest \subseteq StreakRows
  BY <1>1, <1>3 DEF all
<1> HIDE DEF rest
<1> DEFINE K == {KeyOf(q) : q \in rest}
<1>9. K \in SUBSET Nat /\ K # {}
  BY <1>7, <1>8, KeyTyped
<1>10. PICK m \in K : \A i \in K : m <= i
  <2> HIDE DEF K
  <2> QED
    BY <1>9, LeastExists
<1>11. PICK q \in rest : KeyOf(q) = m
  OBVIOUS
<1>12. q \in Wanted(t)
  BY <1>2, <1>10, <1>11
<1> QED
  BY <1>12

LEMMA GradeLocked ==
  ASSUME StreakInv, NEW s \in StreakSubs, HasLocks(Grade(s))
  PROVE  <<"submission", s>> \in HeldBy(Grade(s))
<1> DEFINE a == <<"problem", ProblemOf(s)>>
           b == <<"submission", s>>
           c == <<"progress", ProblemOf(s)>>
           all == Statements(Grade(s))
           held == HeldBy(Grade(s))
<1>1. Grade(s) \in Transactions /\ Wanted(Grade(s)) = {}
  BY Names DEF HasLocks
<1>2. all = <<{a}, {b}, {c}>>
  BY DEF Statements, Grade, Reveal, GradeLocks, RowsIn
<1>3. {a, b, c} \subseteq StreakRows
  BY Typed DEF StreakRows, RowsIn
<1>4. c \in held => b \in held
  BY DEF StreakInv, LockOrder, GradeHolds, Chain
<1> HIDE DEF a, b, c
<1>5. DOMAIN all = 1..3 /\ all[1] = {a} /\ all[2] = {b} /\ all[3] = {c}
  BY <1>2
<1> HIDE DEF all, held
<1>6. \A i \in 1..3 : all[i] \subseteq StreakRows
  BY <1>3, <1>5
<1>7. \A i \in 1..3 : all[i] \subseteq held \/ \E j \in 1..3 : j > i /\ all[j] \cap held # {}
  BY <1>1, <1>5, <1>6, NothingOpen DEF all, held
<1>8. b \in held
  BY <1>4, <1>5, <1>7
<1> QED
  BY <1>8 DEF b, held

\* The statements of the reveal.
LEMMA RevealStatements ==
  ASSUME StreakInv
  PROVE  LET all == Statements(Reveal)
         IN /\ DOMAIN all = 1..3 /\ all[1] = RowsIn("submission", Offline) /\ all[2] = RowsIn("event", Waiting)
            /\ all[3] = RowsIn("progress", Compared(Reveal)) /\ \A i \in 1..3 : all[i] \subseteq StreakRows
<1> DEFINE S == RowsIn("submission", Offline)
           E == RowsIn("event", Waiting)
           P == RowsIn("progress", Compared(Reveal))
<1>1. PublishLocks(Reveal) = <<E, P>>
  BY DEF PublishLocks, Waiting, Compared
<1>2. S \subseteq StreakRows /\ E \subseteq StreakRows /\ P \subseteq StreakRows
  BY Typed DEF StreakRows, RowsIn
<1> HIDE DEF S, E, P
<1>3. Statements(Reveal) = <<S>> \o <<E, P>>
  BY <1>1 DEF Statements, Reveal, RevealLocks, S
<1>4. Statements(Reveal) = <<S, E, P>>
  BY <1>3, Prepended
<1>5. LET all == Statements(Reveal)
      IN DOMAIN all = 1..3 /\ all[1] = S /\ all[2] = E /\ all[3] = P
  BY <1>4
<1> QED
  BY <1>2, <1>5 DEF S, E, P

\* No progress is locked without an event, and no event without the submissions.
LEMMA RevealChain ==
  ASSUME StreakInv, RevealHolds
  PROVE  /\ RowsIn("progress", Compared(Reveal)) \cap HeldBy(Reveal) # {} =>
              /\ RowsIn("event", Waiting) \subseteq HeldBy(Reveal)
              /\ RowsIn("event", Waiting) \cap HeldBy(Reveal) # {}
         /\ RowsIn("event", Waiting) \cap HeldBy(Reveal) # {} =>
              RowsIn("submission", Offline) \subseteq HeldBy(Reveal)
<1>1. ASSUME RowsIn("progress", Compared(Reveal)) \cap HeldBy(Reveal) # {}
      PROVE  /\ RowsIn("event", Waiting) \subseteq HeldBy(Reveal)
             /\ RowsIn("event", Waiting) \cap HeldBy(Reveal) # {}
  <2>1. RowsIn("progress", Compared(Reveal)) \subseteq RowsIn("progress", StreakProblems)
    BY Typed DEF RowsIn
  <2>2. RowsIn("event", Waiting) \subseteq HeldBy(Reveal)
    BY <1>1, <2>1 DEF RevealHolds
  <2>3. Compared(Reveal) # {}
    BY <1>1 DEF RowsIn
  <2>4. PICK s \in HeldEvents(Reveal) : TRUE
    BY <2>3 DEF Compared
  <2>5. <<"event", s>> \in HeldBy(Reveal)
    BY HeldEventRows
  <2>6. <<"event", s>> \in RowsIn("event", Waiting)
    BY <2>5 DEF StreakInv, LockOrder, PublishHolds, RowsIn
  <2> QED
    BY <2>2, <2>5, <2>6
<1> QED
  BY <1>1 DEF RevealHolds

LEMMA RevealLocked ==
  ASSUME StreakInv, RevealHolds, HasLocks(Reveal)
  PROVE  HeldEvents(Reveal) = Waiting
<1> DEFINE E == RowsIn("event", Waiting)
           P == RowsIn("progress", Compared(Reveal))
           all == Statements(Reveal)
           held == HeldBy(Reveal)
<1>1. Reveal \in Transactions /\ Wanted(Reveal) = {}
  BY Names DEF HasLocks
<1>2. DOMAIN all = 1..3 /\ all[2] = E /\ all[3] = P /\ \A i \in 1..3 : all[i] \subseteq StreakRows
  BY RevealStatements
<1> HIDE DEF E, P, all, held
<1>3. \A i \in 1..3 : all[i] \subseteq held \/ \E j \in 1..3 : j > i /\ all[j] \cap held # {}
  BY <1>1, <1>2, NothingOpen DEF all, held
<1>4. P \cap held # {} => E \subseteq held
  BY RevealChain DEF E, P, held
<1>5. E \subseteq held
  <2>1. E \subseteq held \/ \E j \in 1..3 : j > 2 /\ all[j] \cap held # {}
    BY <1>2, <1>3
  <2>2. \A j \in 1..3 : j > 2 => j = 3
    OBVIOUS
  <2> QED
    BY <1>2, <1>4, <2>1, <2>2
<1>6. Waiting \subseteq HeldEvents(Reveal)
  BY <1>5, HeldEventRows, Typed DEF E, held, RowsIn
<1>7. HeldEvents(Reveal) \subseteq Waiting
  <2> SUFFICES ASSUME NEW s \in HeldEvents(Reveal) PROVE s \in Waiting
    OBVIOUS
  <2>1. <<"event", s>> \in HeldBy(Reveal)
    BY HeldEventRows
  <2> QED
    BY <2>1 DEF StreakInv, LockOrder, PublishHolds, RowsIn
<1> QED
  BY <1>6, <1>7

\* What the reveal asks for: an event once it has all submissions, a progress row once
\* it has all events.
LEMMA RevealWants ==
  ASSUME StreakInv, RevealHolds, NEW q \in Wanted(Reveal)
  PROVE  /\ q \in RowsIn("event", Waiting) => RowsIn("submission", Offline) \subseteq HeldBy(Reveal)
         /\ q \in RowsIn("progress", StreakProblems) => RowsIn("event", Waiting) \subseteq HeldBy(Reveal)
<1> DEFINE S == RowsIn("submission", Offline)
           E == RowsIn("event", Waiting)
           P == RowsIn("progress", Compared(Reveal))
           all == Statements(Reveal)
           held == HeldBy(Reveal)
<1>1. q \in Unlocked(all, held)
  BY DEF Wanted
<1>2. DOMAIN all = 1..3 /\ all[1] = S /\ all[2] = E /\ all[3] = P
  BY RevealStatements
<1>3. /\ \A r \in S : r[1] = "submission"
      /\ \A r \in E : r[1] = "event"
      /\ \A r \in P \cup RowsIn("progress", StreakProblems) : r[1] = "progress"
  BY DEF RowsIn
<1> HIDE DEF S, E, P, all, held
<1>4. PICK i \in 1..3 :
        /\ Unlocked(all, held) = all[i] \ held
        /\ \A j \in 1..3 : j > i => all[j] \cap held = {}
        /\ \A j \in 1..3 : j < i => all[j] \subseteq held \/ \E k \in 1..3 : k > j /\ all[k] \cap held # {}
  BY <1>1, <1>2, UnlockedIsOfOne
<1>5. /\ P \cap held # {} => E \subseteq held /\ E \cap held # {}
      /\ E \cap held # {} => S \subseteq held
  BY RevealChain DEF S, E, P, held
<1>6. q \in all[i]
  BY <1>1, <1>4
<1>7. ASSUME q \in E PROVE S \subseteq held
  <2>1. i = 2
    BY <1>2, <1>3, <1>6, <1>7
  <2>2. S \subseteq held \/ \E k \in 1..3 : k > 1 /\ all[k] \cap held # {}
    BY <1>2, <1>4, <2>1
  <2>3. \A k \in 1..3 : k > 1 => k = 2 \/ k = 3
    OBVIOUS
  <2> QED
    BY <1>2, <1>5, <2>2, <2>3
<1>8. ASSUME q \in RowsIn("progress", StreakProblems) PROVE E \subseteq held
  <2>1. i = 3
    BY <1>2, <1>3, <1>6, <1>8
  <2>2. E \subseteq held \/ \E k \in 1..3 : k > 2 /\ all[k] \cap held # {}
    BY <1>2, <1>4, <2>1
  <2>3. \A k \in 1..3 : k > 2 => k = 3
    OBVIOUS
  <2> QED
    BY <1>2, <1>5, <2>2, <2>3
<1> QED
  BY <1>7, <1>8 DEF S, E, held

LEMMA LockRow_RevealHolds ==
  ASSUME StreakInv, RevealHolds, NEW t \in Transactions, LockRow(t)
  PROVE  RevealHolds'
<1> USE DEF clockVars, ledgerVars, awardVars
<1>1. PICK r \in Wanted(t) : holder[r] = Nobody /\ holder' = [holder EXCEPT ![r] = t]
  BY DEF LockRow
<1>2. Underway(t) /\ UNCHANGED <<events, streakWorld>>
  BY DEF LockRow
<1>3. r \in StreakRows
  BY <1>2, WantedRows
<1>4. HeldBy(t)' = HeldBy(t) \cup {r} /\ \A u \in Transactions \ {t} : HeldBy(u)' = HeldBy(u)
  BY <1>1, <1>3, NobodyElse DEF HeldBy, StreakInv, StreakShape
<1>5. Waiting' = Waiting /\ Offline' = Offline
  BY <1>2 DEF Waiting, Pending, Offline, KindOf
<1>6. CASE t = Reveal
  <2>1. /\ r \in RowsIn("event", Waiting) => RowsIn("submission", Offline) \subseteq HeldBy(Reveal)
        /\ r \in RowsIn("progress", StreakProblems) => RowsIn("event", Waiting) \subseteq HeldBy(Reveal)
    BY <1>6, RevealWants
  <2> QED
    BY <1>4, <1>5, <1>6, <2>1 DEF RevealHolds, RowsIn
<1>7. CASE t # Reveal
  <2>1. HeldBy(Reveal)' = HeldBy(Reveal)
    BY <1>4, <1>7, Names
  <2> QED
    BY <1>5, <2>1 DEF RevealHolds, RowsIn
<1> QED
  BY <1>6, <1>7

\* A step of somebody else after which no other event waits for the reveal.
LEMMA Other_RevealHolds ==
  ASSUME RevealHolds, streakWorld' = streakWorld, HeldBy(Reveal)' \in {HeldBy(Reveal), {}}, Waiting' \subseteq Waiting
  PROVE  RevealHolds'
<1>1. Offline' = Offline
  BY DEF Offline, KindOf
<1> QED
  BY <1>1 DEF RevealHolds, RowsIn
-----------------------------------------------------------------------------
(* The steps.                                                                  *)
\* Those that write no event, no best and no award.
LEMMA Quiet_LedgerInv ==
  ASSUME StreakInv, LedgerInv, UNCHANGED <<best, events, awardVars, revealDay, streakWorld>>,
         today' \in 1..LastDay, opening' \in 0..LastDay, contest' \in {contest, "over", "blind"},
         ungraded' \subseteq ungraded,
         \A w \in StreakWorkers : drains'[w].step = "publish" => revealDay # 0,
         RevealHolds'
  PROVE  LedgerInv'
<1> USE DEF awardVars
<1>1. Events' = Events /\ Awarded' = Awarded /\ \A s : ProblemOf(s)' = ProblemOf(s) /\ KindOf(s)' = KindOf(s)
  BY DEF Events, Awarded, ProblemOf, KindOf
<1>2. LedgerTypes'
  BY <1>1 DEF LedgerInv, LedgerTypes, EventTyped
<1>3. LedgerAdds'
  <2>1. \A p : AppliedTo(p)' = AppliedTo(p) /\ Gain(AppliedTo(p))' = Gain(AppliedTo(p))
    BY <1>1 DEF AppliedTo, Gain, Events, ProblemOf
  <2> QED
    BY <2>1 DEF LedgerInv, LedgerAdds
<1>4. Withholds'
  BY <1>1 DEF LedgerInv, Withholds
<1>5. AwardsFit'
  BY <1>1 DEF LedgerInv, AwardsFit
<1>6. RunsFit'
  BY DEF LedgerInv, RunsFit, IsRun
<1> QED
  BY <1>2, <1>3, <1>4, <1>5, <1>6 DEF LedgerInv

\* The rows that a comparison, a settlement and an award write.
LEMMA ComparedRow ==
  ASSUME NEW f, DOMAIN f = Fields, NEW a, NEW b
  PROVE  LET g == [f EXCEPT !.previous = a, !.points = b, !.applied = TRUE]
         IN /\ DOMAIN g = Fields /\ g.id = f.id /\ g.day = f.day /\ g.previous = a /\ g.points = b
            /\ g.result = f.result /\ g.applied = TRUE /\ g.pending = f.pending
BY DEF Fields
LEMMA SettledRow ==
  ASSUME NEW f, DOMAIN f = Fields, NEW d, NEW x
  PROVE  LET g == [f EXCEPT !.day = d, !.released = TRUE, !.pending = x]
         IN /\ DOMAIN g = Fields /\ g.id = f.id /\ g.day = d /\ g.previous = f.previous /\ g.points = f.points
            /\ g.result = f.result /\ g.applied = f.applied /\ g.pending = x
BY DEF Fields
LEMMA DoneRow ==
  ASSUME NEW f, DOMAIN f = Fields
  PROVE  LET g == [f EXCEPT !.pending = FALSE]
         IN /\ DOMAIN g = Fields /\ g.id = f.id /\ g.day = f.day /\ g.previous = f.previous /\ g.points = f.points
            /\ g.result = f.result /\ g.applied = f.applied /\ g.pending = FALSE
BY DEF Fields

LEMMA ComparesNone ==
  ASSUME StreakInv, LedgerInv, best' = best, Events \subseteq Events',
         \A s \in Events :
           /\ events'[s].result = events[s].result /\ events'[s].applied = events[s].applied
           /\ events'[s].points = events[s].points /\ events'[s].previous = events[s].previous,
         \A s \in Events' \ Events : ~events'[s].applied
  PROVE  Compares({})
<1> SUFFICES ASSUME NEW p \in StreakProblems
             PROVE  /\ \A g \in Subtasks[p] :
                         best'[p][g] = Max({best[p][g]} \cup {events'[s].result[g] : s \in Among({}, p)})
                    /\ SumFunction([s \in Among({}, p) |-> events'[s].points - events'[s].previous])
                         = Total(best'[p]) - Total(best[p])
  BY DEF Compares
<1>1. Among({}, p) = {}
  BY DEF Among
<1>2. best[p] \in [Subtasks[p] -> Nat]
  BY DEF LedgerInv, LedgerTypes
<1>3. ASSUME NEW g \in Subtasks[p]
      PROVE  best'[p][g] = Max({best[p][g]} \cup {events'[s].result[g] : s \in Among({}, p)})
  <2>1. {best[p][g]} \cup {events'[s].result[g] : s \in Among({}, p)} = {best[p][g]}
    BY <1>1
  <2>2. best[p][g] \in Int
    BY <1>2
  <2>3. Max({best[p][g]}) = best[p][g]
    BY <2>2, MaxOfOne
  <2> QED
    BY <2>1, <2>3
<1>4. SumFunction([s \in Among({}, p) |-> events'[s].points - events'[s].previous]) = 0
  <2> DEFINE f == [s \in Among({}, p) |-> events'[s].points - events'[s].previous]
  <2>1. DOMAIN f = {}
    BY <1>1
  <2> HIDE DEF f
  <2>2. SumFunction(f) = 0
    BY <2>1, SumOfNone DEF SumFunction
  <2> QED
    BY <2>2 DEF f
<1>5. Total(best[p]) \in Int
  BY <1>2, TotalTyped
<1> QED
  BY <1>3, <1>4, <1>5

LEMMA ComparesOne ==
  ASSUME StreakInv, LedgerInv, NEW s \in StreakSubs, NEW after,
         after = Improved(ProblemOf(s), {s}, [e \in {s} |-> events'[s].result]),
         best' = [best EXCEPT ![ProblemOf(s)] = after], Events' = Events \cup {s},
         \A e \in Events \ {s} : events'[e] = events[e],
         s \in Events => ~events[s].applied /\ events'[s].result = events[s].result,
         events'[s].applied = TRUE, events'[s].result \in ResultsOf(ProblemOf(s)),
         events'[s].previous = Total(best[ProblemOf(s)]), events'[s].points = Total(after)
  PROVE  Compares({s}) /\ \A p \in StreakProblems : best'[p] \in [Subtasks[p] -> Nat]
<1> DEFINE q == ProblemOf(s)
           result == [e \in {s} |-> events'[s].result]
<1>1. q \in StreakProblems /\ best[q] \in [Subtasks[q] -> Nat]
  BY Typed DEF LedgerInv, LedgerTypes
<1>2. /\ after \in [Subtasks[q] -> Nat]
      /\ \A g \in Subtasks[q] : after[g] = Max({best[q][g]} \cup Values({s}, result, g))
  <2>1. IsFiniteSet({s}) /\ \A e \in {s} : result[e] \in ResultsOf(q)
    BY FS_Singleton
  <2> HIDE DEF q, result
  <2>2. after = Improved(q, {s}, result)
    BY DEF q, result
  <2> DEFINE S == {s}
             new == Improved(q, S, result)
  <2>3. IsFiniteSet(S) /\ \A e \in S : result[e] \in ResultsOf(q)
    BY <2>1
  <2> HIDE DEF S
  <2>4. /\ new \in [Subtasks[q] -> Nat]
        /\ \A g \in Subtasks[q] : new[g] = Max({best[q][g]} \cup Values(S, result, g))
    BY <1>1, <2>3, ImprovedTyped
  <2> QED
    BY <2>2, <2>4 DEF S
<1>3. best'[q] = after /\ \A p \in StreakProblems \ {q} : best'[p] = best[p]
  BY <1>1 DEF LedgerInv, LedgerTypes
<1>4. ASSUME NEW p \in StreakProblems
      PROVE  /\ \A g \in Subtasks[p] :
                  best'[p][g] = Max({best[p][g]} \cup {events'[e].result[g] : e \in Among({s}, p)})
             /\ SumFunction([e \in Among({s}, p) |-> events'[e].points - events'[e].previous])
                  = Total(best'[p]) - Total(best[p])
             /\ best'[p] \in [Subtasks[p] -> Nat]
  <2>1. CASE p = q
    <3>1. Among({s}, p) = {s}
      BY <2>1 DEF Among
    <3>2. ASSUME NEW g \in Subtasks[p]
          PROVE  best'[p][g] = Max({best[p][g]} \cup {events'[e].result[g] : e \in Among({s}, p)})
      <4>1. {events'[e].result[g] : e \in Among({s}, p)} = Values({s}, result, g)
        BY <3>1 DEF Values
      <4>2. best'[p][g] = Max({best[p][g]} \cup Values({s}, result, g))
        <5>1. best'[p] = after /\ g \in Subtasks[q] /\ best[p] = best[q]
          BY <1>3, <2>1
        <5>2. after[g] = Max({best[q][g]} \cup Values({s}, result, g))
          BY <1>2, <5>1
        <5> QED
          BY <5>1, <5>2
      <4> QED
        BY <4>1, <4>2
    <3> DEFINE f == [e \in Among({s}, p) |-> events'[e].points - events'[e].previous]
    <3>3. DOMAIN f = {s} /\ f[s] = Total(best'[p]) - Total(best[p])
      BY <1>3, <2>1, <3>1
    <3>4. Total(best'[p]) \in Int /\ Total(best[p]) \in Int
      BY <1>1, <1>2, <1>3, <2>1, TotalTyped
    <3> HIDE DEF f, q
    <3>5. SumFunction(f) = f[s]
      <4>1. f[s] \in Int
        BY <3>3, <3>4
      <4>2. SumFunctionOnSet(f, {} \cup {s}) = f[s] + SumFunctionOnSet(f, {})
        BY <4>1, SumWith, FS_EmptySet
      <4>3. {} \cup {s} = {s} /\ SumFunctionOnSet(f, {}) = 0
        BY SumOfNone
      <4> QED
        BY <3>3, <4>1, <4>2, <4>3 DEF SumFunction
    <3> QED
      BY <1>2, <1>3, <2>1, <3>2, <3>3, <3>5 DEF f
  <2>2. CASE p # q
    <3>1. Among({s}, p) = {} /\ best'[p] = best[p] /\ best[p] \in [Subtasks[p] -> Nat]
      BY <1>3, <2>2 DEF Among, LedgerInv, LedgerTypes
    <3>2. ASSUME NEW g \in Subtasks[p]
          PROVE  best'[p][g] = Max({best[p][g]} \cup {events'[e].result[g] : e \in Among({s}, p)})
      <4>1. {best[p][g]} \cup {events'[e].result[g] : e \in Among({s}, p)} = {best[p][g]}
        BY <3>1
      <4>2. best[p][g] \in Int
        BY <3>1
      <4>3. Max({best[p][g]}) = best[p][g]
        BY <4>2, MaxOfOne
      <4> QED
        BY <3>1, <4>1, <4>3
    <3> DEFINE f == [e \in Among({s}, p) |-> events'[e].points - events'[e].previous]
    <3>3. DOMAIN f = {}
      BY <3>1
    <3> HIDE DEF f, q
    <3>4. SumFunction(f) = 0
      BY <3>3, SumOfNone DEF SumFunction
    <3>5. Total(best'[p]) - Total(best[p]) = 0
      <4>1. Total(best[p]) \in Int
        BY <3>1, TotalTyped
      <4> QED
        BY <3>1, <4>1
    <3>6. SumFunction(f) = Total(best'[p]) - Total(best[p]) /\ best'[p] \in [Subtasks[p] -> Nat]
      BY <3>1, <3>4, <3>5
    <3> QED
      BY <3>2, <3>6 DEF f
  <2> QED
    BY <2>1, <2>2
<1>5. /\ {s} \subseteq Events' /\ Events \subseteq Events'
      /\ \A e \in Events' \ Events : events'[e].applied <=> e \in {s}
  OBVIOUS
<1>6. ASSUME NEW e \in Events
      PROVE  /\ events'[e].result = events[e].result
             /\ events'[e].applied <=> events[e].applied \/ e \in {s}
             /\ events[e].applied =>
                  e \notin {s} /\ events'[e].points = events[e].points /\ events'[e].previous = events[e].previous
  <2>1. CASE e = s
    BY <2>1
  <2>2. CASE e # s
    BY <2>2
  <2> QED
    BY <2>1, <2>2
<1> QED
  BY <1>4, <1>5, <1>6 DEF Compares
LEMMA RecordCompletion_LedgerInv ==
  ASSUME StreakInv, LedgerInv, NEW s \in StreakSubs, RecordCompletion(s)
  PROVE  LedgerInv'
<1> USE DEF clockVars, awardVars
<1> DEFINE q == ProblemOf(s)
           before == best[q]
<1>1. /\ Unlock(Grade(s)) /\ ungraded' = ungraded \ {s} /\ Underway(Grade(s)) /\ HasLocks(Grade(s))
      /\ UNCHANGED <<today, contest, opening, revealDay, drains, streakWorld, days, streaks, summary, awards>>
  BY DEF RecordCompletion, HasLocks
<1>2. s \in ungraded /\ s \notin Events /\ s \in streakWorld.subs
  BY <1>1 DEF Underway, Grade, Reveal, StreakInv, EventOrder, LedgerInv, LedgerTypes
<1>3. PICK result, after :
        /\ result \in ResultsOf(q)
        /\ after = Improved(q, {s}, [e \in {s} |-> result])
        /\ events' = [events EXCEPT ![s] =
             [id |-> Cardinality(Events) + 1, day |-> DayOf(s), previous |-> Total(before),
              points |-> Total(after), result |-> result, applied |-> AppliesNow(s),
              released |-> KindOf(s) = "offline" /\ revealDay # 0,
              pending |-> Total(after) > Total(before) \/ ~AppliesNow(s)]]
        /\ best' = IF AppliesNow(s) THEN [best EXCEPT ![q] = after] ELSE best
  BY DEF RecordCompletion
<1>4. /\ events'[s].id = Cardinality(Events) + 1 /\ events'[s].day = DayOf(s)
      /\ events'[s].previous = Total(before) /\ events'[s].points = Total(after)
      /\ events'[s].result = result /\ events'[s].applied = AppliesNow(s)
      /\ events'[s].pending = (Total(after) > Total(before) \/ ~AppliesNow(s))
      /\ \A e \in StreakSubs \ {s} : events'[e] = events[e]
  BY <1>3 DEF StreakInv, StreakShape
<1>5. Cardinality(Events) \in Nat
  BY EventsTyped, FS_CardinalityType
<1>6. Events' = Events \cup {s} /\ \A e \in Events : events'[e] = events[e]
  BY <1>2, <1>4, <1>5 DEF Events
<1>7. q \in StreakProblems /\ before \in [Subtasks[q] -> Nat] /\ after \in [Subtasks[q] -> Nat]
  <2>1. q \in StreakProblems /\ before \in [Subtasks[q] -> Nat]
    BY Typed DEF LedgerInv, LedgerTypes
  <2> DEFINE S == {s}
             results == [e \in S |-> result]
  <2>2. IsFiniteSet(S) /\ \A e \in S : results[e] \in ResultsOf(q)
    BY <1>3, FS_Singleton
  <2> HIDE DEF S, results, q
  <2>3. Improved(q, S, results) \in [Subtasks[q] -> Nat]
    BY <2>1, <2>2, ImprovedTyped
  <2> QED
    BY <1>3, <2>1, <2>3 DEF S, results
<1>8. Total(before) \in Int /\ Total(after) \in Int
  BY <1>7, TotalTyped
<1>9. DayOf(s) \in 1..LastDay
  BY WorldTyped DEF DayOf, LedgerInv, LedgerTypes
<1>10. KindOf(s)' = KindOf(s) /\ \A e : ProblemOf(e)' = ProblemOf(e) /\ KindOf(e)' = KindOf(e)
  BY <1>1 DEF ProblemOf, KindOf
<1>11. AppliesNow(s) \in BOOLEAN
  BY WorldTyped DEF AppliesNow, Published, StreakKinds
<1> HIDE DEF q, before
<1>12. Compares(IF AppliesNow(s) THEN {s} ELSE {})
  <2>1. CASE AppliesNow(s)
    <3>1. after = Improved(ProblemOf(s), {s}, [e \in {s} |-> events'[s].result])
      BY <1>3, <1>4 DEF q
    <3>2. best' = [best EXCEPT ![ProblemOf(s)] = after]
      BY <1>3, <2>1 DEF q
    <3>3. /\ events'[s].applied = TRUE /\ events'[s].result \in ResultsOf(ProblemOf(s))
          /\ events'[s].previous = Total(best[ProblemOf(s)]) /\ events'[s].points = Total(after)
      BY <1>3, <1>4, <2>1 DEF q, before
    <3>4. Compares({s})
      BY <1>2, <1>6, <3>1, <3>2, <3>3, ComparesOne
    <3> QED
      BY <2>1, <3>4
  <2>2. CASE ~AppliesNow(s)
    <3>1. best' = best
      BY <1>3, <2>2
    <3>2. Compares({})
      BY <1>4, <1>6, <2>2, <3>1, ComparesNone
    <3> QED
      BY <2>2, <3>2
  <2> QED
    BY <2>1, <2>2
<1>13. LedgerTypes'
  <2>1. \A e \in Events : EventTyped(e)'
    BY <1>6, <1>10 DEF LedgerInv, LedgerTypes, EventTyped
  <2>2. EventTyped(s)'
    BY <1>3, <1>4, <1>8, <1>9, <1>10, <1>11 DEF EventTyped, q
  <2>3. \A p \in StreakProblems : best'[p] \in [Subtasks[p] -> Nat]
    BY <1>3, <1>7 DEF LedgerInv, LedgerTypes
  <2>4. best' = [p \in StreakProblems |-> best'[p]]
    BY <1>3 DEF LedgerInv, LedgerTypes
  <2> QED
    BY <1>1, <1>2, <1>6, <2>1, <2>2, <2>3, <2>4 DEF LedgerInv, LedgerTypes
<1>14. LedgerAdds'
  BY <1>1, <1>12, <1>13, Compares_LedgerAdds
<1>15. Withholds'
  <2>1. ASSUME KindOf(s) = "offline"
        PROVE  IF revealDay = 0 THEN events'[s].pending /\ ~events'[s].applied
               ELSE events'[s].day = revealDay \/ s \in streakWorld.legacy
    BY <1>4, <2>1 DEF AppliesNow, Published, DayOf
  <2>2. KindOf(s) = "contest" /\ events'[s].applied => contest # "running"
    BY <1>4 DEF AppliesNow, Published
  <2> QED
    BY <1>1, <1>6, <1>10, <2>1, <2>2 DEF LedgerInv, Withholds
<1>16. RevealHolds'
  <2>1. HeldBy(Reveal)' = HeldBy(Reveal) /\ <<"submission", s>> \in HeldBy(Grade(s))
    BY <1>1, Unlocks, Names, GradeLocked DEF LetsGo
  <2>2. <<"submission", s>> \notin HeldBy(Reveal)
    BY <2>1, Names DEF HeldBy
  <2>3. CASE KindOf(s) # "offline"
    <3>1. Waiting' \subseteq Waiting
      BY <1>1, <1>4, <1>10, <2>3 DEF Waiting, Pending, Offline
    <3> QED
      BY <1>1, <2>1, <3>1, Other_RevealHolds DEF LedgerInv
  <2>4. CASE KindOf(s) = "offline"
    <3>1. s \in Offline /\ <<"submission", s>> \in RowsIn("submission", Offline)
      BY <1>2, <2>4 DEF Offline, RowsIn
    <3>2. /\ HeldBy(Reveal) \cap RowsIn("event", Waiting) = {}
          /\ HeldBy(Reveal) \cap RowsIn("progress", Compared(Reveal)) = {}
      BY <2>2, <3>1, RevealChain DEF LedgerInv
    <3>3. HeldBy(Reveal) \subseteq RowsIn("submission", Offline)
      BY <3>2, Names DEF StreakInv, LockOrder, PublishHolds, Shown
    <3>4. /\ HeldBy(Reveal)' \cap RowsIn("event", Waiting') = {}
          /\ HeldBy(Reveal)' \cap RowsIn("progress", StreakProblems) = {}
      BY <2>1, <3>3 DEF RowsIn
    <3> QED
      BY <3>4 DEF RevealHolds, RowsIn
  <2> QED
    BY <2>3, <2>4
<1>17. AwardsFit'
  <2>1. s \notin Awarded'
    BY <1>4, <1>8 DEF Awarded
  <2>2. Awarded' = Awarded
    BY <1>6, <2>1, <1>2 DEF Awarded
  <2>3. \A a \in awards : a.sub \in Awarded
    BY DEF LedgerInv, AwardsFit
  <2>4. \A a \in awards : events'[a.sub] = events[a.sub]
    BY <1>6, <2>3 DEF Awarded
  <2> QED
    BY <1>1, <2>2, <2>4 DEF LedgerInv, AwardsFit
<1>18. RunsFit'
  BY <1>1 DEF LedgerInv, RunsFit, IsRun
<1> QED
  BY <1>13, <1>14, <1>15, <1>16, <1>17, <1>18 DEF LedgerInv

LEMMA AwardDecides_LedgerInv ==
  ASSUME StreakInv, LedgerInv, NEW w \in StreakWorkers, AwardDecides(w)
  PROVE  LedgerInv'
<1> USE DEF clockVars
<1> DEFINE s == EventAt(w)
           q == ProblemOf(s)
           old == events[s]
<1>1. /\ Unlock(Drain(w)) /\ drains[w].step = "award" /\ NextEvent(w)
      /\ UNCHANGED <<today, contest, opening, revealDay, ungraded, streakWorld>>
  BY DEF AwardDecides, AwardStep
<1>2. /\ s \in StreakSubs /\ s \in Events /\ old.pending /\ (old.applied \/ Published(s))
      /\ DOMAIN old = Fields
  BY <1>1 DEF AwardDecides, TooEarly, Withheld, StreakInv, StreakShape, EventOrder, Pending
<1>3. EventTyped(s) /\ q \in StreakProblems /\ best[q] \in [Subtasks[q] -> Nat]
  BY <1>2, Typed DEF LedgerInv, LedgerTypes
<1>4. PICK after, new, row :
        /\ after = IF old.applied THEN best[q] ELSE Improved(q, {s}, [e \in {s} |-> old.result])
        /\ new = IF old.applied THEN old
                 ELSE [old EXCEPT !.previous = Total(best[q]), !.points = Total(after), !.applied = TRUE]
        /\ row = [new EXCEPT !.pending = FALSE]
        /\ best' = [best EXCEPT ![q] = after]
        /\ events' = [events EXCEPT ![s] = row]
        /\ IF new.points <= new.previous THEN UNCHANGED awardVars
           ELSE /\ awards' = awards \cup {[sub |-> s, day |-> new.day, points |-> new.points - new.previous]}
                /\ AddDay(new.day)
  BY DEF AwardDecides
<1>5. /\ events'[s] = row /\ \A e \in StreakSubs \ {s} : events'[e] = events[e]
      /\ events' = [e \in StreakSubs |-> events'[e]]
  BY <1>2, <1>4 DEF StreakInv, StreakShape
<1>6. /\ row.id = old.id /\ row.day = old.day /\ row.day = new.day /\ row.result = old.result
      /\ row.applied = TRUE /\ row.pending = FALSE
      /\ row.points = new.points /\ row.previous = new.previous
      /\ row.points = IF old.applied THEN old.points ELSE Total(after)
      /\ row.previous = IF old.applied THEN old.previous ELSE Total(best[q])
  <2> HIDE DEF old, s, q
  <2>1. CASE old.applied
    <3>1. new = old /\ old.applied = TRUE
      BY <1>3, <1>4, <2>1 DEF EventTyped, old
    <3> QED
      BY <1>2, <1>4, <2>1, <3>1, DoneRow
  <2>2. CASE ~old.applied
    <3>1. /\ DOMAIN new = Fields /\ new.id = old.id /\ new.day = old.day /\ new.result = old.result
          /\ new.applied = TRUE /\ new.points = Total(after) /\ new.previous = Total(best[q])
      BY <1>2, <1>4, <2>2, ComparedRow
    <3> QED
      BY <1>4, <2>2, <3>1, DoneRow
  <2> QED
    BY <2>1, <2>2
<1>7. Events' = Events /\ \A e \in Events \ {s} : events'[e] = events[e]
  BY <1>2, <1>5, <1>6 DEF Events
<1>8. \A e : ProblemOf(e)' = ProblemOf(e) /\ KindOf(e)' = KindOf(e)
  BY <1>1 DEF ProblemOf, KindOf
<1>9. /\ Compares(IF old.applied THEN {} ELSE {s})
      /\ \A p \in StreakProblems : best'[p] \in [Subtasks[p] -> Nat]
  <2>1. CASE old.applied
    <3>1. best' = best
      BY <1>3, <1>4, <2>1 DEF LedgerInv, LedgerTypes
    <3>2. ASSUME NEW e \in Events
          PROVE  /\ events'[e].result = events[e].result /\ events'[e].applied = events[e].applied
                 /\ events'[e].points = events[e].points /\ events'[e].previous = events[e].previous
      <4>1. CASE e = s
        <5>1. old.applied = TRUE
          BY <1>3, <2>1 DEF EventTyped
        <5> QED
          BY <1>5, <1>6, <2>1, <4>1, <5>1
      <4>2. CASE e # s
        BY <1>7, <4>2
      <4> QED
        BY <4>1, <4>2
    <3>3. Compares({})
      BY <1>7, <3>1, <3>2, ComparesNone
    <3> QED
      BY <2>1, <3>1, <3>3 DEF LedgerInv, LedgerTypes
  <2>2. CASE ~old.applied
    <3>1. after = Improved(ProblemOf(s), {s}, [e \in {s} |-> events'[s].result])
      BY <1>4, <1>5, <1>6, <2>2
    <3>2. best' = [best EXCEPT ![ProblemOf(s)] = after] /\ Events' = Events \cup {s}
      BY <1>2, <1>4, <1>7
    <3>3. /\ events'[s].applied = TRUE /\ events'[s].result \in ResultsOf(ProblemOf(s))
          /\ events'[s].previous = Total(best[ProblemOf(s)]) /\ events'[s].points = Total(after)
          /\ s \in Events => ~events[s].applied /\ events'[s].result = events[s].result
      BY <1>3, <1>5, <1>6, <2>2 DEF EventTyped
    <3> HIDE DEF s, old
    <3>4. Compares({s}) /\ \A p \in StreakProblems : best'[p] \in [Subtasks[p] -> Nat]
      BY <1>2, <1>7, <3>1, <3>2, <3>3, ComparesOne
    <3> QED
      BY <2>2, <3>4
  <2> QED
    BY <2>1, <2>2
<1>10. row.points \in Int /\ row.previous \in Int
  <2>1. CASE old.applied
    BY <1>3, <1>6, <2>1 DEF EventTyped
  <2>2. CASE ~old.applied
    <3>1. best'[q] = after
      BY <1>3, <1>4 DEF LedgerInv, LedgerTypes
    <3>2. after \in [Subtasks[q] -> Nat]
      BY <1>3, <1>9, <3>1
    <3>3. Total(after) \in Int /\ Total(best[q]) \in Int
      BY <1>3, <3>2, TotalTyped
    <3> QED
      BY <1>6, <2>2, <3>3
  <2> QED
    BY <2>1, <2>2
<1>11. LedgerTypes'
  <2>1. ASSUME NEW e \in Events PROVE EventTyped(e)'
    <3>1. CASE e = s
      BY <1>3, <1>5, <1>6, <1>8, <1>10, <3>1 DEF EventTyped
    <3>2. CASE e # s
      BY <1>7, <1>8, <3>2 DEF EventTyped, LedgerInv, LedgerTypes
    <3> QED
      BY <3>1, <3>2
  <2>2. best' = [p \in StreakProblems |-> best'[p]]
    BY <1>4 DEF LedgerInv, LedgerTypes
  <2> QED
    BY <1>1, <1>7, <1>9, <2>1, <2>2 DEF LedgerInv, LedgerTypes
<1>12. LedgerAdds'
  BY <1>1, <1>9, <1>11, Compares_LedgerAdds
<1>13. Goes(w, drains'[w].ids, "read")
  BY <1>1, NextForm
<1>14. Withholds'
  <2>1. ASSUME KindOf(s) = "offline"
        PROVE  revealDay # 0 /\ (row.day = revealDay \/ s \in streakWorld.legacy)
    BY <1>2, <1>6, <2>1 DEF LedgerInv, Withholds, Published
  <2>2. KindOf(s) = "contest" => contest # "running"
    BY <1>2 DEF LedgerInv, Withholds, Published
  <2>3. ASSUME NEW e \in Events
        PROVE  /\ KindOf(e) = "offline" =>
                    IF revealDay = 0 THEN events'[e].pending /\ ~events'[e].applied
                    ELSE events'[e].day = revealDay \/ e \in streakWorld.legacy
               /\ KindOf(e) = "contest" /\ events'[e].applied => contest # "running"
    <3>1. CASE e = s
      BY <1>5, <2>1, <2>2, <3>1
    <3>2. CASE e # s
      BY <1>7, <3>2 DEF LedgerInv, Withholds
    <3> QED
      BY <3>1, <3>2
  <2>4. \A v \in StreakWorkers : drains'[v].step = "publish" => revealDay # 0
    BY <1>13 DEF Goes, LedgerInv, Withholds
  <2> QED
    BY <1>1, <1>7, <1>8, <2>3, <2>4 DEF Withholds
<1>15. RevealHolds'
  <2>1. HeldBy(Reveal)' = HeldBy(Reveal)
    BY <1>1, Unlocks, Names DEF LetsGo
  <2>2. Waiting' \subseteq Waiting
    BY <1>1, <1>2, <1>5, <1>6, <1>8 DEF Waiting, Pending, Offline
  <2> QED
    BY <1>1, <2>1, <2>2, Other_RevealHolds DEF LedgerInv
<1>16. s \notin Awarded /\ \A a \in awards : a.sub \in Awarded
  BY <1>2 DEF Awarded, LedgerInv, AwardsFit
<1>17. \A a \in awards : a.day = events'[a.sub].day
  BY <1>7, <1>16 DEF LedgerInv, AwardsFit, Awarded
<1>18. Awarded' \ {s} = Awarded /\ (s \in Awarded' <=> row.points > row.previous)
  <2>1. s \in Awarded' <=> row.points > row.previous
    BY <1>2, <1>5, <1>6, <1>7 DEF Awarded
  <2>2. \A e \in Events \ {s} : e \in Awarded' <=> e \in Awarded
    BY <1>7 DEF Awarded
  <2> QED
    BY <1>7, <1>16, <2>1, <2>2 DEF Awarded
<1> HIDE DEF s, q, old
<1>19. CASE new.points <= new.previous
  <2>1. UNCHANGED <<days, streaks, summary, awards>>
    BY <1>4, <1>19 DEF awardVars
  <2>2. Awarded' = Awarded
    BY <1>6, <1>10, <1>18, <1>19, <1>16
  <2>3. AwardsFit'
    BY <1>17, <2>1, <2>2 DEF LedgerInv, AwardsFit
  <2>4. RunsFit'
    BY <2>1 DEF LedgerInv, RunsFit, IsRun
  <2> QED
    BY <1>11, <1>12, <1>14, <1>15, <2>3, <2>4 DEF LedgerInv
<1>20. CASE ~(new.points <= new.previous)
  <2>1. /\ awards' = awards \cup {[sub |-> s, day |-> new.day, points |-> new.points - new.previous]}
        /\ AddDay(new.day)
    BY <1>4, <1>20
  <2>2. new.day \in 1..LastDay
    BY <1>3, <1>6 DEF EventTyped, old
  <2>3. RunsFit' /\ days' = days \cup {new.day}
    BY <2>1, <2>2, AddDay_RunsFit DEF LedgerInv
  <2>4. Awarded' = Awarded \cup {s}
    BY <1>6, <1>10, <1>18, <1>20
  <2>5. PICK a : a.sub = s /\ a.day = new.day /\ awards' = awards \cup {a}
    BY <2>1
  <2>6. {b.sub : b \in awards'} = Awarded'
    BY <2>4, <2>5 DEF LedgerInv, AwardsFit
  <2>7. days' = {b.day : b \in awards'}
    BY <2>3, <2>5 DEF LedgerInv, AwardsFit
  <2>8. \A b \in awards' : b.day = events'[b.sub].day
    BY <1>5, <1>6, <1>17, <2>5
  <2>9. AwardsFit'
    BY <2>6, <2>7, <2>8 DEF AwardsFit
  <2> QED
    BY <1>11, <1>12, <1>14, <1>15, <2>3, <2>9 DEF LedgerInv
<1> QED
  BY <1>19, <1>20
\* The events of a problem are compared one after the other: what each improves adds up.
LEMMA Telescoped ==
  ASSUME StreakInv, LedgerInv, NEW p \in StreakProblems, NEW U \in SUBSET Events,
         NEW result, \A s \in U : result[s] \in ResultsOf(p), NEW f,
         \A s \in U :
           f[s] = Total(Improved(p, {e \in U : events[e].id <= events[s].id}, result))
                    - Total(Improved(p, {e \in U : events[e].id <= events[s].id - 1}, result))
  PROVE  SumFunctionOnSet(f, U) = Total(Improved(p, U, result)) - Total(best[p])
<1> DEFINE id == [s \in U |-> events[s].id]
           Upto(k) == {e \in U : events[e].id <= k}
           h == [k \in Nat |-> Total(Improved(p, Upto(k), result))]
           c == Cardinality(Events)
<1>1. /\ IsFiniteSet(U) /\ U \subseteq StreakSubs /\ c \in Nat
      /\ best[p] \in [Subtasks[p] -> Nat]
  BY EventsTyped, FS_Subset, FS_CardinalityType DEF LedgerInv, LedgerTypes
<1>2. /\ \A s \in U : events[s].id \in Nat \ {0} /\ events[s].id <= c
      /\ \A s, e \in U : events[s].id = events[e].id => s = e
  BY <1>1 DEF StreakInv, StreakShape, EventOrder, Events
<1>3. \A s \in U : id[s] = events[s].id
  OBVIOUS
<1>4. \A k \in Nat : h[k] = Total(Improved(p, Upto(k), result))
  OBVIOUS
<1>5. ASSUME NEW k \in Nat PROVE h[k] \in Int
  <2> DEFINE S == Upto(k)
  <2>1. IsFiniteSet(S) /\ \A s \in S : result[s] \in ResultsOf(p)
    BY <1>1, FS_Subset
  <2> HIDE DEF S, h
  <2>2. Improved(p, S, result) \in [Subtasks[p] -> Nat]
    BY <1>1, <2>1, ImprovedTyped
  <2>3. Total(Improved(p, S, result)) \in Int
    BY <2>2, TotalTyped
  <2> QED
    BY <1>4, <2>3 DEF S
<1>6. ASSUME NEW k \in Nat \ {0}, \A s \in U : id[s] # k PROVE h[k] = h[k - 1]
  <2>1. Upto(k) = Upto(k - 1)
    <3>1. \A s \in U : events[s].id # k /\ events[s].id \in Nat
      BY <1>2, <1>3, <1>6
    <3> QED
      BY <3>1
  <2>2. k \in Nat /\ k - 1 \in Nat
    OBVIOUS
  <2> HIDE DEF h, Upto
  <2> QED
    BY <1>4, <2>1, <2>2
<1>7. ASSUME NEW s \in U PROVE f[s] = h[id[s]] - h[id[s] - 1]
  <2> DEFINE n == events[s].id
  <2>1. n \in Nat /\ n - 1 \in Nat /\ id[s] = n
    BY <1>2
  <2>2. f[s] = Total(Improved(p, Upto(n), result)) - Total(Improved(p, Upto(n - 1), result))
    OBVIOUS
  <2> HIDE DEF h, Upto, id, n
  <2> QED
    BY <1>4, <2>1, <2>2
<1>8. Upto(c) = U /\ Upto(0) = {}
  BY <1>2
<1>9. h[0] = Total(best[p]) /\ h[c] = Total(Improved(p, U, result))
  <2>1. Improved(p, {}, result) = best[p]
    <3> DEFINE new == Improved(p, {}, result)
    <3>1. /\ new \in [Subtasks[p] -> Nat]
          /\ \A g \in Subtasks[p] : new[g] = Max({best[p][g]} \cup Values({}, result, g))
      BY <1>1, ImprovedTyped, FS_EmptySet
    <3>2. ASSUME NEW g \in Subtasks[p] PROVE new[g] = best[p][g]
      <4>1. {best[p][g]} \cup Values({}, result, g) = {best[p][g]}
        BY DEF Values
      <4>2. best[p][g] \in Int
        BY <1>1
      <4>3. Max({best[p][g]}) = best[p][g]
        BY <4>2, MaxOfOne
      <4> QED
        BY <3>1, <4>1, <4>3
    <3> HIDE DEF new
    <3>3. new = best[p]
      BY <1>1, <3>1, <3>2
    <3> QED
      BY <3>3 DEF new
  <2> HIDE DEF h, Upto, c
  <2> QED
    BY <1>1, <1>4, <1>8, <2>1
<1> HIDE DEF h, id, Upto, c
<1>10. \A k \in Nat : SumFunctionOnSet(f, {x \in U : id[x] <= k}) = h[k] - h[0]
  <2>1. \A s \in U : id[s] \in Nat \ {0}
    BY <1>2, <1>3
  <2>2. \A s, e \in U : id[s] = id[e] => s = e
    BY <1>2, <1>3
  <2> QED
    BY <1>1, <1>5, <1>6, <1>7, <2>1, <2>2, SumTelescopes, SMTT(30)
<1>11. {x \in U : id[x] <= c} = U
  BY <1>2, <1>3
<1>12. SumFunctionOnSet(f, U) = h[c] - h[0]
  BY <1>1, <1>10, <1>11
<1> QED
  BY <1>9, <1>12

\* The events that a reveal or a worker settles, and those of them that it compares.
Compares1st(t) == {s \in ToSettle(t) : ~events[s].applied}
Earlier(t, s, n) == {e \in Among(Compares1st(t), ProblemOf(s)) : events[e].id <= n}
ResultsIn(t) == [e \in ToSettle(t) |-> events[e].result]
LEMMA SettledRows ==
  ASSUME StreakInv, LedgerInv, NEW t, NEW d, PublishEvents(t, d)
  PROVE  /\ ToSettle(t) \subseteq HeldEvents(t) \cap Pending \cap Events
         /\ \A s \in StreakSubs \ ToSettle(t) : events'[s] = events[s]
         /\ \A s \in ToSettle(t) :
              LET row == events'[s]
                  n == events[s].id
              IN /\ row.id = n /\ row.day = d /\ row.result = events[s].result /\ row.applied = TRUE
                 /\ row.pending = (row.points > row.previous)
                 /\ row.points = IF events[s].applied THEN events[s].points
                                 ELSE Total(Improved(ProblemOf(s), Earlier(t, s, n), ResultsIn(t)))
                 /\ row.previous = IF events[s].applied THEN events[s].previous
                                   ELSE Total(Improved(ProblemOf(s), Earlier(t, s, n - 1), ResultsIn(t)))
<1> DEFINE S == ToSettle(t)
<1>1. events' = [s \in StreakSubs |-> IF s \in S THEN SettledEvent(s, S, d) ELSE events[s]]
  BY DEF PublishEvents
<1>2. S \subseteq HeldEvents(t) \cap Pending \cap Events
  BY DEF ToSettle, HeldEvents, Pending, StreakInv, EventOrder
<1>3. ASSUME NEW s \in S
      PROVE  LET row == events'[s]
                 n == events[s].id
             IN /\ row.id = n /\ row.day = d /\ row.result = events[s].result /\ row.applied = TRUE
                /\ row.pending = (row.points > row.previous)
                /\ row.points = IF events[s].applied THEN events[s].points
                                ELSE Total(Improved(ProblemOf(s), Earlier(t, s, n), ResultsIn(t)))
                /\ row.previous = IF events[s].applied THEN events[s].previous
                                  ELSE Total(Improved(ProblemOf(s), Earlier(t, s, n - 1), ResultsIn(t)))
  <2> DEFINE n == events[s].id
             before == Total(Improved(ProblemOf(s), Earlier(t, s, n - 1), ResultsIn(t)))
             after == Total(Improved(ProblemOf(s), Earlier(t, s, n), ResultsIn(t)))
             old == events[s]
  <2>1. s \in StreakSubs /\ DOMAIN old = Fields /\ EventTyped(s)
    BY <1>2 DEF Events, StreakInv, StreakShape, LedgerInv, LedgerTypes
  <2>2. \A k : {e \in S : ProblemOf(e) = ProblemOf(s) /\ ~events[e].applied /\ events[e].id <= k} = Earlier(t, s, k)
    BY DEF Earlier, Among, Compares1st
  <2>3. PICK e :
          /\ e = IF old.applied THEN old
                 ELSE [old EXCEPT !.previous = before, !.points = after, !.applied = TRUE]
          /\ events'[s] = [e EXCEPT !.day = d, !.released = TRUE, !.pending = e.points > e.previous]
    <3>1. events'[s] = SettledEvent(s, S, d)
      BY <1>1, <2>1
    <3> QED
      BY <2>2, <3>1 DEF SettledEvent, ResultsIn
  <2> HIDE DEF before, after, old, n
  <2>4. /\ DOMAIN e = Fields /\ e.id = old.id /\ e.result = old.result /\ e.applied = TRUE
        /\ e.points = IF old.applied THEN old.points ELSE after
        /\ e.previous = IF old.applied THEN old.previous ELSE before
    <3>1. CASE old.applied
      <4>1. old.applied = TRUE /\ e = old
        BY <2>1, <2>3, <3>1 DEF EventTyped, old
      <4> QED
        BY <2>1, <3>1, <4>1
    <3>2. CASE ~old.applied
      BY <2>1, <2>3, <3>2, ComparedRow
    <3> QED
      BY <3>1, <3>2
  <2> DEFINE x == e.points > e.previous
  <2> HIDE DEF x
  <2>5. LET g == [e EXCEPT !.day = d, !.released = TRUE, !.pending = x]
        IN /\ g.id = e.id /\ g.day = d /\ g.previous = e.previous /\ g.points = e.points
           /\ g.result = e.result /\ g.applied = e.applied /\ g.pending = x
    BY <2>4, SettledRow
  <2>6. /\ events'[s].id = e.id /\ events'[s].day = d /\ events'[s].previous = e.previous
        /\ events'[s].points = e.points /\ events'[s].result = e.result /\ events'[s].applied = e.applied
        /\ events'[s].pending = x
    BY <2>3, <2>5 DEF x
  <2> QED
    BY <2>4, <2>6 DEF x, before, after, old, n
<1>4. \A s \in StreakSubs \ S : events'[s] = events[s]
  BY <1>1
<1> HIDE DEF S
<1> QED
  BY <1>2, <1>3, <1>4 DEF S
LEMMA Publish_LedgerInv ==
  ASSUME StreakInv, LedgerInv, NEW t, NEW d \in 1..LastDay, PublishEvents(t, d),
         HeldEvents(t) \subseteq Waiting, revealDay' = d,
         (revealDay = 0 /\ HeldEvents(t) = Waiting) \/ revealDay = d,
         UNCHANGED <<today, contest, opening, ungraded, awardVars, streakWorld>>,
         HeldBy(Reveal)' \in {HeldBy(Reveal), {}}
  PROVE  LedgerInv'
<1> USE DEF awardVars
<1> DEFINE S == ToSettle(t)
           N == Compares1st(t)
<1>1. /\ S \subseteq HeldEvents(t) \cap Pending \cap Events
      /\ \A s \in StreakSubs \ S : events'[s] = events[s]
  BY SettledRows
<1>2. \A s \in S :
        LET row == events'[s]
            n == events[s].id
        IN /\ row.id = n /\ row.day = d /\ row.result = events[s].result /\ row.applied = TRUE
           /\ row.pending = (row.points > row.previous)
           /\ row.points = IF events[s].applied THEN events[s].points
                           ELSE Total(Improved(ProblemOf(s), Earlier(t, s, n), ResultsIn(t)))
           /\ row.previous = IF events[s].applied THEN events[s].previous
                             ELSE Total(Improved(ProblemOf(s), Earlier(t, s, n - 1), ResultsIn(t)))
  BY SettledRows
<1>3. S \subseteq Offline /\ S \subseteq Events /\ N \subseteq S /\ N = {s \in S : ~events[s].applied}
  BY <1>1 DEF Waiting, Compares1st
<1>4. Events' = Events
  <2>1. \A s \in StreakSubs : events'[s].id = events[s].id
    BY <1>1, <1>2
  <2> QED
    BY <2>1 DEF Events
<1>5. \A e : ProblemOf(e)' = ProblemOf(e) /\ KindOf(e)' = KindOf(e)
  BY DEF ProblemOf, KindOf
<1>6. \A s \in Events : EventTyped(s) /\ s \in StreakSubs /\ ProblemOf(s) \in StreakProblems
  BY Typed DEF Events, LedgerInv, LedgerTypes
<1>7. ASSUME NEW p \in StreakProblems
      PROVE  /\ best'[p] = Improved(p, Among(N, p), ResultsIn(t))
             /\ Among(N, p) \subseteq Events /\ IsFiniteSet(Among(N, p))
             /\ \A s \in Among(N, p) : ResultsIn(t)[s] = events[s].result /\ events[s].result \in ResultsOf(p)
  <2>1. {s \in S : ProblemOf(s) = p /\ ~events[s].applied} = Among(N, p)
    BY <1>3 DEF Among
  <2>2. best'[p] = Improved(p, {s \in S : ProblemOf(s) = p /\ ~events[s].applied}, ResultsIn(t))
    BY DEF PublishEvents, ResultsIn
  <2>3. Among(N, p) \subseteq S
    BY <1>3 DEF Among
  <2>4. IsFiniteSet(Among(N, p))
    BY <1>3, <2>3, EventsTyped, FS_Subset
  <2>5. \A s \in Among(N, p) : ResultsIn(t)[s] = events[s].result /\ events[s].result \in ResultsOf(p)
    BY <1>3, <1>6, <2>3 DEF ResultsIn, EventTyped, Among
  <2> QED
    BY <1>3, <2>1, <2>2, <2>3, <2>4, <2>5
<1>8. ASSUME NEW p \in StreakProblems
      PROVE  /\ best'[p] \in [Subtasks[p] -> Nat]
             /\ \A g \in Subtasks[p] :
                  best'[p][g] = Max({best[p][g]} \cup {events'[s].result[g] : s \in Among(N, p)})
             /\ SumFunction([s \in Among(N, p) |-> events'[s].points - events'[s].previous])
                  = Total(best'[p]) - Total(best[p])
  <2> DEFINE U == Among(N, p)
             results == ResultsIn(t)
  <2>1. /\ best'[p] = Improved(p, U, results) /\ U \subseteq Events /\ IsFiniteSet(U)
        /\ \A s \in U : results[s] = events[s].result /\ results[s] \in ResultsOf(p)
    BY <1>7
  <2>2. best[p] \in [Subtasks[p] -> Nat]
    BY DEF LedgerInv, LedgerTypes
  <2>3. \A s \in U : s \in S /\ ~events[s].applied /\ ProblemOf(s) = p
    BY <1>3 DEF Among
  <2>4. \A s \in U : \A n : Earlier(t, s, n) = {e \in U : events[e].id <= n}
    BY <2>3 DEF Earlier
  <2> DEFINE f == [s \in U |-> events'[s].points - events'[s].previous]
  <2>5. ASSUME NEW s \in U
        PROVE  f[s] = Total(Improved(p, {e \in U : events[e].id <= events[s].id}, results))
                        - Total(Improved(p, {e \in U : events[e].id <= events[s].id - 1}, results))
    <3> DEFINE n == events[s].id
    <3>1. /\ Earlier(t, s, n) = {e \in U : events[e].id <= n}
          /\ Earlier(t, s, n - 1) = {e \in U : events[e].id <= n - 1}
      BY <2>4
    <3>2. f[s] = events'[s].points - events'[s].previous
      OBVIOUS
    <3> HIDE DEF f, U, results
    <3>3. /\ events'[s].points = Total(Improved(p, Earlier(t, s, n), results))
          /\ events'[s].previous = Total(Improved(p, Earlier(t, s, n - 1), results))
      BY <1>2, <2>3 DEF results
    <3> QED
      BY <3>1, <3>2, <3>3
  <2>6. DOMAIN f = U
    OBVIOUS
  <2>7. \A s \in U : events'[s].result = results[s]
    BY <1>2, <2>1, <2>3
  <2> HIDE DEF U, f, results
  <2>8. SumFunction(f) = Total(best'[p]) - Total(best[p])
    BY <2>1, <2>5, <2>6, Telescoped DEF SumFunction
  <2>9. /\ best'[p] \in [Subtasks[p] -> Nat]
        /\ \A g \in Subtasks[p] : best'[p][g] = Max({best[p][g]} \cup Values(U, results, g))
    <3> DEFINE new == Improved(p, U, results)
    <3>1. /\ new \in [Subtasks[p] -> Nat]
          /\ \A g \in Subtasks[p] : new[g] = Max({best[p][g]} \cup Values(U, results, g))
      BY <2>1, <2>2, ImprovedTyped
    <3> HIDE DEF new
    <3>2. best'[p] = new
      BY <2>1 DEF new
    <3> QED
      BY <3>1, <3>2
  <2>10. \A g \in Subtasks[p] : Values(U, results, g) = {events'[s].result[g] : s \in U}
    BY <2>7 DEF Values
  <2>11. \A g \in Subtasks[p] : best'[p][g] = Max({best[p][g]} \cup {events'[s].result[g] : s \in U})
    BY <2>9, <2>10
  <2> QED
    BY <2>8, <2>9, <2>11 DEF f, U
<1>9. \A s \in S : events'[s].points \in Int /\ events'[s].previous \in Int
  <2> SUFFICES ASSUME NEW s \in S PROVE events'[s].points \in Int /\ events'[s].previous \in Int
    OBVIOUS
  <2> DEFINE p == ProblemOf(s)
  <2>1. s \in Events /\ EventTyped(s) /\ p \in StreakProblems
    BY <1>3, <1>6
  <2>2. ASSUME NEW n PROVE Total(Improved(p, Earlier(t, s, n), ResultsIn(t))) \in Int
    <3> DEFINE U == Earlier(t, s, n)
    <3>1. U \subseteq Among(N, p)
      BY DEF Earlier
    <3>2. IsFiniteSet(U) /\ \A e \in U : ResultsIn(t)[e] \in ResultsOf(p)
      BY <1>7, <2>1, <3>1, FS_Subset
    <3>3. best[p] \in [Subtasks[p] -> Nat]
      BY <2>1 DEF LedgerInv, LedgerTypes
    <3> HIDE DEF U, p
    <3>4. Improved(p, U, ResultsIn(t)) \in [Subtasks[p] -> Nat]
      BY <2>1, <3>2, <3>3, ImprovedTyped
    <3>5. Total(Improved(p, U, ResultsIn(t))) \in Int
      BY <2>1, <3>4, TotalTyped
    <3> QED
      BY <3>5 DEF U
  <2>3. CASE events[s].applied
    BY <1>2, <2>1, <2>3 DEF EventTyped
  <2>4. CASE ~events[s].applied
    BY <1>2, <2>2, <2>4
  <2> QED
    BY <2>3, <2>4
<1> HIDE DEF S
<1>10. LedgerTypes'
  <2>1. ASSUME NEW s \in Events PROVE EventTyped(s)'
    <3>1. CASE s \in S
      <4>1. events'[s].day = d /\ events'[s].result = events[s].result /\ events'[s].applied = TRUE
        BY <1>2, <3>1
      <4>2. events'[s].pending = (events'[s].points > events'[s].previous)
        BY <1>2, <3>1
      <4>3. events'[s].pending \in BOOLEAN
        BY <4>2
      <4>4. events[s].result \in ResultsOf(ProblemOf(s))'
        BY <1>5, <1>6 DEF EventTyped, ResultsOf
      <4> QED
        BY <1>9, <3>1, <4>1, <4>3, <4>4 DEF EventTyped
    <3>2. CASE s \notin S
      BY <1>1, <1>5, <1>6, <3>2 DEF EventTyped
    <3> QED
      BY <3>1, <3>2
  <2>2. best' = [p \in StreakProblems |-> best'[p]]
    BY DEF PublishEvents
  <2>3. \A p \in StreakProblems : best'[p] \in [Subtasks[p] -> Nat]
    BY <1>8
  <2>4. today' \in 1..LastDay /\ opening' \in 0..LastDay /\ revealDay' \in 0..LastDay
    BY DEF LedgerInv, LedgerTypes
  <2>5. Events' \subseteq (streakWorld.subs \cup streakWorld.legacy)' /\ ungraded' \subseteq streakWorld'.subs
    BY <1>4 DEF LedgerInv, LedgerTypes
  <2> QED
    BY <1>4, <2>1, <2>2, <2>3, <2>4, <2>5 DEF LedgerTypes
<1>11. Compares(N)
  <2>1. ASSUME NEW s \in Events
        PROVE  /\ events'[s].result = events[s].result
               /\ events'[s].applied <=> events[s].applied \/ s \in N
               /\ events[s].applied =>
                    s \notin N /\ events'[s].points = events[s].points /\ events'[s].previous = events[s].previous
    <3>1. CASE s \in S
      BY <1>2, <1>3, <3>1
    <3>2. CASE s \notin S
      BY <1>1, <1>3, <1>6, <3>2
    <3> QED
      BY <3>1, <3>2
  <2>2. N \subseteq Events' /\ Events \subseteq Events' /\ Events' \ Events = {}
    BY <1>3, <1>4
  <2> HIDE DEF N
  <2> QED
    BY <1>8, <2>1, <2>2 DEF Compares
<1>12. LedgerAdds'
  BY <1>10, <1>11, Compares_LedgerAdds
<1>13. Withholds'
  <2>1. ASSUME NEW s \in Events, KindOf(s) = "offline"
        PROVE  events'[s].day = d \/ s \in streakWorld.legacy
    <3>1. CASE s \in S
      BY <1>2, <3>1
    <3>2. CASE s \notin S
      <4>1. events'[s] = events[s]
        BY <1>1, <1>6, <3>2
      <4>2. CASE revealDay = d
        BY <2>1, <4>1, <4>2 DEF LedgerInv, Withholds
      <4>3. CASE revealDay = 0 /\ HeldEvents(t) = Waiting /\ s \notin streakWorld.legacy
        <5>1. events[s].pending /\ ~events[s].applied
          BY <2>1, <4>3 DEF LedgerInv, Withholds
        <5>2. s \in Waiting
          BY <1>6, <2>1, <4>3, <5>1 DEF LedgerInv, LedgerTypes, Waiting, Pending, Offline
        <5> QED
          BY <3>2, <4>3, <5>1, <5>2 DEF S, ToSettle
      <4> QED
        BY <4>2, <4>3
    <3> QED
      BY <3>1, <3>2
  <2>2. ASSUME NEW s \in Events, KindOf(s) = "contest", events'[s].applied PROVE contest # "running"
    <3>1. s \notin S
      BY <1>3, <2>2 DEF Offline
    <3>2. events'[s] = events[s]
      BY <1>1, <1>6, <3>1
    <3> QED
      BY <2>2, <3>2 DEF LedgerInv, Withholds
  <2>3. d # 0
    OBVIOUS
  <2> QED
    BY <1>4, <1>5, <2>1, <2>2, <2>3 DEF Withholds
<1>14. \A s \in S : s \notin Awarded /\ s \notin Awarded'
  BY <1>1, <1>2 DEF Awarded, Pending
<1>15. Waiting' \subseteq Waiting
  BY <1>1, <1>5 DEF Waiting, Pending, Offline
<1>16. RevealHolds'
  BY <1>15, Other_RevealHolds DEF LedgerInv
<1>17. Awarded' = Awarded
  <2>1. \A s \in Events \ S : events'[s] = events[s]
    BY <1>1, <1>6
  <2> QED
    BY <1>4, <1>14, <2>1 DEF Awarded
<1>18. AwardsFit'
  <2>1. \A a \in awards : a.sub \in Awarded
    BY DEF LedgerInv, AwardsFit
  <2>2. \A a \in awards : events'[a.sub] = events[a.sub]
    BY <1>1, <1>6, <1>14, <2>1 DEF Awarded
  <2> QED
    BY <1>17, <2>2 DEF LedgerInv, AwardsFit
<1>19. RunsFit'
  BY DEF LedgerInv, RunsFit, IsRun
<1> QED
  BY <1>10, <1>12, <1>13, <1>16, <1>18, <1>19 DEF LedgerInv
LEMMA Init_LedgerInv == StreakInit => LedgerInv
<1> SUFFICES ASSUME StreakInit PROVE LedgerInv
  OBVIOUS
<1>1. StreakInv
  BY Init_StreakInv
<1> DEFINE L == streakWorld.legacy
           seed == streakWorld.seed
<1>2. /\ streakWorld.last \in 1..LastDay /\ seed \in Nat /\ LastDay \in Nat
      /\ L \subseteq StreakSubs /\ \A s \in StreakSubs : streakWorld.day[s] \in 1..LastDay
  BY <1>1, WorldTyped, StreakAssumption
<1>3. /\ today = 1 /\ opening = 0 /\ contest = "running" /\ ungraded = streakWorld.subs \ L
      /\ revealDay = IF L = {} THEN 0 ELSE 1
      /\ best = [p \in StreakProblems |-> [g \in Subtasks[p] |-> seed]]
      /\ days = {} /\ streaks = {} /\ awards = {} /\ summary = [last |-> 0, current |-> 0, longest |-> 0]
      /\ \A w \in StreakWorkers : drains[w].step = "read"
  BY DEF StreakInit
<1> HIDE DEF L, seed
<1>4. PICK order \in SetToSeqs(L), points \in 0..SubtaskPoints :
        events = [s \in StreakSubs |->
             IF s \in L
             THEN NewEvent(s, CHOOSE i \in DOMAIN order : order[i] = s, streakWorld.day[s],
                           [g \in Subtasks[ProblemOf(s)] |-> points])
             ELSE NoEvent]
  BY DEF StreakInit, L
<1>5. Events \subseteq L
  <2>1. \A s \in StreakSubs \ L : events[s].id = 0
    BY <1>4 DEF NoEvent
  <2> QED
    BY <2>1 DEF Events
<1>6. ASSUME NEW s \in Events
      PROVE  /\ EventTyped(s) /\ events[s].pending /\ ~events[s].applied /\ s \in L
  <2>1. s \in L /\ s \in StreakSubs
    BY <1>5 DEF Events
  <2>2. PICK i : events[s] = NewEvent(s, i, streakWorld.day[s], [g \in Subtasks[ProblemOf(s)] |-> points])
    BY <1>4, <2>1
  <2>3. [g \in Subtasks[ProblemOf(s)] |-> points] \in ResultsOf(ProblemOf(s))
    BY <1>4 DEF ResultsOf
  <2> QED
    BY <1>2, <2>1, <2>2, <2>3 DEF NewEvent, EventTyped
<1>7. LedgerTypes
  <2>1. 1 \in 1..LastDay
    BY <1>2
  <2>2. today \in 1..LastDay /\ opening \in 0..LastDay /\ revealDay \in 0..LastDay
    BY <1>2, <1>3, <2>1
  <2>3. \A p \in StreakProblems : best[p] \in [Subtasks[p] -> Nat]
    BY <1>2, <1>3
  <2> QED
    BY <1>3, <1>5, <1>6, <2>2, <2>3 DEF LedgerTypes, L
<1>8. LedgerAdds
  <2> SUFFICES ASSUME NEW p \in StreakProblems
               PROVE  /\ \A g \in Subtasks[p] :
                           best[p][g] = Max({seed} \cup {events[s].result[g] : s \in AppliedTo(p)})
                      /\ SumFunction(Gain(AppliedTo(p))) = Total(best[p]) - seed * Cardinality(Subtasks[p])
    BY DEF LedgerAdds, seed
  <2>1. AppliedTo(p) = {}
    BY <1>6 DEF AppliedTo
  <2>2. ASSUME NEW g \in Subtasks[p]
        PROVE  best[p][g] = Max({seed} \cup {events[s].result[g] : s \in AppliedTo(p)})
    <3>1. {seed} \cup {events[s].result[g] : s \in AppliedTo(p)} = {seed}
      BY <2>1
    <3>2. Max({seed}) = seed
      BY <1>2, MaxOfOne
    <3> QED
      BY <1>3, <3>1, <3>2
  <2>3. SumFunction(Gain(AppliedTo(p))) = 0
    <3>1. DOMAIN Gain(AppliedTo(p)) = {}
      BY <2>1 DEF Gain
    <3> QED
      BY <3>1, SumOfNone DEF SumFunction
  <2>4. Total(best[p]) = seed * Cardinality(Subtasks[p])
    <3>1. IsFiniteSet(Subtasks[p])
      BY StreakAssumption
    <3>2. DOMAIN best[p] = Subtasks[p] /\ \A g \in Subtasks[p] : best[p][g] = seed
      BY <1>3
    <3>3. seed \in Int
      BY <1>2
    <3> QED
      BY <3>1, <3>2, <3>3, SumOfConstant DEF Total, SumFunction
  <2>5. Total(best[p]) \in Int
    BY <1>7, TotalTyped DEF LedgerTypes
  <2>6. SumFunction(Gain(AppliedTo(p))) = Total(best[p]) - seed * Cardinality(Subtasks[p])
    <3> DEFINE c == seed * Cardinality(Subtasks[p])
    <3>1. Total(best[p]) = c
      BY <2>4
    <3>2. c \in Int
      BY <2>5, <3>1
    <3> HIDE DEF c
    <3>3. c - c = 0
      BY <3>2
    <3>4. SumFunction(Gain(AppliedTo(p))) = Total(best[p]) - c
      BY <2>3, <3>1, <3>3
    <3> QED
      BY <3>4 DEF c
  <2> QED
    BY <2>2, <2>6
<1>9. Withholds
  <2>1. \A s \in Events : KindOf(s) = "offline" =>
          IF revealDay = 0 THEN events[s].pending /\ ~events[s].applied
          ELSE events[s].day = revealDay \/ s \in L
    BY <1>6
  <2> QED
    BY <1>3, <1>6, <2>1 DEF Withholds, L
<1>10. RevealHolds
  <2>1. ~Underway(Reveal)
    BY <1>3 DEF Underway, Reveal
  <2>2. HeldBy(Reveal) = {}
    BY <1>1, <2>1, Names DEF StreakInv, LockOrder
  <2> QED
    BY <2>2 DEF RevealHolds
<1>11. AwardsFit
  <2>1. Awarded = {}
    BY <1>6 DEF Awarded
  <2> QED
    BY <1>3, <2>1 DEF AwardsFit
<1>12. RunsFit
  <2>1. Max({0}) = 0
    BY MaxOfOne
  <2>2. {0} \cup days = {0} /\ {0} \cup {r.length : r \in streaks} = {0}
    BY <1>3
  <2>3. summary.last = 0 /\ summary = [last |-> 0, current |-> summary.current, longest |-> 0]
    BY <1>3
  <2>4. IsFiniteSet(streaks)
    BY <1>3, FS_EmptySet
  <2> QED
    BY <1>3, <2>1, <2>2, <2>3, <2>4 DEF RunsFit
<1> QED
  BY <1>7, <1>8, <1>9, <1>10, <1>11, <1>12 DEF LedgerInv

\* The steps of a worker that write nothing but `due`.
LEMMA QuietDrain_LedgerInv ==
  ASSUME StreakInv, LedgerInv, NEW w \in StreakWorkers,
         DrainReads(w) \/ ReadEvent(w) \/ AwardSkips(w) \/ AwardWaits(w) \/ DrainFails(w)
  PROVE  LedgerInv'
<1> USE DEF clockVars, ledgerVars
<1>1. UNCHANGED <<today, contest, opening, revealDay, ungraded, best, events, awardVars, streakWorld>>
  BY DEF DrainReads, ReadEvent, AwardSkips, AwardWaits, AwardStep, DrainFails
<1>2. HeldBy(Reveal)' = HeldBy(Reveal)
  <2>1. CASE DrainReads(w) \/ ReadEvent(w)
    BY <2>1 DEF DrainReads, ReadEvent, HeldBy
  <2>2. CASE AwardSkips(w) \/ AwardWaits(w) \/ DrainFails(w)
    <3>1. Unlock(Drain(w))
      BY <2>2 DEF AwardSkips, AwardWaits, AwardStep, DrainFails
    <3> QED
      BY <3>1, Unlocks, Names DEF LetsGo
  <2> QED
    BY <2>1, <2>2
<1>3. RevealHolds'
  <2>1. Waiting' = Waiting
    BY <1>1 DEF Waiting, Pending, Offline, KindOf
  <2> QED
    BY <1>1, <1>2, <2>1, Other_RevealHolds DEF LedgerInv
<1>4. \A v \in StreakWorkers \ {w} : drains'[v] = drains[v]
  <2>1. CASE DrainReads(w)
    <3>1. PICK ids : drains' = [drains EXCEPT ![w].ids = ids]
      BY <2>1 DEF DrainReads
    <3> QED
      BY <3>1, DrainForms DEF Goes
  <2>2. CASE ReadEvent(w)
    BY <2>2, DrainForms, NextForm DEF ReadEvent, Goes
  <2>3. CASE AwardSkips(w) \/ AwardWaits(w)
    <3>1. NextEvent(w)
      BY <2>3 DEF AwardSkips, AwardWaits, AwardStep
    <3> QED
      BY <3>1, NextForm DEF Goes
  <2>4. CASE DrainFails(w)
    BY <2>4, DrainForms, NextForm DEF DrainFails, Goes
  <2> QED
    BY <2>1, <2>2, <2>3, <2>4
<1>5. drains'[w].step = "publish" => revealDay # 0
  <2>1. CASE DrainReads(w)
    <3>1. PICK ids : drains' = [drains EXCEPT ![w].ids = ids]
      BY <2>1 DEF DrainReads
    <3>2. drains'[w].step = drains[w].step
      BY <3>1, DrainForms DEF Goes
    <3> QED
      BY <3>2 DEF LedgerInv, Withholds
  <2>2. CASE ReadEvent(w)
    <3>1. CASE EventAt(w) \notin Pending
      <4>1. NextEvent(w)
        BY <2>2, <3>1 DEF ReadEvent
      <4> QED
        BY <4>1, NextForm DEF Goes
    <3>2. CASE EventAt(w) \in Pending
      <4>1. PICK step : /\ drains' = [drains EXCEPT ![w].step = step]
                        /\ step = "publish" => revealDay # 0
        BY <2>2, <3>2 DEF ReadEvent
      <4>2. drains'[w].step = step
        BY <4>1, DrainForms DEF Goes
      <4> QED
        BY <4>1, <4>2
    <3> QED
      BY <3>1, <3>2
  <2>3. CASE AwardSkips(w) \/ AwardWaits(w)
    <3>1. NextEvent(w)
      BY <2>3 DEF AwardSkips, AwardWaits, AwardStep
    <3> QED
      BY <3>1, NextForm DEF Goes
  <2>4. CASE DrainFails(w)
    BY <2>4, DrainForms, NextForm DEF DrainFails, Goes
  <2> QED
    BY <2>1, <2>2, <2>3, <2>4
<1>6. \A v \in StreakWorkers : drains'[v].step = "publish" => revealDay # 0
  BY <1>4, <1>5 DEF LedgerInv, Withholds
<1>7. today' \in 1..LastDay /\ opening' \in 0..LastDay
  BY <1>1 DEF LedgerInv, LedgerTypes
<1> QED
  BY <1>1, <1>3, <1>6, <1>7, Quiet_LedgerInv

LEMMA LockRow_LedgerInv ==
  ASSUME StreakInv, LedgerInv, NEW t \in Transactions, LockRow(t)
  PROVE  LedgerInv'
<1>1. RevealHolds'
  BY LockRow_RevealHolds DEF LedgerInv
<1>2. UNCHANGED <<today, contest, opening, revealDay, ungraded, best, events, awardVars, drains, streakWorld>>
  BY DEF LockRow, clockVars, ledgerVars
<1>3. /\ today' \in 1..LastDay /\ opening' \in 0..LastDay
      /\ \A w \in StreakWorkers : drains'[w].step = "publish" => revealDay # 0
  BY <1>2 DEF LedgerInv, LedgerTypes, Withholds
<1> QED
  BY <1>1, <1>2, <1>3, Quiet_LedgerInv

\* The steps of nobody: only the clock, the contest and `due` change.
LEMMA Nobody_LedgerInv ==
  ASSUME StreakInv, LedgerInv,
         UNCHANGED <<revealDay, ungraded, best, events, awardVars, drains, holder, streakWorld>>,
         today' \in 1..LastDay, opening' \in 0..LastDay, contest' \in {contest, "over", "blind"}
  PROVE  LedgerInv'
<1>1. HeldBy(Reveal)' = HeldBy(Reveal) /\ Waiting' = Waiting
  BY DEF HeldBy, Waiting, Pending, Offline, KindOf
<1>2. RevealHolds'
  BY <1>1, Other_RevealHolds DEF LedgerInv
<1>3. \A w \in StreakWorkers : drains'[w].step = "publish" => revealDay # 0
  BY DEF LedgerInv, Withholds
<1> QED
  BY <1>2, <1>3, Quiet_LedgerInv

LEMMA RevealEnds_LedgerInv ==
  ASSUME StreakInv, LedgerInv, RevealEnds
  PROVE  LedgerInv'
<1>1. /\ HasLocks(Reveal) /\ Unlock(Reveal) /\ PublishEvents(Reveal, opening) /\ revealDay' = opening
      /\ UNCHANGED <<today, contest, opening, ungraded, awardVars, streakWorld>>
  BY DEF RevealEnds
<1>2. opening # 0 /\ revealDay = 0
  BY <1>1 DEF HasLocks, Underway, Reveal
<1>3. opening \in 1..LastDay
  <2>1. opening \in 0..LastDay /\ LastDay \in Nat
    BY StreakAssumption DEF LedgerInv, LedgerTypes
  <2> QED
    BY <1>2, <2>1
<1>4. HeldEvents(Reveal) = Waiting
  BY <1>1, RevealLocked DEF LedgerInv
<1>5. HeldBy(Reveal)' = {}
  BY <1>1, Unlocks, Names DEF LetsGo
<1> QED
  BY <1>1, <1>2, <1>3, <1>4, <1>5, Publish_LedgerInv

LEMMA DrainPublishes_LedgerInv ==
  ASSUME StreakInv, LedgerInv, NEW w \in StreakWorkers, DrainPublishes(w)
  PROVE  LedgerInv'
<1> DEFINE t == Drain(w)
<1>1. /\ Unlock(t) /\ PublishEvents(t, revealDay) /\ drains[w].step = "publish"
      /\ UNCHANGED <<today, contest, opening, revealDay, ungraded, awardVars, streakWorld>>
  BY DEF DrainPublishes, clockVars
<1>2. revealDay \in 1..LastDay
  <2>1. revealDay \in 0..LastDay /\ LastDay \in Nat /\ revealDay # 0
    BY <1>1, StreakAssumption DEF LedgerInv, LedgerTypes, Withholds
  <2> QED
    BY <2>1
<1>3. HeldEvents(t) \subseteq Waiting
  <2> SUFFICES ASSUME NEW s \in HeldEvents(t) PROVE s \in Waiting
    OBVIOUS
  <2>1. <<"event", s>> \in HeldBy(t)
    BY HeldEventRows
  <2>2. PublishHolds(t)
    BY <1>1 DEF StreakInv, LockOrder
  <2> HIDE DEF t
  <2> QED
    BY <2>1, <2>2 DEF PublishHolds, RowsIn
<1>4. HeldBy(Reveal)' = HeldBy(Reveal)
  BY <1>1, Unlocks, Names DEF LetsGo
<1> HIDE DEF t
<1> QED
  BY <1>1, <1>2, <1>3, <1>4, Publish_LedgerInv

LEMMA EndsWithoutEvent_LedgerInv ==
  ASSUME StreakInv, LedgerInv, NEW s \in StreakSubs, EndsWithoutEvent(s)
  PROVE  LedgerInv'
<1>1. /\ Unlock(Grade(s)) /\ ungraded' = ungraded \ {s}
      /\ UNCHANGED <<today, contest, opening, revealDay, best, events, awardVars, drains, streakWorld>>
  BY DEF EndsWithoutEvent, clockVars, ledgerVars
<1>2. HeldBy(Reveal)' = HeldBy(Reveal)
  BY <1>1, Unlocks, Names DEF LetsGo
<1>3. RevealHolds'
  <2>1. Waiting' = Waiting
    BY <1>1 DEF Waiting, Pending, Offline, KindOf
  <2> QED
    BY <1>1, <1>2, <2>1, Other_RevealHolds DEF LedgerInv
<1>4. /\ today' \in 1..LastDay /\ opening' \in 0..LastDay
      /\ \A w \in StreakWorkers : drains'[w].step = "publish" => revealDay # 0
  BY <1>1 DEF LedgerInv, LedgerTypes, Withholds
<1> QED
  BY <1>1, <1>3, <1>4, Quiet_LedgerInv

LEMMA Next_LedgerInv == StreakInv /\ LedgerInv /\ [StreakNext]_streakVars => LedgerInv'
<1> SUFFICES ASSUME StreakInv, LedgerInv, [StreakNext]_streakVars PROVE LedgerInv'
  OBVIOUS
<1> USE DEF ledgerVars
<1>0. today \in 1..LastDay /\ opening \in 0..LastDay /\ LastDay \in Nat
  BY StreakAssumption DEF LedgerInv, LedgerTypes
<1>1. ASSUME NEW s \in StreakSubs, LockRow(Grade(s)) \/ EndsWithoutEvent(s) \/ RecordCompletion(s)
      PROVE  LedgerInv'
  BY <1>1, Names, LockRow_LedgerInv, EndsWithoutEvent_LedgerInv, RecordCompletion_LedgerInv
<1>2. CASE RevealBegins
  <2>1. today' = today /\ opening' = today /\ contest' = contest
    BY <1>2 DEF RevealBegins
  <2>2. UNCHANGED <<revealDay, ungraded, best, events, awardVars, drains, holder, streakWorld>>
    BY <1>2 DEF RevealBegins
  <2>3. today \in 0..LastDay
    BY <1>0
  <2> QED
    BY <1>0, <2>1, <2>2, <2>3, Nobody_LedgerInv
<1>3. CASE RevealStep
  BY <1>3, Names, LockRow_LedgerInv, RevealEnds_LedgerInv DEF RevealStep
<1>4. ASSUME NEW w \in streakWorld.workers, DrainStep(w) \/ DrainFails(w) PROVE LedgerInv'
  <2>1. w \in StreakWorkers
    BY WorldTyped
  <2> QED
    BY <1>4, <2>1, Names, LockRow_LedgerInv, QuietDrain_LedgerInv, DrainPublishes_LedgerInv,
       AwardDecides_LedgerInv DEF DrainStep
<1>5. ASSUME NEW S, BecomeDue(S) PROVE LedgerInv'
  BY <1>0, <1>5, Nobody_LedgerInv DEF BecomeDue, clockVars
<1>6. CASE NextDay
  <2>1. today' = today + 1 /\ today < streakWorld.last
    BY <1>6 DEF NextDay
  <2>2. UNCHANGED <<opening, contest, revealDay, ungraded, best, events, awardVars, drains, holder, streakWorld>>
    BY <1>6 DEF NextDay
  <2>3. today' \in 1..LastDay
    BY <1>0, <2>1, WorldTyped
  <2> QED
    BY <1>0, <2>2, <2>3, Nobody_LedgerInv
<1>7. CASE ContestChanges
  <2>1. contest' \in {"over", "blind"}
    BY <1>7 DEF ContestChanges
  <2>2. UNCHANGED <<today, opening, revealDay, ungraded, best, events, awardVars, drains, holder, streakWorld>>
    BY <1>7 DEF ContestChanges
  <2> QED
    BY <1>0, <2>1, <2>2, Nobody_LedgerInv
<1>8. CASE UNCHANGED streakVars
  <2>1. /\ today' = today /\ contest' = contest /\ opening' = opening /\ revealDay' = revealDay
        /\ ungraded' = ungraded /\ best' = best /\ events' = events
    BY <1>8 DEF streakVars
  <2>2. UNCHANGED awardVars /\ drains' = drains /\ holder' = holder /\ streakWorld' = streakWorld
    BY <1>8 DEF streakVars, awardVars
  <2> QED
    BY <1>0, <2>1, <2>2, Nobody_LedgerInv
<1> QED
  BY <1>1, <1>2, <1>3, <1>4, <1>5, <1>6, <1>7, <1>8 DEF StreakNext, GradingStep

LEMMA Spec_LedgerInv == StreakSpec => [](StreakInv /\ LedgerInv)
<1>1. StreakInit => StreakInv /\ LedgerInv
  BY Init_StreakInv, Init_LedgerInv
<1>2. (StreakInv /\ LedgerInv) /\ [StreakNext]_streakVars => (StreakInv /\ LedgerInv)'
  BY Next_StreakInv, Next_LedgerInv
<1> QED
  BY <1>1, <1>2, PTL DEF StreakSpec

\* docs/practice-streaks.md:52: the ledger is the baseline and the public results, each
\* of them compared once, whatever gradings, reveals and workers do at the same time.
THEOREM LedgerStaysPublic == StreakSpec => []LedgerIsPublic
<1>1. ASSUME StreakInv, LedgerInv PROVE LedgerIsPublic
  <2> SUFFICES ASSUME NEW p \in StreakProblems
               PROVE  LET applied == {s \in Events : ProblemOf(s) = p /\ events[s].applied}
                      IN /\ \A g \in Subtasks[p] :
                              best[p][g] = Max({streakWorld.seed} \cup {events[s].result[g] : s \in applied})
                         /\ SumFunction([s \in applied |-> events[s].points - events[s].previous])
                              = Total(best[p]) - streakWorld.seed * Cardinality(Subtasks[p])
                         /\ \A s \in applied :
                              /\ KindOf(s) = "offline" => events[s].day = revealDay \/ s \in streakWorld.legacy
                              /\ KindOf(s) = "contest" => contest # "running"
    BY DEF LedgerIsPublic
  <2>1. \A s \in AppliedTo(p) :
          /\ KindOf(s) = "offline" => events[s].day = revealDay \/ s \in streakWorld.legacy
          /\ KindOf(s) = "contest" => contest # "running"
    BY <1>1 DEF LedgerInv, Withholds, AppliedTo
  <2>2. /\ \A g \in Subtasks[p] :
             best[p][g] = Max({streakWorld.seed} \cup {events[s].result[g] : s \in AppliedTo(p)})
        /\ SumFunction([s \in AppliedTo(p) |-> events[s].points - events[s].previous])
             = Total(best[p]) - streakWorld.seed * Cardinality(Subtasks[p])
    BY <1>1 DEF LedgerInv, LedgerAdds, Gain
  <2> QED
    BY <2>1, <2>2 DEF AppliedTo
<1> QED
  BY <1>1, Spec_LedgerInv, PTL

\* The stored days, runs and summary are those of the awarded improvements, in whatever
\* order the days come.
THEOREM StreaksStayRuns == StreakSpec => []StreaksAreRuns
<1>1. ASSUME LedgerInv PROVE StreaksAreRuns
  <2>1. {a.sub : a \in awards} = Awarded /\ (\A a \in awards : a.day = events[a.sub].day)
        /\ days = {a.day : a \in awards}
    BY <1>1 DEF LedgerInv, AwardsFit
  <2>2. days = UNION {r.start..r.end : r \in streaks}
    BY <1>1 DEF LedgerInv, RunsFit, IsRun
  <2>3. \A r \in streaks : r.start - 1 \notin days /\ r.end + 1 \notin days /\ r.length = r.end - r.start + 1
    BY <1>1 DEF LedgerInv, RunsFit, IsRun
  <2>4. /\ summary.longest = Max({0} \cup {r.length : r \in streaks})
        /\ summary.last = Max({0} \cup days)
        /\ \A r \in streaks : r.end = summary.last => summary.current = r.length
    BY <1>1 DEF LedgerInv, RunsFit
  <2> QED
    BY <2>1, <2>2, <2>3, <2>4 DEF StreaksAreRuns, Awarded
<1> QED
  BY <1>1, Spec_LedgerInv, PTL
=============================================================================
