------------------------------- MODULE Streaks -------------------------------
(* Achievement streaks of one user (utils/streaks.py, tasks/streaks.py).  The  *)
(* transaction that stores a result also writes an event, and compares the     *)
(* result with the best so far if it is public; the reveal of an offline       *)
(* attempt compares those that waited for it; workers turn improvements into   *)
(* days.  Every transaction takes its row locks one by one.                    *)
EXTENDS Integers, Sequences, FiniteSets, FiniteSetsExt, SequencesExt

CONSTANTS
  StreakSubs,     \* submissions, by primary key
  StreakProblems, \* problems, by primary key
  Subtasks,       \* of each problem; one if the problem is not cumulative
  SubtaskPoints,  \* points of every subtask
  LastDay,        \* bound: the calendar
  StreakBatch,    \* STREAKS_BATCH_SIZE
  StreakWorkers,  \* deliveries of drain_streak_work at the same time
  StreakWorlds    \* bound: what the submissions of a behaviour are

StreakKinds == {"practice", "contest", "offline"}
ASSUME StreakAssumption ==
  /\ StreakSubs \subseteq Nat /\ IsFiniteSet(StreakSubs)
  /\ StreakProblems \subseteq Nat /\ IsFiniteSet(StreakProblems)
  /\ \A p \in StreakProblems : IsFiniteSet(Subtasks[p])
  /\ SubtaskPoints \in Nat /\ LastDay \in Nat /\ StreakBatch \in Nat \ {0} /\ IsFiniteSet(StreakWorkers)
  /\ StreakWorlds \subseteq [of : [StreakSubs -> StreakProblems], kind : [StreakSubs -> StreakKinds],
                             day : [StreakSubs -> 1..LastDay], last : 1..LastDay, seed : Nat,
                             subs : SUBSET StreakSubs, legacy : SUBSET StreakSubs, faults : Nat,
                             workers : SUBSET StreakWorkers]

VARIABLES
  today,      \* the day in STREAK_TIMEZONE
  contest,    \* of the contest submissions: running, over, or over with hidden results
  opening,    \* the day on which the reveal of the attempt began, or 0
  revealDay,  \* the day of ExamOfflineAttempt.revealed_at, or 0
  ungraded,   \* submissions whose first run has no result yet
  best,       \* StreakProgress: the best points of each subtask
  events,     \* StreakEvent rows
  due,        \* the pending events that a worker may take, by ready_at
  days,       \* StreakDay rows
  streaks,    \* StreakRun rows
  summary,    \* StreakSummary
  awards,     \* StreakContribution rows
  drains,     \* what each worker does
  holder,     \* the transaction that holds the lock of a row
  streakFaults,
  streakWorld

streakVars == <<today, contest, opening, revealDay, ungraded, best, events, due, days, streaks,
                summary, awards, drains, holder, streakFaults, streakWorld>>
ledgerVars == <<best, events, due>>
awardVars == <<days, streaks, summary, awards>>
clockVars == <<today, contest, opening, revealDay>>

ProblemOf(s) == streakWorld.of[s]
KindOf(s) == streakWorld.kind[s]
Offline == {s \in streakWorld.subs : KindOf(s) = "offline"}
NoEvent == [id |-> 0, day |-> 0, previous |-> 0, points |-> 0, result |-> <<>>,
            applied |-> FALSE, released |-> FALSE, pending |-> FALSE]
Events == {s \in StreakSubs : events[s].id # 0}
Pending == {s \in StreakSubs : events[s].pending}

\* _contest_published, _event_published: what the public may know.
Published(s) ==
  CASE KindOf(s) = "practice" -> TRUE
    [] KindOf(s) = "contest" -> contest = "over"
    [] KindOf(s) = "offline" -> revealDay # 0

-----------------------------------------------------------------------------
(* Scores.  cumulative_vector_points without its scaling: a problem in normal  *)
(* mode has one subtask.                                                       *)
Total(vector) == SumFunction(vector)
ResultsOf(p) == [Subtasks[p] -> 0..SubtaskPoints]
\* _update_progress: the best after the results of the submissions S.
Improved(p, S, result) ==
  [g \in Subtasks[p] |-> Max({best[p][g]} \cup {result[s][g] : s \in S})]

-----------------------------------------------------------------------------
(* Row locks.  A transaction is a list of statements, each of which locks the  *)
(* rows it finds one after the other.                                          *)
Nobody == <<"nobody", 0>>
Grade(s) == <<"grade", s>>
Reveal == <<"reveal", 0>>
Drain(w) == <<"drain", w>>
Transactions == {Grade(s) : s \in StreakSubs} \cup {Reveal} \cup {Drain(w) : w \in StreakWorkers}
RowsIn(table, S) == {<<table, n>> : n \in S}
StreakRows ==
  RowsIn("problem", StreakProblems) \cup RowsIn("submission", StreakSubs) \cup RowsIn("summary", {0})
    \cup RowsIn("event", StreakSubs) \cup RowsIn("progress", StreakProblems)
HeldBy(t) == {r \in StreakRows : holder[r] = t}
HeldEvents(t) == {s \in StreakSubs : holder[<<"event", s>>] = t}

\* on_grading_end, then record_completion
GradeLocks(s) ==
  <<RowsIn("problem", {ProblemOf(s)}), RowsIn("submission", {s}), RowsIn("progress", {ProblemOf(s)})>>
\* publish_offline_streaks: all events before any progress
PublishLocks(t) ==
  <<RowsIn("event", Pending \cap Offline),
    RowsIn("progress", {ProblemOf(s) : s \in {e \in HeldEvents(t) : ~events[e].applied}})>>
\* BugPublishFirst: the streaks are settled before the submissions are shown.
BugPublishFirst == PublishLocks(Reveal) \o <<RowsIn("submission", Offline)>>
\* reveal_attempt; its first lock, of the attempt, is asked for by nobody else.
RevealLocks == <<RowsIn("submission", Offline)>> \o PublishLocks(Reveal)
\* process_event, once it knows that the event may be handled
AwardLocks(s) ==
  <<RowsIn("summary", {0}), RowsIn("event", {s}),
    IF s \in ToSet(due) /\ events[s].pending /\ ~events[s].applied /\ Published(s)
    THEN RowsIn("progress", {ProblemOf(s)}) ELSE {}>>

EventAt(w) == Head(drains[w].ids)
Statements(t) ==
  CASE t[1] = "grade" -> GradeLocks(t[2])
    [] t = Reveal -> RevealLocks
    [] t[1] = "drain" -> IF drains[t[2]].step = "publish" THEN PublishLocks(t) ELSE AwardLocks(EventAt(t[2]))
Underway(t) ==
  CASE t[1] = "grade" -> t[2] \in ungraded /\ streakWorld.day[t[2]] <= today
    [] t = Reveal -> opening # 0 /\ revealDay = 0
    [] t[1] = "drain" -> drains[t[2]].step \in {"publish", "award"}

\* The first statement that has not locked all of its rows waits for the first of the
\* rest; no statement is repeated.
Unlocked(all, held) ==
  LET open == {i \in DOMAIN all :
                 ~(all[i] \subseteq held) /\ \A j \in DOMAIN all : j > i => all[j] \cap held = {}}
  IN UNION {all[i] \ held : i \in {k \in open : \A j \in open : k <= j}}
KeyOf(r) == IF r[1] = "event" THEN events[r[2]].id ELSE r[2]
Wanted(t) ==
  LET rest == Unlocked(Statements(t), HeldBy(t))
  IN {r \in rest : \A q \in rest : KeyOf(r) <= KeyOf(q)}
LockRow(t) ==
  /\ Underway(t)
  /\ \E r \in Wanted(t) : holder[r] = Nobody /\ holder' = [holder EXCEPT ![r] = t]
  /\ UNCHANGED <<clockVars, ungraded, ledgerVars, awardVars, drains, streakFaults, streakWorld>>
HasLocks(t) == Underway(t) /\ Wanted(t) = {}
Unlock(t) == holder' = [r \in StreakRows |-> IF holder[r] = t THEN Nobody ELSE holder[r]]

-----------------------------------------------------------------------------
(* Init.  The cutover seeds the best points; a reveal made by an earlier       *)
(* release may have left its events as they were.                              *)
NewEvent(s, id, day, result) ==
  [id |-> id, day |-> day, previous |-> 0, points |-> 0, result |-> result,
   applied |-> FALSE, released |-> FALSE, pending |-> TRUE]
StreakInit ==
  /\ streakWorld \in StreakWorlds
  /\ today = 1 /\ contest = "running" /\ opening = 0
  /\ revealDay = IF streakWorld.legacy = {} THEN 0 ELSE 1
  /\ ungraded = streakWorld.subs \ streakWorld.legacy
  /\ best = [p \in StreakProblems |-> [g \in Subtasks[p] |-> streakWorld.seed]]
  /\ \E order \in SetToSeqs(streakWorld.legacy), points \in 0..SubtaskPoints :
       /\ due = order
       /\ events = [s \in StreakSubs |->
            IF s \in streakWorld.legacy
            THEN NewEvent(s, CHOOSE i \in DOMAIN order : order[i] = s, streakWorld.day[s],
                          [g \in Subtasks[ProblemOf(s)] |-> points])
            ELSE NoEvent]
  /\ days = {} /\ streaks = {} /\ awards = {}
  /\ summary = [last |-> 0, current |-> 0, longest |-> 0]
  /\ drains = [w \in StreakWorkers |-> [ids |-> <<>>, step |-> "read"]]
  /\ holder = [r \in StreakRows |-> Nobody]
  /\ streakFaults = 0

-----------------------------------------------------------------------------
(* A first run ends.                                                           *)
\* The final result is an error, or the problem or its scoring is not that of the
\* dispatch any more.
EndsWithoutEvent(s) ==
  /\ Underway(Grade(s)) /\ holder[<<"submission", s>>] = Grade(s)
  /\ ungraded' = ungraded \ {s} /\ Unlock(Grade(s))
  /\ UNCHANGED <<clockVars, ledgerVars, awardVars, drains, streakFaults, streakWorld>>

\* BugApplyAll: a withheld result counts at once.
BugApplyAll(s) == TRUE
AppliesNow(s) == Published(s)
DayOf(s) == IF KindOf(s) = "offline" /\ revealDay # 0 THEN revealDay ELSE streakWorld.day[s]
\* record_completion: the publication is read when all locks are held.
RecordCompletion(s) ==
  /\ HasLocks(Grade(s))
  /\ \E result \in ResultsOf(ProblemOf(s)) :
       LET after == Improved(ProblemOf(s), {s}, [e \in {s} |-> result])
           row == [id |-> Cardinality(Events) + 1, day |-> DayOf(s), previous |-> Total(best[ProblemOf(s)]),
                   points |-> Total(after), result |-> result, applied |-> AppliesNow(s),
                   released |-> KindOf(s) = "offline" /\ revealDay # 0,
                   pending |-> Total(after) > Total(best[ProblemOf(s)]) \/ ~AppliesNow(s)]
       IN /\ events' = [events EXCEPT ![s] = row]
          /\ best' = IF AppliesNow(s) THEN [best EXCEPT ![ProblemOf(s)] = after] ELSE best
          /\ due' = IF row.pending /\ ~(KindOf(s) = "contest" /\ contest = "running")
                    THEN Append(due, s) ELSE due
  /\ ungraded' = ungraded \ {s} /\ Unlock(Grade(s))
  /\ UNCHANGED <<clockVars, awardVars, drains, streakFaults, streakWorld>>

-----------------------------------------------------------------------------
(* publish_offline_streaks, with all locks of t held, for a reveal on day d.   *)
ToSettle(t) == {s \in HeldEvents(t) : events[s].pending /\ ~(events[s].applied /\ events[s].released)}
\* The events of a problem are compared in the order of their rows.
SettledEvent(s, S, d) ==
  LET upto(n) == {e \in S : ProblemOf(e) = ProblemOf(s) /\ ~events[e].applied /\ events[e].id <= n}
      results == [e \in S |-> events[e].result]
      before == Total(Improved(ProblemOf(s), upto(events[s].id - 1), results))
      after == Total(Improved(ProblemOf(s), upto(events[s].id), results))
      e == IF events[s].applied THEN events[s]
           ELSE [events[s] EXCEPT !.previous = before, !.points = after, !.applied = TRUE]
  IN [e EXCEPT !.day = d, !.released = TRUE, !.pending = e.points > e.previous]
\* retry_at is cleared: an event is ready since it was available, and that may be
\* before or after any other.
Reordered(S) ==
  {q \in SetToSeqs((ToSet(due) \ S) \cup {s \in S : events'[s].pending}) :
     SelectSeq(q, LAMBDA s : s \notin S) = SelectSeq(due, LAMBDA s : s \notin S)}
PublishEvents(t, d) ==
  LET S == ToSettle(t)
  IN /\ events' = [s \in StreakSubs |-> IF s \in S THEN SettledEvent(s, S, d) ELSE events[s]]
     /\ best' = [p \in StreakProblems |->
          Improved(p, {s \in S : ProblemOf(s) = p /\ ~events[s].applied}, [s \in S |-> events[s].result])]
     /\ due' \in Reordered(S)

\* reveal_attempt: revealed_at is the time at which it begins.
RevealBegins ==
  /\ Offline # {} /\ opening = 0 /\ revealDay = 0 /\ \A s \in Offline : streakWorld.day[s] <= today
  /\ opening' = today
  /\ UNCHANGED <<today, contest, revealDay, ungraded, ledgerVars, awardVars, drains, holder,
                 streakFaults, streakWorld>>
RevealEnds ==
  /\ HasLocks(Reveal) /\ revealDay' = opening
  /\ PublishEvents(Reveal, opening) /\ Unlock(Reveal)
  /\ UNCHANGED <<today, contest, opening, ungraded, awardVars, drains, streakFaults, streakWorld>>

-----------------------------------------------------------------------------
(* drain_streak_work and process_event.                                        *)
\* Not by primary key: by the time since which an event is ready.
ReadyOrder == due
MinLen(n, m) == IF n < m THEN n ELSE m
DrainReads(w) ==
  /\ drains[w].ids = <<>> /\ due # <<>>
  /\ drains' = [drains EXCEPT ![w].ids = SubSeq(ReadyOrder, 1, MinLen(StreakBatch, Len(due)))]
  /\ UNCHANGED <<clockVars, ungraded, ledgerVars, awardVars, holder, streakFaults, streakWorld>>

\* On to the next event, unless STREAKS_WORK_SECONDS are over.
NextEvent(w) ==
  drains' \in {[drains EXCEPT ![w] = [ids |-> ids, step |-> "read"]] : ids \in {Tail(drains[w].ids), <<>>}}

\* The first read of process_event, without a lock.
ReadEvent(w) ==
  /\ drains[w].ids # <<>> /\ drains[w].step = "read"
  /\ LET e == events[EventAt(w)]
     IN IF EventAt(w) \notin Pending THEN NextEvent(w)
        ELSE drains' = [drains EXCEPT ![w].step =
               IF KindOf(EventAt(w)) = "offline" /\ ~(e.applied /\ e.released) /\ revealDay # 0
               THEN "publish" ELSE "award"]
  /\ UNCHANGED <<clockVars, ungraded, ledgerVars, awardVars, holder, streakFaults, streakWorld>>
DrainPublishes(w) ==
  /\ drains[w].step = "publish" /\ HasLocks(Drain(w))
  /\ PublishEvents(Drain(w), revealDay) /\ Unlock(Drain(w))
  /\ drains' = [drains EXCEPT ![w].step = "award"]
  /\ UNCHANGED <<clockVars, ungraded, awardVars, streakFaults, streakWorld>>

\* _add_day
\* BugNoRight: a run that begins on the next day is not joined.
BugNoRight(d) == {}
RunAfter(d) == {r \in streaks : r.start = d + 1}
RunBefore(d) == {r \in streaks : r.end = d - 1}
RunWith(d) ==
  LET start == Min({d} \cup {r.start : r \in RunBefore(d)})
      end == Max({d} \cup {r.end : r \in RunAfter(d)})
  IN [start |-> start, end |-> end, length |-> end - start + 1]
AddDay(d) ==
  LET run == RunWith(d)
      longest == Max({summary.longest, run.length})
  IN IF d \in days THEN UNCHANGED <<days, streaks, summary>>
     ELSE /\ days' = days \cup {d}
          /\ streaks' = (streaks \ (RunBefore(d) \cup RunAfter(d))) \cup {run}
          /\ summary' = IF run.end >= summary.last
                        THEN [last |-> run.end, current |-> run.length, longest |-> longest]
                        ELSE [summary EXCEPT !.longest = longest]

NotDue(s) == due' = SelectSeq(due, LAMBDA e : e # s)
\* The second transaction of process_event.
TooEarly(w) == ~events[EventAt(w)].pending \/ EventAt(w) \notin ToSet(due)
Withheld(w) == ~events[EventAt(w)].applied /\ ~Published(EventAt(w))
AwardStep(w) ==
  /\ drains[w].step = "award" /\ HasLocks(Drain(w)) /\ NextEvent(w) /\ Unlock(Drain(w))
  /\ UNCHANGED <<clockVars, ungraded, streakFaults, streakWorld>>
AwardSkips(w) == AwardStep(w) /\ TooEarly(w) /\ UNCHANGED <<ledgerVars, awardVars>>
\* retry_at: in a minute
AwardWaits(w) ==
  /\ AwardStep(w) /\ ~TooEarly(w) /\ Withheld(w)
  /\ NotDue(EventAt(w)) /\ UNCHANGED <<best, events, awardVars>>
AwardDecides(w) ==
  LET s == EventAt(w)
      old == events[s]
      after == IF old.applied THEN best[ProblemOf(s)]
               ELSE Improved(ProblemOf(s), {s}, [e \in {s} |-> old.result])
      new == IF old.applied THEN old
             ELSE [old EXCEPT !.previous = Total(best[ProblemOf(s)]), !.points = Total(after),
                              !.applied = TRUE]
  IN /\ AwardStep(w) /\ ~TooEarly(w) /\ ~Withheld(w)
     /\ best' = [best EXCEPT ![ProblemOf(s)] = after]
     /\ events' = [events EXCEPT ![s] = [new EXCEPT !.pending = FALSE]]
     /\ NotDue(s)
     /\ IF new.points <= new.previous THEN UNCHANGED awardVars
        ELSE /\ awards' = awards \cup {[sub |-> s, day |-> new.day, points |-> new.points - new.previous]}
             /\ AddDay(new.day)

\* A transaction fails: it is rolled back, and the event is tried again later.  Or
\* the worker dies.
DrainFails(w) ==
  /\ drains[w].ids # <<>> /\ streakFaults < streakWorld.faults
  /\ streakFaults' = streakFaults + 1 /\ Unlock(Drain(w))
  /\ \/ NextEvent(w) /\ NotDue(EventAt(w))
     \/ drains' = [drains EXCEPT ![w] = [ids |-> <<>>, step |-> "read"]] /\ UNCHANGED due
  /\ UNCHANGED <<clockVars, ungraded, best, events, awardVars, streakWorld>>
DrainStep(w) ==
  \/ DrainReads(w) \/ ReadEvent(w) \/ LockRow(Drain(w)) \/ DrainPublishes(w)
  \/ AwardSkips(w) \/ AwardWaits(w) \/ AwardDecides(w)

-----------------------------------------------------------------------------
(* Time.                                                                       *)
NotYetDue == {s \in Pending \ ToSet(due) : ~(KindOf(s) = "contest" /\ contest = "running")}
\* retry_at or available_at of the events S is reached.
BecomeDue(S) ==
  /\ S # {} /\ S \subseteq NotYetDue
  /\ \E order \in SetToSeqs(S) : due' = due \o order
  /\ UNCHANGED <<clockVars, ungraded, best, events, awardVars, drains, holder, streakFaults, streakWorld>>
NextDay ==
  /\ today < streakWorld.last /\ today' = today + 1
  /\ UNCHANGED <<contest, opening, revealDay, ungraded, ledgerVars, awardVars, drains, holder,
                 streakFaults, streakWorld>>
\* The contest ends, or the administrator hides or shows its results.
ContestChanges ==
  /\ \E s \in streakWorld.subs : KindOf(s) = "contest"
  /\ contest' \in {"over", "blind"} \ {contest}
  /\ UNCHANGED <<today, opening, revealDay, ungraded, ledgerVars, awardVars, drains, holder,
                 streakFaults, streakWorld>>

GradingStep == \E s \in StreakSubs : LockRow(Grade(s)) \/ EndsWithoutEvent(s) \/ RecordCompletion(s)
RevealStep == LockRow(Reveal) \/ RevealEnds
StreakNext ==
  \/ GradingStep \/ RevealBegins \/ RevealStep
  \/ \E w \in streakWorld.workers : DrainStep(w) \/ DrainFails(w)
  \/ \E S \in SUBSET StreakSubs : BecomeDue(S)
  \/ NextDay \/ ContestChanges
StreakSpec == StreakInit /\ [][StreakNext]_streakVars

-----------------------------------------------------------------------------
StreakTypeOK ==
  /\ today \in 1..LastDay /\ opening \in 0..LastDay /\ revealDay \in 0..LastDay
  /\ contest \in {"running", "over", "blind"} /\ ungraded \subseteq StreakSubs
  /\ \A p \in StreakProblems : best[p] \in [Subtasks[p] -> Nat]
  /\ DOMAIN events = StreakSubs /\ ToSet(due) \subseteq Pending
  /\ days \subseteq 1..LastDay /\ streakFaults \in Nat
  /\ holder \in [StreakRows -> Transactions \cup {Nobody}]
  /\ \A w \in StreakWorkers :
       drains[w].step \in {"read", "publish", "award"} /\ ToSet(drains[w].ids) \subseteq Events

\* docs/practice-streaks.md:52 (withheld scores do not influence the public ledger): the
\* best points of a problem are those of the baseline and the results that were
\* public when they were compared, and each of them was compared once: what they
\* improved adds up to them.
LedgerIsPublic ==
  \A p \in StreakProblems :
    LET applied == {s \in Events : ProblemOf(s) = p /\ events[s].applied}
    IN /\ \A g \in Subtasks[p] :
            best[p][g] = Max({streakWorld.seed} \cup {events[s].result[g] : s \in applied})
       /\ SumFunction([s \in applied |-> events[s].points - events[s].previous])
            = Total(best[p]) - streakWorld.seed * Cardinality(Subtasks[p])
       /\ \A s \in applied :
            /\ KindOf(s) = "offline" => events[s].day = revealDay \/ s \in streakWorld.legacy
            /\ KindOf(s) = "contest" => contest # "running"

\* The days are those of the improvements whose event is done, the runs are their
\* maximal intervals, and the summary is about the last and the longest.
StreaksAreRuns ==
  /\ {a.sub : a \in awards} =
       {s \in Events : events[s].applied /\ ~events[s].pending /\ events[s].points > events[s].previous}
  /\ \A a \in awards : a.day = events[a.sub].day
  /\ days = {a.day : a \in awards} /\ days = UNION {r.start..r.end : r \in streaks}
  /\ \A r \in streaks : r.start - 1 \notin days /\ r.end + 1 \notin days /\ r.length = r.end - r.start + 1
  /\ summary.longest = Max({0} \cup {r.length : r \in streaks})
  /\ summary.last = Max({0} \cup days)
  /\ \A r \in streaks : r.end = summary.last => summary.current = r.length

\* utils/streaks.py:215 (lock all events before any progress): gradings, reveals and
\* workers never wait for one another in a circle.
WaitsFor(t) ==
  IF Underway(t) THEN {holder[r] : r \in Wanted(t)} \ {Nobody} ELSE {}
NoLockCycle ==
  LET waits == [t \in Transactions |-> WaitsFor(t)]
      blocked == {t \in Transactions : waits[t] # {}}
  IN \A T \in SUBSET blocked : T # {} => \E t \in T : waits[t] \cap T = {}
=============================================================================
