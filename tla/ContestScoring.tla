--------------------------- MODULE ContestScoring ---------------------------
(* The row of one participation on the scoreboard (contest_format/*.py,        *)
(* Submission.update_contest, ContestParticipation.recompute_results).  The    *)
(* row is recomputed from all submissions of the participation after a         *)
(* grading was committed; other ways to end a run do not recompute it.         *)
EXTENDS Integers, Sequences, FiniteSets, FiniteSetsExt, Functions

CONSTANTS
  ContestProblems, \* the problems of the contest
  FullPoints,      \* ContestProblem.points, of every problem
  Penalty,         \* config['penalty'] in minutes
  FreezeAt,        \* frozen_time, in minutes after the start
  WindowEnd,       \* end_time: also the bound of the dates
  MaxEntries,      \* bound: submissions
  ScoreWorlds      \* sets of what a behaviour may meet: "rejudge", "abort", "overlap"

ASSUME ScoringAssumption ==
  /\ IsFiniteSet(ContestProblems) /\ FullPoints \in Nat \ {0} /\ Penalty \in Nat
  /\ FreezeAt \in Nat /\ WindowEnd \in Nat /\ MaxEntries \in Nat

VARIABLES
  entries,    \* the submissions with their ContestSubmission rows, by date
  board,      \* the entries that the stored row was computed from
  updates,    \* calls of update_contest that are under way
  scoreWorld

scoreVars == <<entries, board, updates, scoreWorld>>

ScoringInit == entries = <<>> /\ board = <<>> /\ updates = {} /\ scoreWorld \in ScoreWorlds

-----------------------------------------------------------------------------
(* The formats: what update_participation stores for the entries E.            *)
Of(E, p) == {i \in DOMAIN E : E[i].prob = p}
Tried(E) == {p \in ContestProblems : Of(E, p) # {}}
Best(E, p) == Max({E[i].points : i \in Of(E, p)})
FirstBest(E, p) == Min({E[i].date : i \in {k \in Of(E, p) : E[k].points = Best(E, p)}})
Scored(E) == {p \in Tried(E) : Best(E, p) > 0}
TotalOf(f(_), P) == SumFunction([p \in P |-> f(p)])
MaxTime(E) == Max({0} \cup {FirstBest(E, p) : p \in Scored(E)})
BestTotal(E) == TotalOf(LAMBDA p : Best(E, p), Scored(E))

\* A run without a result, CE and IE are no tries; AB is one.
Tries(E, p) ==
  Cardinality({i \in Of(E, p) : E[i].result \notin {"none", "IE", "CE"} /\ E[i].date <= FirstBest(E, p)})
PenaltyOf(E, P) == TotalOf(LAMBDA p : (Tries(E, p) - 1) * Penalty, P)
TimeOf(E, P) == TotalOf(LAMBDA p : FirstBest(E, p), P)

ICPC(E) ==
  [score |-> BestTotal(E), cumtime |-> TimeOf(E, Scored(E)) + PenaltyOf(E, Scored(E)), tiebreaker |-> MaxTime(E)]
\* The frozen columns: a problem whose best run is in the frozen part is skipped.
\* BugFrozen: the run at the very moment of the freeze is still shown.
BugFrozen(E) == {p \in Scored(E) : FirstBest(E, p) <= FreezeAt}
BeforeFreeze(E) == {p \in Scored(E) : FirstBest(E, p) < FreezeAt}
ICPCFrozen(E) ==
  LET P == BeforeFreeze(E)
  IN [score |-> TotalOf(LAMBDA p : Best(E, p), P), cumtime |-> TimeOf(E, P) + PenaltyOf(E, P),
      tiebreaker |-> Max({0} \cup {FirstBest(E, p) : p \in P})]

\* LSO: the time of the last score is used instead of the sum.
VNOJ(E, lso) ==
  [score |-> BestTotal(E), tiebreaker |-> MaxTime(E),
   cumtime |-> (IF lso THEN MaxTime(E) ELSE TimeOf(E, Scored(E))) + PenaltyOf(E, Scored(E))]
AtCoder(E) == [score |-> BestTotal(E), cumtime |-> MaxTime(E) + PenaltyOf(E, Scored(E))]
\* With cumtime and last_score_altering.
LegacyIOI(E) == [score |-> BestTotal(E), cumtime |-> TimeOf(E, Scored(E)), tiebreaker |-> MaxTime(E)]
\* The first run of a problem counts, whatever it is.
VOI(E) ==
  LET first(p) == E[Min(Of(E, p))]
      P == {p \in Tried(E) : first(p).points > 0}
  IN [score |-> TotalOf(LAMBDA p : first(p).points, P), cumtime |-> TotalOf(LAMBDA p : first(p).date, P)]
\* The other formats look at the date of the last run whatever its result is (default,
\* ultimate), or count a run without a result (ecoo).
Rows(E) == <<ICPC(E), ICPCFrozen(E), VNOJ(E, TRUE), VNOJ(E, FALSE), AtCoder(E), LegacyIOI(E), VOI(E)>>

-----------------------------------------------------------------------------
\* form_valid; the dates of two submissions differ.
NewEntry(p) ==
  /\ Len(entries) < MaxEntries
  /\ \E d \in 1..WindowEnd :
       /\ \A i \in DOMAIN entries : entries[i].date < d
       /\ entries' = Append(entries, [prob |-> p, date |-> d, result |-> "none", points |-> 0,
                                     running |-> TRUE, again |-> FALSE])
  /\ UNCHANGED <<board, updates, scoreWorld>>

\* _queue_submission of a rejudge: ContestSubmission.points stays.  Bound: one
\* rejudge (`again`).
Rejudge(i) ==
  /\ "rejudge" \in scoreWorld /\ ~entries[i].running /\ \A k \in DOMAIN entries : ~entries[k].again
  /\ entries' = [entries EXCEPT ![i].result = "none", ![i].running = TRUE, ![i].again = TRUE]
  /\ UNCHANGED <<board, updates, scoreWorld>>

\* update_contest runs after the commit, with the points that were committed.
Call(i, points) == {[entry |-> i, points |-> points, step |-> "points", seen |-> <<>>]}
Alone == "overlap" \in scoreWorld \/ updates = {}
\* on_grading_end; a result that cannot be scored becomes IE, with the same call.
Graded(i) ==
  /\ entries[i].running /\ Alone
  /\ \E points \in 0..FullPoints, result \in {"AC", "WA", "IE"} :
       /\ result = "IE" => points = 0
       /\ result = "AC" <=> points = FullPoints
       /\ entries' = [entries EXCEPT ![i].result = result, ![i].running = FALSE]
       /\ updates' = updates \cup Call(i, points)
  /\ UNCHANGED <<board, scoreWorld>>
\* on_compile_error, on_internal_error, on_submission_terminated: no call.
EndsUnscored(i) ==
  /\ entries[i].running
  /\ \E result \in {"CE", "IE", "AB"} :
       /\ result = "AB" => "abort" \in scoreWorld
       /\ entries' = [entries EXCEPT ![i].result = result, ![i].running = FALSE]
  /\ UNCHANGED <<board, updates, scoreWorld>>

\* update_contest: contest.save(), then recompute_results reads and saves.
Step(u, new) == updates' = (updates \ {u}) \cup new
\* BugRecompute: the row is left to whoever comes next.
BugRecompute(u) == {}
Recompute(u) == {[u EXCEPT !.step = "read"]}
WritePoints(u) ==
  /\ u.step = "points" /\ Step(u, Recompute(u))
  /\ entries' = [entries EXCEPT ![u.entry].points = u.points]
  /\ UNCHANGED <<board, scoreWorld>>
ReadEntries(u) ==
  /\ u.step = "read" /\ Step(u, {[u EXCEPT !.step = "save", !.seen = entries]})
  /\ UNCHANGED <<entries, board, scoreWorld>>
SaveRow(u) ==
  /\ u.step = "save" /\ Step(u, {}) /\ board' = u.seen
  /\ UNCHANGED <<entries, scoreWorld>>

ScoringNext ==
  \/ \E p \in ContestProblems : NewEntry(p)
  \/ \E i \in DOMAIN entries : Rejudge(i) \/ Graded(i) \/ EndsUnscored(i)
  \/ \E u \in updates : WritePoints(u) \/ ReadEntries(u) \/ SaveRow(u)
ScoringSpec == ScoringInit /\ [][ScoringNext]_scoreVars

-----------------------------------------------------------------------------
Results == {"none", "CE", "IE", "AB", "AC", "WA"}
EntryLists ==
  Seq([prob : ContestProblems, date : 1..WindowEnd, result : Results, points : 0..FullPoints,
       running : BOOLEAN, again : BOOLEAN])
ScoringTypeOK ==
  /\ entries \in EntryLists /\ board \in EntryLists
  /\ updates \subseteq [entry : 1..MaxEntries, points : 0..FullPoints, step : {"points", "read", "save"},
                        seen : EntryLists]

\* icpc.py (frozen columns): with all-or-nothing points the frozen columns are the
\* row of the runs before the freeze: a verdict of the frozen part changes nothing.
AllOrNothing(E) == \A i \in DOMAIN E : E[i].points \in {0, FullPoints}
FrozenShowsFreeze ==
  AllOrNothing(entries) =>
    ICPCFrozen(entries) = ICPC(Restrict(entries, {i \in DOMAIN entries : entries[i].date < FreezeAt}))

\* When nothing is running or being stored, the stored row is what its format
\* gives for the submissions as they are: CE and IE need no recomputation.
BoardIsCurrent ==
  scoreWorld = {} /\ updates = {} /\ (\A i \in DOMAIN entries : ~entries[i].running) =>
    Rows(board) = Rows(entries)
=============================================================================
