----------------------------- MODULE Conservative -----------------------------
(* The conservative ranking of one contest (utils/conservative.py,             *)
(* tasks/conservative.py): a score per submission, derived by Celery tasks and  *)
(* published under a generation.  Builds may be delivered twice and die, the    *)
(* administrator may begin a new generation at any moment, and submissions are  *)
(* judged, rejudged and aborted meanwhile.                                      *)
EXTENDS Integers, FiniteSets

CONSTANTS
  RankedSubs,     \* primary keys of the ContestSubmission rows
  RankedRuns,     \* bound: judgings of a submission
  RankRevisions,  \* bound: generations
  Builders,       \* runs of build_conservative at the same time
  BuildPage,      \* rows listed at a time, 100 in the code
  BusyRows        \* bound: sets of rows; a behaviour has the rows of one of them, none at
                  \* first, or (the empty set) all rows, judged long ago

ASSUME RankingAssumption ==
  /\ RankedSubs \subseteq Nat \ {0} /\ IsFiniteSet(RankedSubs)
  /\ RankedRuns \in Nat /\ RankRevisions \in Nat /\ BuildPage \in Nat \ {0}

VARIABLES
  ranking,   \* the columns conservative_* of the Contest row
  judged,    \* the Submission rows: status, and the number of the run
  scores,    \* ContestSubmission.conservative_data: generation, status, and the run it is of
  queueing,  \* the transaction that holds the row of a submission
  rankJobs,  \* Celery messages and on_commit callbacks
  builds,    \* what each build does
  busyRows   \* the rows that are made and judged in this behaviour, if any

rankVars == <<ranking, judged, scores, queueing, rankJobs, builds, busyRows>>

Final == {"D", "CE", "IE", "AB"}
NoTxn == [status |-> "none", rev |-> 0]
IdleBuild == [step |-> "idle", rev |-> 0, cursor |-> 0, cutoff |-> 0, todo |-> {}]
RankJob(kind, s, rev) == [kind |-> kind, sub |-> s, rev |-> rev]
Present == {s \in RankedSubs : judged[s].status # "absent"}
Active(rev) == ranking.state \in {"BUILDING", "ON"} /\ ranking.rev = rev
\* The revision that schedule_submission finds; 0: the contest is not active.
RevisionSeen == IF ranking.state \in {"BUILDING", "ON"} THEN ranking.rev ELSE 0

RankInit ==
  /\ ranking = [state |-> "OFF", rev |-> 0, cursor |-> 0, cutoff |-> 0]
  /\ busyRows \in BusyRows
  /\ judged = [s \in RankedSubs |-> IF busyRows = {} THEN [status |-> "D", run |-> 1]
                                    ELSE [status |-> "absent", run |-> 0]]
  /\ scores = [s \in RankedSubs |-> [gen |-> 0, status |-> "none", run |-> 0]]
  /\ queueing = [s \in RankedSubs |-> NoTxn]
  /\ rankJobs = {} /\ builds = [b \in Builders |-> IdleBuild]

-----------------------------------------------------------------------------
\* calculate, on the run that the Submission row shows.
Calculated(s) ==
  CASE judged[s].status \in {"D", "CE"} -> "valid"
    [] judged[s].status = "QU" -> "pending"
    [] judged[s].status = "IE" -> "error"
    [] judged[s].status = "AB" -> "ignored"
\* BugAnyRevision: the publication does not ask for the generation.
BugAnyRevision(rev) == ranking.state \in {"BUILDING", "ON"}
MayPublish(rev) == Active(rev)
\* refresh_one: one transaction that holds the Submission row.
Refreshed(s, rev) ==
  scores' = IF MayPublish(rev)
            THEN [scores EXCEPT ![s] = [gen |-> rev, status |-> Calculated(s), run |-> judged[s].run]]
            ELSE scores
\* BugMarked: the old score stays until the new one is there.
BugMarked(s, rev) == scores
Marked(s, rev) == [scores EXCEPT ![s] = [gen |-> rev, status |-> "pending", run |-> 0]]

-----------------------------------------------------------------------------
(* Judging.  _queue_submission and the handlers of CE, IE and AB change the     *)
(* Submission row and call schedule_submission in the same transaction; a        *)
(* verdict is committed first.                                                   *)
NewRow(s) ==
  /\ judged[s].status = "absent" /\ s \in busyRows /\ \A r \in busyRows : r < s => r \in Present
  /\ judged' = [judged EXCEPT ![s].status = "QU"]
  /\ UNCHANGED <<ranking, scores, queueing, rankJobs, builds, busyRows>>

BeginQueue(s) ==
  /\ s \in busyRows \cap Present /\ queueing[s] = NoTxn /\ judged[s].run < RankedRuns
  /\ judged[s].status \in Final \/ judged[s].run = 0
  /\ queueing' = [queueing EXCEPT ![s] = [status |-> "QU", rev |-> RevisionSeen]]
  /\ UNCHANGED <<ranking, judged, scores, rankJobs, builds, busyRows>>
BeginEnd(s) ==
  /\ judged[s].status = "QU" /\ judged[s].run > 0 /\ queueing[s] = NoTxn
  /\ \E c \in {"CE", "IE", "AB"} : queueing' = [queueing EXCEPT ![s] = [status |-> c, rev |-> RevisionSeen]]
  /\ UNCHANGED <<ranking, judged, scores, rankJobs, builds, busyRows>>
Commit(s) ==
  LET t == queueing[s]
  IN /\ t # NoTxn /\ queueing' = [queueing EXCEPT ![s] = NoTxn]
     /\ judged' = [judged EXCEPT ![s] = [status |-> t.status, run |-> IF t.status = "QU" THEN @.run + 1 ELSE @.run]]
     /\ scores' = IF t.rev = 0 \/ ~Active(t.rev) THEN scores
                  ELSE IF t.status = "AB" THEN [scores EXCEPT ![s] = [gen |-> t.rev, status |-> "ignored", run |-> judged[s].run]]
                  ELSE Marked(s, t.rev)
     /\ rankJobs' = rankJobs \cup IF t.rev = 0 \/ t.status = "AB" THEN {} ELSE {RankJob("enqueue", s, t.rev)}
     /\ UNCHANGED <<ranking, builds, busyRows>>

\* on_grading_end, and abort_test_submissions: update_contest and _notify_aborted
\* run after the commit.
EndRun(s) ==
  /\ judged[s].status = "QU" /\ judged[s].run > 0 /\ queueing[s] = NoTxn
  /\ \E c \in {"D", "AB"} : judged' = [judged EXCEPT ![s].status = c]
  /\ rankJobs' = rankJobs \cup {RankJob("schedule", s, 0)}
  /\ UNCHANGED <<ranking, scores, queueing, builds, busyRows>>
Replaces(j, new) == rankJobs' = (rankJobs \ {j}) \cup new
ScheduleScore(j) ==
  /\ j.kind = "schedule" /\ queueing[j.sub] = NoTxn
  /\ IF RevisionSeen = 0 THEN Replaces(j, {}) /\ UNCHANGED scores
     ELSE IF judged[j.sub].status = "AB" THEN Replaces(j, {}) /\ Refreshed(j.sub, RevisionSeen)
     ELSE Replaces(j, {RankJob("enqueue", j.sub, RevisionSeen)}) /\ scores' = Marked(j.sub, RevisionSeen)
  /\ UNCHANGED <<ranking, judged, queueing, builds, busyRows>>

\* The callback: a generation that began meanwhile gets the row as well.
EnqueueScore(j) ==
  LET rev == RevisionSeen
      marked == IF rev = j.rev THEN scores ELSE Marked(j.sub, rev)
      failed == IF marked[j.sub].gen = rev /\ marked[j.sub].status = "pending"
                THEN [marked EXCEPT ![j.sub].status = "failed"] ELSE marked
  IN /\ j.kind = "enqueue" /\ queueing[j.sub] = NoTxn
     /\ \/ rev = 0 /\ Replaces(j, {}) /\ UNCHANGED scores
        \/ rev # 0 /\ scores' = marked /\ Replaces(j, {RankJob("refresh", j.sub, rev)})
        \/ rev # 0 /\ scores' = failed /\ Replaces(j, {})       \* the broker refuses
     /\ UNCHANGED <<ranking, judged, queueing, builds, busyRows>>
\* refresh_conservative_submission, and on_failure after the last retry.
RefreshScore(j) ==
  /\ j.kind = "refresh" /\ queueing[j.sub] = NoTxn /\ Replaces(j, {})
  /\ \/ Refreshed(j.sub, j.rev)
     \/ scores' = IF scores[j.sub].gen = j.rev /\ scores[j.sub].status = "pending"
                  THEN [scores EXCEPT ![j.sub].status = "failed"] ELSE scores
  /\ UNCHANGED <<ranking, judged, queueing, builds, busyRows>>

-----------------------------------------------------------------------------
(* The administrator and the builds.                                           *)
HighestPk == IF Present = {} THEN 0 ELSE CHOOSE s \in Present : \A r \in Present : r <= s
StartBuild ==
  /\ ranking.rev < RankRevisions
  /\ \E s \in {"BUILDING", "FAILED"} :          \* FAILED: the broker refuses
       /\ ranking' = [state |-> s, rev |-> ranking.rev + 1, cursor |-> 0, cutoff |-> HighestPk]
       /\ rankJobs' = IF s = "FAILED" THEN rankJobs ELSE rankJobs \cup {RankJob("build", 0, ranking.rev + 1)}
  /\ UNCHANGED <<judged, scores, queueing, builds, busyRows>>
StopRanking ==
  /\ ranking.state # "OFF" /\ ranking.rev < RankRevisions
  /\ ranking' = [ranking EXCEPT !.state = "OFF", !.rev = @ + 1]
  /\ UNCHANGED <<judged, scores, queueing, rankJobs, builds, busyRows>>

Building(b) == ranking.state = "BUILDING" /\ ranking.rev = builds[b].rev
BuildDoes(b, new) == builds' = [builds EXCEPT ![b] = new]
Aborted(s) == judged[s].status = "AB"
\* A message stays until its task has ended (acks_late); bound: it is delivered
\* twice at a time only in behaviours that judge nothing.
DeliverBuild(b, j) ==
  /\ j.kind = "build" /\ builds[b] = IdleBuild
  /\ busyRows = {} \/ \A c \in Builders : builds[c] = IdleBuild
  /\ \A c \in Builders : c < b => builds[c] # IdleBuild      \* they are alike
  /\ BuildDoes(b, IF ranking.state = "BUILDING" /\ ranking.rev = j.rev
                  THEN [step |-> "aborted", rev |-> j.rev, cursor |-> ranking.cursor, cutoff |-> ranking.cutoff,
                        todo |-> {s \in Present : Aborted(s) /\ ~(scores[s].gen = j.rev /\ scores[s].status = "ignored")}]
                  ELSE IdleBuild)
  /\ rankJobs' = IF ranking.state = "BUILDING" /\ ranking.rev = j.rev THEN rankJobs ELSE rankJobs \ {j}
  /\ UNCHANGED <<ranking, judged, scores, queueing, busyRows>>
Passed(build, s) == IF build.step = "page" THEN [build EXCEPT !.cursor = s] ELSE build
BuildRefreshes(b) ==
  /\ \E s \in builds[b].todo :
       /\ \A r \in builds[b].todo : s <= r
       /\ queueing[s] = NoTxn /\ Refreshed(s, builds[b].rev)
       /\ BuildDoes(b, [Passed(builds[b], s) EXCEPT !.todo = @ \ {s}])
  /\ UNCHANGED <<ranking, judged, queueing, rankJobs, busyRows>>
\* The next page of rows that are not aborted, or none.
FirstRows(S) == {s \in S : Cardinality({r \in S : r < s}) < BuildPage}
BuildLists(b) ==
  /\ builds[b].step \in {"aborted", "next"} /\ builds[b].todo = {}
  /\ LET ids == FirstRows({s \in Present : builds[b].cursor < s /\ s <= builds[b].cutoff /\ ~Aborted(s)})
     IN IF ~Building(b) THEN BuildDoes(b, IdleBuild)
        ELSE IF ids = {} THEN BuildDoes(b, [builds[b] EXCEPT !.step = "finish"])
        ELSE BuildDoes(b, [builds[b] EXCEPT !.step = "page", !.todo = ids])
  /\ UNCHANGED <<ranking, judged, scores, queueing, rankJobs, busyRows>>
\* The progress of a late duplicate is not stored.
CursorAhead(b) == Building(b) /\ ranking.cursor <= builds[b].cursor
BuildStores(b) ==
  /\ builds[b].step = "page" /\ builds[b].todo = {}
  /\ ranking' = IF CursorAhead(b) THEN [ranking EXCEPT !.cursor = builds[b].cursor] ELSE ranking
  /\ BuildDoes(b, [builds[b] EXCEPT !.step = "next"])
  /\ UNCHANGED <<judged, scores, queueing, rankJobs, busyRows>>
BuildEnds(b) ==
  /\ builds[b].step = "finish" /\ BuildDoes(b, IdleBuild)
  /\ LET errors == {s \in Present : ~Aborted(s) /\ scores[s].gen = builds[b].rev /\ scores[s].status \in {"error", "failed"}}
     IN ranking' = IF Building(b) THEN [ranking EXCEPT !.state = IF errors = {} THEN "ON" ELSE "FAILED",
                                                       !.cursor = builds[b].cutoff] ELSE ranking
  /\ rankJobs' = rankJobs \ {RankJob("build", 0, builds[b].rev)}
  /\ UNCHANGED <<judged, scores, queueing, busyRows>>
\* The worker dies, or the task fails and is tried again.
BuildDies(b) ==
  /\ builds[b] # IdleBuild /\ BuildDoes(b, IdleBuild)
  /\ UNCHANGED <<ranking, judged, scores, queueing, rankJobs, busyRows>>

BuildStep(b) == BuildRefreshes(b) \/ BuildLists(b) \/ BuildStores(b) \/ BuildEnds(b)
RankNext ==
  \/ \E s \in RankedSubs : NewRow(s) \/ BeginQueue(s) \/ BeginEnd(s) \/ Commit(s) \/ EndRun(s)
  \/ \E j \in rankJobs : ScheduleScore(j) \/ EnqueueScore(j) \/ RefreshScore(j)
  \/ StartBuild \/ StopRanking
  \/ \E b \in Builders : BuildStep(b) \/ BuildDies(b) \/ \E j \in rankJobs : DeliverBuild(b, j)
RankSpec == RankInit /\ [][RankNext]_rankVars

-----------------------------------------------------------------------------
RankTypeOK ==
  /\ ranking \in [state : {"OFF", "BUILDING", "ON", "FAILED"}, rev : 0..RankRevisions,
                  cursor : RankedSubs \cup {0}, cutoff : RankedSubs \cup {0}]
  /\ judged \in [RankedSubs -> [status : Final \cup {"absent", "QU"}, run : 0..RankedRuns]]
  /\ scores \in [RankedSubs -> [gen : 0..RankRevisions, run : 0..RankedRuns,
                                status : {"none", "pending", "valid", "error", "ignored", "failed"}]]
  /\ queueing \in [RankedSubs -> [status : {"none", "QU", "CE", "IE", "AB"}, rev : 0..RankRevisions]]
  /\ busyRows \subseteq RankedSubs
  /\ rankJobs \subseteq [kind : {"schedule", "enqueue", "refresh", "build"}, sub : RankedSubs \cup {0}, rev : 0..RankRevisions]
  /\ builds \in [Builders -> [step : {"idle", "aborted", "next", "page", "finish"}, rev : 0..RankRevisions,
                              cursor : RankedSubs \cup {0}, cutoff : RankedSubs \cup {0}, todo : SUBSET RankedSubs]]

\* docs/conservative-ranking.md:84 (an old judged run is never left marked valid): a
\* valid score of the current generation is that of the run the submission shows.
ScoreOfCurrentRun ==
  \A s \in Present : Active(scores[s].gen) /\ scores[s].status = "valid" =>
    judged[s].status \in {"D", "CE"} /\ scores[s].run = judged[s].run

\* docs/conservative-ranking.md:84 (a submission committing across generations is
\* queued for the current one): once the ranking is ON, a result that nothing is
\* under way for has its score, or a failed delivery is recorded on it.
Quiet(s) == queueing[s] = NoTxn /\ \A j \in rankJobs : j.sub # s
RankingIsComplete ==
  ranking.state = "ON" =>
    \A s \in Present : Quiet(s) /\ judged[s].status \in {"D", "CE"} =>
      scores[s].gen = ranking.rev /\ scores[s].status \in {"valid", "failed"}
=============================================================================
