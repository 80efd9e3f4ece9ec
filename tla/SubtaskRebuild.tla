--------------------------- MODULE SubtaskRebuild ---------------------------
(* The cumulative subtask score of one problem (tasks/subtask_scoring.py):     *)
(* switching it on rejudges the whole history, one submission at a time, and   *)
(* only then publishes the new scores.  The rebuild shares the submissions     *)
(* with users who submit and rejudge, with the judges, and with the retries of *)
(* runs whose test data is being restored (Submission.judge and                *)
(* storage_retry_judge_submission).                                            *)
EXTENDS Integers, FiniteSets

CONSTANTS
  RebuildSubs,       \* primary keys of the submissions of the problem
  RebuildRevisions,  \* bound: how often the administrator can press a button
  RestoreAttempts,   \* STORAGE_ENSURE_READY_MAX_ATTEMPTS
  RebuildWorlds      \* sets of the hazards a behaviour may meet

ASSUME RebuildAssumption ==
  /\ RebuildSubs \subseteq Nat \ {0} /\ IsFiniteSet(RebuildSubs)
  /\ RebuildRevisions \in Nat /\ RestoreAttempts \in Nat

VARIABLES
  scoring,       \* the columns subtask_score_* of the Problem row
  rows,          \* the Submission rows
  rebuildJobs,   \* Celery messages, and on_commit callbacks not run yet
  retryKeys,     \* submissions with a key storage:ensure-ready:submission:<id>
  lockedRows,    \* submissions whose locked_after has passed
  rebuildWorld   \* the hazards of this behaviour

rebuildVars == <<scoring, rows, rebuildJobs, retryKeys, lockedRows, rebuildWorld>>

InProgress == {"QU", "P"}                   \* G adds nothing to P here
FinalCodes == {"D", "CE", "IE", "AB"}
Paused == scoring.state \in {"REBUILDING", "STOPPING", "FAILED"}
Created == {s \in RebuildSubs : rows[s].status # "none"}
ActiveRows == {s \in RebuildSubs : rows[s].status \in InProgress}

\* Messages, callbacks and calls under way.  rev = 0: not part of a rebuild.
CallKinds == {"judge", "checked", "asked", "local", "remote"}  \* how far a call of judge() is
JudgeJob(kind, s, rejudge) == [kind |-> kind, sub |-> s, rev |-> 0, n |-> 0, rejudge |-> rejudge]
RetryJob(s, rev, n, rejudge) == [kind |-> "retry", sub |-> s, rev |-> rev, n |-> n, rejudge |-> rejudge]
TaskJob(kind, s, rev) == [kind |-> kind, sub |-> s, rev |-> rev, n |-> 0, rejudge |-> FALSE]
StepJob(rev) == TaskJob("step", 0, rev)

Fresh == [status |-> "none", rev |-> 0, marker |-> 0, token |-> FALSE, run |-> FALSE]
RebuildInit ==
  /\ scoring = [state |-> "OFF", revision |-> 0, phase |-> "none",
                ceiling |-> 0, cursor |-> 0, pending |-> 0, dispatched |-> FALSE]
  /\ rows = [s \in RebuildSubs |-> Fresh]
  /\ rebuildJobs = {} /\ retryKeys = {} /\ lockedRows = {}
  /\ rebuildWorld \in RebuildWorlds

-----------------------------------------------------------------------------
(* Submission.judge after its admission check.                                 *)

\* The gate that _queue_submission applies again under the problem lock.
\* BugAdmitted: it is not applied again.
BugAdmitted(rev) == TRUE
Admitted(rev) == ~Paused \/ (scoring.state = "REBUILDING" /\ rev = scoring.revision)

\* A run in progress, an aborted row that is not rejudged and (without
\* force_judge) a locked submission are left alone.
JudgeSkips(s, rejudge, force) ==
  \/ rows[s].status = "P"
  \/ rows[s].status = "AB" /\ ~rejudge
  \/ s \in lockedRows /\ ~force

\* Where the data is: on this host, or (can_wait_for_remote_data) only at a remote judge.
Hosts == {"local"} \cup ({"remote"} \cap rebuildWorld)

\* What the row must be when judge() and _queue_submission have the problem lock.
\* With its data elsewhere a row is not claimed first, and one that is queued
\* with a token is taken for a run that is on its way.
Claimable(s, host, rejudge) ==
  /\ rows[s].status # "P" /\ (rows[s].status = "AB" => rejudge)
  /\ host = "remote" => ~(rows[s].status = "QU" /\ rows[s].token)
\* The row becomes that of a new run, with a new token.
NewRun(s, status) ==
  rows' = [rows EXCEPT ![s] = [status |-> status, rev |-> scoring.revision, marker |-> 0,
                               token |-> TRUE, run |-> TRUE]]
ClaimRow(s, rev, host, rejudge) ==
  IF Claimable(s, host, rejudge) /\ Admitted(rev)
  THEN NewRun(s, IF host = "local" THEN "P" ELSE "QU") ELSE UNCHANGED rows

\* BugMoreAttempts: one attempt too many.
BugMoreAttempts(n) == n <= RestoreAttempts
MoreAttempts(n) == n < RestoreAttempts
\* What judge() writes when the data is not there; only AB stays as it is.
Fail(s) == rows' = IF rows[s].status = "AB" THEN rows ELSE [rows EXCEPT ![s].status = "IE"]
Defer(s, rev) ==
  rows' = IF rows[s].status = "AB" THEN rows
          ELSE [rows EXCEPT ![s].status = "QU", ![s].marker = IF rev # 0 THEN rev ELSE @]
\* Data being restored: the row waits in the queue without a run and a retry is
\* scheduled, unless the cache says that one is; the last attempt gives up.
\* Any other state of the data fails the row at once.
JudgeUnready(s, rev, n, rejudge, keys, jobs) ==
  \/ /\ MoreAttempts(n)
     /\ rebuildJobs' = IF s \in keys THEN jobs ELSE jobs \cup {RetryJob(s, rev, n + 1, rejudge)}
     /\ retryKeys' = keys \cup {s}
     /\ Defer(s, rev)
  \/ /\ rebuildJobs' = jobs
     /\ retryKeys' = IF MoreAttempts(n) THEN keys ELSE keys \ {s}
     /\ Fail(s)

\* The whole call by one who holds the problem lock, in one transaction: only a
\* write of an unlocked call may fall into it, and counts as made before or after.
\* keys: the cache, and jobs: what remains to do, when the call is made.
JudgeSub(s, rev, n, rejudge, force, keys, jobs) ==
  IF JudgeSkips(s, rejudge, force)
  THEN rebuildJobs' = jobs /\ retryKeys' = keys /\ UNCHANGED rows
  ELSE \/ \E host \in Hosts : ClaimRow(s, rev, host, rejudge) /\ retryKeys' = keys \ {s} /\ rebuildJobs' = jobs
       \/ "restore" \in rebuildWorld /\ JudgeUnready(s, rev, n, rejudge, keys, jobs)

-----------------------------------------------------------------------------
(* Users.                                                                      *)

\* ProblemSubmit.form_valid and Submission.save: admission is tested under the
\* problem lock; judge() is called after the commit.
CreateSubmission(s) ==
  /\ ~Paused /\ rows[s] = Fresh
  /\ \A r \in RebuildSubs : r < s => r \in Created
  /\ rows' = [rows EXCEPT ![s].status = "QU"]
  /\ rebuildJobs' = rebuildJobs \cup {JudgeJob("judge", s, FALSE)}
  /\ UNCHANGED <<scoring, retryKeys, lockedRows, rebuildWorld>>

\* rejudge_submission and the other rejudges outside the rebuild.
RequestRejudge(s) ==
  /\ "rejudge" \in rebuildWorld /\ s \in Created
  /\ \A j \in rebuildJobs : j.sub = s => j.kind \notin CallKinds
  /\ rebuildJobs' = rebuildJobs \cup {JudgeJob("judge", s, TRUE)}
  /\ UNCHANGED <<scoring, rows, retryKeys, lockedRows, rebuildWorld>>

\* Without the problem lock judge() takes several steps: it asks
\* require_submission_admission, which raises while paused, reads the row, asks
\* the storage over the network, and either writes the row, whatever became of
\* it meanwhile, or goes on to claim it.  Only a new submission is judged with
\* force_judge.
Proceeds(j, kinds) == rebuildJobs' = (rebuildJobs \ {j}) \cup {[j EXCEPT !.kind = k] : k \in kinds}
CheckAdmission(j) ==
  /\ j.kind = "judge"
  /\ Proceeds(j, IF Paused THEN {} ELSE {"checked"})
  /\ UNCHANGED <<scoring, rows, retryKeys, lockedRows, rebuildWorld>>
ReadRow(j) ==
  /\ j.kind = "checked"
  /\ Proceeds(j, IF JudgeSkips(j.sub, j.rejudge, ~j.rejudge) THEN {} ELSE {"asked"})
  /\ UNCHANGED <<scoring, rows, retryKeys, lockedRows, rebuildWorld>>
StorageAnswers(j) ==
  /\ j.kind = "asked"
  /\ \/ \E host \in Hosts : Proceeds(j, {host}) /\ retryKeys' = retryKeys \ {j.sub} /\ UNCHANGED rows
     \/ "restore" \in rebuildWorld /\ JudgeUnready(j.sub, 0, 0, j.rejudge, retryKeys, rebuildJobs \ {j})
  /\ UNCHANGED <<scoring, lockedRows, rebuildWorld>>
QueueCall(j) ==
  /\ j.kind \in {"local", "remote"}
  /\ ClaimRow(j.sub, 0, j.kind, j.rejudge)
  /\ rebuildJobs' = rebuildJobs \ {j}
  /\ UNCHANGED <<scoring, retryKeys, lockedRows, rebuildWorld>>

\* abort_submission of a row that has no run at the bridge.
AbortDeferred(s) ==
  /\ "abort" \in rebuildWorld
  /\ rows[s].status \in InProgress /\ ~rows[s].run
  /\ rows' = [rows EXCEPT ![s].status = "AB"]
  /\ UNCHANGED <<scoring, rebuildJobs, retryKeys, lockedRows, rebuildWorld>>

\* The bridge stores the outcome of the run of the current token.
Verdict(s) ==
  /\ rows[s].run
  /\ \E c \in FinalCodes :
       rows' = [rows EXCEPT ![s].run = FALSE,
                            ![s].status = IF @ \in InProgress THEN c ELSE @]
  /\ UNCHANGED <<scoring, rebuildJobs, retryKeys, lockedRows, rebuildWorld>>

LockedAfterPasses(s) ==
  /\ "lock" \in rebuildWorld /\ s \in Created \ lockedRows
  /\ lockedRows' = lockedRows \cup {s}
  /\ UNCHANGED <<scoring, rows, rebuildJobs, retryKeys, rebuildWorld>>

KeyExpires(s) ==
  /\ s \in retryKeys
  /\ retryKeys' = retryKeys \ {s}
  /\ UNCHANGED <<scoring, rows, rebuildJobs, lockedRows, rebuildWorld>>

-----------------------------------------------------------------------------
(* The administrator.                                                          *)

\* Without the hazard "late", no ordinary run is between its request and the
\* bridge when the problem is paused.
NothingLate == "late" \in rebuildWorld \/ \A j \in rebuildJobs : j.rev # 0

\* set_subtask_scoring and its on_commit callback; the broker may refuse.
Enable ==
  LET rev == scoring.revision + 1
      start == [state |-> "REBUILDING", revision |-> rev, phase |-> "drain", cursor |-> 0,
                ceiling |-> IF Created = {} THEN 0 ELSE CHOOSE s \in Created : \A r \in Created : r <= s,
                pending |-> 0, dispatched |-> FALSE]
  IN /\ scoring.state \in {"OFF", "FAILED"} /\ rev <= RebuildRevisions
     /\ scoring.state = "OFF" => lockedRows = {}
     /\ NothingLate
     /\ \/ scoring' = start /\ rebuildJobs' = rebuildJobs \cup {StepJob(rev)}
        \/ "fail" \in rebuildWorld /\ scoring' = [start EXCEPT !.state = "FAILED"] /\ UNCHANGED rebuildJobs
     /\ UNCHANGED <<rows, retryKeys, lockedRows, rebuildWorld>>
Disable ==
  /\ scoring.state # "OFF" /\ scoring.revision < RebuildRevisions
  /\ NothingLate
  /\ scoring' = [scoring EXCEPT !.state = "STOPPING", !.revision = @ + 1]
  /\ \/ rebuildJobs' = rebuildJobs \cup {StepJob(scoring'.revision)}
     \/ "fail" \in rebuildWorld /\ UNCHANGED rebuildJobs
  /\ UNCHANGED <<rows, retryKeys, lockedRows, rebuildWorld>>

-----------------------------------------------------------------------------
(* The rebuild task.                                                           *)

Current(j) == j.rev = scoring.revision /\ scoring.state \in {"REBUILDING", "STOPPING"}
Replace(j, new) == rebuildJobs' = (rebuildJobs \ {j}) \cup new
Ends(j) == Replace(j, {}) /\ UNCHANGED scoring
\* The exception handler of the task, and of _enqueue.
Fails(j) ==
  /\ Replace(j, {})
  /\ scoring' = IF Current(j) /\ scoring.state = "REBUILDING" THEN [scoring EXCEPT !.state = "FAILED"] ELSE scoring

\* The pending submission was judged and may count.
\* BugRebuilt: a result of an earlier generation counts as well.
BugRebuilt(s) == rows[s].status \in {"D", "CE"}
Rebuilt(s) == rows[s].status \in {"D", "CE"} /\ rows[s].rev = scoring.revision

\* STOPPING: wait for the judges, then publish the old rule.
\* BugDrained: it is not waited for.
BugDrained == TRUE
Drained == ActiveRows = {}
StepStopping(j) ==
  /\ scoring.state = "STOPPING" /\ Drained
  /\ scoring' = [scoring EXCEPT !.phase = "disable-refresh"]
  /\ Replace(j, {TaskJob("publishOFF", 0, j.rev)})

\* _dispatch has not run for the pending submission.
StepDispatchAgain(j) ==
  /\ scoring.pending # 0 /\ ~scoring.dispatched
  /\ Replace(j, {TaskJob("dispatch", scoring.pending, j.rev)}) /\ UNCHANGED scoring

\* The pending submission was judged but does not count.
StepRejected(j) ==
  /\ scoring.pending # 0 /\ scoring.dispatched
  /\ scoring.pending \notin ActiveRows /\ ~Rebuilt(scoring.pending)
  /\ Fails(j)

\* Count the pending submission, if any, and go on to the next one.
StepAdvance(j) ==
  LET cursor == IF scoring.pending = 0 THEN scoring.cursor ELSE scoring.pending
      todo == {s \in Created : cursor < s /\ s <= scoring.ceiling}
      next == CHOOSE s \in todo : \A r \in todo : s <= r
      at(phase, pending) == [scoring EXCEPT !.cursor = cursor, !.phase = phase,
                                            !.pending = pending, !.dispatched = FALSE]
  IN /\ scoring.pending # 0 => scoring.dispatched /\ Rebuilt(scoring.pending)
     /\ scoring.phase = "drain" => Drained
     /\ \/ todo = {} /\ scoring' = at("refresh", 0) /\ Replace(j, {TaskJob("publishON", 0, j.rev)})
        \/ /\ todo # {} /\ next \notin lockedRows
           /\ scoring' = at("rejudge", next) /\ Replace(j, {TaskJob("dispatch", next, j.rev)})
        \/ todo # {} /\ next \in lockedRows /\ Fails(j)

\* _rebuild_step up to its first commit.  A step that only waits (for active
\* submissions, or for the pending one) schedules itself again: no change.
RebuildStep(j) ==
  /\ j.kind = "step"
  /\ \/ ~Current(j) /\ Ends(j)
     \/ Current(j) /\ StepStopping(j)
     \/ /\ Current(j) /\ scoring.state = "REBUILDING"
        /\ StepDispatchAgain(j) \/ StepRejected(j) \/ StepAdvance(j)
     \/ "fail" \in rebuildWorld /\ Fails(j)
  /\ UNCHANGED <<rows, retryKeys, lockedRows, rebuildWorld>>

\* _dispatch, an on_commit callback, one transaction under the problem lock.
Dispatch(j) ==
  LET wanted == Current(j) /\ scoring.state = "REBUILDING" /\ scoring.pending = j.sub /\ ~scoring.dispatched
  IN /\ j.kind = "dispatch"
     /\ \/ ~wanted /\ Ends(j) /\ UNCHANGED <<rows, retryKeys>>
        \/ /\ wanted
           /\ JudgeSub(j.sub, j.rev, 0, TRUE, FALSE, retryKeys, (rebuildJobs \ {j}) \cup {StepJob(j.rev)})
           /\ scoring' = [scoring EXCEPT !.dispatched = TRUE]
        \/ "fail" \in rebuildWorld /\ Fails(j) /\ UNCHANGED <<rows, retryKeys>>
     /\ UNCHANGED <<lockedRows, rebuildWorld>>

\* The second transaction of _rebuild_step: refresh the profiles and publish, or
\* roll back when the generation was superseded meanwhile.
Publish(j) ==
  LET from == IF j.kind = "publishON" THEN "REBUILDING" ELSE "STOPPING"
      to == IF j.kind = "publishON" THEN "ON" ELSE "OFF"
  IN /\ j.kind \in {"publishON", "publishOFF"}
     /\ \/ /\ j.rev = scoring.revision /\ scoring.state = from
           /\ scoring' = [scoring EXCEPT !.state = to, !.phase = "done"] /\ Replace(j, {})
        \/ ~(j.rev = scoring.revision /\ scoring.state = from) /\ Ends(j)
        \/ "fail" \in rebuildWorld /\ Fails(j)
     /\ UNCHANGED <<rows, retryKeys, lockedRows, rebuildWorld>>

\* acks_late, reject_on_worker_lost: the task is delivered again, because the
\* worker died or because the broker thinks so.
Redelivered(j) ==
  /\ "redeliver" \in rebuildWorld /\ j.kind \in {"dispatch", "publishON", "publishOFF"}
  /\ \E lost \in SUBSET {j} : rebuildJobs' = (rebuildJobs \ lost) \cup {StepJob(j.rev)}
  /\ UNCHANGED <<scoring, rows, retryKeys, lockedRows, rebuildWorld>>

-----------------------------------------------------------------------------
(* storage_retry_judge_submission, one transaction under the problem lock.     *)

Superseded(j) == ~(Current(j) /\ scoring.state = "REBUILDING" /\ scoring.pending = j.sub)
\* BugAnyDeferred: any queued row; BugNoDeferred: the row is not released.
BugAnyDeferred(j) == rows[j.sub].status = "QU"
BugNoDeferred(j) == FALSE
OwnDeferred(j) == rows[j.sub].status = "QU" /\ rows[j.sub].marker = j.rev

\* A retry of a rebuild that is over, or of a row that became locked, only
\* releases its own deferred run; the cache key stays.
RetryReleases(j) ==
  /\ j.rev # 0
  /\ Superseded(j) \/ (j.sub \in lockedRows /\ rows[j.sub].status = "QU")
  /\ rows' = IF OwnDeferred(j) THEN [rows EXCEPT ![j.sub].status = "AB"] ELSE rows
  /\ Replace(j, {}) /\ UNCHANGED retryKeys

\* An ordinary retry passes the admission check of judge(), which raises while
\* the problem is paused.
RetryJudges(j) ==
  LET s == j.sub
  IN /\ j.rev # 0 => ~Superseded(j) /\ ~(s \in lockedRows /\ rows[s].status = "QU")
     /\ IF rows[s].status \notin InProgress \/ (j.rev = 0 /\ Paused)
        THEN Replace(j, {}) /\ retryKeys' = retryKeys \ {s} /\ UNCHANGED rows
        ELSE JudgeSub(s, j.rev, j.n, j.rejudge, j.rev = 0, retryKeys \ {s}, rebuildJobs \ {j})

RestoreRetry(j) ==
  /\ j.kind = "retry"
  /\ RetryReleases(j) \/ RetryJudges(j)
  /\ UNCHANGED <<scoring, lockedRows, rebuildWorld>>

-----------------------------------------------------------------------------
RebuildTask == \E j \in rebuildJobs : RebuildStep(j) \/ Dispatch(j) \/ Publish(j)
SiteTask ==
  \E j \in rebuildJobs : CheckAdmission(j) \/ ReadRow(j) \/ StorageAnswers(j) \/ QueueCall(j) \/ RestoreRetry(j)

RebuildNext ==
  \/ RebuildTask \/ SiteTask
  \/ \E j \in rebuildJobs : Redelivered(j)
  \/ Enable \/ Disable
  \/ \E s \in RebuildSubs : \/ CreateSubmission(s) \/ RequestRejudge(s) \/ AbortDeferred(s)
                            \/ Verdict(s) \/ LockedAfterPasses(s) \/ KeyExpires(s)

RebuildSpec == RebuildInit /\ [][RebuildNext]_rebuildVars

-----------------------------------------------------------------------------
RebuildTypeOK ==
  /\ scoring \in [state : {"OFF", "REBUILDING", "ON", "STOPPING", "FAILED"}, revision : 0..RebuildRevisions,
                  phase : {"none", "drain", "rejudge", "refresh", "disable-refresh", "done"},
                  ceiling : RebuildSubs \cup {0}, cursor : RebuildSubs \cup {0},
                  pending : RebuildSubs \cup {0}, dispatched : BOOLEAN]
  /\ rows \in [RebuildSubs -> [status : InProgress \cup FinalCodes \cup {"none"}, rev : 0..RebuildRevisions,
                               marker : 0..RebuildRevisions, token : BOOLEAN, run : BOOLEAN]]
  /\ rebuildJobs \subseteq
       [kind : CallKinds \cup {"retry", "step", "dispatch", "publishON", "publishOFF"},
        sub : RebuildSubs \cup {0}, rev : 0..RebuildRevisions, n : 0..RestoreAttempts, rejudge : BOOLEAN]
  /\ retryKeys \subseteq RebuildSubs /\ lockedRows \subseteq RebuildSubs

\* docs/cumulative-subtasks.md:100 (results of different generations are never
\* combined): while the new scores are public, every judged submission was
\* judged in the generation that published them.
PublishedIsOneGeneration ==
  scoring.state = "ON" => \A s \in Created : rows[s].status \in {"D", "CE"} => rows[s].rev = scoring.revision

\* The history is rejudged one submission at a time and alone: after the drain
\* no other submission of the problem has a run at the judges.
OnlyPendingRuns ==
  scoring.state = "REBUILDING" /\ scoring.phase \in {"rejudge", "refresh"} =>
    \A s \in RebuildSubs : rows[s].run => s = scoring.pending
\* docs/cumulative-subtasks.md:97-98: the tests are unlocked (OFF) only when no
\* judge is using them any more.
UnlockedWhenIdle ==
  [][scoring'.state = "OFF" /\ scoring.state # "OFF" => \A s \in RebuildSubs : ~rows[s].run]_rebuildVars

\* docs/cumulative-subtasks.md:110-112: the retry of a superseded rebuild neither
\* replaces nor ends a run that the judges already have.
OldRetrySparesRuns ==
  [][\A j \in rebuildJobs : j.rev # 0 /\ Superseded(j) /\ RestoreRetry(j) =>
       \A s \in RebuildSubs : rows[s].run => rows'[s] = rows[s]]_rebuildVars

\* A submission that waits for its data without a run has somebody who will try
\* again: a retry, or a call of judge() that is under way.
Waiting(s) == rows[s].status = "QU" /\ ~rows[s].run
SomebodyRetries(s) == \E j \in rebuildJobs : j.sub = s /\ j.kind \in CallKinds \cup {"retry"}
DeferredRunIsRetried == \A s \in RebuildSubs : Waiting(s) => SomebodyRetries(s)
DeferredRunIsRetriedInTime ==
  rebuildWorld \cap {"late", "remote"} = {} => DeferredRunIsRetried
=============================================================================
