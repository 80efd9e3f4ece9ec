---------------------------- MODULE ExternalJudge ----------------------------
(* A submission to a problem of another site (external_judge.py and            *)
(* tasks/external_judge.py): web threads hand a run to Celery, one task sends   *)
(* the source, another polls the result.  Between its reads and its writes a    *)
(* task waits for the network, and the run it works for may be aborted and      *)
(* replaced meanwhile.                                                          *)
EXTENDS Integers

CONSTANTS
  ExternalRuns,    \* bound: judgings of the submission
  MaxPollAttempts  \* config.max_poll_attempts

ASSUME ExternalAssumption == ExternalRuns \in Nat \ {0} /\ MaxPollAttempts \in Nat

VARIABLES
  extStatus,   \* Submission.status
  extRow,      \* the ExternalSubmission row (pk: the run it was created for)
  extTasks,    \* Celery tasks and on_commit handoffs, with the run they are for
  extIssued,   \* number of runs committed by judge_submission
  extBy        \* history: who wrote a final status

externalVars == <<extStatus, extRow, extTasks, extIssued, extBy>>

ExtActive == {"QU", "P"}
ExtFinal == {"D", "IE", "AB"}       \* CE is stored like D
NoRow == [pk |-> 0, sent |-> FALSE, ended |-> FALSE, attempts |-> 0]

\* step: what a task does next; sent: the pcd_submission_id it knows is the
\* one of the remote site, not the local placeholder.
ExtTask(step, pk) == [step |-> step, pk |-> pk]
Becomes(t, new) == extTasks' = (extTasks \ {t}) \cup new

ExternalInit ==
  /\ extStatus = "QU" /\ extRow = NoRow /\ extIssued = 1 /\ extBy = 0
  /\ extTasks = {ExtTask("schedule", 1)}

-----------------------------------------------------------------------------
\* BugSetError: a queued submission is not in progress.
BugSetError(pk) ==
  IF extStatus = "P" THEN extStatus' = "IE" /\ extBy' = pk ELSE UNCHANGED <<extStatus, extBy>>
\* set_external_submission_error: any run that is in progress becomes IE, on
\* behalf of the task of run pk.
SetError(pk) ==
  IF extStatus \in ExtActive
  THEN extStatus' = "IE" /\ extBy' = pk
  ELSE UNCHANGED <<extStatus, extBy>>

\* schedule_external_submission, after the commit of the run: the row of an
\* earlier run is deleted, a new one with a placeholder id created.
Schedule(t) ==
  /\ t.step = "schedule"
  /\ \/ /\ extRow' = [NoRow EXCEPT !.pk = t.pk]
        /\ \/ extStatus' = "P" /\ extBy' = extBy /\ Becomes(t, {ExtTask("submit", t.pk)})
           \/ extStatus' = "IE" /\ extBy' = t.pk /\ Becomes(t, {})    \* Celery took no task
     \/ /\ SetError(t.pk) /\ Becomes(t, {})                  \* not configured
        /\ UNCHANGED extRow
  /\ UNCHANGED extIssued

\* perform_external_submission up to the request: a task whose placeholder is
\* gone is stale; otherwise the submission is (again) started, whatever it is.
SubmitStarts(t) ==
  /\ t.step = "submit"
  /\ \/ IF extRow.pk = t.pk /\ ~extRow.sent
        THEN extStatus' = "P" /\ Becomes(t, {ExtTask("submitting", t.pk)}) /\ UNCHANGED extBy
        ELSE Becomes(t, {}) /\ UNCHANGED <<extStatus, extBy>>
     \/ \* no longer active, which is found out before whose task this is
        SetError(t.pk) /\ Becomes(t, {})
  /\ UNCHANGED <<extRow, extIssued>>

\* The answer: an error, or an id that replaces the placeholder if it is still
\* there.
SubmitAnswered(t) ==
  LET mine == extRow.pk = t.pk /\ ~extRow.sent
  IN /\ t.step = "submitting"
     /\ \/ SetError(t.pk) /\ Becomes(t, {}) /\ UNCHANGED extRow
        \/ /\ IF mine
              THEN /\ extRow' = [extRow EXCEPT !.sent = TRUE, !.attempts = 0]
                   /\ Becomes(t, {ExtTask("poll", t.pk)})
              ELSE Becomes(t, {}) /\ UNCHANGED extRow
           /\ UNCHANGED <<extStatus, extBy>>
     /\ UNCHANGED extIssued

PollAllowed == extRow.attempts < MaxPollAttempts
Counted == [extRow EXCEPT !.attempts = @ + 1]

\* poll_external_submission up to the request.
PollStarts(t) ==
  /\ t.step = "poll"
  /\ IF extRow.pk # t.pk \/ extStatus \in ExtFinal \/ extRow.ended
     THEN Becomes(t, {}) /\ UNCHANGED <<extStatus, extBy, extRow>>
     ELSE \/ /\ PollAllowed /\ extRow' = Counted
             /\ Becomes(t, {ExtTask("polling", t.pk)})
             /\ UNCHANGED <<extStatus, extBy>>
          \/ \* too many attempts, the 30 minutes are over, or not active
             SetError(t.pk) /\ extRow' = [extRow EXCEPT !.ended = TRUE] /\ Becomes(t, {})
  /\ UNCHANGED extIssued

\* The answer of the request.  Only a result is discarded when the submission
\* is final or the row of this run was deleted (refresh_from_db raises).
PollAnswered(t) ==
  /\ t.step = "polling"
  /\ \/ /\ SetError(t.pk)                                    \* will not work later either
        /\ extRow' = [extRow EXCEPT !.ended = @ \/ extRow.pk = t.pk]
        /\ Becomes(t, {})
     \/ /\ Becomes(t, {ExtTask("poll", t.pk)})               \* may work later
        /\ UNCHANGED <<extStatus, extBy, extRow>>
     \/ /\ IF extStatus \in ExtFinal \/ extRow.pk # t.pk \/ extRow.ended
           THEN Becomes(t, {})
           ELSE \E next \in {"poll", "finalize"} : Becomes(t, {ExtTask(next, t.pk)})
        /\ UNCHANGED <<extStatus, extBy, extRow>>
  /\ UNCHANGED extIssued

\* BugRowOf: the row is not compared with the one that was polled.
BugRowOf(t) == TRUE
RowOf(t) == extRow.pk = t.pk
\* finalize_external_submission, one transaction under the problem and
\* submission locks; a row that is not the one polled makes the task try again.
Finalize(t) ==
  /\ t.step = "finalize"
  /\ IF extStatus = "AB" THEN Becomes(t, {}) /\ UNCHANGED <<extStatus, extBy>>
     ELSE IF ~RowOf(t) THEN Becomes(t, {ExtTask("poll", t.pk)}) /\ UNCHANGED <<extStatus, extBy>>
     ELSE (\E c \in {"D", "IE"} : extStatus' = c) /\ extBy' = t.pk /\ Becomes(t, {})
  /\ UNCHANGED <<extRow, extIssued>>

-----------------------------------------------------------------------------
\* abort_submission: the bridge does not know the run, so the row is written.
ExternalAbort ==
  /\ extStatus \in ExtActive /\ extStatus' = "AB" /\ extBy' = 0
  /\ UNCHANGED <<extRow, extTasks, extIssued>>

\* judge_submission with rejudge: not while a run is queued or in progress.
ExternalRejudge ==
  /\ extStatus \in ExtFinal /\ extIssued < ExternalRuns
  /\ extStatus' = "QU" /\ extBy' = 0 /\ extIssued' = extIssued + 1
  /\ extTasks' = extTasks \cup {ExtTask("schedule", extIssued')}
  /\ UNCHANGED extRow

ExternalTask(t) ==
  Schedule(t) \/ SubmitStarts(t) \/ SubmitAnswered(t) \/ PollStarts(t) \/ PollAnswered(t) \/ Finalize(t)
ExternalTasks == \E t \in extTasks : ExternalTask(t)
ExternalNext == ExternalTasks \/ ExternalAbort \/ ExternalRejudge
ExternalSpec == ExternalInit /\ [][ExternalNext]_externalVars

-----------------------------------------------------------------------------
ExternalTypeOK ==
  /\ extStatus \in ExtActive \cup ExtFinal
  /\ extRow \in [pk : 0..ExternalRuns, sent : BOOLEAN, ended : BOOLEAN, attempts : 0..MaxPollAttempts]
  /\ extTasks \subseteq [step : {"schedule", "submit", "submitting", "poll", "polling", "finalize"}, pk : 1..ExternalRuns]
  /\ extIssued \in 1..ExternalRuns /\ extBy \in 0..ExternalRuns

\* A result comes from the external row that is in the database, never from an
\* earlier submission to the remote site whose answer was slow.
ResultOfCurrentRow == extStatus = "D" => extBy = extRow.pk
=============================================================================
