----------------------------- MODULE BatchSubmit -----------------------------
(* Batch submission (views/batch_submit.py, tasks/batch_submit.py,              *)
(* utils/batch_submit.py): a superuser uploads files of many users in chunks,   *)
(* starts the batch, and deliveries of one Celery task turn every pending row   *)
(* into a submission of its user.  Chunks, starts and deliveries may come       *)
(* twice, and a worker may die between a submission and its dispatch.           *)
EXTENDS Integers, FiniteSets

CONSTANTS
  BatchFiles,     \* the files of the folder, expected_count of them
  FileUser,       \* FileUser[f]: the user of file f
  NoFile,
  Deliveries,     \* runs of run_submission_batch at the same time
  UserQueueLimit  \* DMOJ_SUBMISSION_LIMIT

ASSUME BatchAssumption == IsFiniteSet(BatchFiles) /\ NoFile \notin BatchFiles /\ UserQueueLimit \in Nat \ {0}

VARIABLES
  started,     \* SubmissionBatch.started_at is set
  fileRows,    \* the SubmissionBatchItem rows: state, and whether source is kept
  created,     \* the submissions: file and whether it is still being judged
  queuedRuns,  \* messages of run_submission_batch at the broker (bound: one)
  deliveries,  \* what each delivery is doing
  contestOver, \* contest.end_time has passed
  lostRun      \* a worker or the broker has lost a message

batchVars == <<started, fileRows, created, queuedRuns, deliveries, contestOver, lostRun>>

FileUsers == {FileUser[f] : f \in BatchFiles}
IdleDelivery == [step |-> "idle", todo |-> {}, file |-> NoFile, waiting |-> {}]
Row(state) == [state |-> state, source |-> TRUE]
PendingFiles == {f \in BatchFiles : fileRows[f].state = "pending"}
BeingJudged(u) == {s \in created : FileUser[s.file] = u /\ s.queued}

BatchInit ==
  /\ started = FALSE /\ created = {} /\ queuedRuns = 0 /\ contestOver = FALSE /\ lostRun = FALSE
  /\ fileRows = [f \in BatchFiles |-> Row("absent")]
  /\ deliveries = [d \in Deliveries |-> IdleDelivery]

-----------------------------------------------------------------------------
\* upload: one transaction per chunk; a file that is there is left alone.
UploadChunk(chunk) ==
  /\ ~started /\ ~contestOver
  /\ \E valid \in SUBSET chunk :
       fileRows' = [f \in BatchFiles |->
         IF f \notin chunk \/ fileRows[f].state # "absent" THEN fileRows[f]
         ELSE IF f \in valid THEN Row("pending") ELSE Row("invalid")]
  /\ UNCHANGED <<started, created, queuedRuns, deliveries, contestOver, lostRun>>

\* Hand a message to the broker, or fail to; deliveries add up to a bound.
Enqueue == \/ queuedRuns' = 1 /\ lostRun' = lostRun
           \/ queuedRuns' = queuedRuns /\ lostRun' = TRUE

\* start, and "resume", which is the same request.
StartBatch ==
  /\ ~contestOver /\ \A f \in BatchFiles : fileRows[f].state # "absent"
  /\ started \/ PendingFiles # {}
  /\ started' = TRUE /\ Enqueue
  /\ UNCHANGED <<fileRows, created, deliveries, contestOver>>

ContestOver == /\ ~contestOver /\ contestOver' = TRUE
               /\ UNCHANGED <<started, fileRows, created, queuedRuns, deliveries, lostRun>>
JudgeEnds(s) == /\ s \in created /\ s.queued
                /\ created' = (created \ {s}) \cup {[s EXCEPT !.queued = FALSE]}
                /\ UNCHANGED <<started, fileRows, queuedRuns, deliveries, contestOver, lostRun>>

-----------------------------------------------------------------------------
(* run_submission_batch.                                                       *)
Doing(d, step) == deliveries[d].step = step
Does(d, new) == deliveries' = [deliveries EXCEPT ![d] = new]

\* The broker may deliver a message again that it has delivered.
Deliver(d) ==
  /\ queuedRuns > 0 /\ Doing(d, "idle")
  /\ queuedRuns' \in {0, 1}
  /\ Does(d, [IdleDelivery EXCEPT !.step = "next", !.todo = PendingFiles])
  /\ UNCHANGED <<started, fileRows, created, contestOver, lostRun>>

\* The next row of the list whose user was not found to be waiting.
NextRow(d) ==
  /\ Doing(d, "next")
  /\ LET rest == {f \in deliveries[d].todo : FileUser[f] \notin deliveries[d].waiting}
     IN \/ \E f \in rest : /\ Does(d, [deliveries[d] EXCEPT !.step = "admit", !.file = f, !.todo = @ \ {f}])
                           /\ UNCHANGED <<queuedRuns, lostRun>>
        \/ /\ rest = {} /\ Does(d, IdleDelivery)
           /\ IF PendingFiles # {} THEN Enqueue ELSE UNCHANGED <<queuedRuns, lostRun>>
  /\ UNCHANGED <<started, fileRows, created, contestOver>>

\* admit_item: one transaction with the row and the profile locked.
\* BugAdmitAnyState: the state of the row is not read again under its lock.
BugAdmitAnyState(f) == TRUE
StillClaimable(f) == fileRows[f].state = "pending"
Admit(d) ==
  LET f == deliveries[d].file
  IN /\ Doing(d, "admit")
     /\ \/ \* claimed by another delivery
           ~StillClaimable(f) /\ Does(d, [deliveries[d] EXCEPT !.step = "next"]) /\ UNCHANGED <<fileRows, created>>
        \/ \* QueueFull
           /\ StillClaimable(f) /\ ~contestOver /\ Cardinality(BeingJudged(FileUser[f])) >= UserQueueLimit
           /\ Does(d, [deliveries[d] EXCEPT !.step = "next", !.waiting = @ \cup {FileUser[f]}])
           /\ UNCHANGED <<fileRows, created>>
        \/ \* accepted
           /\ StillClaimable(f) /\ ~contestOver /\ Cardinality(BeingJudged(FileUser[f])) < UserQueueLimit
           /\ created' = created \cup {[file |-> f, n |-> Cardinality(created), queued |-> TRUE]}
           /\ fileRows' = [fileRows EXCEPT ![f] = [state |-> "created", source |-> FALSE]]
           /\ Does(d, [deliveries[d] EXCEPT !.step = "judge"])
        \/ \* refused or failed: rolled back, the error is written afterwards
           /\ StillClaimable(f) /\ Does(d, [deliveries[d] EXCEPT !.step = "refuse"])
           /\ UNCHANGED <<fileRows, created>>
     /\ UNCHANGED <<started, queuedRuns, contestOver, lostRun>>

StillPending(f) == fileRows[f].state = "pending"
Refuse(d) ==
  LET f == deliveries[d].file
  IN /\ Doing(d, "refuse") /\ Does(d, [deliveries[d] EXCEPT !.step = "next"])
     /\ fileRows' = IF StillPending(f) THEN [fileRows EXCEPT ![f].state = "error"] ELSE fileRows
     /\ UNCHANGED <<started, created, queuedRuns, contestOver, lostRun>>

\* sub.judge(), after the commit, and the state it leaves.
Send(d) ==
  /\ Doing(d, "judge") /\ Does(d, [deliveries[d] EXCEPT !.step = "next"])
  /\ \E s \in {"submitted", "dispatch_error"} : fileRows' = [fileRows EXCEPT ![deliveries[d].file].state = s]
  /\ UNCHANGED <<started, created, queuedRuns, contestOver, lostRun>>
DeliveryDies(d) ==
  /\ deliveries[d] # IdleDelivery /\ Does(d, IdleDelivery) /\ lostRun' = TRUE
  /\ UNCHANGED <<started, fileRows, created, queuedRuns, contestOver>>

DeliveryStep(d) == NextRow(d) \/ Admit(d) \/ Refuse(d) \/ Send(d)
SomeDelivery == \E d \in Deliveries : Deliver(d)
BatchNext ==
  \/ \E chunk \in SUBSET BatchFiles : UploadChunk(chunk)
  \/ StartBatch \/ ContestOver \/ SomeDelivery
  \/ \E s \in created : JudgeEnds(s)
  \/ \E d \in Deliveries : DeliveryStep(d) \/ DeliveryDies(d)
BatchSpec == BatchInit /\ [][BatchNext]_batchVars

-----------------------------------------------------------------------------
BatchTypeOK ==
  /\ started \in BOOLEAN /\ contestOver \in BOOLEAN /\ lostRun \in BOOLEAN /\ queuedRuns \in {0, 1}
  /\ fileRows \in [BatchFiles -> [state : {"absent", "invalid", "pending", "created", "submitted", "dispatch_error", "error"},
                                  source : BOOLEAN]]
  /\ created \subseteq [file : BatchFiles, n : Nat, queued : BOOLEAN]
  /\ deliveries \in [Deliveries -> [step : {"idle", "next", "admit", "refuse", "judge"}, todo : SUBSET BatchFiles,
                                    file : BatchFiles \cup {NoFile}, waiting : SUBSET FileUsers]]

\* docs/batch-submit.md:26 (submissions that already have an ID are never
\* recreated): a file becomes at most one submission, however often the task is
\* delivered, and the rows that say so are exactly those that have one.
OneSubmissionPerFile ==
  /\ \A s, t \in created : s.file = t.file => s = t
  /\ \A f \in BatchFiles : (\E s \in created : s.file = f) <=>
                             fileRows[f].state \in {"created", "submitted", "dispatch_error"}
=============================================================================
