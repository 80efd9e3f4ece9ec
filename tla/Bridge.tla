------------------------------- MODULE Bridge -------------------------------
(***************************************************************************)
(* The life of a submission run: the website (judgeapi.py, the unlock of   *)
(* test_data_lock.py), the bridge (JudgeList composed with the handlers of *)
(* judge_handler.py and django_handler.py, daemon.py) and the judge        *)
(* workers at the other end of the sockets.  One problem owns every        *)
(* submission of the model.  A database transaction is one step; an        *)
(* on_commit callback that needs JudgeList.lock is a later one.            *)
(*                                                                         *)
(* The definitions named Bug... are wrong variants of the definition after *)
(* them and not part of the model, as in JudgeList.tla.                    *)
(***************************************************************************)
EXTENDS JudgeList

CONSTANTS
  Remote,  \* connections of judges with Judge.is_remote
  Echo,    \* connections whose packets carry the dispatch id
  Verdicts,\* the final statuses a worker may report
  Env      \* what the environment may do, see EnvKinds

EnvKinds ==
  {"rejudge", "abort", "unlock", "timeout", "overtake", "crash", "lost", "nodata", "unready", "update", "fault",
   "badfiles"}
IN_PROGRESS == {"QU", "P", "G"}
FINAL == {"D", "CE", "IE", "AB"}

ASSUME RemoteAssumption == Remote \subseteq Conns
ASSUME EchoAssumption == Echo \subseteq Conns /\ Remote \subseteq Echo
ASSUME VerdictsAssumption == Verdicts \subseteq {"D", "CE", "IE"}
ASSUME EnvAssumption == Env \subseteq EnvKinds
ASSUME TokensAssumption == Tokens \subseteq Nat

VARIABLES
  row,        \* Submission.status and batch_scoring['dispatch_id']
  issued,     \* the dispatch ids uuid4 has produced so far
  is_locked,  \* Problem.is_locked: judging allowed, tests not being edited
  handoffs,   \* web threads between the commit of a run and the bridge's reply
  aborts,     \* web threads inside abort_submission
  abort_due,  \* unlock_tests has still to send `abort-problem'
  jobs,       \* what each judge worker has been sent and has not ended
  pipe,       \* packets from each worker to its handler
  after,      \* the on_commit callback of the packet a handler processed
  preparing,  \* JudgeHandler._remote_preparing
  remote_run, \* JudgeHandler._remote_run is set
  acked,      \* JudgeHandler._pending_usage is set: the run was acknowledged
  timers,     \* handlers that started a retry_queued timer
  booting,    \* rows a starting daemon has still to mark
  by          \* history: the run whose worker produced the verdict in the row

dbVars == <<row, issued, is_locked, by>>
webVars == <<handoffs, aborts, abort_due>>
workerVars == <<jobs, pipe>>
runVars == <<after, preparing, remote_run, acked, timers>>
\* What the transaction of a packet leaves alone in JudgeList, and what it may change.
packetJl == <<listVars, conn, working, run_id, retry_request, is_disabled, checked, lockVars>>
packetVars == <<row, issued, by, after, preparing, acked, problems>>
vars == <<jlVars, dbVars, webVars, workerVars, runVars, booting>>

Row == [status : IN_PROGRESS \cup FINAL, dispatch_id : Tokens \cup {None}]
Job == [sub : Subs, tok : Tokens, stage : {"sent", "acked", "prepared", "begun"}, kill : BOOLEAN]
Kinds == {"ack", "prepared", "unavailable", "begin", "end"}
\* `job' is the run the worker speaks of, `did' what the packet says of it.
Packet == [kind : Kinds, sub : Subs, job : Tokens, did : Tokens \cup {None}, status : FINAL]
Handoff == [req : Request, tok : Tokens, at : {"web", "sent", "late", "done"}]
Callback == [op : {"release", "abort", "defer", "discard", "leave"}, sub : Subs, tok : Tokens \cup {None}]
\* None stands for no callback, and is none itself.
ASSUME NoCallbackAssumption == None \notin Callback

InProgress(s) == row[s].status \in IN_PROGRESS
\* uuid4: no run of any submission has this dispatch id yet.
Fresh(s) == {t \in Tokens : \A x \in Subs : \A u \in issued[x] : u < t}
Serving == booting = {}

\* The thread of handler h can take its next packet.
Reading(h) == conn[h] \in {"up", "shut"} /\ Outside(h) /\ after[h] = None

(***************************************************************************)
(* The website.                                                            *)
(***************************************************************************)
\* judge_submission(): one transaction under the problem row lock.
JudgeSubmission(s) ==
  /\ is_locked
  /\ \/ row[s].status = "QU" /\ row[s].dispatch_id = None
     \/ row[s].status \in FINAL /\ "rejudge" \in Env
  /\ \E tok \in Fresh(s) :
       /\ \A u \in Fresh(s) : tok <= u
       /\ row' = [row EXCEPT ![s] = [status |-> "QU", dispatch_id |-> tok]]
       /\ issued' = [issued EXCEPT ![s] = @ \cup {tok}]
       /\ handoffs' = handoffs \cup
            {[req |-> [id |-> s, prio |-> IF row[s].status = "QU" THEN 1 ELSE REJUDGE_PRIORITY,
                       judge_id |-> None, banned |-> {}], tok |-> tok, at |-> "web"]}
  /\ UNCHANGED <<jlVars, is_locked, by, aborts, abort_due, workerVars, runVars, booting>>

BugOldRun(s, tok) == InProgress(s)
Current(s, tok) == InProgress(s) /\ row[s].dispatch_id = tok
BugFailFinished(s, tok) == row' = [row EXCEPT ![s].status = "IE"]
FailRun(s, tok) == row' = IF Current(s, tok) THEN [row EXCEPT ![s].status = "IE"] ELSE row

\* _send_submission(): the on_commit callback reads the row again.
SendSubmission(m) ==
  /\ m.at = "web"
  /\ handoffs' = IF Current(m.req.id, m.tok)
                 THEN (handoffs \ {m}) \cup {[m EXCEPT !.at = "sent"]} ELSE handoffs \ {m}
  /\ UNCHANGED <<jlVars, dbVars, aborts, abort_due, workerVars, runVars, booting>>

\* No answer: the bridge is down or slow, and may yet act on the request.
SendFails(m) ==
  /\ \/ ~Serving /\ m.at \in {"sent", "done"} /\ handoffs' = handoffs \ {m}
     \/ "timeout" \in Env /\ m.at = "sent" /\ handoffs' = (handoffs \ {m}) \cup {[m EXCEPT !.at = "late"]}
     \/ "timeout" \in Env /\ m.at = "done" /\ handoffs' = handoffs \ {m}
  /\ FailRun(m.req.id, m.tok)
  /\ UNCHANGED <<jlVars, issued, is_locked, by, aborts, abort_due, workerVars, runVars, booting>>

SendAnswered(m) ==
  /\ m.at = "done"
  /\ handoffs' = handoffs \ {m}
  /\ UNCHANGED <<jlVars, dbVars, aborts, abort_due, workerVars, runVars, booting>>

\* abort_submission(): the status read with the page, the request to the
\* bridge, and the write when the bridge holds no worker to terminate.
AbortRequested(s) ==
  /\ "abort" \in Env /\ Serving
  /\ aborts[s] = "idle" /\ row[s].status # "D"
  /\ aborts' = [aborts EXCEPT ![s] = "asked"]
  /\ UNCHANGED <<jlVars, dbVars, handoffs, abort_due, workerVars, runVars, booting>>
AbortWritten(s) ==
  /\ aborts[s] = "refused"
  /\ aborts' = [aborts EXCEPT ![s] = "idle"]
  /\ row' = [row EXCEPT ![s].status = "AB"]
  /\ UNCHANGED <<jlVars, issued, is_locked, by, handoffs, abort_due, workerVars, runVars, booting>>

\* unlock_tests(); applying the edited tests locks the problem again.
Unlock ==
  /\ "unlock" \in Env
  /\ IF is_locked
     THEN /\ is_locked' = FALSE
          /\ row' = [s \in Subs |-> IF InProgress(s) THEN [row[s] EXCEPT !.status = "AB"] ELSE row[s]]
     ELSE UNCHANGED <<is_locked, row>>
  /\ abort_due' = TRUE
  /\ UNCHANGED <<jlVars, issued, by, handoffs, aborts, workerVars, runVars, booting>>
Apply ==
  /\ ~is_locked
  /\ is_locked' = TRUE
  /\ UNCHANGED <<jlVars, row, issued, by, webVars, workerVars, runVars, booting>>

(***************************************************************************)
(* The bridge's website-facing requests (django_handler.py).               *)
(***************************************************************************)
\* Each request has a connection of its own: nothing but "overtake" orders them.
InOrder(m) == \A k \in handoffs : k.at \in {"sent", "late"} /\ k.req.id = m.req.id => m.tok <= k.tok
OnSubmission(m) ==
  /\ Serving
  /\ m.at \in {"sent", "late"}
  /\ "overtake" \in Env \/ InOrder(m)
  /\ judge(m.req, m.tok)
  /\ handoffs' = (handoffs \ {m}) \cup IF m.at = "sent" THEN {[m EXCEPT !.at = "done"]} ELSE {}
  /\ UNCHANGED <<dbVars, aborts, abort_due, workerVars, runVars, booting>>

\* The terminate-submission packet names the run its handler works on now.
Terminated(h) == {[j EXCEPT !.kill = @ \/ (j.sub = working[h] /\ j.tok = run_id[h])] : j \in jobs[h]}

OnTermination(s) ==
  /\ Serving
  /\ aborts[s] = "asked"
  /\ abort(s)
  /\ IF submission_map[s] = None
     THEN aborts' = [aborts EXCEPT ![s] = "refused"] /\ UNCHANGED jobs
     ELSE /\ aborts' = [aborts EXCEPT ![s] = "idle"]
          /\ jobs' = [jobs EXCEPT ![submission_map[s]] = Terminated(submission_map[s])]
  /\ UNCHANGED <<dbVars, handoffs, abort_due, pipe, runVars, booting>>

\* abort_problem(): best effort, the request may be lost, and a handler whose
\* socket is shut ends the loop with an exception.
AbortIds == {s \in Subs : row[s].status = "AB" /\ (submission_map[s] # None \/ Queued(s))}
AbortLoop(ids) ==
  ids = AbortIds \/ \E s \in AbortIds \ ids : submission_map[s] # None /\ conn[submission_map[s]] = "shut"
\* The requests of q that are not for ids, in their order.
Without(q, ids) ==
  LET kept == {i \in 1 .. Len(q) : q[i].id \notin ids}
      places == CHOOSE f \in UNION {[1 .. n -> kept] : n \in 0 .. Len(q)} :
                  /\ \A i, j \in DOMAIN f : i < j => f[i] < f[j]
                  /\ \A i \in kept : \E j \in DOMAIN f : f[j] = i
  IN [j \in DOMAIN places |-> q[places[j]]]
DropQueued(ids) == [p \in Priorities |-> Without(queue[p], ids)]
OnAbortProblem ==
  /\ abort_due
  /\ abort_due' = FALSE
  /\ \/ /\ Serving /\ LockFree
        /\ \E ids \in SUBSET AbortIds :
             LET unheld == {s \in ids : submission_map[s] = None}
                 holders == {submission_map[s] : s \in ids \ unheld} IN
             /\ AbortLoop(ids)
             /\ queue' = DropQueued(unheld)
             /\ dispatch_ids' = [s \in Subs |-> IF s \in unheld THEN None ELSE dispatch_ids[s]]
             /\ jobs' = [h \in Conns |-> IF h \in holders THEN Terminated(h) ELSE jobs[h]]
     \/ "lost" \in Env /\ UNCHANGED <<queue, dispatch_ids, jobs>>
  /\ UNCHANGED <<judges, submission_map, handlerVars, lockVars, dbVars, handoffs, aborts, pipe, runVars, booting>>

\* sync_remote_data, run periodically by celery beat; the passes that find no
\* work for any judge change nothing and are left out.
SyncRemoteData ==
  /\ Serving /\ Remote # {}
  /\ \E n \in Nodes, h \in judges : working[h] = None /\ Eligible(h, At(n)) /\ ~Reserved(n[1])
  /\ retry_queued
  /\ UNCHANGED <<dbVars, webVars, workerVars, runVars, booting>>
\* A timer fires no earlier than the retry window of its handler ends.
OnRetryQueued(h) ==
  /\ Serving /\ h \in timers
  /\ conn[h] \in {"new", "up"} => problems[h] # {}
  /\ timers' = timers \ {h}
  /\ retry_queued
  /\ UNCHANGED <<dbVars, webVars, workerVars, after, preparing, remote_run, acked, booting>>
\* _remote_retry_after passes: can_judge accepts work for the handler again.
RetryWindowEnds(h) ==
  /\ conn[h] \in {"new", "up"} /\ problems[h] = {}
  /\ problems' = [problems EXCEPT ![h] = Subs]
  /\ UNCHANGED <<packetJl, dbVars, webVars, workerVars, runVars, booting>>

(***************************************************************************)
(* Dispatch: JudgeHandler.submit() decides under the problem row lock.     *)
(***************************************************************************)
Refused(s) ==
  \/ ~InProgress(s)
  \/ dispatch_ids[s] # None /\ dispatch_ids[s] # row[s].dispatch_id
  \/ ~is_locked

\* A remote judge's data may cease to be ready between selection and dispatch;
\* a broken manual test file ends the run; the send may fail.
Answer(h, s, out) ==
  \/ out = "invalid" /\ Refused(s) /\ UNCHANGED row
  \/ out \in {"deferred", "unready"} /\ ~Refused(s) /\ h \in Remote /\ "unready" \in Env /\ UNCHANGED row
  \/ out = "invalid" /\ ~Refused(s) /\ "badfiles" \in Env /\ row' = [row EXCEPT ![s].status = "IE"]
  \/ out = "failed" /\ ~Refused(s) /\ (conn[h] = "shut" \/ "lost" \in Env) /\ UNCHANGED row
  \/ out = "ok" /\ ~Refused(s) /\ conn[h] # "shut" /\ UNCHANGED row

\* _submit() replaces _remote_preparing and _remote_run, the refusals before it do not.
Sent(h, s, out) ==
  LET prepares == IF out \in {"ok", "unready", "failed"} THEN out = "ok" /\ h \in Remote ELSE preparing[h] IN
  /\ jobs' = IF out # "ok" THEN jobs
             ELSE [jobs EXCEPT ![h] = @ \cup
                    {[sub |-> s, tok |-> row[s].dispatch_id, stage |-> "sent", kill |-> FALSE]}]
  /\ preparing' = [preparing EXCEPT ![h] = prepares]
  /\ remote_run' = [remote_run EXCEPT ![h] = IF out \in {"ok", "unready", "failed"} THEN prepares ELSE @]
  /\ acked' = [acked EXCEPT ![h] = @ /\ out \notin {"ok", "failed"}]
  /\ UNCHANGED <<issued, is_locked, by, webVars, pipe, after, timers, booting>>

Submit(h, s, out) == Answer(h, s, out) /\ Sent(h, s, out)

Schedule ==
  \/ /\ OfferNothing \/ QueueNew \/ \E h \in Conns : NextCandidate(h)
     /\ UNCHANGED <<dbVars, webVars, workerVars, runVars, booting>>
  \/ \E n \in Nodes, out \in Outcomes :
       /\ OfferNode(n, out, row[At(n).id].dispatch_id)
       /\ Submit(scan, At(n).id, out)
  \/ \E out \in Outcomes, h \in judges :
       /\ pend # None
       /\ DispatchNew(h, out, row[pend.id].dispatch_id)
       /\ Submit(h, pend.id, out)

(***************************************************************************)
(* Judge connections.                                                      *)
(***************************************************************************)
Handshake(h) ==
  /\ Serving
  /\ register(h, Subs)
  /\ UNCHANGED <<dbVars, webVars, workerVars, runVars, booting>>
Connected(h) == connected(h, FALSE) /\ UNCHANGED <<dbVars, webVars, workerVars, runVars, booting>>
Lost(h) == "lost" \in Env /\ ConnectionLost(h) /\ UNCHANGED <<dbVars, webVars, workerVars, runVars, booting>>
SupportedProblems(h) ==
  /\ Reading(h) \/ h \in checked
  /\ \/ "update" \in Env /\ on_supported_problems(h, problems[h])
     \/ update_problems(h)
  /\ UNCHANGED <<dbVars, webVars, workerVars, runVars, booting>>

(***************************************************************************)
(* The worker behind connection h (external): it acknowledges a request at *)
(* once and grades one run at a time.                                      *)
(***************************************************************************)
Emit(h, j, kind, status, rest) ==
  /\ conn[h] \in {"new", "up"}
  /\ jobs' = [jobs EXCEPT ![h] = (@ \ {j}) \cup rest]
  /\ pipe' = [pipe EXCEPT ![h] = Append(@, [kind |-> kind, sub |-> j.sub, job |-> j.tok,
                                           did |-> IF h \in Echo THEN j.tok ELSE None, status |-> status])]
  /\ UNCHANGED <<jlVars, dbVars, webVars, runVars, booting>>
Grading(h) == {j \in jobs[h] : j.stage \in {"prepared", "begun"}}
WorkerAcks(h, j) == j.stage = "sent" /\ Emit(h, j, "ack", "IE", {[j EXCEPT !.stage = "acked"]})
WorkerPrepares(h, j) ==
  /\ h \in Remote /\ j.stage = "acked" /\ Grading(h) = {}
  /\ \/ Emit(h, j, "prepared", "IE", {[j EXCEPT !.stage = "prepared"]})
     \/ "nodata" \in Env /\ Fresh(j.sub) # {} /\ Emit(h, j, "unavailable", "IE", {})
WorkerBegins(h, j) ==
  /\ \/ h \in Remote /\ j.stage = "prepared"
     \/ h \notin Remote /\ j.stage = "acked" /\ Grading(h) = {}
  /\ Emit(h, j, "begin", "IE", {[j EXCEPT !.stage = "begun"]})
WorkerEnds(h, j) ==
  /\ j.stage # "sent"
  /\ \/ j.stage = "begun" /\ \E st \in Verdicts : Emit(h, j, "end", st, {})
     \/ j.kill /\ Emit(h, j, "end", "AB", {})

(***************************************************************************)
(* _handle_submission_packet: one transaction per packet.                  *)
(***************************************************************************)
BugAnyRun(h, p) == InProgress(p.sub)
CurrentRun(h, p) ==
  /\ InProgress(p.sub)
  /\ p.did # None => p.did = row[p.sub].dispatch_id
  /\ row[p.sub].dispatch_id # None => working[h] = p.sub /\ run_id[h] = row[p.sub].dispatch_id

Terminal(p) == p.kind \in {"end", "unavailable"}
Ignored(h, p) == remote_run[h] /\ p.did # run_id[h]
BugOldToken(h, op, s, tok) == after' = [after EXCEPT ![h] = [op |-> op, sub |-> s, tok |-> run_id[h]]]
Then(h, op, s, tok) == after' = [after EXCEPT ![h] = [op |-> op, sub |-> s, tok |-> tok]]

OnAcknowledged(h, p) ==
  /\ p.kind = "ack"
  /\ acked' = [acked EXCEPT ![h] = TRUE]
  /\ row' = IF acked[h] THEN row ELSE [row EXCEPT ![p.sub].status = "P"]
  /\ UNCHANGED <<issued, by, after, preparing, problems>>
OnPrepared(h, p) ==
  /\ p.kind = "prepared"
  /\ preparing' = [preparing EXCEPT ![h] = preparing[h] /\ ~remote_run[h]]
  /\ UNCHANGED <<row, issued, by, after, acked, problems>>
OnGradingBegin(h, p) ==
  /\ p.kind = "begin"
  /\ row' = IF working[h] = p.sub THEN [row EXCEPT ![p.sub].status = "G"] ELSE row
  /\ UNCHANGED <<issued, by, after, preparing, acked, problems>>
\* on_grading_end, on_compile_error, on_internal_error, on_submission_terminated.
OnRunEnd(h, p) ==
  /\ p.kind = "end"
  /\ row' = [row EXCEPT ![p.sub].status = p.status]
  /\ by' = [by EXCEPT ![p.sub] = p.job]
  /\ Then(h, "release", p.sub, None)
  /\ UNCHANGED <<issued, preparing, acked, problems>>

\* _retry_remote_submission(): the row gets a new token and goes back to QU.
Retryable(h) == preparing[h] /\ row[working[h]].status \in {"QU", "P"} /\ row[working[h]].dispatch_id = run_id[h]
Requeue(h, op) ==
  \E tok \in Fresh(working[h]) :
     /\ \A u \in Fresh(working[h]) : tok <= u
     /\ row' = [row EXCEPT ![working[h]] = [status |-> "QU", dispatch_id |-> tok]]
     /\ issued' = [issued EXCEPT ![working[h]] = @ \cup {tok}]
     /\ Then(h, op, working[h], tok)
     /\ problems' = [problems EXCEPT ![h] = {}]
OnUnavailable(h, p) ==
  /\ p.kind = "unavailable"
  /\ IF remote_run[h] /\ Retryable(h) THEN Requeue(h, "defer") ELSE UNCHANGED <<row, issued, after, problems>>
  /\ UNCHANGED <<by, preparing, acked>>

Handled(h, p) ==
  \/ OnAcknowledged(h, p) \/ OnPrepared(h, p) \/ OnGradingBegin(h, p) \/ OnRunEnd(h, p) \/ OnUnavailable(h, p)

BugStaleIgnored(h, p) == UNCHANGED packetVars
\* A packet of a run that is not current any more.
Stale(h, p) ==
  /\ IF Terminal(p) /\ working[h] = p.sub /\ (p.did # None => p.did = run_id[h])
     THEN Then(h, "release", p.sub, None)
     ELSE IF p.kind = "ack" /\ working[h] = p.sub THEN Then(h, "abort", p.sub, None) ELSE UNCHANGED after
  /\ UNCHANGED <<row, issued, by, preparing, acked, problems>>

HandlePacket(h) ==
  /\ Reading(h) /\ pipe[h] # <<>>
  /\ pipe' = [pipe EXCEPT ![h] = Tail(@)]
  /\ LET p == Head(pipe[h]) IN
     \/ Ignored(h, p) /\ UNCHANGED packetVars
     \/ ~Ignored(h, p) /\ CurrentRun(h, p) /\ Handled(h, p)
     \/ ~Ignored(h, p) /\ ~CurrentRun(h, p) /\ Stale(h, p)
     \/ \* the transaction fails: no write, and no on_commit callback either
        "fault" \in Env /\ UNCHANGED packetVars
  /\ UNCHANGED <<packetJl, is_locked, webVars, jobs, remote_run, timers, booting>>

\* The on_commit callbacks.  release() leaves a handler alone that has moved on.
Release(h) ==
  /\ after[h] # None /\ after[h].op = "release"
  /\ after' = [after EXCEPT ![h] = None]
  /\ IF working[h] = after[h].sub
     THEN /\ on_judge_free(h, after[h].sub)
          /\ preparing' = [preparing EXCEPT ![h] = FALSE]
          /\ remote_run' = [remote_run EXCEPT ![h] = FALSE]
     ELSE UNCHANGED <<jlVars, preparing, remote_run>>
  /\ UNCHANGED <<dbVars, webVars, workerVars, acked, timers, booting>>
AbortWorker(h) ==
  /\ after[h] # None /\ after[h].op = "abort"
  /\ after' = [after EXCEPT ![h] = None]
  /\ jobs' = [jobs EXCEPT ![h] = Terminated(h)]
  /\ UNCHANGED <<jlVars, dbVars, webVars, pipe, preparing, remote_run, acked, timers, booting>>
Defer(h) ==
  /\ after[h] # None /\ after[h].op \in {"defer", "leave"}
  /\ after' = [after EXCEPT ![h] = None]
  /\ timers' = IF after[h].op = "defer" THEN timers \cup {h} ELSE timers
  /\ defer(h, after[h].sub, after[h].tok)
  /\ preparing' = [preparing EXCEPT ![h] = @ /\ ~Holds(h, after[h].sub)]
  /\ remote_run' = [remote_run EXCEPT ![h] = @ /\ ~Holds(h, after[h].sub)]
  /\ UNCHANGED <<dbVars, webVars, workerVars, acked, booting>>

(***************************************************************************)
(* on_disconnect().                                                        *)
(***************************************************************************)
\* Its first transaction: the run of a judge that was still preparing is retried.
DisconnectRetry(h) ==
  /\ conn[h] = "shut" /\ Outside(h) /\ after[h] = None
  /\ working[h] # None /\ Retryable(h)
  /\ Requeue(h, "discard")
  /\ pipe' = [pipe EXCEPT ![h] = <<>>]
  /\ UNCHANGED <<packetJl, is_locked, by, webVars, jobs, preparing, remote_run, acked, timers, booting>>
DisconnectDiscard(h) ==
  /\ after[h] # None /\ after[h].op = "discard"
  /\ after' = [after EXCEPT ![h].op = "leave"]
  /\ discard(h)
  /\ UNCHANGED <<dbVars, webVars, workerVars, preparing, remote_run, acked, timers, booting>>
DisconnectRemove(h) ==
  /\ after[h] = None
  /\ ~(working[h] # None /\ Retryable(h))
  /\ remove(h)
  /\ pipe' = [pipe EXCEPT ![h] = <<>>]
  /\ UNCHANGED <<dbVars, webVars, jobs, runVars, booting>>
\* Its last transaction: the run the judge leaves behind ends with IE.
DisconnectFail(h) ==
  /\ Outside(h)
  /\ Forget(h)
  /\ row' = IF working[h] # None /\ Current(working[h], run_id[h])
            THEN [row EXCEPT ![working[h]].status = "IE"] ELSE row
  /\ jobs' = [jobs EXCEPT ![h] = {}]
  /\ preparing' = [preparing EXCEPT ![h] = FALSE]
  /\ remote_run' = [remote_run EXCEPT ![h] = FALSE]
  /\ acked' = [acked EXCEPT ![h] = FALSE]
  /\ UNCHANGED <<issued, is_locked, by, webVars, pipe, after, timers, booting>>

(***************************************************************************)
(* daemon.py: a new bridge process starts empty and marks every row the    *)
(* old one may have been judging, one by one, before it serves anybody.    *)
(***************************************************************************)
Crash ==
  /\ "crash" \in Env /\ Serving
  /\ booting' = {s \in Subs : InProgress(s)}
  /\ JLRestart
  /\ jobs' = [h \in Conns |-> {}] /\ pipe' = [h \in Conns |-> <<>>]
  /\ after' = [h \in Conns |-> None]
  /\ preparing' = [h \in Conns |-> FALSE] /\ remote_run' = [h \in Conns |-> FALSE]
  /\ acked' = [h \in Conns |-> FALSE] /\ timers' = {}
  /\ handoffs' = {m \in handoffs : m.at # "late"}
  /\ UNCHANGED <<dbVars, aborts, abort_due>>
BugBootSkips(s) ==
  /\ s \in booting
  /\ booting' = booting \ {s}
  /\ UNCHANGED <<jlVars, dbVars, webVars, workerVars, runVars>>
BootMark(s) ==
  /\ s \in booting
  /\ booting' = booting \ {s}
  /\ row' = [row EXCEPT ![s].status = "IE"]
  /\ UNCHANGED <<jlVars, issued, is_locked, by, webVars, workerVars, runVars>>

(***************************************************************************)
Init ==
  /\ JLInit
  /\ row = [s \in Subs |-> [status |-> "QU", dispatch_id |-> None]]
  /\ issued = [s \in Subs |-> {}]
  /\ is_locked = TRUE
  /\ handoffs = {} /\ aborts = [s \in Subs |-> "idle"] /\ abort_due = FALSE
  /\ jobs = [h \in Conns |-> {}] /\ pipe = [h \in Conns |-> <<>>]
  /\ after = [h \in Conns |-> None]
  /\ preparing = [h \in Conns |-> FALSE] /\ remote_run = [h \in Conns |-> FALSE]
  /\ acked = [h \in Conns |-> FALSE] /\ timers = {}
  /\ booting = {}
  /\ by = [s \in Subs |-> None]

Next ==
  \/ \E s \in Subs : JudgeSubmission(s) \/ AbortRequested(s) \/ AbortWritten(s) \/ OnTermination(s) \/ BootMark(s)
  \/ \E m \in handoffs : SendSubmission(m) \/ SendFails(m) \/ SendAnswered(m) \/ OnSubmission(m)
  \/ Unlock \/ Apply \/ OnAbortProblem \/ SyncRemoteData \/ Schedule \/ Crash
  \/ \E h \in Conns :
       \/ Handshake(h) \/ Connected(h) \/ Lost(h) \/ SupportedProblems(h)
       \/ OnRetryQueued(h) \/ RetryWindowEnds(h)
       \/ HandlePacket(h) \/ Release(h) \/ AbortWorker(h) \/ Defer(h)
       \/ DisconnectRetry(h) \/ DisconnectDiscard(h) \/ DisconnectRemove(h) \/ DisconnectFail(h)
       \/ \E j \in jobs[h] : WorkerAcks(h, j) \/ WorkerPrepares(h, j) \/ WorkerBegins(h, j) \/ WorkerEnds(h, j)

Spec == Init /\ [][Next]_vars

(***************************************************************************)
(* Fairness: threads and workers keep running, packets of open connections *)
(* arrive, and the lock is handed to whoever keeps waiting for it.  Nobody *)
(* has to rejudge, abort, unlock or fail; a judge reconnects eventually.   *)
(***************************************************************************)
Worker(h) ==
  \E j \in jobs[h] : WorkerAcks(h, j) \/ WorkerPrepares(h, j) \/ WorkerBegins(h, j) \/ WorkerEnds(h, j)
Fairness ==
  /\ WF_vars(Schedule) /\ WF_vars(Apply) /\ WF_vars(OnAbortProblem) /\ WF_vars(SyncRemoteData)
  /\ WF_vars(\E m \in handoffs : SendSubmission(m) \/ SendAnswered(m))
  /\ WF_vars(\E m \in handoffs : OnSubmission(m))
  /\ \A s \in Subs : WF_vars(OnTermination(s)) /\ WF_vars(AbortWritten(s)) /\ WF_vars(BootMark(s))
  /\ \A h \in Conns :
       /\ WF_vars(Handshake(h)) /\ WF_vars(Connected(h)) /\ WF_vars(update_problems(h) /\ SupportedProblems(h))
       /\ WF_vars(Worker(h)) /\ WF_vars(HandlePacket(h))
       /\ WF_vars(Release(h)) /\ WF_vars(AbortWorker(h)) /\ WF_vars(Defer(h))
       /\ WF_vars(OnRetryQueued(h)) /\ WF_vars(RetryWindowEnds(h))
       /\ WF_vars(DisconnectRetry(h)) /\ WF_vars(DisconnectDiscard(h))
       /\ WF_vars(DisconnectRemove(h)) /\ WF_vars(DisconnectFail(h))
FairSpec == Spec /\ Fairness

\* The database row, the threads and the workers keep their types: in
\* particular every requeued run carries a token uuid4 produced.
TypeOK ==
  /\ JLTypeOK
  /\ row \in [Subs -> Row]
  /\ issued \in [Subs -> SUBSET Tokens]
  /\ is_locked \in BOOLEAN /\ abort_due \in BOOLEAN /\ timers \in SUBSET Conns
  /\ handoffs \subseteq Handoff
  /\ aborts \in [Subs -> {"idle", "asked", "refused"}]
  /\ jobs \in [Conns -> SUBSET Job]
  /\ pipe \in [Conns -> Seq(Packet)]
  /\ after \in [Conns -> Callback \cup {None}]
  /\ preparing \in [Conns -> BOOLEAN] /\ remote_run \in [Conns -> BOOLEAN] /\ acked \in [Conns -> BOOLEAN]
  /\ booting \in SUBSET Subs
  /\ by \in [Subs -> Tokens \cup {None}]

(***************************************************************************)
(* Properties.                                                             *)
(***************************************************************************)
\* docs/test-data-lock.md:13, dispatch tokens tell the runs of a submission
\* apart.  A verdict (D or CE) in a row was produced by a worker that judged the
\* run the row stands for: a packet of an older run, read after a rejudge, an
\* unlock or a double dispatch, is never written over the newer run.
VerdictOfCurrentRun == \A s \in Subs : row[s].status \in {"D", "CE"} => by[s] = row[s].dispatch_id

\* judgeapi.py and daemon.py overwrite rows from outside the bridge.  A finished
\* run keeps its result: only a new run, with a new token, changes it.
FinalIsFinal ==
  [][\A s \in Subs : row[s].status \in FINAL /\ row'[s].dispatch_id = row[s].dispatch_id
                        => row'[s].status = row[s].status]_vars

\* Whoever will still act on the run the row of s stands for: the web thread
\* that hands it over, the queue, judge() placing it, the handler that works on
\* it, an on_commit callback that will put it back, a starting bridge that will
\* mark it, or abort_submission about to write AB.
Driven(s) ==
  LET tok == row[s].dispatch_id IN
  \/ tok = None
  \/ \E m \in handoffs : m.req.id = s /\ m.tok = tok /\ m.at # "done"
  \/ Queued(s) \/ (pend # None /\ pend.id = s)
  \/ \E h \in Conns : working[h] = s /\ run_id[h] = tok
  \/ \E h \in Conns : /\ after[h] # None /\ after[h].op \in {"defer", "discard", "leave"}
                      /\ after[h].sub = s /\ after[h].tok = tok
  \/ s \in booting
  \/ aborts[s] = "refused"

\* No run is forgotten: a row in progress always has somebody who will finish
\* it.  A request that times out, a judge that disconnects, a refused dispatch
\* and a run requeued by _retry_remote_submission each hand the run on or end it.
NoRunForgotten == \A s \in Subs : InProgress(s) => Driven(s)

\* docs/test-data-lock.md:14, the judge slot is still released when an old run
\* ends.  The slot of a connected judge is only held while the run it was given
\* goes on: its worker has it, its last packet is on the way, or the callback
\* that frees the slot is due.
SlotHeldByRun ==
  \A h \in Conns : working[h] # None /\ conn[h] \in {"new", "up"} =>
    \/ \E j \in jobs[h] : j.sub = working[h] /\ j.tok = run_id[h]
    \/ \E i \in 1 .. Len(pipe[h]) : Terminal(pipe[h][i]) /\ pipe[h][i].sub = working[h]
    \/ after[h] # None

\* judge_list.py:125 "Do not replace its token": the run the scheduler expects
\* for a submission is never replaced by an older one, by a late request of the
\* website or by a deferred run.
QueuedTokenNeverGoesBack ==
  [][\A s \in Subs : dispatch_ids[s] # None /\ dispatch_ids'[s] # None => dispatch_ids[s] <= dispatch_ids'[s]]_vars

\* Every run that was requested reaches a final status, whatever rejudges and
\* unlocks happen, however often remote data cannot be fetched in between.
EveryRunEnds == \A s \in Subs : InProgress(s) /\ row[s].dispatch_id # None ~> ~InProgress(s)

\* The bridge, the website and the workers together implement SubmissionRun for
\* every submission: judgeapi.py, judge_handler.py, test_data_lock.py and
\* daemon.py write rows only as its NewRun, Advance and Finish steps do.  This is
\* \A s \in Subs : Run(s)!Spec, with the quantifier where TLC can evaluate it.
Run(s) == INSTANCE SubmissionRun
          WITH status <- row[s].status, run <- row[s].dispatch_id, issued <- issued[s], by <- by[s]
RunsImplemented ==
  /\ \A s \in Subs : Run(s)!Init
  /\ [][\A s \in Subs : [Run(s)!Next]_(Run(s)!vars)]_vars
=============================================================================
