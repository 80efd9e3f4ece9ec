------------------------------ MODULE JudgeList ------------------------------
(***************************************************************************)
(* The scheduler of the judging bridge: class JudgeList of                 *)
(* judge/bridge/judge_list.py and the fields of JudgeHandler it reads and  *)
(* writes.  Every method of the class runs under one re-entrant lock.  The *)
(* lock is modelled by what its holder has left to do: `pend' is a call of *)
(* judge() that has yet to choose a judge, `scan' the judge a run of       *)
(* _handle_free_judge is looking for work for (`cur' is the next queue     *)
(* node it looks at) and `todo' the judges a loop over self.judges has     *)
(* still to offer.  The lock is free when all three are empty.  Steps of   *)
(* the database and of other threads happen between the steps of a holder. *)
(*                                                                         *)
(* What JudgeHandler.submit answers and the token it starts the run with   *)
(* are parameters of the actions: Scheduler.tla leaves them open and       *)
(* Bridge.tla takes them from the database.                                *)
(*                                                                         *)
(* The definitions named Bug... are not part of the model: each is a wrong *)
(* variant of the definition after it, of the kind a change of the code    *)
(* could introduce, and breaks a property when it takes its place.         *)
(***************************************************************************)
EXTENDS Naturals, Sequences, FiniteSets, SequencesExt

CONSTANTS
  Conns,   \* connections: the JudgeHandler objects
  Names,   \* judge names, as authenticated by the handshake
  NameOf,  \* the name each connection authenticates as
  Subs,    \* submission ids
  Tokens,  \* dispatch ids: one per requested run of a submission
  None     \* Python's None / a missing dictionary key

ASSUME NameOfAssumption == NameOf \in [Conns -> Names]

VARIABLES
  queue,          \* self.queue: the nodes in front of each priority marker
  judges,         \* self.judges
  submission_map, \* self.submission_map
  dispatch_ids,   \* self.dispatch_ids
  conn,           \* the socket of each handler
  working,        \* JudgeHandler._working
  run_id,         \* JudgeHandler._dispatch_id
  retry_request,  \* JudgeHandler._retry_request: what was offered last
  is_disabled,    \* JudgeHandler.is_disabled
  problems,       \* the submissions JudgeHandler.can_judge accepts the data of
  checked,        \* handlers between the two halves of on_supported_problems
  pend, scan, cur, todo,
  owner           \* the handler whose thread holds the lock, None for other threads

listVars == <<queue, judges, submission_map, dispatch_ids>>
handlerVars == <<conn, working, run_id, retry_request, is_disabled, problems, checked>>
workVars == <<pend, scan, cur, todo>>
lockVars == <<workVars, owner>>
jlVars == <<listVars, handlerVars, lockVars>>

Priorities == 0 .. 3
REJUDGE_PRIORITY == 2
Request == [id : Subs, prio : Priorities, judge_id : Names \cup {None}, banned : SUBSET Names]
ASSUME NoneAssumption == None \notin Conns \cup Names \cup Subs \cup Tokens \cup Request
\* What submit() does: it sends the run; defers it before _submit() or in it;
\* drops it; or fails to send it.
Outcomes == {"ok", "deferred", "unready", "invalid", "failed"}
\* A socket: not connected; registered while _connected() has yet to run; in use;
\* shut down by either side; out of the list with on_disconnect under way.
ConnStates == {"off", "new", "up", "shut", "left"}
Shut(c) == IF conn[c] \in {"new", "up"} THEN "shut" ELSE conn[c]

(***************************************************************************)
(* The queue: a node is a position <<priority, index>>.  node_map has one  *)
(* entry per queued id, so `in node_map' is Queued.                        *)
(***************************************************************************)
Nodes == UNION {{p} \X (1 .. Len(queue[p])) : p \in Priorities}
At(n) == queue[n[1]][n[2]]
Before(m, n) == m[1] < n[1] \/ (m[1] = n[1] /\ m[2] <= n[2])
Queued(id) == \E n \in Nodes : At(n).id = id
NodeOf(id) == CHOOSE n \in Nodes : At(n).id = id
BugKeepNode(n) == queue
Unlink(n) == [queue EXCEPT ![n[1]] = RemoveAt(@, n[2])]
BugKeepOldNode(id) == queue
UnlinkId(id) == IF Queued(id) THEN Unlink(NodeOf(id)) ELSE queue
Link(q, r) == [q EXCEPT ![r.prio] = Append(@, r)]
BugStart == <<0, 0>>
Start == <<0, 1>>

LockFree == pend = None /\ scan = None /\ todo = {}
\* The thread t keeps the lock after this step if it has work left to do.
KeptBy(t) == owner' = IF LockFree' THEN None ELSE t
\* The thread of handler h is not inside a method of JudgeList.
Outside(h) == h \notin checked /\ owner # h

BugAnyJudge(h, r) == r.id \in problems[h] /\ ~is_disabled[h]
\* JudgeHandler.can_judge; `problems' stands for the test data and executor part.
can_judge(h, r) ==
  /\ r.id \in problems[h]
  /\ \/ r.judge_id = None /\ ~is_disabled[h]
     \/ r.judge_id = NameOf[h]
Eligible(h, r) == NameOf[h] \notin r.banned /\ can_judge(h, r)

Enabled == {h \in judges : ~is_disabled[h]}
Idle == {h \in Enabled : working[h] = None}
\* _handle_free_judge stops at a rejudge when it would take the last idle judge.
Reserved(p) == p >= REJUDGE_PRIORITY /\ Cardinality(Enabled) > 1 /\ Cardinality(Idle) <= 1

\* submission_map[id] = judge, then a successful JudgeHandler.submit.
Assign(h, r, tok) ==
  /\ submission_map' = [submission_map EXCEPT ![r.id] = h]
  /\ working' = [working EXCEPT ![h] = r.id]
  /\ run_id' = [run_id EXCEPT ![h] = tok]
  /\ retry_request' = [retry_request EXCEPT ![h] = r]

\* submission_map[id] = judge, a refusing submit, _unassign: the entry is gone,
\* whoever it named before.  The handler keeps the request it was offered and,
\* if _submit() got that far, the token of its run; a send that fails frees it.
\* All of this matters when it works on another submission.
Refuse(h, r, out, tok) ==
  /\ submission_map' = [submission_map EXCEPT ![r.id] = None]
  /\ retry_request' = [retry_request EXCEPT ![h] = r]
  /\ run_id' = IF out \in {"unready", "failed"} THEN [run_id EXCEPT ![h] = tok] ELSE run_id
  /\ working' = IF out = "failed" THEN [working EXCEPT ![h] = None] ELSE working

\* The end of _remove_failed_judge: out of the list, socket shut down.
DropFailed(h) ==
  /\ judges' = judges \ {h}
  /\ conn' = [conn EXCEPT ![h] = Shut(h)]

(***************************************************************************)
(* _handle_free_judge, for the judge in `scan'.                            *)
(***************************************************************************)
Hits == {n \in Nodes : Before(cur, n) /\ (Reserved(n[1]) \/ Eligible(scan, At(n)))}
\* The node the walk stops at, if there is one.
FirstHit == {n \in Hits : \A m \in Hits : Before(n, m)}

\* The walk ends at the end of the queue or at the reservation.
OfferNothing ==
  /\ scan # None
  /\ \A n \in FirstHit : Reserved(n[1])
  /\ scan' = None /\ cur' = Start
  /\ UNCHANGED <<listVars, handlerVars, pend, todo>>
  /\ KeptBy(owner)

OfferNode(n, out, tok) ==
  /\ scan # None
  /\ n \in FirstHit /\ ~Reserved(n[1])
  /\ LET r == At(n) IN
     \/ /\ out = "ok"
        /\ Assign(scan, r, tok)
        /\ queue' = Unlink(n)
        /\ scan' = None /\ cur' = Start
        /\ UNCHANGED <<judges, dispatch_ids, conn, todo>>
     \/ /\ out \in {"deferred", "unready"}
        /\ Refuse(scan, r, out, tok)
        /\ cur' = <<n[1], n[2] + 1>>
        /\ UNCHANGED <<queue, judges, dispatch_ids, conn, scan, todo>>
     \/ /\ out = "invalid"
        /\ Refuse(scan, r, out, tok)
        /\ queue' = Unlink(n)
        /\ dispatch_ids' = [dispatch_ids EXCEPT ![r.id] = None]
        /\ cur' = Start
        /\ UNCHANGED <<judges, conn, scan, todo>>
     \/ /\ out = "failed"
        /\ Refuse(scan, r, out, tok)
        /\ DropFailed(scan)
        /\ scan' = None /\ cur' = Start
        /\ todo' = todo \cup judges'
        /\ UNCHANGED <<queue, dispatch_ids>>
  /\ UNCHANGED <<is_disabled, problems, checked, pend>>
  /\ KeptBy(owner)

\* `for candidate in list(self.judges): if not candidate.working: ...'
NextCandidate(h) ==
  /\ pend = None /\ scan = None
  /\ h \in todo
  /\ todo' = todo \ {h}
  /\ IF working[h] = None THEN scan' = h /\ cur' = Start ELSE UNCHANGED <<scan, cur>>
  /\ UNCHANGED <<listVars, handlerVars, pend>>
  /\ KeptBy(owner)

BugForgetToOffer(h) == UNCHANGED workVars
\* The holder of the free lock starts _handle_free_judge for h.
OfferTo(h) == scan' = h /\ cur' = Start /\ UNCHANGED <<pend, todo>>

(***************************************************************************)
(* judge(): admission of a request for a run.                              *)
(***************************************************************************)
BugNeverRunning(map, id, tok) == FALSE
\* The first two early returns of judge(): the request of a run that is already
\* queued, or already given to the judge submission_map names.
SameQueued(ids, id, tok) == Queued(id) /\ ids[id] = tok
SameRunning(map, id, tok) == map[id] # None /\ run_id[map[id]] = tok

\* The body of judge(), submission_map and dispatch_ids being map and ids.
Admit(r, tok, map, ids) ==
  \/ /\ SameQueued(ids, r.id, tok)
     /\ dispatch_ids' = ids
     /\ UNCHANGED <<queue, pend>>
  \/ /\ ~SameQueued(ids, r.id, tok) /\ SameRunning(map, r.id, tok)
     /\ queue' = UnlinkId(r.id)
     /\ dispatch_ids' = ids
     /\ UNCHANGED pend
  \/ \* a new run of a submission that is still being judged
     /\ ~SameQueued(ids, r.id, tok) /\ map[r.id] # None /\ ~SameRunning(map, r.id, tok)
     /\ queue' = Link(UnlinkId(r.id), r)
     /\ dispatch_ids' = [ids EXCEPT ![r.id] = tok]
     /\ UNCHANGED pend
  \/ /\ ~SameQueued(ids, r.id, tok) /\ map[r.id] = None
     /\ queue' = UnlinkId(r.id)
     /\ dispatch_ids' = [ids EXCEPT ![r.id] = tok]
     /\ pend' = r

judge(r, tok) ==
  /\ LockFree
  /\ Admit(r, tok, submission_map, dispatch_ids)
  /\ UNCHANGED <<judges, submission_map, handlerVars, scan, cur, todo>>
  /\ KeptBy(None)

Candidates(r) == {h \in judges : Eligible(h, r)}
BugEvenBusy(r) == Candidates(r)
Available(r) ==
  LET free == {h \in Candidates(r) : working[h] = None /\ ~is_disabled[h]} IN
  IF Cardinality(Candidates(r)) > 1 /\ Cardinality(free) = 1 /\ r.prio >= REJUDGE_PRIORITY
  THEN {} ELSE free

QueueNew ==
  /\ pend # None
  /\ Available(pend) = {}
  /\ queue' = Link(queue, pend)
  /\ pend' = None
  /\ UNCHANGED <<judges, submission_map, dispatch_ids, handlerVars, scan, cur, todo>>
  /\ KeptBy(owner)

\* The judge reporting least load is any available one.
DispatchNew(h, out, tok) ==
  /\ pend # None
  /\ h \in Available(pend)
  /\ \/ /\ out = "ok"
        /\ Assign(h, pend, tok)
        /\ pend' = None
        /\ UNCHANGED <<queue, judges, dispatch_ids, conn, todo>>
     \/ /\ out \in {"deferred", "unready"}
        /\ Refuse(h, pend, out, tok)
        /\ queue' = Link(queue, pend)
        /\ pend' = None
        /\ todo' = judges \ {h}
        /\ UNCHANGED <<judges, dispatch_ids, conn>>
     \/ /\ out = "invalid"
        /\ Refuse(h, pend, out, tok)
        /\ dispatch_ids' = [dispatch_ids EXCEPT ![pend.id] = None]
        /\ pend' = None
        /\ UNCHANGED <<queue, judges, conn, todo>>
     \/ /\ out = "failed"
        /\ Refuse(h, pend, out, tok)
        /\ DropFailed(h)
        /\ UNCHANGED <<queue, dispatch_ids, pend, todo>>
  /\ UNCHANGED <<is_disabled, problems, checked, scan, cur>>
  /\ KeptBy(owner)

(***************************************************************************)
(* The other methods.                                                      *)
(***************************************************************************)
\* A new connection of judge h: JudgeHandler.__init__ and register().  Every
\* connection of the same name has its socket shut down but stays listed.
register(h, ps) ==
  /\ LockFree
  /\ conn[h] = "off"
  /\ conn' = [c \in Conns |-> IF c = h THEN "new"
                              ELSE IF c \in judges /\ NameOf[c] = NameOf[h] THEN Shut(c) ELSE conn[c]]
  /\ judges' = judges \cup {h}
  /\ problems' = [problems EXCEPT ![h] = ps]
  /\ OfferTo(h)
  /\ UNCHANGED <<queue, submission_map, dispatch_ids, working, run_id, retry_request, is_disabled, checked>>
  /\ KeptBy(h)

\* _connected(): the handshake reads the Judge row only after register().
connected(h, d) ==
  /\ conn[h] = "new" /\ Outside(h)
  /\ conn' = [conn EXCEPT ![h] = "up"]
  /\ is_disabled' = [is_disabled EXCEPT ![h] = d]
  /\ UNCHANGED <<listVars, working, run_id, retry_request, problems, checked, lockVars>>

\* The peer or the network ends the connection.
ConnectionLost(h) ==
  /\ conn[h] \in {"new", "up"}
  /\ conn' = [conn EXCEPT ![h] = "shut"]
  /\ UNCHANGED <<listVars, working, run_id, retry_request, is_disabled, problems, checked, lockVars>>

\* disconnect(name, force=True).
disconnect(n) ==
  /\ LockFree
  /\ conn' = [c \in Conns |-> IF c \in judges /\ NameOf[c] = n THEN Shut(c) ELSE conn[c]]
  /\ UNCHANGED <<listVars, working, run_id, retry_request, is_disabled, problems, checked, lockVars>>

\* The first half of on_supported_problems: `if not self.working' is
\* evaluated before update_problems acquires the lock.
on_supported_problems(h, ps) ==
  /\ conn[h] = "up" /\ Outside(h)
  /\ problems' = [problems EXCEPT ![h] = ps]
  /\ checked' = IF working[h] = None THEN checked \cup {h} ELSE checked
  /\ UNCHANGED <<listVars, conn, working, run_id, retry_request, is_disabled, lockVars>>

update_problems(h) ==
  /\ LockFree
  /\ h \in checked
  /\ checked' = checked \ {h}
  /\ OfferTo(h)
  /\ UNCHANGED <<listVars, conn, working, run_id, retry_request, is_disabled, problems>>
  /\ KeptBy(h)

retry_queued ==
  /\ LockFree
  /\ todo' = judges
  /\ UNCHANGED <<listVars, handlerVars, pend, scan, cur>>
  /\ KeptBy(None)

update_disable_judge(n, d) ==
  /\ LockFree
  /\ LET same == {h \in judges : NameOf[h] = n} IN
     /\ is_disabled' = [h \in Conns |-> IF h \in same THEN d ELSE is_disabled[h]]
     /\ todo' = IF d THEN {} ELSE same
  /\ UNCHANGED <<listVars, conn, working, run_id, retry_request, problems, checked, pend, scan, cur>>
  /\ KeptBy(None)

\* remove(), called by on_disconnect in the handler's own thread.
remove(h) ==
  /\ LockFree
  /\ conn[h] = "shut" /\ Outside(h)
  /\ submission_map' = IF working[h] # None /\ submission_map[working[h]] = h
                       THEN [submission_map EXCEPT ![working[h]] = None] ELSE submission_map
  /\ judges' = judges \ {h}
  /\ conn' = [conn EXCEPT ![h] = "left"]
  /\ IF \E c \in judges' : judges' = {c} /\ working[c] = None
     THEN OfferTo(CHOOSE c \in judges' : TRUE)
     ELSE UNCHANGED workVars
  /\ UNCHANGED <<queue, dispatch_ids, working, run_id, retry_request, is_disabled, problems, checked>>
  /\ KeptBy(h)

Mapped(h) == \E s \in Subs : submission_map[s] = h
\* The handler object is garbage once on_disconnect has returned, unless
\* submission_map names it still: then judge() goes on reading its _dispatch_id.
Forget(h) ==
  /\ conn[h] = "left"
  /\ conn' = [conn EXCEPT ![h] = IF Mapped(h) THEN @ ELSE "off"]
  /\ run_id' = [run_id EXCEPT ![h] = IF Mapped(h) THEN @ ELSE None]
  /\ working' = [working EXCEPT ![h] = None]
  /\ retry_request' = [retry_request EXCEPT ![h] = None]
  /\ is_disabled' = [is_disabled EXCEPT ![h] = FALSE]
  /\ problems' = [problems EXCEPT ![h] = {}]
  /\ UNCHANGED <<listVars, checked, lockVars>>

\* The guard shared by on_judge_free() and defer().
Holds(h, s) == submission_map[s] = h /\ working[h] = s

on_judge_free(h, s) ==
  /\ LockFree
  /\ IF Holds(h, s)
     THEN /\ submission_map' = [submission_map EXCEPT ![s] = None]
          /\ dispatch_ids' = IF Queued(s) THEN dispatch_ids ELSE [dispatch_ids EXCEPT ![s] = None]
          /\ working' = [working EXCEPT ![h] = None]
          /\ OfferTo(h)
     ELSE UNCHANGED <<submission_map, dispatch_ids, working, workVars>>
  /\ UNCHANGED <<queue, judges, conn, run_id, retry_request, is_disabled, problems, checked>>
  /\ KeptBy(h)

\* The first lock section of a retry after a lost connection.
discard(h) ==
  /\ LockFree
  /\ conn[h] = "shut" /\ Outside(h)
  /\ judges' = judges \ {h}
  /\ UNCHANGED <<queue, submission_map, dispatch_ids, handlerVars, lockVars>>

\* A remote judge could not fetch the test data: the request its handler was
\* offered last is judged again under a new token, unless a newer run of the
\* submission is queued.
defer(h, s, tok) ==
  LET map == [submission_map EXCEPT ![s] = None]
      ids == [dispatch_ids EXCEPT ![s] = None]
  IN
  /\ LockFree
  /\ \/ /\ Holds(h, s)
        /\ submission_map' = map
        /\ working' = [working EXCEPT ![h] = None]
        /\ \/ Queued(s) /\ dispatch_ids' = ids /\ UNCHANGED <<queue, pend>>
           \/ ~Queued(s) /\ Admit(retry_request[h], tok, map, ids)
     \/ ~Holds(h, s) /\ UNCHANGED <<queue, submission_map, dispatch_ids, working, pend>>
  /\ UNCHANGED <<judges, conn, run_id, retry_request, is_disabled, problems, checked, scan, cur, todo>>
  /\ KeptBy(h)

\* abort() of a submission nobody holds; otherwise the holder is only told to
\* terminate, which changes nothing here.
abort(s) ==
  /\ LockFree
  /\ IF submission_map[s] = None /\ Queued(s)
     THEN /\ queue' = UnlinkId(s)
          /\ dispatch_ids' = [dispatch_ids EXCEPT ![s] = None]
     ELSE UNCHANGED <<queue, dispatch_ids>>
  /\ UNCHANGED <<judges, submission_map, handlerVars, lockVars>>

(***************************************************************************)
JLInit ==
  /\ queue = [p \in Priorities |-> <<>>]
  /\ judges = {}
  /\ submission_map = [s \in Subs |-> None]
  /\ dispatch_ids = [s \in Subs |-> None]
  /\ conn = [h \in Conns |-> "off"]
  /\ working = [h \in Conns |-> None]
  /\ run_id = [h \in Conns |-> None]
  /\ retry_request = [h \in Conns |-> None]
  /\ is_disabled = [h \in Conns |-> FALSE]
  /\ problems = [h \in Conns |-> {}]
  /\ checked = {}
  /\ pend = None /\ scan = None /\ cur = Start /\ todo = {} /\ owner = None

\* A new process: JudgeList.__init__ again, and no handler of the old one.
JLRestart ==
  /\ queue' = [p \in Priorities |-> <<>>]
  /\ judges' = {}
  /\ submission_map' = [s \in Subs |-> None]
  /\ dispatch_ids' = [s \in Subs |-> None]
  /\ conn' = [h \in Conns |-> "off"]
  /\ working' = [h \in Conns |-> None]
  /\ run_id' = [h \in Conns |-> None]
  /\ retry_request' = [h \in Conns |-> None]
  /\ is_disabled' = [h \in Conns |-> FALSE]
  /\ problems' = [h \in Conns |-> {}]
  /\ checked' = {}
  /\ pend' = None /\ scan' = None /\ cur' = Start /\ todo' = {} /\ owner' = None

JLTypeOK ==
  /\ queue \in [Priorities -> Seq(Request)]
  /\ judges \in SUBSET Conns
  /\ submission_map \in [Subs -> Conns \cup {None}]
  /\ dispatch_ids \in [Subs -> Tokens \cup {None}]
  /\ conn \in [Conns -> ConnStates]
  /\ working \in [Conns -> Subs \cup {None}]
  /\ run_id \in [Conns -> Tokens \cup {None}]
  /\ retry_request \in [Conns -> Request \cup {None}]
  /\ is_disabled \in [Conns -> BOOLEAN]
  /\ problems \in [Conns -> SUBSET Subs]
  /\ checked \in SUBSET Conns
  /\ pend \in Request \cup {None}
  /\ scan \in Conns \cup {None}
  /\ cur \in Priorities \X (Nat \ {0})
  /\ todo \in SUBSET Conns
  /\ owner \in Conns \cup {None}
=============================================================================
