------------------------------ MODULE Scheduler ------------------------------
(***************************************************************************)
(* JudgeList in an open environment: any request of a menu may arrive at   *)
(* any time, late or twice; submit() may answer anything; judges connect,  *)
(* reconnect under the same name, fail, finish and update their problem    *)
(* lists at any time; administrators disable and enable judges.            *)
(***************************************************************************)
EXTENDS JudgeList

CONSTANTS
  Menu,       \* the requests that may arrive
  Answers,    \* the outcomes of submit() the environment may produce
  Inventories, \* the problem lists judges may report
  Updaters,   \* connections that send supported-problems packets
  Togglable   \* judge names an administrator disables and enables

ASSUME MenuAssumption == Menu \subseteq Request
ASSUME AnswersAssumption == Answers \subseteq Outcomes
ASSUME InventoriesAssumption == Inventories \subseteq SUBSET Subs
ASSUME UpdatersAssumption == Updaters \subseteq Conns
ASSUME TogglableAssumption == Togglable \subseteq Names

VARIABLES
  db_disabled, \* Judge.is_disabled in the database
  ended,       \* handlers whose run ended and whose release had no effect
  timer        \* a retry_queued timer of _retry_remote_submission is running

vars == <<jlVars, db_disabled, ended, timer>>

Init ==
  /\ JLInit
  /\ db_disabled = [n \in Names |-> FALSE]
  /\ ended = {}
  /\ timer = FALSE

\* submit() starts the run the row asks for: the expected token if there is one.
TokenFor(id, tok) == dispatch_ids[id] = None \/ tok = dispatch_ids[id]

OnSubmission(r, tok) == judge(r, tok) /\ UNCHANGED <<db_disabled, ended, timer>>
ScanStep ==
  \/ (OfferNothing \/ QueueNew \/ \E h \in Conns : NextCandidate(h)) /\ UNCHANGED <<db_disabled, ended, timer>>
  \/ \E n \in Nodes, out \in Answers, tok \in Tokens :
       /\ TokenFor(At(n).id, tok)
       /\ OfferNode(n, out, tok)
       /\ ended' = IF out = "ok" THEN ended \ {scan} ELSE ended
       /\ UNCHANGED <<db_disabled, timer>>
  \/ \E out \in Answers, h \in Conns :
       /\ pend # None
       /\ DispatchNew(h, out, dispatch_ids[pend.id])
       /\ UNCHANGED <<db_disabled, ended, timer>>
Handshake(h) == \E ps \in Inventories : register(h, ps) /\ UNCHANGED <<db_disabled, ended, timer>>
Connected(h) == connected(h, db_disabled[NameOf[h]]) /\ UNCHANGED <<db_disabled, ended, timer>>
Lost(h) == ConnectionLost(h) /\ UNCHANGED <<db_disabled, ended, timer>>
DisconnectRequest(n) == disconnect(n) /\ UNCHANGED <<db_disabled, ended, timer>>
SupportedProblems(h) ==
  /\ \/ h \in Updaters /\ \E ps \in Inventories : on_supported_problems(h, ps)
     \/ update_problems(h)
  /\ UNCHANGED <<db_disabled, ended, timer>>
DisableJudge(n) ==
  /\ n \in Togglable
  /\ db_disabled' = [db_disabled EXCEPT ![n] = ~@]
  /\ update_disable_judge(n, ~db_disabled[n])
  /\ UNCHANGED <<ended, timer>>
\* The task that publishes remote data asks for it, and so does the timer.
RetryQueued == retry_queued /\ timer' \in {FALSE, timer} /\ UNCHANGED <<db_disabled, ended>>
Termination(s) == abort(s) /\ UNCHANGED <<db_disabled, ended, timer>>
\* The terminal packet of the run h works on; its release callback runs once.
RunEnds(h) ==
  /\ conn[h] \in {"up", "shut"} /\ Outside(h) /\ h \notin ended
  /\ working[h] # None
  /\ ended' = IF Holds(h, working[h]) THEN ended ELSE ended \cup {h}
  /\ UNCHANGED <<db_disabled, timer>>
  /\ on_judge_free(h, working[h])
\* The data of the run could not be fetched, or the connection went while it was.
Discard(h) == working[h] # None /\ discard(h) /\ UNCHANGED <<db_disabled, ended, timer>>
RunDeferred(h) ==
  /\ \/ conn[h] = "up" /\ timer' = TRUE
     \/ conn[h] = "shut" /\ h \notin judges /\ UNCHANGED timer
  /\ Outside(h) /\ h \notin ended
  /\ working[h] # None
  /\ ended' = IF Holds(h, working[h]) THEN ended ELSE ended \cup {h}
  /\ UNCHANGED db_disabled
  /\ \E tok \in Tokens : defer(h, working[h], tok)
Disconnect(h) == remove(h) /\ ended' = ended \ {h} /\ UNCHANGED <<db_disabled, timer>>
Gone(h) == Forget(h) /\ UNCHANGED <<db_disabled, ended, timer>>

Next ==
  \/ \E r \in Menu, tok \in Tokens : OnSubmission(r, tok)
  \/ ScanStep
  \/ \E h \in Conns : \/ Handshake(h) \/ Connected(h) \/ Lost(h) \/ SupportedProblems(h)
                      \/ RunEnds(h) \/ RunDeferred(h) \/ Discard(h) \/ Disconnect(h) \/ Gone(h)
  \/ \E n \in Names : DisconnectRequest(n) \/ DisableJudge(n)
  \/ RetryQueued
  \/ \E s \in Subs : Termination(s)

Spec == Init /\ [][Next]_vars

\* Types of the state of JudgeList and of the handlers it calls.
TypeOK == JLTypeOK /\ db_disabled \in [Names -> BOOLEAN] /\ ended \in SUBSET Conns /\ timer \in BOOLEAN

\* node_map and the queue describe the same nodes: no submission is queued
\* twice, so that abort() and judge() never leave a second node behind that is
\* dispatched later.  The request judge() is placing is not queued yet.
QueueUnique ==
  /\ \A m, n \in Nodes : At(m).id = At(n).id => m = n
  /\ pend # None => ~Queued(pend.id)

\* Every entry of submission_map names a handler that works on that very
\* submission: on_judge_free() and defer() rely on it to release the slot, and
\* abort() to terminate the right worker.
MapSound == \A s \in Subs, h \in Conns : submission_map[s] = h => working[h] = s

\* docs/test-data-lock.md:14, the judge slot is released when a run ends: no
\* on_judge_free() or defer() of a run that ended finds another handler in
\* submission_map and leaves its own handler busy.
SlotReleased == ended = {}

\* judge_list.py:208-209, a request for a submission that is being judged waits
\* for its worker: no two listed judges work on the same submission.
OneWorkerPerSubmission ==
  \A g, h \in judges : working[g] # None /\ working[g] = working[h] => g = h

\* judge(): however often requests are queued, refused, deferred and offered
\* again, and whichever of them a handler was offered last, a judge only works
\* on a submission if one that was made for it allows this judge.
RunWhereAllowed ==
  \A h \in Conns : working[h] # None =>
    \E r \in Menu : r.id = working[h] /\ NameOf[h] \notin r.banned /\ r.judge_id \in {None, NameOf[h]}

\* Nothing is under way that will offer work to a judge again by itself.
Quiet == LockFree /\ checked = {} /\ ~timer /\ \A h \in Conns : conn[h] \notin {"new", "shut"}

\* judge_list.py:144-145 and every call of _handle_free_judge: when everything
\* is quiet, no idle enabled judge could take a queued request that the
\* reservation of judges for new submissions does not hold back.
NoIdleJudgeWasted ==
  Quiet => \A n \in Nodes, h \in Idle : Eligible(h, At(n)) => Reserved(n[1])
=============================================================================
