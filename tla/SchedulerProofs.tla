--------------------------- MODULE SchedulerProofs ---------------------------
(***************************************************************************)
(* Theorems about Scheduler for every set of connections, names,           *)
(* submissions and tokens, every menu of requests and every behaviour of   *)
(* the environment.                                                        *)
(***************************************************************************)
EXTENDS Scheduler, JudgeListProofs, SetLemmas

EnvTypeOK == db_disabled \in [Names -> BOOLEAN] /\ ended \in SUBSET Conns /\ timer \in BOOLEAN
IInv == JLInv /\ EnvTypeOK

(***************************************************************************)
(* Types, the queue and the request a handler keeps.                       *)
(***************************************************************************)
LEMMA Init_IInv == Init => IInv
  BY JLInit_JLInv DEF Init, IInv, EnvTypeOK

LEMMA ScanStep_IInv ==
  ASSUME IInv, ScanStep
  PROVE  IInv'
<1>1. JLInv'
  <2>1. CASE OfferNothing
    BY <2>1, OfferNothing_JLInv DEF IInv
  <2>2. CASE QueueNew
    BY <2>2, QueueNew_JLInv DEF IInv
  <2>3. ASSUME NEW h \in Conns, NextCandidate(h)
        PROVE  JLInv'
    BY <2>3, NextCandidate_JLInv DEF IInv
  <2>4. ASSUME NEW n \in Nodes, NEW out \in Answers, NEW tok \in Tokens, OfferNode(n, out, tok)
        PROVE  JLInv'
    BY <2>4, OfferNode_JLInv DEF IInv
  <2>5. ASSUME NEW h \in Conns, NEW out \in Answers, pend # None, DispatchNew(h, out, dispatch_ids[pend.id])
        PROVE  JLInv'
    <3>1. dispatch_ids[pend.id] \in Tokens \cup {None}
      BY <2>5 DEF IInv, JLInv, JLTypeOK, Request
    <3> QED
      BY <2>5, <3>1, DispatchNew_JLInv DEF IInv
  <2> QED
    BY <2>1, <2>2, <2>3, <2>4, <2>5 DEF ScanStep
<1>2. EnvTypeOK'
  BY DEF IInv, EnvTypeOK, ScanStep
<1> QED
  BY <1>1, <1>2 DEF IInv

LEMMA Next_IInv == IInv /\ [Next]_vars => IInv'
<1> SUFFICES ASSUME IInv, [Next]_vars PROVE IInv'
  OBVIOUS
<1> USE DEF IInv
<1>1. ASSUME NEW r \in Menu, NEW tok \in Tokens, OnSubmission(r, tok)
      PROVE  IInv'
  BY <1>1, MenuAssumption, judge_JLInv DEF OnSubmission, EnvTypeOK
<1>2. CASE ScanStep
  BY <1>2, ScanStep_IInv
<1>3. ASSUME NEW h \in Conns, Handshake(h)
      PROVE  IInv'
  BY <1>3, InventoriesAssumption, register_JLInv DEF Handshake, EnvTypeOK
<1>4. ASSUME NEW h \in Conns, Connected(h)
      PROVE  IInv'
  <2>1. db_disabled[NameOf[h]] \in BOOLEAN
    BY NameOfAssumption DEF EnvTypeOK
  <2> QED
    BY <1>4, <2>1, connected_JLInv DEF Connected, EnvTypeOK
<1>5. ASSUME NEW h \in Conns, Lost(h)
      PROVE  IInv'
  BY <1>5, ConnectionLost_JLInv DEF Lost, EnvTypeOK
<1>6. ASSUME NEW h \in Conns, SupportedProblems(h)
      PROVE  IInv'
  BY <1>6, InventoriesAssumption, on_supported_problems_JLInv, update_problems_JLInv
     DEF SupportedProblems, EnvTypeOK
<1>7. ASSUME NEW h \in Conns, RunEnds(h)
      PROVE  IInv'
  <2>1. working[h] \in Subs
    BY <1>7 DEF RunEnds, JLInv, JLTypeOK
  <2> QED
    BY <1>7, <2>1, on_judge_free_JLInv DEF RunEnds, EnvTypeOK
<1>8. ASSUME NEW h \in Conns, RunDeferred(h)
      PROVE  IInv'
  <2>1. working[h] \in Subs
    BY <1>8 DEF RunDeferred, JLInv, JLTypeOK
  <2> QED
    BY <1>8, <2>1, defer_JLInv DEF RunDeferred, EnvTypeOK
<1>9. ASSUME NEW h \in Conns, Discard(h)
      PROVE  IInv'
  BY <1>9, discard_JLInv DEF Discard, EnvTypeOK
<1>10. ASSUME NEW h \in Conns, Disconnect(h)
       PROVE  IInv'
  BY <1>10, remove_JLInv DEF Disconnect, EnvTypeOK
<1>11. ASSUME NEW h \in Conns, Gone(h)
       PROVE  IInv'
  BY <1>11, Forget_JLInv DEF Gone, EnvTypeOK
<1>12. ASSUME NEW n \in Names, DisconnectRequest(n)
       PROVE  IInv'
  BY <1>12, disconnect_JLInv DEF DisconnectRequest, EnvTypeOK
<1>13. ASSUME NEW n \in Names, DisableJudge(n)
       PROVE  IInv'
  <2>1. (~db_disabled[n]) \in BOOLEAN
    BY DEF EnvTypeOK
  <2>2. JLInv'
    BY <1>13, <2>1, update_disable_judge_JLInv DEF DisableJudge
  <2> QED
    BY <1>13, <2>2 DEF DisableJudge, EnvTypeOK
<1>14. CASE RetryQueued
  BY <1>14, retry_queued_JLInv DEF RetryQueued, EnvTypeOK
<1>15. ASSUME NEW s \in Subs, Termination(s)
       PROVE  IInv'
  BY <1>15, abort_JLInv DEF Termination, EnvTypeOK
<1>16. CASE UNCHANGED vars
  <2>1. JLTypeOK' /\ RetryKept' /\ EnvTypeOK'
    BY <1>16 DEF vars, jlVars, listVars, handlerVars, lockVars, workVars, JLInv, JLTypeOK, RetryKept, EnvTypeOK
  <2>2. JLUnique'
    BY <1>16, SameQueue DEF vars, jlVars, listVars, lockVars, workVars, JLInv
  <2> QED
    BY <2>1, <2>2 DEF JLInv
<1> QED
  BY <1>1, <1>2, <1>3, <1>4, <1>5, <1>6, <1>7, <1>8, <1>9, <1>10, <1>11, <1>12, <1>13, <1>14, <1>15, <1>16 DEF Next

LEMMA Spec_IInv == Spec => []IInv
  BY Init_IInv, Next_IInv, PTL DEF Spec

\* The variables of JudgeList, of the handlers and of the lock's holder keep
\* their types, however methods of judge_list.py and callbacks interleave.
THEOREM TypeCorrect == Spec => []TypeOK
<1>1. IInv => TypeOK
  BY DEF IInv, JLInv, EnvTypeOK, TypeOK
<1> QED
  BY <1>1, Spec_IInv, PTL

\* No submission is ever queued twice, nor queued while judge() places it:
\* node_map, which knows one node per id, and the linked list agree.
THEOREM QueueIsUnique == Spec => []QueueUnique
<1>1. IInv => QueueUnique
  <2> SUFFICES ASSUME JLUnique PROVE QueueUnique
    BY DEF IInv, JLInv
  <2>1. \A m, n \in Nodes : At(m).id = At(n).id => m = n
    BY UniqueByIndex DEF JLUnique, Nodes, NodesOf, At
  <2>2. pend # None => ~Queued(pend.id)
    BY QueuedHasId DEF JLUnique
  <2> QED
    BY <2>1, <2>2 DEF QueueUnique
<1> QED
  BY <1>1, Spec_IInv, PTL

(***************************************************************************)
(* submission_map, when no judge sends supported-problems packets.         *)
(***************************************************************************)
LEMMA ScanStep_JLMap ==
  ASSUME IInv, JLMap, ScanStep
  PROVE  JLMap'
<1> USE DEF IInv
<1>1. CASE OfferNothing
  BY <1>1, OfferNothing_JLMap
<1>2. CASE QueueNew
  BY <1>2, QueueNew_JLMap
<1>3. ASSUME NEW h \in Conns, NextCandidate(h)
      PROVE  JLMap'
  BY <1>3, NextCandidate_JLMap
<1>4. ASSUME NEW n \in Nodes, NEW out, NEW tok, OfferNode(n, out, tok)
      PROVE  JLMap'
  BY <1>4, OfferNode_JLMap
<1>5. ASSUME NEW h \in Conns, NEW out, NEW tok, DispatchNew(h, out, tok)
      PROVE  JLMap'
  BY <1>5, DispatchNew_JLMap
<1> QED
  BY <1>1, <1>2, <1>3, <1>4, <1>5 DEF ScanStep

LEMMA Next_JLMap ==
  ASSUME Updaters = {}, IInv, JLMap, [Next]_vars
  PROVE  JLMap'
<1> USE DEF IInv
<1>1. ASSUME NEW r \in Menu, NEW tok \in Tokens, OnSubmission(r, tok)
      PROVE  JLMap'
  BY <1>1, judge_JLMap DEF OnSubmission
<1>2. CASE ScanStep
  BY <1>2, ScanStep_JLMap
<1>3. ASSUME NEW h \in Conns, Handshake(h)
      PROVE  JLMap'
  BY <1>3, register_JLMap DEF Handshake
<1>4. ASSUME NEW h \in Conns, Connected(h)
      PROVE  JLMap'
  BY <1>4, connected_JLMap DEF Connected
<1>5. ASSUME NEW h \in Conns, Lost(h)
      PROVE  JLMap'
  BY <1>5, ConnectionLost_JLMap DEF Lost
\* update_problems needs a checked handler, and nobody is an updater.
<1>6. ASSUME NEW h \in Conns, SupportedProblems(h)
      PROVE  JLMap'
  BY <1>6 DEF SupportedProblems, update_problems, JLMap
<1>7. ASSUME NEW h \in Conns, RunEnds(h)
      PROVE  JLMap'
  <2>1. working[h] \in Subs /\ Live(h)
    BY <1>7 DEF RunEnds, JLInv, JLTypeOK, Live, LiveStates
  <2> QED
    BY <1>7, <2>1, on_judge_free_JLMap DEF RunEnds
<1>8. ASSUME NEW h \in Conns, RunDeferred(h)
      PROVE  JLMap'
  <2>1. working[h] \in Subs
    BY <1>8 DEF RunDeferred, JLInv, JLTypeOK
  <2> QED
    BY <1>8, <2>1, defer_JLMap DEF RunDeferred
<1>9. ASSUME NEW h \in Conns, Discard(h)
      PROVE  JLMap'
  BY <1>9, discard_JLMap DEF Discard
<1>10. ASSUME NEW h \in Conns, Disconnect(h)
       PROVE  JLMap'
  BY <1>10, remove_JLMap DEF Disconnect
<1>11. ASSUME NEW h \in Conns, Gone(h)
       PROVE  JLMap'
  BY <1>11, Forget_JLMap DEF Gone
<1>12. ASSUME NEW n \in Names, DisconnectRequest(n)
       PROVE  JLMap'
  BY <1>12, disconnect_JLMap DEF DisconnectRequest
<1>13. ASSUME NEW n \in Names, DisableJudge(n)
       PROVE  JLMap'
  BY <1>13, update_disable_judge_JLMap DEF DisableJudge
<1>14. CASE RetryQueued
  BY <1>14, retry_queued_JLMap DEF RetryQueued
<1>15. ASSUME NEW s \in Subs, Termination(s)
       PROVE  JLMap'
  BY <1>15, abort_JLMap DEF Termination
<1>16. CASE UNCHANGED vars
  BY <1>16 DEF vars, jlVars, listVars, handlerVars, lockVars, workVars,
               JLMap, RetrySame, MapEntries, ScanIdle, OneCall, ListLive, OffIdle, GoneUnmapped, Live
<1> QED
  BY <1>1, <1>2, <1>3, <1>4, <1>5, <1>6, <1>7, <1>8, <1>9, <1>10, <1>11, <1>12, <1>13, <1>14, <1>15, <1>16 DEF Next

\* Unless a judge reports its problems again while it is connected, every entry
\* of submission_map names the handler that works on that very submission, so
\* that its on_judge_free or defer finds the entry and frees the slot.
THEOREM MapIsSound ==
  ASSUME Updaters = {}
  PROVE  Spec => []MapSound
<1>1. Init => JLMap
  BY JLInit_JLMap DEF Init
<1>2. IInv /\ JLMap /\ [Next]_vars => JLMap'
  BY Next_JLMap
<1>3. JLMap => MapSound
  BY DEF JLMap, MapEntries, MapSound
<1> QED
  BY <1>1, <1>2, <1>3, Spec_IInv, PTL DEF Spec

(***************************************************************************)
(* Where runs go.                                                          *)
(***************************************************************************)
\* Whatever is queued, placed or kept by a handler is a request that was made.
FromMenu ==
  /\ queue \in [Priorities -> Seq(Menu)]
  /\ pend \in Menu \cup {None}
  /\ retry_request \in [Conns -> Menu \cup {None}]

LEMMA Link_FromMenu ==
  ASSUME NEW q \in [Priorities -> Seq(Menu)], NEW r \in Menu
  PROVE  Link(q, r) \in [Priorities -> Seq(Menu)]
<1>1. r.prio \in Priorities
  BY MenuAssumption DEF Request
<1>2. Append(q[r.prio], r) \in Seq(Menu)
  BY <1>1, AppendProperties
<1> QED
  BY <1>1, <1>2 DEF Link

LEMMA Unlink_FromMenu ==
  ASSUME FromMenu, IInv, NEW n \in Nodes
  PROVE  At(n) \in Menu /\ Unlink(n) \in [Priorities -> Seq(Menu)]
<1>1. n[1] \in Priorities /\ n[2] \in 1 .. Len(queue[n[1]]) /\ queue[n[1]] \in Seq(Menu)
  BY NodeFacts DEF FromMenu, IInv, JLInv, JLTypeOK, Queues
<1>2. queue[n[1]][n[2]] \in Menu
  BY <1>1, ElementOfSeq
<1>3. RemoveAt(queue[n[1]], n[2]) \in Seq(Menu)
  BY <1>1, RemoveAtProperties
<1> QED
  BY <1>1, <1>2, <1>3 DEF FromMenu, At, Unlink

LEMMA UnlinkId_FromMenu ==
  ASSUME FromMenu, IInv, NEW id
  PROVE  UnlinkId(id) \in [Priorities -> Seq(Menu)]
<1>1. CASE Queued(id)
  <2>1. NodeOf(id) \in Nodes
    BY <1>1 DEF Queued, NodeOf
  <2> QED
    BY <1>1, <2>1, Unlink_FromMenu DEF UnlinkId
<1>2. CASE ~Queued(id)
  BY <1>2 DEF UnlinkId, FromMenu
<1> QED
  BY <1>1, <1>2

LEMMA Admit_FromMenu ==
  ASSUME FromMenu, IInv, NEW r \in Menu, NEW tok, NEW map, NEW ids, Admit(r, tok, map, ids)
  PROVE  queue' \in [Priorities -> Seq(Menu)] /\ pend' \in Menu \cup {None}
<1> DEFINE u == UnlinkId(r.id)
<1>1. u \in [Priorities -> Seq(Menu)]
  BY UnlinkId_FromMenu
<1> HIDE DEF u
<1>2. Link(u, r) \in [Priorities -> Seq(Menu)]
  BY <1>1, Link_FromMenu
<1>3. queue' \in {queue, u, Link(u, r)} /\ pend' \in {pend, r}
  BY DEF Admit, u
<1> QED
  BY <1>1, <1>2, <1>3 DEF FromMenu

LEMMA Assigned ==
  ASSUME IInv, RunWhereAllowed, NEW h \in Conns, NEW r \in Menu, NEW tok,
         Eligible(h, r), Assign(h, r, tok)
  PROVE  RunWhereAllowed'
<1>1. r.id \in Subs
  BY MenuAssumption DEF Request
<1>2. \A c \in Conns : working'[c] = IF c = h THEN r.id ELSE working[c]
  BY DEF IInv, JLInv, JLTypeOK, Assign
<1> QED
  BY <1>1, <1>2 DEF RunWhereAllowed, Eligible, can_judge

\* Handlers that are freed or keep their run.
LEMMA Freed_Allowed ==
  ASSUME RunWhereAllowed, \A c \in Conns : working'[c] \in {working[c], None}
  PROVE  RunWhereAllowed'
  BY DEF RunWhereAllowed

\* One offer of r to h, with any answer.
LEMMA Offered_Allowed ==
  ASSUME IInv, FromMenu, RunWhereAllowed, NEW h \in Conns, NEW r \in Menu, Eligible(h, r), NEW out, NEW tok,
         Assign(h, r, tok) \/ Refuse(h, r, out, tok)
  PROVE  RunWhereAllowed' /\ retry_request' \in [Conns -> Menu \cup {None}]
<1>1. retry_request' \in [Conns -> Menu \cup {None}]
  BY DEF FromMenu, Assign, Refuse
<1>2. CASE Assign(h, r, tok)
  BY <1>1, <1>2, Assigned
<1>3. CASE Refuse(h, r, out, tok)
  BY <1>1, <1>3, Freed_Allowed DEF Refuse, IInv, JLInv, JLTypeOK
<1> QED
  BY <1>2, <1>3

LEMMA ScanStep_Allowed ==
  ASSUME IInv, FromMenu, RunWhereAllowed, ScanStep
  PROVE  FromMenu' /\ RunWhereAllowed'
<1>1. CASE OfferNothing \/ \E h \in Conns : NextCandidate(h)
  BY <1>1 DEF OfferNothing, NextCandidate, handlerVars, listVars, RunWhereAllowed, FromMenu
<1>2. CASE QueueNew
  BY <1>2, Link_FromMenu DEF QueueNew, handlerVars, RunWhereAllowed, FromMenu
<1>3. ASSUME NEW n \in Nodes, NEW out, NEW tok, OfferNode(n, out, tok)
      PROVE  FromMenu' /\ RunWhereAllowed'
  <2>1. scan \in Conns
    BY <1>3 DEF OfferNode, IInv, JLInv, JLTypeOK
  <2>2. At(n) \in Menu /\ Unlink(n) \in [Priorities -> Seq(Menu)]
    BY Unlink_FromMenu
  <2>3. Eligible(scan, At(n))
    BY <1>3 DEF OfferNode, FirstHit, Hits
  <2>4. RunWhereAllowed' /\ retry_request' \in [Conns -> Menu \cup {None}]
    BY <1>3, <2>1, <2>2, <2>3, Offered_Allowed DEF OfferNode
  <2>5. queue' \in {queue, Unlink(n)} /\ pend' = pend
    BY <1>3 DEF OfferNode
  <2> QED
    BY <2>2, <2>4, <2>5 DEF FromMenu
<1>4. ASSUME NEW h \in Conns, NEW out, NEW tok, DispatchNew(h, out, tok)
      PROVE  FromMenu' /\ RunWhereAllowed'
  <2>1. pend \in Menu /\ Eligible(h, pend)
    BY <1>4 DEF DispatchNew, Available, Candidates, FromMenu
  <2>2. RunWhereAllowed' /\ retry_request' \in [Conns -> Menu \cup {None}]
    BY <1>4, <2>1, Offered_Allowed DEF DispatchNew
  <2>3. queue' \in {queue, Link(queue, pend)} /\ pend' \in {pend, None}
    BY <1>4 DEF DispatchNew
  <2> QED
    BY <2>1, <2>2, <2>3, Link_FromMenu DEF FromMenu
<1> QED
  BY <1>1, <1>2, <1>3, <1>4 DEF ScanStep

LEMMA Next_Allowed == IInv /\ FromMenu /\ RunWhereAllowed /\ [Next]_vars => FromMenu' /\ RunWhereAllowed'
<1> SUFFICES ASSUME IInv, FromMenu, RunWhereAllowed, [Next]_vars PROVE FromMenu' /\ RunWhereAllowed'
  OBVIOUS
<1>1. CASE ScanStep
  BY <1>1, ScanStep_Allowed
<1>2. ASSUME NEW h \in Conns, RunEnds(h)
      PROVE  FromMenu' /\ RunWhereAllowed'
  <2>1. UNCHANGED <<queue, pend, retry_request>>
    BY <1>2 DEF RunEnds, on_judge_free, OfferTo, workVars
  <2>2. \A c \in Conns : working'[c] \in {working[c], None}
    BY <1>2 DEF RunEnds, on_judge_free, IInv, JLInv, JLTypeOK
  <2> QED
    BY <2>1, <2>2, Freed_Allowed DEF FromMenu
<1>3. ASSUME NEW h \in Conns, RunDeferred(h)
      PROVE  FromMenu' /\ RunWhereAllowed'
  <2>1. PICK tok \in Tokens : defer(h, working[h], tok)
    BY <1>3 DEF RunDeferred
  <2>2. UNCHANGED retry_request
    BY <2>1 DEF defer
  <2>3. \A c \in Conns : working'[c] \in {working[c], None}
    BY <2>1 DEF defer, IInv, JLInv, JLTypeOK
  <2>4. queue' \in [Priorities -> Seq(Menu)] /\ pend' \in Menu \cup {None}
    <3>1. CASE UNCHANGED <<queue, pend>>
      BY <3>1 DEF FromMenu
    <3>2. CASE /\ Holds(h, working[h])
               /\ Admit(retry_request[h], tok, [submission_map EXCEPT ![working[h]] = None],
                        [dispatch_ids EXCEPT ![working[h]] = None])
      <4>1. retry_request[h] \in Menu
        BY <1>3 DEF RunDeferred, IInv, JLInv, RetryKept, FromMenu
      <4> QED
        BY <3>2, <4>1, Admit_FromMenu
    <3> QED
      BY <2>1, <3>1, <3>2 DEF defer
  <2> QED
    BY <2>2, <2>3, <2>4, Freed_Allowed DEF FromMenu
<1>4. ASSUME NEW h \in Conns, Gone(h)
      PROVE  FromMenu' /\ RunWhereAllowed'
  <2>1. FromMenu'
    BY <1>4 DEF Gone, Forget, listVars, lockVars, workVars, FromMenu
  <2>2. \A c \in Conns : working'[c] \in {working[c], None}
    BY <1>4 DEF Gone, Forget, IInv, JLInv, JLTypeOK
  <2> QED
    BY <2>1, <2>2, Freed_Allowed
<1>5. CASE UNCHANGED <<queue, pend, working, retry_request>>
  BY <1>5 DEF RunWhereAllowed, FromMenu
<1>6. ASSUME NEW h \in Conns,
             Handshake(h) \/ Connected(h) \/ Lost(h) \/ SupportedProblems(h) \/ Discard(h) \/ Disconnect(h)
      PROVE  UNCHANGED <<queue, pend, working, retry_request>>
  BY <1>6 DEF Handshake, register, Connected, connected, Lost, ConnectionLost, SupportedProblems, OfferTo,
              on_supported_problems, update_problems, Discard, discard, Disconnect, remove, listVars, handlerVars,
              lockVars, workVars
<1>7. ASSUME NEW r \in Menu, NEW tok \in Tokens, OnSubmission(r, tok)
      PROVE  FromMenu' /\ RunWhereAllowed'
  <2>1. Admit(r, tok, submission_map, dispatch_ids) /\ UNCHANGED <<working, retry_request>>
    BY <1>7 DEF OnSubmission, judge, handlerVars
  <2> QED
    BY <2>1, Admit_FromMenu DEF FromMenu, RunWhereAllowed
<1>8. ASSUME NEW n \in Names, DisconnectRequest(n) \/ DisableJudge(n)
      PROVE  UNCHANGED <<queue, pend, working, retry_request>>
  BY <1>8 DEF DisconnectRequest, disconnect, DisableJudge, update_disable_judge, listVars, lockVars, workVars
<1>9. ASSUME NEW s \in Subs, Termination(s)
      PROVE  FromMenu' /\ RunWhereAllowed'
  <2>1. queue' \in {queue, UnlinkId(s)} /\ UNCHANGED <<pend, working, retry_request>>
    BY <1>9 DEF Termination, abort, handlerVars, lockVars, workVars
  <2> QED
    BY <2>1, UnlinkId_FromMenu DEF FromMenu, RunWhereAllowed
<1>10. CASE RetryQueued
  BY <1>5, <1>10 DEF RetryQueued, retry_queued, listVars, handlerVars
<1>11. CASE UNCHANGED vars
  BY <1>5, <1>11 DEF vars, jlVars, listVars, lockVars, workVars, handlerVars
<1> QED
  BY <1>1, <1>2, <1>3, <1>4, <1>5, <1>6, <1>7, <1>8, <1>9, <1>10, <1>11 DEF Next

\* A judge only works on a submission if a request that was made for it allows this judge,
\* whichever of the dispatch paths of judge(), defer() and _handle_free_judge takes it, and
\* whatever a busy handler is offered in between.
THEOREM RunsWhereAllowed == Spec => []RunWhereAllowed
<1>1. Init => FromMenu /\ RunWhereAllowed
  <2> SUFFICES ASSUME Init PROVE FromMenu /\ RunWhereAllowed
    OBVIOUS
  <2>1. <<>> \in Seq(Menu)
    OBVIOUS
  <2> QED
    BY <2>1 DEF Init, JLInit, FromMenu, RunWhereAllowed
<1>2. IInv /\ FromMenu /\ RunWhereAllowed /\ [Next]_vars => FromMenu' /\ RunWhereAllowed'
  BY Next_Allowed
<1> QED
  BY <1>1, <1>2, Spec_IInv, PTL DEF Spec

(***************************************************************************)
(* Slots, when every request of a submission carries the same token: no    *)
(* submission is rejudged while a run of it is known to the scheduler.     *)
(* Nothing is asked of submission_map, which the race of                   *)
(* on_supported_problems may leave with entries that name nobody's work.   *)
(***************************************************************************)
OneToken == \A t, u \in Tokens : t = u

\* Who is listed or being offered work is connected; who is not does not work.
Alive ==
  /\ \A h \in judges \cup todo \cup checked : Live(h)
  /\ scan # None => Live(scan)
  /\ OffIdle /\ OneCall
\* A worker is the one the map names for its submission; what is queued or being
\* placed has none.
Unworked(s) == \A h \in Conns : Live(h) => working[h] # s
WorkMapped == \A h \in Conns : working[h] # None /\ Live(h) => submission_map[working[h]] = h
RunsKnown == \A h \in Conns : working[h] # None => run_id[h] \in Tokens
QueueUnworked == \A s \in Subs : HasId(queue, s) => Unworked(s)
PendUnworked == pend # None => Unworked(pend.id) /\ dispatch_ids[pend.id] \in Tokens
SlotInv == Alive /\ WorkMapped /\ RunsKnown /\ QueueUnworked /\ PendUnworked /\ ended = {}

LEMMA Same_Alive ==
  ASSUME JLTypeOK, Alive, SameLife,
         \A h \in Conns : conn[h] = "off" => working'[h] \in {working[h], None},
         \A h \in judges' \cup todo' \cup checked' : h \in Conns /\ Live(h),
         scan' # None => scan' \in Conns /\ Live(scan'),
         pend' = None \/ scan' = None
  PROVE  Alive'
<1>1. \A h \in judges' \cup todo' \cup checked' : conn'[h] \in LiveStates
  BY DEF SameLife, Live
<1>2. scan' # None => conn'[scan'] \in LiveStates
  BY DEF SameLife, Live
<1>3. OffIdle'
  BY DEF Alive, OffIdle, SameLife
<1> QED
  BY <1>1, <1>2, <1>3 DEF Alive, OneCall, Live

\* No run begins, and nothing is queued that has a worker; handlers may be freed.
LEMMA Fewer_Slots ==
  ASSUME JLTypeOK, SlotInv, Alive', UNCHANGED ended,
         \A h \in Conns : working'[h] = None \/ (working'[h] = working[h] /\ run_id'[h] \in Tokens),
         \A h \in Conns : conn'[h] \in LiveStates => Live(h) \/ working[h] = None,
         \A h \in Conns : working[h] # None /\ Live(h) => submission_map'[working[h]] = submission_map[working[h]],
         \A s \in Subs : HasId(queue', s) => HasId(queue, s) \/ Unworked(s),
         pend' # None => pend' \in Request /\ Unworked(pend'.id) /\ dispatch_ids'[pend'.id] \in Tokens
  PROVE  SlotInv'
<1>1. \A s \in Subs : Unworked(s) => Unworked(s)'
  BY NoneFacts DEF Unworked, Live
<1>2. WorkMapped' /\ RunsKnown'
  BY DEF SlotInv, WorkMapped, RunsKnown, Live
<1>3. QueueUnworked'
  BY <1>1 DEF SlotInv, QueueUnworked
<1>4. PendUnworked'
  <2>1. pend' # None => pend'.id \in Subs
    BY DEF Request
  <2>2. pend' # None => \A h \in Conns : conn'[h] \in LiveStates => working'[h] # pend'.id
    BY <2>1, NoneFacts DEF Unworked, Live
  <2> QED
    BY <2>2 DEF PendUnworked, Unworked, Live
<1> QED
  BY <1>2, <1>3, <1>4 DEF SlotInv

LEMMA Same_Slots ==
  ASSUME JLTypeOK, SlotInv, Alive', UNCHANGED <<working, run_id, ended>>,
         \A h \in Conns : conn'[h] \in LiveStates => Live(h) \/ working[h] = None,
         \A h \in Conns : working[h] # None /\ Live(h) => submission_map'[working[h]] = submission_map[working[h]],
         \A s \in Subs : HasId(queue', s) => HasId(queue, s) \/ Unworked(s),
         pend' # None => pend' \in Request /\ Unworked(pend'.id) /\ dispatch_ids'[pend'.id] \in Tokens
  PROVE  SlotInv'
<1>1. \A h \in Conns : working'[h] = None \/ (working'[h] = working[h] /\ run_id'[h] \in Tokens)
  BY DEF SlotInv, RunsKnown
<1> QED
  BY <1>1, Fewer_Slots

\* A refusal clears an entry that names nobody who works on it, and frees a handler
\* that works on something else, or gives it the token of a run.
LEMMA Refuse_Less ==
  ASSUME JLTypeOK, SlotInv, NEW g \in Conns, NEW r \in Request, NEW out, NEW tok \in Tokens,
         Unworked(r.id), Refuse(g, r, out, tok)
  PROVE  /\ \A h \in Conns : working'[h] = None \/ (working'[h] = working[h] /\ run_id'[h] \in Tokens)
         /\ \A h \in Conns : working[h] # None /\ Live(h) => submission_map'[working[h]] = submission_map[working[h]]
<1>1. \A h \in Conns : working'[h] \in {working[h], None} /\ run_id'[h] \in {run_id[h], tok}
  BY DEF Refuse, JLTypeOK
<1>2. \A h \in Conns : working[h] # None => run_id[h] \in Tokens
  BY DEF SlotInv, RunsKnown
<1>3. \A h \in Conns : working[h] # None /\ Live(h) => working[h] \in Subs /\ working[h] # r.id
  BY DEF Unworked, JLTypeOK
<1> QED
  BY <1>1, <1>2, <1>3 DEF Refuse, JLTypeOK, Request

LEMMA Assign_Slots ==
  ASSUME JLTypeOK, SlotInv, Alive', NEW h \in Conns, NEW r \in Request, NEW tok \in Tokens, Assign(h, r, tok),
         Unworked(r.id), conn' = conn, pend' = None, ended' = {},
         \A s \in Subs : HasId(queue', s) => HasId(queue, s), ~HasId(queue', r.id)
  PROVE  SlotInv'
<1>1. r.id \in Subs /\ r.id # None
  BY NoneFacts DEF Request
<1>2. /\ \A s \in Subs : submission_map'[s] = IF s = r.id THEN h ELSE submission_map[s]
      /\ \A c \in Conns : /\ working'[c] = IF c = h THEN r.id ELSE working[c]
                          /\ run_id'[c] = IF c = h THEN tok ELSE run_id[c]
  BY <1>1 DEF JLTypeOK, Assign
<1>3. WorkMapped'
  <2> SUFFICES ASSUME NEW c \in Conns, working'[c] # None, conn[c] \in LiveStates
               PROVE  submission_map'[working'[c]] = c
    BY DEF WorkMapped, Live
  <2>1. CASE c = h
    BY <1>1, <1>2, <2>1
  <2>2. CASE c # h
    <3>1. working'[c] = working[c] /\ working[c] \in Subs /\ submission_map[working[c]] = c /\ working[c] # r.id
      BY <1>2, <2>2 DEF SlotInv, WorkMapped, Live, JLTypeOK, Unworked
    <3> QED
      BY <1>2, <3>1
  <2> QED
    BY <2>1, <2>2
<1>4. \A s \in Subs \ {r.id} : Unworked(s) => Unworked(s)'
  BY <1>2 DEF Unworked, Live
<1>5. RunsKnown' /\ PendUnworked'
  BY <1>2 DEF SlotInv, RunsKnown, PendUnworked
<1>6. QueueUnworked'
  BY <1>4 DEF SlotInv, QueueUnworked
<1> QED
  BY <1>3, <1>5, <1>6 DEF SlotInv

\* h gives its run up: it was the only worker of s.
LEMMA Released_Slots ==
  ASSUME JLTypeOK, SlotInv, Alive', NEW h \in Conns, NEW s \in Subs, Holds(h, s),
         submission_map' = [submission_map EXCEPT ![s] = None],
         working' = [working EXCEPT ![h] = None], run_id' = run_id, conn' = conn, ended' = {},
         \A x \in Subs : HasId(queue', x) => HasId(queue, x) \/ x = s \/ Unworked(x),
         pend' # None => /\ pend' \in Request /\ dispatch_ids'[pend'.id] \in Tokens
                         /\ pend'.id = s \/ Unworked(pend'.id)
  PROVE  SlotInv'
<1>1. /\ \A x \in Subs : submission_map'[x] = IF x = s THEN None ELSE submission_map[x]
      /\ \A c \in Conns : working'[c] = IF c = h THEN None ELSE working[c]
  BY DEF JLTypeOK
<1>2. WorkMapped'
  <2> SUFFICES ASSUME NEW c \in Conns, working'[c] # None, conn[c] \in LiveStates
               PROVE  submission_map'[working'[c]] = c
    BY DEF WorkMapped, Live
  <2>1. c # h /\ working'[c] = working[c] /\ working[c] \in Subs /\ submission_map[working[c]] = c
    BY <1>1 DEF SlotInv, WorkMapped, Live, JLTypeOK
  <2> QED
    BY <1>1, <2>1 DEF Holds
<1>3. RunsKnown'
  BY <1>1, NoneFacts DEF SlotInv, RunsKnown
<1>4. Unworked(s)'
  BY <1>1, NoneFacts DEF SlotInv, WorkMapped, Holds, JLTypeOK, Unworked, Live
<1>5. \A x \in Subs : Unworked(x) => Unworked(x)'
  BY <1>1, NoneFacts DEF Unworked, Live
<1>6. QueueUnworked'
  BY <1>4, <1>5 DEF SlotInv, QueueUnworked
<1>7. PendUnworked'
  <2>1. pend' # None => pend'.id \in Subs
    BY DEF Request
  <2>2. pend' # None => \A c \in Conns : conn'[c] \in LiveStates => working'[c] # pend'.id
    BY <1>4, <1>5, <2>1 DEF Unworked, Live
  <2> QED
    BY <2>2 DEF PendUnworked, Unworked, Live
<1> QED
  BY <1>2, <1>3, <1>6, <1>7 DEF SlotInv

\* The request of a submission that has a worker is the request of its run.
LEMMA OwnRun ==
  ASSUME OneToken, JLTypeOK, SlotInv, NEW s \in Subs, NEW tok \in Tokens, ~SameRunning(submission_map, s, tok)
  PROVE  Unworked(s)
<1> SUFFICES ASSUME NEW h \in Conns, Live(h), working[h] = s PROVE FALSE
  BY DEF Unworked
<1>1. submission_map[s] = h /\ run_id[h] \in Tokens
  BY NoneFacts DEF SlotInv, WorkMapped, RunsKnown
<1> QED
  BY <1>1, NoneFacts DEF SameRunning, OneToken

LEMMA OnSubmission_Slots ==
  ASSUME OneToken, IInv, SlotInv, NEW r \in Request, NEW tok \in Tokens, OnSubmission(r, tok)
  PROVE  SlotInv'
<1>1. JLTypeOK /\ queue \in Queues /\ r.id \in Subs /\ judge(r, tok) /\ ended' = ended
  BY DEF IInv, JLInv, JLTypeOK, Queues, Request, OnSubmission
<1>2. /\ UNCHANGED <<submission_map, working, run_id, conn, judges, todo, checked, scan>>
      /\ scan = None
  BY <1>1 DEF judge, LockFree, handlerVars
<1>3. Alive'
  BY <1>1, <1>2 DEF SlotInv, Alive, OffIdle, OneCall, Live
<1>4. CASE /\ queue' \in {queue, UnlinkId(r.id)} /\ pend' = None
  <2>1. \A s \in Subs : HasId(queue', s) => HasId(queue, s)
    BY <1>1, <1>4, UnlinkIdFacts
  <2> QED
    BY <1>1, <1>2, <1>3, <1>4, <2>1, Same_Slots DEF Live
<1>5. CASE /\ ~SameRunning(submission_map, r.id, tok) /\ queue' = Link(UnlinkId(r.id), r) /\ pend' = None
  <2>1. \A s \in Subs : HasId(queue', s) => HasId(queue, s) \/ s = r.id
    BY <1>1, <1>5, UnlinkIdFacts, LinkFacts
  <2>2. Unworked(r.id)
    BY <1>1, <1>5, OwnRun
  <2> QED
    BY <1>1, <1>2, <1>3, <1>5, <2>1, <2>2, Same_Slots DEF Live
<1>6. CASE /\ ~SameRunning(submission_map, r.id, tok) /\ queue' = UnlinkId(r.id) /\ pend' = r
           /\ dispatch_ids' = [dispatch_ids EXCEPT ![r.id] = tok]
  <2>1. \A s \in Subs : HasId(queue', s) => HasId(queue, s)
    BY <1>1, <1>6, UnlinkIdFacts
  <2>2. Unworked(r.id) /\ dispatch_ids'[r.id] = tok
    BY <1>1, <1>6, OwnRun DEF JLTypeOK
  <2> QED
    BY <1>1, <1>2, <1>3, <1>6, <2>1, <2>2, Same_Slots DEF Live
<1> QED
  BY <1>1, <1>4, <1>5, <1>6 DEF judge, Admit, LockFree, SameRunning


LEMMA ScanStep_Alive ==
  ASSUME IInv, Alive, ScanStep
  PROVE  Alive'
<1>1. JLTypeOK /\ queue \in Queues
  BY DEF IInv, JLInv, JLTypeOK, Queues
<1>2. \A h \in judges \cup todo \cup checked : h \in Conns /\ Live(h)
  BY <1>1 DEF Alive, JLTypeOK
<1>3. checked' = checked /\ SameLife
  <2>1. checked' = checked /\ (conn' = conn \/ \E h \in Conns : conn' = [conn EXCEPT ![h] = Shut(h)])
    BY <1>1 DEF ScanStep, OfferNothing, QueueNew, NextCandidate, OfferNode, DispatchNew, DropFailed, handlerVars, JLTypeOK
  <2>2. \A c \in Conns : conn'[c] \in {conn[c], Shut(c)}
    BY <1>1, <2>1 DEF JLTypeOK
  <2> QED
    BY <1>1, <2>1, <2>2, ShutFacts DEF SameLife, LiveStates
<1>4. /\ judges' \cup todo' \subseteq judges \cup todo
      /\ scan' \in {None, scan} \/ scan' \in todo
      /\ pend' = None \/ scan' = None
  BY <1>1 DEF ScanStep, OfferNothing, QueueNew, NextCandidate, OfferNode, DispatchNew, DropFailed, listVars, handlerVars,
              Alive, OneCall
<1>5. ASSUME NEW h \in Conns, conn[h] = "off" PROVE working'[h] \in {working[h], None}
  <2>1. scan # h /\ h \notin judges
    <3>1. ~Live(h) /\ h # None
      BY <1>5, NoneFacts DEF Live, LiveStates
    <3> QED
      BY <1>2, <3>1 DEF Alive
  <2>2. \A r, g, tok : Assign(g, r, tok) /\ g # h => working'[h] = working[h]
    BY <1>1 DEF Assign, JLTypeOK
  <2>3. \A r, g, out, tok : Refuse(g, r, out, tok) => working'[h] \in {working[h], None}
    BY <1>1 DEF Refuse, JLTypeOK
  <2> QED
    BY <2>1, <2>2, <2>3 DEF ScanStep, OfferNothing, QueueNew, NextCandidate, OfferNode, DispatchNew, handlerVars,
                      Available, Candidates
<1> QED
  BY <1>1, <1>2, <1>3, <1>4, <1>5, Same_Alive DEF Alive, JLTypeOK

LEMMA ScanStep_Slots ==
  ASSUME IInv, SlotInv, ScanStep
  PROVE  SlotInv'
<1> USE DEF IInv
<1>0. JLTypeOK /\ queue \in Queues /\ UniqueIds(queue) /\ Alive'
  BY ScanStep_Alive DEF JLInv, JLTypeOK, JLUnique, Queues, SlotInv
<1>1. CASE OfferNothing \/ \E h \in Conns : NextCandidate(h)
  <2>1. UNCHANGED <<submission_map, dispatch_ids, working, run_id, conn, queue, pend, ended>>
    BY <1>1 DEF ScanStep, OfferNothing, NextCandidate, OfferNode, DispatchNew, QueueNew, listVars, handlerVars
  <2> QED
    BY <1>0, <2>1, Same_Slots DEF SlotInv, PendUnworked, Live, JLTypeOK
<1>2. CASE QueueNew
  <2>1. /\ UNCHANGED <<submission_map, working, run_id, conn, ended>> /\ pend' = None
        /\ queue' = Link(queue, pend) /\ pend \in Request /\ Unworked(pend.id)
    BY <1>0, <1>2 DEF ScanStep, QueueNew, OfferNothing, NextCandidate, OfferNode, DispatchNew, handlerVars, JLTypeOK, SlotInv, PendUnworked
  <2>2. \A s \in Subs : HasId(queue', s) => HasId(queue, s) \/ Unworked(s)
    BY <1>0, <2>1, LinkFacts
  <2> QED
    BY <1>0, <2>1, <2>2, Same_Slots DEF Live
<1>3. ASSUME NEW n \in Nodes, NEW out \in Answers, NEW tok \in Tokens, OfferNode(n, out, tok), ended' \subseteq ended
      PROVE  SlotInv'
  <2> DEFINE r == At(n)
  <2>1. r \in Request /\ r.id \in Subs /\ scan \in Conns /\ HasId(queue, r.id) /\ pend' = None
    <3>1. r \in Request /\ HasId(queue, r.id)
      BY <1>0, NodeFacts, QueuedHasId DEF Queued
    <3> QED
      BY <1>0, <1>3, <3>1 DEF OfferNode, JLTypeOK, SlotInv, Alive, OneCall, Request
  <2>2. Unworked(r.id) /\ ended' = {}
    BY <1>3, <2>1 DEF SlotInv, QueueUnworked
  <2>3. /\ \A s \in Subs : HasId(Unlink(n), s) => HasId(queue, s)
        /\ ~HasId(Unlink(n), r.id)
    BY <1>0, UnlinkNode
  <2> HIDE DEF r
  <2>4. CASE Assign(scan, r, tok) /\ queue' = Unlink(n) /\ conn' = conn
    BY <1>0, <2>1, <2>2, <2>3, <2>4, Assign_Slots
  <2>5. CASE Refuse(scan, r, out, tok) /\ queue' \in {queue, Unlink(n)} /\ (conn' = conn \/ DropFailed(scan))
    <3>1. /\ UNCHANGED ended
          /\ \A h \in Conns : working'[h] = None \/ (working'[h] = working[h] /\ run_id'[h] \in Tokens)
          /\ \A h \in Conns : working[h] # None /\ Live(h) => submission_map'[working[h]] = submission_map[working[h]]
      BY <1>0, <2>1, <2>2, <2>5, Refuse_Less DEF SlotInv
    <3>2. \A c \in Conns : conn'[c] \in LiveStates => Live(c)
      BY <1>0, <2>1, <2>5, ShutFacts DEF DropFailed, Live, JLTypeOK
    <3> QED
      BY <1>0, <2>1, <2>3, <2>5, <3>1, <3>2, Fewer_Slots
  <2> QED
    BY <1>3, <2>4, <2>5 DEF OfferNode, r
<1>4. ASSUME NEW out \in Answers, NEW h \in Conns, pend # None, DispatchNew(h, out, dispatch_ids[pend.id]),
             ended' = ended
      PROVE  SlotInv'
  <2> DEFINE tok == dispatch_ids[pend.id]
  <2>1. /\ pend \in Request /\ working[h] = None /\ ~HasId(queue, pend.id)
        /\ Unworked(pend.id) /\ tok \in Tokens /\ ended' = {}
    BY <1>0, <1>4 DEF DispatchNew, Available, JLTypeOK, JLInv, JLUnique, SlotInv, PendUnworked
  <2>2. CASE Assign(h, pend, tok) /\ queue' = queue /\ conn' = conn /\ pend' = None
    <3> HIDE DEF tok
    <3> QED
      BY <1>0, <2>1, <2>2, Assign_Slots
  <2>3. CASE /\ Refuse(h, pend, out, tok) /\ (conn' = conn \/ DropFailed(h))
             /\ queue' \in {queue, Link(queue, pend)}
             /\ pend' = None \/ (pend' = pend /\ dispatch_ids' = dispatch_ids)
    <3>1. /\ UNCHANGED ended
          /\ \A c \in Conns : working'[c] = None \/ (working'[c] = working[c] /\ run_id'[c] \in Tokens)
          /\ \A c \in Conns : working[c] # None /\ Live(c) => submission_map'[working[c]] = submission_map[working[c]]
      <4> HIDE DEF tok
      <4> QED
        BY <1>0, <1>4, <2>1, <2>3, Refuse_Less DEF SlotInv
    <3>2. \A c \in Conns : conn'[c] \in LiveStates => Live(c)
      BY <1>0, <2>3, ShutFacts DEF DropFailed, Live, JLTypeOK
    <3>3. \A s \in Subs : HasId(queue', s) => HasId(queue, s) \/ Unworked(s)
      BY <1>0, <2>1, <2>3, LinkFacts
    <3> QED
      BY <1>0, <2>1, <2>3, <3>1, <3>2, <3>3, Fewer_Slots
  <2> QED
    BY <1>4, <2>2, <2>3 DEF DispatchNew
<1> QED
  BY <1>1, <1>2, <1>3, <1>4 DEF ScanStep

\* Connections come and go, and judges report problems; no run begins or ends by that.
LEMMA Connections_Slots ==
  ASSUME IInv, SlotInv, NEW h \in Conns,
         Handshake(h) \/ Connected(h) \/ Lost(h) \/ SupportedProblems(h) \/ Discard(h)
  PROVE  SlotInv'
<1>1. JLTypeOK /\ UNCHANGED <<submission_map, dispatch_ids, working, run_id, queue, pend, ended>>
  BY DEF IInv, JLInv, Handshake, register, OfferTo, Connected, connected, Lost, ConnectionLost, Discard, discard,
         SupportedProblems, on_supported_problems, update_problems, listVars, handlerVars, lockVars, workVars
<1>2. \A c \in judges \cup todo \cup checked : c \in Conns /\ Live(c)
  BY <1>1 DEF SlotInv, Alive, JLTypeOK
<1>3. Alive' /\ \A c \in Conns : conn'[c] \in LiveStates => Live(c) \/ working[c] = None
  <2>1. CASE Handshake(h)
    <3>1. /\ conn'[h] = "new" /\ \A c \in Conns \ {h} : conn'[c] \in {conn[c], Shut(c)}
          /\ judges' = judges \cup {h} /\ todo' = {} /\ checked' = checked /\ scan' = h /\ pend' = None
          /\ working[h] = None
      BY <2>1 DEF Handshake, register, OfferTo, LockFree, SlotInv, Alive, OffIdle
    <3>2. \A c \in Conns \ {h} : (conn'[c] \in LiveStates <=> Live(c)) /\ (conn'[c] = "off" => conn[c] = "off")
      BY <1>1, <3>1, ShutFacts DEF Live
    <3>3. \A c \in judges' \cup todo' \cup checked' : conn'[c] \in LiveStates
      BY <1>2, <3>1, <3>2 DEF LiveStates
    <3>4. OffIdle'
      BY <1>1, <3>1, <3>2 DEF SlotInv, Alive, OffIdle
    <3> QED
      BY <1>1, <3>1, <3>2, <3>3, <3>4 DEF Alive, OneCall, Live, LiveStates
  <2>2. CASE Connected(h) \/ Lost(h)
    <3>1. SameLife
      BY <1>1, <2>2 DEF Connected, connected, Lost, ConnectionLost, SameLife, LiveStates, JLTypeOK
    <3>2. UNCHANGED <<judges, todo, checked, scan>>
      BY <2>2 DEF Connected, connected, Lost, ConnectionLost, listVars, lockVars, workVars
    <3> QED
      BY <1>1, <1>2, <3>1, <3>2, Same_Alive DEF SlotInv, Alive, OneCall, SameLife, Live, JLTypeOK
  <2>3. CASE SupportedProblems(h) \/ Discard(h)
    <3>1. SameLife
      BY <2>3 DEF SupportedProblems, on_supported_problems, update_problems, Discard, discard, handlerVars, SameLife
    <3>2. /\ judges' \cup todo' \cup checked' \subseteq judges \cup todo \cup checked \cup {c \in Conns : Live(c)}
          /\ scan' = scan \/ (scan' \in checked /\ pend = None)
      BY <2>3 DEF SupportedProblems, on_supported_problems, update_problems, Discard, discard, listVars, handlerVars,
                  lockVars, workVars, OfferTo, LockFree, Live, LiveStates
    <3> QED
      BY <1>1, <1>2, <3>1, <3>2, Same_Alive DEF SlotInv, Alive, OneCall, SameLife, Live, JLTypeOK
  <2> QED
    BY <2>1, <2>2, <2>3
<1> QED
  BY <1>1, <1>3, Same_Slots DEF SlotInv, PendUnworked, JLTypeOK

LEMMA Disconnect_Slots ==
  ASSUME IInv, SlotInv, NEW h \in Conns, Disconnect(h)
  PROVE  SlotInv'
<1>1. /\ JLTypeOK /\ UNCHANGED <<dispatch_ids, working, run_id, queue, pend>> /\ ended' = {} /\ pend = None
      /\ judges' = judges \ {h} /\ todo' = {} /\ checked' = checked /\ h \notin checked
  BY DEF IInv, JLInv, Disconnect, remove, OfferTo, workVars, LockFree, Outside, SlotInv
<1>2. \A c \in Conns : conn'[c] = IF c = h THEN "left" ELSE conn[c]
  BY <1>1 DEF Disconnect, remove, JLTypeOK
<1>3. /\ \A s \in Subs : submission_map'[s] \in {submission_map[s], None}
      /\ \A s \in Subs : submission_map[s] # h => submission_map'[s] = submission_map[s]
  BY <1>1, NoneFacts DEF Disconnect, remove, JLTypeOK
<1>4. Alive'
  <2>1. scan' # None => scan' \in judges'
    BY <1>1 DEF Disconnect, remove, OfferTo, LockFree, workVars
  <2>2. \A c \in judges' \cup todo' \cup checked' : conn'[c] \in LiveStates
    BY <1>1, <1>2 DEF SlotInv, Alive, Live, JLTypeOK
  <2> QED
    BY <1>1, <1>2, <2>1, <2>2 DEF SlotInv, Alive, OffIdle, OneCall, Live
<1>5. WorkMapped'
  <2> SUFFICES ASSUME NEW c \in Conns, working[c] # None, conn'[c] \in LiveStates
               PROVE  submission_map'[working[c]] = c
    BY <1>1 DEF WorkMapped, Live
  <2>1. c # h /\ working[c] \in Subs /\ submission_map[working[c]] = c
    BY <1>1, <1>2 DEF SlotInv, WorkMapped, Live, LiveStates, JLTypeOK
  <2> QED
    BY <1>3, <2>1
<1>6. RunsKnown' /\ QueueUnworked' /\ PendUnworked'
  BY <1>1, <1>2 DEF SlotInv, RunsKnown, QueueUnworked, PendUnworked, Unworked, Live, LiveStates
<1> QED
  BY <1>1, <1>4, <1>5, <1>6 DEF SlotInv

LEMMA Gone_Slots ==
  ASSUME IInv, SlotInv, NEW h \in Conns, Gone(h)
  PROVE  SlotInv'
<1>1. /\ JLTypeOK /\ UNCHANGED <<submission_map, dispatch_ids, queue, pend, ended, judges, todo, checked, scan>>
      /\ conn[h] = "left" /\ conn'[h] \in {"off", "left"} /\ working'[h] = None
      /\ \A c \in Conns \ {h} : conn'[c] = conn[c] /\ working'[c] = working[c] /\ run_id'[c] = run_id[c]
  BY DEF IInv, JLInv, JLTypeOK, Gone, Forget, listVars, lockVars, workVars
<1>2. \A c \in Conns : conn'[c] \in LiveStates <=> Live(c)
  BY <1>1 DEF Live, LiveStates
<1>3. Alive'
  BY <1>1, <1>2 DEF SlotInv, Alive, OffIdle, OneCall, Live, JLTypeOK
<1>4. \A c \in Conns : working'[c] = None \/ (working'[c] = working[c] /\ run_id'[c] \in Tokens)
  BY <1>1 DEF SlotInv, RunsKnown
<1> QED
  BY <1>1, <1>2, <1>3, <1>4, Fewer_Slots DEF SlotInv, PendUnworked, JLTypeOK

\* A worker that ends holds its entry, so that nothing is left behind.
LEMMA RunEnds_Slots ==
  ASSUME IInv, SlotInv, NEW h \in Conns, RunEnds(h)
  PROVE  SlotInv'
<1>1. JLTypeOK /\ working[h] \in Subs /\ Live(h) /\ on_judge_free(h, working[h])
  BY DEF IInv, JLInv, JLTypeOK, RunEnds, Live, LiveStates
<1>2. Holds(h, working[h]) /\ pend = None
  BY <1>1, NoneFacts DEF SlotInv, WorkMapped, Holds, on_judge_free, LockFree
<1>3. /\ ended' = {} /\ pend' = None /\ scan' = h /\ UNCHANGED <<conn, judges, todo, checked>>
      /\ working' = [working EXCEPT ![h] = None]
  BY <1>1, <1>2 DEF RunEnds, SlotInv, on_judge_free, OfferTo
<1>4. Alive'
  BY <1>1, <1>3 DEF SlotInv, Alive, OffIdle, OneCall, Live, JLTypeOK
<1> QED
  BY <1>1, <1>2, <1>3, <1>4, Released_Slots DEF on_judge_free

\* The request that is judged again is the handler's own, or the one of another run
\* that the handler was offered in between: then nobody works on it either.
LEMMA RunDeferred_Slots ==
  ASSUME OneToken, IInv, SlotInv, NEW h \in Conns, RunDeferred(h)
  PROVE  SlotInv'
<1> DEFINE s == working[h]
           r == retry_request[h]
           map == [submission_map EXCEPT ![s] = None]
           ids == [dispatch_ids EXCEPT ![s] = None]
<1>1. PICK tok \in Tokens : defer(h, s, tok)
  BY DEF RunDeferred
<1>2. JLTypeOK /\ queue \in Queues /\ s \in Subs /\ Live(h) /\ r \in Request
  BY NoneFacts DEF IInv, JLInv, JLTypeOK, Queues, RetryKept, RunDeferred, Live, LiveStates
<1>3. Holds(h, s) /\ pend = None /\ scan = None
  BY <1>1, <1>2, NoneFacts DEF SlotInv, WorkMapped, Holds, defer, LockFree
<1>4. /\ submission_map' = map /\ working' = [working EXCEPT ![h] = None]
      /\ UNCHANGED <<judges, conn, run_id, checked, scan, todo>>
      /\ (Queued(s) /\ UNCHANGED <<queue, pend>>) \/ Admit(r, tok, map, ids)
  BY <1>1, <1>3 DEF defer
<1>5. Alive'
  BY <1>2, <1>3, <1>4 DEF SlotInv, Alive, OffIdle, OneCall, Live, JLTypeOK
<1>6. ended' = {}
  BY <1>3 DEF RunDeferred, SlotInv
<1>7. r.id \in Subs /\ (r.id = s \/ map[r.id] = submission_map[r.id])
  BY <1>2 DEF Request, JLTypeOK
<1>8. ~SameRunning(map, r.id, tok) => r.id = s \/ Unworked(r.id)
  BY <1>2, <1>7, OwnRun DEF SameRunning
<1>9. CASE queue' \in {queue, UnlinkId(r.id)} /\ pend' = None
  <2>1. \A x \in Subs : HasId(queue', x) => HasId(queue, x)
    BY <1>2, <1>9, UnlinkIdFacts
  <2> HIDE DEF s, r
  <2> QED
    BY <1>2, <1>3, <1>4, <1>5, <1>6, <1>9, <2>1, Released_Slots DEF map
<1>10. CASE queue' = Link(UnlinkId(r.id), r) /\ pend' = None /\ ~SameRunning(map, r.id, tok)
  <2>1. \A x \in Subs : HasId(queue', x) => HasId(queue, x) \/ x = r.id
    BY <1>2, <1>10, UnlinkIdFacts, LinkFacts
  <2> HIDE DEF s, r
  <2> QED
    BY <1>2, <1>3, <1>4, <1>5, <1>6, <1>8, <1>10, <2>1, Released_Slots DEF map
<1>11. CASE /\ queue' = UnlinkId(r.id) /\ pend' = r /\ dispatch_ids' = [ids EXCEPT ![r.id] = tok]
            /\ ~SameRunning(map, r.id, tok)
  <2>1. \A x \in Subs : HasId(queue', x) => HasId(queue, x)
    BY <1>2, <1>11, UnlinkIdFacts
  <2>2. dispatch_ids'[r.id] \in Tokens
    BY <1>2, <1>7, <1>11 DEF JLTypeOK
  <2> HIDE DEF s, r
  <2> QED
    BY <1>2, <1>3, <1>4, <1>5, <1>6, <1>8, <1>11, <2>1, <2>2, Released_Slots DEF map
<1> HIDE DEF s, r, map, ids
<1>12. Admit(r, tok, map, ids) =>
         \/ queue' \in {queue, UnlinkId(r.id)} /\ pend' = None
         \/ queue' = Link(UnlinkId(r.id), r) /\ pend' = None /\ ~SameRunning(map, r.id, tok)
         \/ queue' = UnlinkId(r.id) /\ pend' = r /\ dispatch_ids' = [ids EXCEPT ![r.id] = tok]
            /\ ~SameRunning(map, r.id, tok)
  BY <1>3 DEF Admit, SameRunning
<1> QED
  BY <1>3, <1>4, <1>9, <1>10, <1>11, <1>12

LEMMA Termination_Slots ==
  ASSUME IInv, SlotInv, NEW s \in Subs, Termination(s)
  PROVE  SlotInv'
<1>1. /\ JLTypeOK /\ queue \in Queues /\ queue' \in {queue, UnlinkId(s)}
      /\ UNCHANGED <<submission_map, working, run_id, conn, pend, ended, judges, todo, checked, scan>> /\ pend = None
  BY DEF IInv, JLInv, JLTypeOK, Queues, Termination, abort, LockFree, handlerVars, lockVars, workVars
<1>2. \A x \in Subs : HasId(queue', x) => HasId(queue, x)
  BY <1>1, UnlinkIdFacts
<1>3. Alive'
  BY <1>1 DEF SlotInv, Alive, OffIdle, OneCall, Live
<1> QED
  BY <1>1, <1>2, <1>3, Same_Slots DEF Live

\* Administrators, and the loops over the judges.
LEMMA Others_Slots ==
  ASSUME IInv, SlotInv,
         RetryQueued \/ (\E n \in Names : DisconnectRequest(n) \/ DisableJudge(n)) \/ UNCHANGED vars
  PROVE  SlotInv'
<1>1. /\ JLTypeOK
      /\ UNCHANGED <<submission_map, dispatch_ids, working, run_id, queue, pend, ended, judges, checked, scan>>
      /\ todo' \subseteq judges \cup todo
  BY DEF IInv, JLInv, RetryQueued, retry_queued, DisconnectRequest, disconnect, DisableJudge, update_disable_judge,
         LockFree, vars, jlVars, listVars, handlerVars, lockVars, workVars
<1>2. conn' = conn \/ \A c \in Conns : conn'[c] \in {conn[c], Shut(c)}
  BY DEF RetryQueued, retry_queued, DisconnectRequest, disconnect, DisableJudge, update_disable_judge,
         vars, jlVars, handlerVars
<1>3. SameLife
  BY <1>1, <1>2, ShutFacts DEF SameLife, LiveStates
<1>4. Alive'
  BY <1>1, <1>3, Same_Alive DEF SlotInv, Alive, OneCall, JLTypeOK
<1> QED
  BY <1>1, <1>3, <1>4, Same_Slots DEF SlotInv, PendUnworked, SameLife, Live, JLTypeOK

LEMMA Next_Slots ==
  ASSUME OneToken, IInv, SlotInv, [Next]_vars
  PROVE  SlotInv'
<1>1. ASSUME NEW r \in Menu, NEW tok \in Tokens, OnSubmission(r, tok) PROVE SlotInv'
  BY <1>1, MenuAssumption, OnSubmission_Slots
<1> QED
  BY <1>1, ScanStep_Slots, Connections_Slots, Disconnect_Slots, Gone_Slots, RunEnds_Slots, RunDeferred_Slots,
     Termination_Slots, Others_Slots DEF Next

LEMMA Spec_Slots ==
  ASSUME OneToken
  PROVE  Spec => [](IInv /\ SlotInv)
<1>1. Init => SlotInv
  <2> SUFFICES ASSUME Init PROVE SlotInv
    OBVIOUS
  <2>1. Alive
    BY DEF Init, JLInit, Alive, OffIdle, OneCall
  <2> QED
    BY <2>1 DEF Init, JLInit, SlotInv, WorkMapped, RunsKnown, QueueUnworked, PendUnworked, HasId
<1>2. IInv /\ SlotInv /\ [Next]_vars => SlotInv'
  BY Next_Slots
<1> QED
  BY <1>1, <1>2, Spec_IInv, PTL DEF Spec

\* docs/test-data-lock.md:14: whichever way a run ends, its on_judge_free or defer finds
\* its own entry in submission_map and frees its slot, if no submission is rejudged
\* while a run of it is known to the scheduler.
THEOREM SlotsAreReleased ==
  ASSUME OneToken
  PROVE  Spec => []SlotReleased
<1>1. SlotInv => SlotReleased
  BY DEF SlotInv, SlotReleased
<1> QED
  BY <1>1, Spec_Slots, PTL

\* judge_list.py:208-209: under the same hypothesis no submission has two workers,
\* however often its request is repeated, refused, deferred or overtaken.
THEOREM WorkersAreSingle ==
  ASSUME OneToken
  PROVE  Spec => []OneWorkerPerSubmission
<1>1. IInv /\ SlotInv => OneWorkerPerSubmission
  <2> SUFFICES ASSUME IInv, SlotInv, NEW g \in judges, NEW h \in judges,
                      working[g] # None, working[g] = working[h]
               PROVE  g = h
    BY DEF OneWorkerPerSubmission
  <2>1. g \in Conns /\ h \in Conns /\ Live(g) /\ Live(h)
    BY DEF IInv, JLInv, JLTypeOK, SlotInv, Alive
  <2> QED
    BY <2>1 DEF SlotInv, WorkMapped
<1> QED
  BY <1>1, Spec_Slots, PTL


(***************************************************************************)
(* No judge is left idle beside a request it could take.                   *)
(***************************************************************************)
Has(q, p, r) == \E i \in 1 .. Len(q[p]) : q[p][i] = r
Plain(r) == r.judge_id = None /\ r.banned = {}

\* Judges and requests are alike: nobody is disabled, no request is directed or banned, and
\* a request that is offered is taken, invalid, or costs the judge its connection.
Uniform ==
  /\ OneToken /\ Updaters = {} /\ Togglable = {} /\ "deferred" \notin Answers /\ "unready" \notin Answers
  /\ \A p, q \in Inventories : p = q
  /\ \A r \in Menu : Plain(r)

\* The idle judges nobody is about to offer work to.
Unoffered == Idle \ (todo \cup {scan})
\* A judge left the list before its connection has ended: its remove() is to come, and will
\* make the offer a single judge is due.
Leaving == \E h \in Conns : conn[h] = "shut" /\ h \notin judges
Alike ==
  /\ \A h \in Conns : ~is_disabled[h] /\ (conn[h] # "off" => problems[h] \in Inventories)
  /\ \A n \in Names : ~db_disabled[n]
  /\ IsFiniteSet(judges) /\ cur = Start
  /\ pend # None => Plain(pend) /\ todo = {} /\ scan = None
  /\ \A p \in Priorities : \A r : Has(queue, p, r) => Plain(r)
  /\ \A h \in Conns : working[h] # None => Plain(retry_request[h])
\* What such judges could take are rejudges, kept back for a second idle judge.
HeldBack ==
  \A h \in Unoffered, p \in Priorities : \A r :
    Has(queue, p, r) /\ r.id \in problems[h] =>
      p >= REJUDGE_PRIORITY /\ Cardinality(Unoffered) <= 1 /\ (Cardinality(judges) > 1 \/ Leaving)
OfferInv == Alike /\ (timer \/ HeldBack)

LEMMA LinkHas ==
  ASSUME NEW q \in Queues, NEW r \in Request, NEW p \in Priorities, NEW x, Has(Link(q, r), p, x)
  PROVE  Has(q, p, x) \/ (p = r.prio /\ x = r)
<1>1. r.prio \in Priorities /\ q[p] \in Seq(Request) /\ Len(q[p]) \in Nat
  BY LenProperties DEF Queues, Request, Priorities
<1>2. Link(q, r) = [q EXCEPT ![r.prio] = Append(q[r.prio], r)]
  BY DEF Link
<1>3. CASE p # r.prio
  BY <1>1, <1>2, <1>3 DEF Has, Queues
<1>4. CASE p = r.prio
  <2>1. Link(q, r)[p] = Append(q[p], r)
    BY <1>1, <1>2, <1>4 DEF Queues
  <2>2. PICK i \in 1 .. Len(Append(q[p], r)) : Append(q[p], r)[i] = x
    BY <2>1 DEF Has
  <2>3. Len(Append(q[p], r)) = Len(q[p]) + 1 /\ Append(q[p], r)[Len(q[p]) + 1] = r
        /\ \A j \in 1 .. Len(q[p]) : Append(q[p], r)[j] = q[p][j]
    BY <1>1, AppendProperties
  <2>4. i \in 1 .. Len(q[p]) \/ i = Len(q[p]) + 1
    BY <1>1, <2>2, <2>3
  <2> QED
    BY <1>4, <2>2, <2>3, <2>4 DEF Has
<1> QED
  BY <1>3, <1>4

LEMMA UnlinkHas ==
  ASSUME queue \in Queues, NEW n \in Nodes, NEW p \in Priorities, NEW x, Has(Unlink(n), p, x)
  PROVE  Has(queue, p, x)
<1>1. n[1] \in Priorities /\ n[2] \in 1 .. Len(queue[n[1]])
  BY NodeFacts
<1>2. queue[p] \in Seq(Request) /\ Len(queue[p]) \in Nat
  BY LenProperties DEF Queues
<1>3. Unlink(n) = [queue EXCEPT ![n[1]] = RemoveAt(queue[n[1]], n[2])]
  BY DEF Unlink
<1>4. CASE p # n[1]
  BY <1>1, <1>3, <1>4 DEF Has, Queues
<1>5. CASE p = n[1]
  <2>1. Unlink(n)[p] = RemoveAt(queue[p], n[2])
    BY <1>1, <1>3, <1>5 DEF Queues
  <2>2. PICK i \in 1 .. Len(RemoveAt(queue[p], n[2])) : RemoveAt(queue[p], n[2])[i] = x
    BY <2>1 DEF Has
  <2>3. /\ Len(RemoveAt(queue[p], n[2])) = Len(queue[p]) - 1
        /\ \A j \in 1 .. Len(queue[p]) - 1 :
             RemoveAt(queue[p], n[2])[j] = IF j < n[2] THEN queue[p][j] ELSE queue[p][j + 1]
    BY <1>1, <1>2, <1>5, RemoveAtProperties
  <2>4. i \in 1 .. Len(queue[p]) /\ i + 1 \in 1 .. Len(queue[p])
    BY <1>2, <2>2, <2>3
  <2>5. x = queue[p][i] \/ x = queue[p][i + 1]
    BY <1>2, <2>2, <2>3
  <2> QED
    BY <2>4, <2>5 DEF Has
<1> QED
  BY <1>4, <1>5

LEMMA UnlinkIdHas ==
  ASSUME queue \in Queues, NEW id, NEW p \in Priorities, NEW x, Has(UnlinkId(id), p, x)
  PROVE  Has(queue, p, x)
<1>1. CASE Queued(id)
  <2>1. NodeOf(id) \in Nodes
    BY <1>1 DEF Queued, NodeOf
  <2> QED
    BY <1>1, <2>1, UnlinkHas DEF UnlinkId
<1> QED
  BY <1>1 DEF UnlinkId

\* The walk along the queue finds a first node to stop at if there is any.
LEMMA FirstHitExists ==
  ASSUME queue \in Queues, Hits # {}
  PROVE  FirstHit # {}
<1>1. \A n \in Hits : n[1] \in Nat /\ n[2] \in Nat /\ n = <<n[1], n[2]>>
  <2>1. \A p \in Priorities : p \in Nat /\ Len(queue[p]) \in Nat
    BY LenProperties DEF Queues, Priorities
  <2>2. \A n \in Hits : n \in Nodes
    BY DEF Hits
  <2> QED
    BY <2>1, <2>2, NodeFacts
<1> DEFINE Ps == {p \in Nat : \E n \in Hits : n[1] = p}
<1>2. PICK p \in Ps : \A o \in Ps : p <= o
  <2>1. Ps # {} /\ Ps \in SUBSET Nat
    BY <1>1
  <2> HIDE DEF Ps
  <2> QED
    BY <2>1, LeastExists
<1> DEFINE Is == {i \in Nat : <<p, i>> \in Hits}
<1>3. PICK i \in Is : \A k \in Is : i <= k
  <2>1. Is # {} /\ Is \in SUBSET Nat
    BY <1>1, <1>2
  <2> HIDE DEF Is
  <2> QED
    BY <2>1, LeastExists
<1>4. ASSUME NEW m \in Hits PROVE Before(<<p, i>>, m)
  <2>1. p <= m[1] /\ m[1] \in Nat /\ p \in Nat
    BY <1>1, <1>2
  <2>2. CASE m[1] = p
    <3>1. m[2] \in Is
      BY <1>1, <2>2
    <3> QED
      BY <1>3, <2>2, <3>1 DEF Before
  <2> QED
    BY <2>1, <2>2 DEF Before
<1> QED
  BY <1>3, <1>4 DEF FirstHit


LEMMA LinkPlain ==
  ASSUME IInv, Alike, NEW r \in Request, Plain(r), NEW p \in Priorities, NEW x, Has(Link(queue, r), p, x)
  PROVE  Plain(x)
  BY LinkHas DEF IInv, JLInv, JLTypeOK, Queues, Alike

\* Steps on the handlers, the list and the requests that keep judges and requests alike.
LEMMA Still_Alike ==
  ASSUME Alike, UNCHANGED db_disabled, IsFiniteSet(judges'), cur' \in {cur, Start},
         \A h \in Conns : ~is_disabled'[h] /\ (conn'[h] # "off" => problems'[h] \in Inventories),
         pend' # None => Plain(pend') /\ todo' = {} /\ scan' = None,
         \A p \in Priorities : \A x : Has(queue', p, x) => Has(queue, p, x) \/ Plain(x),
         \A h \in Conns : working'[h] # None => Plain(retry_request'[h])
  PROVE  Alike'
  BY DEF Alike

LEMMA Finite_Alike ==
  ASSUME Alike, judges' \subseteq judges
  PROVE  IsFiniteSet(judges')
  BY FS_Subset DEF Alike

\* Fewer judges wait and fewer requests do.
LEMMA Fewer_HeldBack ==
  ASSUME Alike, HeldBack, Unoffered' \subseteq Unoffered, UNCHANGED problems,
         \A p \in Priorities : \A x : Has(queue', p, x) => Has(queue, p, x),
         (\E h \in Unoffered' : TRUE) => (Cardinality(judges) > 1 \/ Leaving => Cardinality(judges') > 1 \/ Leaving')
  PROVE  HeldBack'
<1>1. IsFiniteSet(Unoffered)
  BY FS_Subset DEF Alike, Unoffered, Idle, Enabled
<1>2. IsFiniteSet(Unoffered') /\ Cardinality(Unoffered') <= Cardinality(Unoffered)
  BY <1>1, FS_Subset
<1>3. Cardinality(Unoffered) \in Nat /\ Cardinality(Unoffered') \in Nat
  BY <1>1, <1>2, FS_CardinalityType
<1> SUFFICES ASSUME NEW h \in Unoffered', NEW p \in Priorities, NEW r, Has(queue', p, r), r.id \in problems[h]
             PROVE  p >= REJUDGE_PRIORITY /\ Cardinality(Unoffered') <= 1 /\ (Cardinality(judges') > 1 \/ Leaving')
  BY DEF HeldBack
<1>4. p >= REJUDGE_PRIORITY /\ Cardinality(Unoffered) <= 1 /\ (Cardinality(judges) > 1 \/ Leaving)
  BY DEF HeldBack
<1> QED
  BY <1>2, <1>3, <1>4

LEMMA Empty_HeldBack ==
  ASSUME Unoffered' = {}
  PROVE  HeldBack'
  BY DEF HeldBack

\* Leaving goes on while a judge that has left the list is not taken for a listed one.
LEMMA More_Leaving ==
  ASSUME judges' \subseteq judges, Leaving, \A h \in Conns : conn[h] = "shut" => conn'[h] = "shut"
  PROVE  Leaving'
  BY DEF Leaving

\* A listed judge accepts the data of a request if any does.
LEMMA SameEligible ==
  ASSUME Uniform, Alike, NEW g \in Conns, NEW h \in Conns, conn[g] # "off", conn[h] # "off",
         NEW r, Plain(r), r.id \in problems[g]
  PROVE  Eligible(h, r)
<1>1. problems[g] = problems[h] /\ ~is_disabled[h]
  BY DEF Uniform, Alike
<1> QED
  BY <1>1 DEF Eligible, can_judge, Plain

LEMMA Listed ==
  ASSUME IInv, JLMap, Alike
  PROVE  /\ judges \subseteq Conns /\ \A h \in judges : conn[h] # "off" /\ h # None
         /\ Enabled = judges /\ Unoffered \subseteq Idle /\ Idle \subseteq judges
         /\ IsFiniteSet(Idle) /\ IsFiniteSet(Unoffered)
         /\ Cardinality(Idle) \in Nat /\ Cardinality(Unoffered) \in Nat /\ Cardinality(judges) \in Nat
         /\ Cardinality(Unoffered) <= Cardinality(Idle)
<1>1. judges \subseteq Conns /\ \A h \in judges : conn[h] # "off" /\ h # None
  BY NoneFacts DEF IInv, JLInv, JLTypeOK, JLMap, ListLive, Live, LiveStates
<1>2. Enabled = judges /\ Unoffered \subseteq Idle /\ Idle \subseteq judges
  BY <1>1 DEF Enabled, Idle, Unoffered, Alike
<1>3. IsFiniteSet(judges) /\ IsFiniteSet(Idle) /\ IsFiniteSet(Unoffered)
      /\ Cardinality(Unoffered) <= Cardinality(Idle)
  BY <1>2, FS_Subset DEF Alike
<1> QED
  BY <1>1, <1>2, <1>3, FS_CardinalityType

LEMMA OneOfMany ==
  ASSUME NEW S, IsFiniteSet(S), NEW x \in S, S # {x}
  PROVE  Cardinality(S) > 1
<1>1. Cardinality(S) \in Nat /\ Cardinality(S) # 0
  BY FS_CardinalityType, FS_EmptySet
<1>2. Cardinality(S) # 1
  BY FS_Singleton
<1> QED
  BY <1>1, <1>2

\* The end of a walk along the queue.
LEMMA OfferNothing_Offer ==
  ASSUME Uniform, IInv, JLMap, OfferInv, OfferNothing, UNCHANGED <<db_disabled, timer>>
  PROVE  OfferInv'
<1>1. Alike /\ UNCHANGED <<queue, judges, conn, working, retry_request, is_disabled, problems, pend, todo>>
      /\ scan' = None /\ cur' = Start /\ scan \in Conns /\ conn[scan] # "off" /\ queue \in Queues
  BY DEF OfferNothing, listVars, handlerVars, OfferInv, JLMap, ScanIdle, Live, LiveStates, IInv, JLInv, JLTypeOK, Queues
<1>2. Alike'
  BY <1>1 DEF Alike
<1>3. Unoffered' \subseteq Idle /\ Idle' = Idle
  BY <1>1 DEF Unoffered, Idle, Enabled
<1>4. Cardinality(Unoffered') <= Cardinality(Idle) /\ Cardinality(Unoffered') \in Nat
  BY <1>1, <1>3, Listed, FS_Subset, FS_CardinalityType
<1>5. ASSUME NEW h \in Unoffered', NEW p \in Priorities, NEW r, Has(queue, p, r), r.id \in problems[h]
      PROVE  p >= REJUDGE_PRIORITY /\ Cardinality(Unoffered') <= 1 /\ Cardinality(judges) > 1
  <2>1. PICK i \in 1 .. Len(queue[p]) : queue[p][i] = r
    BY <1>5 DEF Has
  <2>2. <<p, i>> \in Nodes /\ At(<<p, i>>) = r
    BY <2>1, NodesByIndex DEF Nodes, NodesOf, At
  <2>3. Eligible(scan, r)
    <3>1. h \in Conns /\ conn[h] # "off" /\ Plain(r)
      BY <1>1, <1>3, <1>5, Listed DEF Alike
    <3> QED
      BY <1>1, <1>5, <3>1, SameEligible
  <2>4. <<p, i>> \in Hits
    <3>1. p \in Nat /\ p >= 0 /\ i \in Nat /\ i >= 1
      BY LenProperties, <1>1 DEF Priorities, Queues
    <3>2. Before(cur, <<p, i>>)
      BY <1>1, <3>1 DEF Alike, Before, Start
    <3> QED
      BY <2>2, <2>3, <3>2 DEF Hits
  <2>5. PICK m \in FirstHit : TRUE
    BY <1>1, <2>4, FirstHitExists
  <2>6. Reserved(m[1]) /\ Before(m, <<p, i>>) /\ m[1] \in Priorities
    BY <1>1, <2>4, <2>5, NodeFacts DEF OfferNothing, FirstHit, Hits
  <2>7. p >= m[1] /\ m[1] \in Nat /\ p \in Nat
    BY <2>6 DEF Before, Priorities
  <2> HIDE DEF Unoffered
  <2> QED
    BY <1>1, <1>4, <2>6, <2>7, Listed DEF Reserved, REJUDGE_PRIORITY
<1>6. HeldBack'
  BY <1>1, <1>5 DEF HeldBack
<1> QED
  BY <1>2, <1>6 DEF OfferInv


LEMMA NextCandidate_Offer ==
  ASSUME Uniform, IInv, JLMap, OfferInv, NEW h \in Conns, NextCandidate(h), UNCHANGED <<db_disabled, timer>>
  PROVE  OfferInv'
<1>1. /\ Alike /\ UNCHANGED <<queue, judges, conn, working, retry_request, is_disabled, problems>>
      /\ pend = None /\ pend' = None /\ scan = None /\ cur' \in {cur, Start} /\ todo' = todo \ {h}
      /\ (working[h] = None /\ scan' = h) \/ (working[h] # None /\ scan' = None)
  BY DEF NextCandidate, listVars, handlerVars, OfferInv
<1>2. Alike'
  BY <1>1 DEF Alike
<1>3. Unoffered' \subseteq Unoffered
  BY <1>1, Listed DEF Unoffered, Idle, Enabled
<1>4. Leaving' = Leaving
  BY <1>1 DEF Leaving
<1>5. HeldBack => HeldBack'
  BY <1>1, <1>3, <1>4, Fewer_HeldBack
<1> QED
  BY <1>2, <1>5 DEF OfferInv

LEMMA OfferNode_Offer ==
  ASSUME Uniform, IInv, JLMap, OfferInv, NEW n \in Nodes, NEW out \in Answers, NEW tok \in Tokens,
         OfferNode(n, out, tok), UNCHANGED <<db_disabled, timer>>
  PROVE  OfferInv'
<1> DEFINE r == At(n)
<1>1. /\ Alike /\ JLTypeOK /\ queue \in Queues /\ scan \in Conns /\ working[scan] = None /\ out \notin {"deferred", "unready"}
      /\ pend = None /\ pend' = None /\ UNCHANGED <<is_disabled, problems>>
      /\ r \in Request /\ queue' \in {queue, Unlink(n)}
  BY NodeFacts DEF OfferNode, OfferInv, IInv, JLInv, JLTypeOK, Queues, JLMap, ScanIdle, OneCall, Uniform
<1>2. Plain(r)
  <2>1. Has(queue, n[1], r) /\ n[1] \in Priorities
    BY <1>1, NodeFacts DEF Has, At
  <2> QED
    BY <1>1, <2>1 DEF Alike
<1>3. \A p \in Priorities : \A x : Has(queue', p, x) => Has(queue, p, x)
  BY <1>1, UnlinkHas
<1> HIDE DEF r
<1>4. CASE Assign(scan, r, tok) /\ scan' = None /\ cur' = Start /\ UNCHANGED <<judges, conn, todo>>
  <2>1. \A h \in Conns : /\ working'[h] = IF h = scan THEN r.id ELSE working[h]
                         /\ retry_request'[h] = IF h = scan THEN r ELSE retry_request[h]
    BY <1>1, <1>4 DEF Assign, JLTypeOK
  <2>2. Alike'
    BY <1>1, <1>2, <1>3, <1>4, <2>1, Still_Alike DEF Alike
  <2>3. Unoffered' \subseteq Unoffered
    <3>1. r.id # None
      BY <1>1, NoneFacts DEF Request
    <3> QED
      BY <1>1, <1>4, <2>1, <3>1, Listed DEF Unoffered, Idle, Enabled
  <2>4. Leaving' = Leaving
    BY <1>4 DEF Leaving
  <2>5. HeldBack => HeldBack'
    BY <1>1, <1>3, <1>4, <2>3, <2>4, Fewer_HeldBack
  <2> QED
    BY <2>2, <2>5 DEF OfferInv
<1>5. CASE Refuse(scan, r, out, tok) /\ cur' = Start /\ UNCHANGED <<judges, conn, scan, todo>>
  <2>1. working' = working /\ \A c \in Conns : working[c] # None => retry_request'[c] = retry_request[c]
    BY <1>1, <1>5 DEF Refuse, JLTypeOK
  <2>2. Alike'
    BY <1>1, <1>3, <1>5, <2>1, Still_Alike DEF Alike
  <2>3. Unoffered' = Unoffered /\ Leaving' = Leaving
    BY <1>1, <1>5, <2>1 DEF Unoffered, Idle, Enabled, Leaving
  <2>4. HeldBack => HeldBack'
    BY <1>1, <1>3, <1>5, <2>3, Fewer_HeldBack
  <2> QED
    BY <2>2, <2>4 DEF OfferInv
<1>6. CASE Refuse(scan, r, out, tok) /\ DropFailed(scan) /\ scan' = None /\ cur' = Start /\ todo' = todo \cup judges'
  <2>1. /\ working' = working /\ \A c \in Conns : working[c] # None => retry_request'[c] = retry_request[c]
        /\ judges' \subseteq judges
    BY <1>1, <1>6 DEF Refuse, DropFailed, JLTypeOK
  <2>2. \A c \in Conns : conn'[c] # "off" => conn[c] # "off"
    BY <1>1, <1>6, ShutFacts DEF DropFailed, JLTypeOK
  <2>3. Alike'
    BY <1>1, <1>3, <1>6, <2>1, <2>2, Still_Alike, Finite_Alike DEF Alike
  <2>4. HeldBack'
    BY <1>6, Empty_HeldBack DEF Unoffered, Idle, Enabled
  <2> QED
    BY <2>3, <2>4 DEF OfferInv
<1> QED
  BY <1>1, <1>4, <1>5, <1>6 DEF OfferNode, r

LEMMA QueueNew_Offer ==
  ASSUME Uniform, IInv, JLMap, OfferInv, QueueNew, UNCHANGED <<db_disabled, timer>>
  PROVE  OfferInv'
<1>1. /\ Alike /\ UNCHANGED <<judges, conn, working, retry_request, is_disabled, problems, scan, cur, todo>>
      /\ pend \in Request /\ pend' = None /\ scan = None /\ todo = {} /\ Plain(pend)
      /\ queue' = Link(queue, pend) /\ queue \in Queues /\ Available(pend) = {}
  BY DEF QueueNew, handlerVars, OfferInv, Alike, IInv, JLInv, JLTypeOK, Queues
<1>2. \A p \in Priorities : \A x : Has(queue', p, x) => Has(queue, p, x) \/ (p = pend.prio /\ x = pend)
  BY <1>1, LinkHas
<1>3. Alike'
  BY <1>1, <1>2, Still_Alike DEF Alike
<1>4. Unoffered = Idle /\ Unoffered' = Idle /\ Leaving' = Leaving
  BY <1>1, Listed DEF Unoffered, Idle, Enabled, Leaving
\* Every listed judge is a candidate for the request, and every idle one is free.
<1>5. ASSUME NEW h \in Idle, pend.id \in problems[h]
      PROVE  pend.prio >= REJUDGE_PRIORITY /\ Cardinality(Idle) <= 1 /\ Cardinality(judges) > 1
  <2>1. Candidates(pend) = judges
    <3>1. h \in Conns /\ conn[h] # "off"
      BY <1>1, Listed
    <3>2. \A g \in judges : Eligible(g, pend)
      BY <1>1, <1>5, <3>1, Listed, SameEligible
    <3> QED
      BY <3>2 DEF Candidates
  <2>2. {g \in Candidates(pend) : working[g] = None /\ ~is_disabled[g]} = Idle
    BY <2>1 DEF Idle, Enabled
  <2>3. Cardinality(judges) > 1 /\ Cardinality(Idle) = 1 /\ pend.prio >= REJUDGE_PRIORITY
    BY <1>1, <1>5, <2>1, <2>2 DEF Available
  <2> QED
    BY <2>3
<1>6. HeldBack => HeldBack'
  <2> SUFFICES ASSUME HeldBack, NEW h \in Unoffered', NEW p \in Priorities, NEW r, Has(queue', p, r), r.id \in problems[h]
               PROVE  p >= REJUDGE_PRIORITY /\ Cardinality(Unoffered') <= 1 /\ (Cardinality(judges) > 1 \/ Leaving)
    BY <1>1, <1>4 DEF HeldBack
  <2>1. CASE Has(queue, p, r)
    BY <1>4, <2>1 DEF HeldBack
  <2>2. CASE p = pend.prio /\ r = pend
    BY <1>4, <1>5, <2>2
  <2> QED
    BY <1>2, <2>1, <2>2
<1> QED
  BY <1>3, <1>6 DEF OfferInv

LEMMA DispatchNew_Offer ==
  ASSUME Uniform, IInv, JLMap, OfferInv, NEW h \in Conns, NEW out \in Answers, NEW tok,
         DispatchNew(h, out, tok), UNCHANGED <<db_disabled, timer>>
  PROVE  OfferInv'
<1>1. /\ Alike /\ JLTypeOK /\ pend \in Request /\ Plain(pend) /\ todo = {} /\ scan = None /\ out \notin {"deferred", "unready"} /\ working[h] = None
      /\ UNCHANGED <<is_disabled, problems, scan, cur>>
  BY DEF DispatchNew, Available, OfferInv, Alike, Uniform, IInv, JLInv, JLTypeOK
<1>2. h \in Idle
  BY DEF DispatchNew, Available, Candidates, Idle, Enabled
<1>3. CASE Assign(h, pend, tok) /\ pend' = None /\ UNCHANGED <<queue, judges, conn, todo>>
  <2>1. \A c \in Conns : /\ working'[c] = IF c = h THEN pend.id ELSE working[c]
                         /\ retry_request'[c] = IF c = h THEN pend ELSE retry_request[c]
    BY <1>1, <1>3 DEF Assign, JLTypeOK
  <2>2. Alike'
    BY <1>1, <1>3, <2>1, Still_Alike DEF Alike
  <2>3. Unoffered' \subseteq Unoffered /\ Leaving' = Leaving
    <3>1. pend.id # None
      BY <1>1, NoneFacts DEF Request
    <3> QED
      BY <1>1, <1>3, <2>1, <3>1, Listed DEF Unoffered, Idle, Enabled, Leaving
  <2>4. HeldBack => HeldBack'
    BY <1>1, <1>3, <2>3, Fewer_HeldBack
  <2> QED
    BY <2>2, <2>4 DEF OfferInv
<1>4. CASE Refuse(h, pend, out, tok) /\ pend' = None /\ UNCHANGED <<queue, judges, conn, todo>>
  <2>1. working' = working /\ \A c \in Conns : working[c] # None => retry_request'[c] = retry_request[c]
    BY <1>1, <1>4 DEF Refuse, JLTypeOK
  <2>2. Alike'
    BY <1>1, <1>4, <2>1, Still_Alike DEF Alike
  <2>3. Unoffered' = Unoffered /\ Leaving' = Leaving
    BY <1>1, <1>4, <2>1 DEF Unoffered, Idle, Enabled, Leaving
  <2>4. HeldBack => HeldBack'
    BY <1>1, <1>4, <2>3, Fewer_HeldBack
  <2> QED
    BY <2>2, <2>4 DEF OfferInv
\* Who could have been held back for h had two idle judges to go to.
<1>5. CASE Refuse(h, pend, out, tok) /\ DropFailed(h) /\ UNCHANGED <<queue, pend, todo>>
  <2>1. /\ working' = working /\ \A c \in Conns : working[c] # None => retry_request'[c] = retry_request[c]
        /\ judges' = judges \ {h}
    BY <1>1, <1>5 DEF Refuse, DropFailed, JLTypeOK
  <2>2. \A c \in Conns : conn'[c] # "off" => conn[c] # "off"
    BY <1>1, <1>5, ShutFacts DEF DropFailed, JLTypeOK
  <2>3. Alike'
    BY <1>1, <1>5, <2>1, <2>2, Still_Alike, Finite_Alike DEF Alike
  <2>4. Unoffered = Idle /\ Unoffered' = Idle \ {h}
    BY <1>1, <1>5, <2>1, Listed DEF Unoffered, Idle, Enabled
  <2>5. ASSUME HeldBack, NEW g \in Unoffered', NEW p \in Priorities, NEW r, Has(queue, p, r), r.id \in problems[g]
        PROVE  FALSE
    <3>1. g \in Idle /\ g # h /\ Cardinality(Idle) <= 1
      BY <2>4, <2>5 DEF HeldBack
    <3>2. Idle # {h} /\ IsFiniteSet(Idle) /\ Cardinality(Idle) \in Nat
      BY <1>1, <3>1, Listed
    <3>3. Cardinality(Idle) > 1
      BY <1>2, <3>2, OneOfMany
    <3> QED
      BY <3>1, <3>2, <3>3
  <2>6. HeldBack => HeldBack'
    BY <1>1, <1>5, <2>5 DEF HeldBack
  <2> QED
    BY <2>3, <2>6 DEF OfferInv
<1> QED
  BY <1>1, <1>3, <1>4, <1>5 DEF DispatchNew

LEMMA OnSubmission_Offer ==
  ASSUME Uniform, IInv, JLMap, SlotInv, OfferInv, NEW r \in Menu, NEW tok \in Tokens, OnSubmission(r, tok)
  PROVE  OfferInv'
<1>1. /\ Alike /\ JLTypeOK /\ queue \in Queues /\ r \in Request /\ Plain(r) /\ judge(r, tok)
      /\ UNCHANGED <<judges, handlerVars, scan, cur, todo, db_disabled, timer>>
      /\ todo = {} /\ scan = None /\ pend = None /\ pend' \in {None, r}
  BY MenuAssumption DEF OnSubmission, judge, Admit, LockFree, OfferInv, Uniform, IInv, JLInv, JLTypeOK, Queues
<1>2. submission_map[r.id] # None => SameRunning(submission_map, r.id, tok)
  <2> SUFFICES ASSUME submission_map[r.id] # None PROVE SameRunning(submission_map, r.id, tok)
    OBVIOUS
  <2>1. r.id \in Subs /\ submission_map[r.id] \in Conns
    BY <1>1 DEF JLTypeOK, Request
  <2>2. working[submission_map[r.id]] = r.id
    BY <2>1 DEF JLMap, MapEntries
  <2>3. run_id[submission_map[r.id]] \in Tokens
    BY <2>1, <2>2, NoneFacts DEF SlotInv, RunsKnown
  <2> QED
    BY <2>3 DEF Uniform, OneToken, SameRunning
<1>3. queue' \in {queue, UnlinkId(r.id)}
  BY <1>1, <1>2 DEF judge, Admit
<1>4. \A p \in Priorities : \A x : Has(queue', p, x) => Has(queue, p, x)
  BY <1>1, <1>3, UnlinkIdHas
<1>5. Alike'
  BY <1>1, <1>4, Still_Alike DEF Alike, handlerVars
<1>6. Unoffered' = Unoffered /\ Leaving' = Leaving
  BY <1>1 DEF Unoffered, Idle, Enabled, Leaving, handlerVars
<1>7. HeldBack => HeldBack'
  BY <1>1, <1>4, <1>6, Fewer_HeldBack DEF handlerVars
<1> QED
  BY <1>1, <1>5, <1>7 DEF OfferInv


\* What changes only sockets.
LEMMA Sockets_Offer ==
  ASSUME Uniform, IInv, JLMap, OfferInv,
         UNCHANGED <<queue, judges, working, retry_request, problems, pend, scan, cur, todo, db_disabled, timer>>,
         \A h \in Conns : ~is_disabled'[h],
         \A c \in Conns : (conn'[c] # "off" => conn[c] # "off") /\ (conn[c] = "shut" => conn'[c] = "shut")
  PROVE  OfferInv'
<1>1. Alike /\ Alike'
  BY DEF OfferInv, Alike
<1>2. Unoffered' = Unoffered
  BY <1>1, Listed DEF Unoffered, Idle, Enabled
<1>3. HeldBack => HeldBack'
  BY <1>1, <1>2, More_Leaving, Fewer_HeldBack
<1> QED
  BY <1>1, <1>3 DEF OfferInv

LEMMA Handshake_Offer ==
  ASSUME Uniform, IInv, JLMap, OfferInv, NEW h \in Conns, Handshake(h)
  PROVE  OfferInv'
<1>1. PICK ps \in Inventories : register(h, ps)
  BY DEF Handshake
<1>2. /\ Alike /\ JLTypeOK /\ h \notin judges /\ conn[h] = "off" /\ judges' = judges \cup {h}
      /\ UNCHANGED <<queue, working, retry_request, is_disabled, pend, todo, db_disabled, timer>>
      /\ todo = {} /\ scan = None /\ pend = None /\ scan' = h /\ cur' = Start
  BY <1>1, Listed DEF Handshake, register, LockFree, OfferTo, OfferInv, IInv, JLInv
<1>3. \A c \in Conns : /\ problems'[c] = IF c = h THEN ps ELSE problems[c]
                       /\ c # h => (conn'[c] # "off" => conn[c] # "off")
                       /\ conn[c] = "shut" => conn'[c] = "shut"
  <2>1. \A c \in Conns : problems'[c] = IF c = h THEN ps ELSE problems[c]
    BY <1>1, <1>2 DEF register, JLTypeOK
  <2>2. \A c \in Conns : c # h => conn'[c] \in {conn[c], Shut(c)}
    BY <1>1 DEF register
  <2> QED
    BY <1>2, <2>1, <2>2 DEF Shut
<1>4. Alike'
  <2>1. IsFiniteSet(judges')
    BY <1>2, FS_AddElement DEF Alike
  <2> QED
    BY <1>2, <1>3, <2>1 DEF Alike
<1>5. Unoffered' = Unoffered
  BY <1>2, Listed DEF Unoffered, Idle, Enabled
<1>6. Cardinality(judges) > 1 => Cardinality(judges') > 1
  <2>1. Cardinality(judges') = Cardinality(judges) + 1
    BY <1>2, FS_AddElement DEF Alike
  <2>2. Cardinality(judges) \in Nat
    BY <1>2, Listed
  <2> QED
    BY <2>1, <2>2
<1>7. Leaving => Leaving'
  <2> SUFFICES ASSUME NEW c \in Conns, conn[c] = "shut", c \notin judges PROVE conn'[c] = "shut" /\ c \notin judges'
    BY DEF Leaving
  <2> QED
    BY <1>2, <1>3
<1>8. HeldBack => HeldBack'
  <2> SUFFICES ASSUME HeldBack, NEW g \in Unoffered', NEW p \in Priorities, NEW r, Has(queue, p, r), r.id \in problems'[g]
               PROVE  p >= REJUDGE_PRIORITY /\ Cardinality(Unoffered') <= 1 /\ (Cardinality(judges') > 1 \/ Leaving')
    BY <1>2 DEF HeldBack
  <2>1. g \in Conns /\ problems'[g] = problems[g]
    BY <1>2, <1>3, <1>5, Listed
  <2> QED
    BY <1>5, <1>6, <1>7, <2>1 DEF HeldBack
<1> QED
  BY <1>2, <1>4, <1>8 DEF OfferInv

LEMMA Disconnect_Offer ==
  ASSUME Uniform, IInv, JLMap, OfferInv, NEW h \in Conns, Disconnect(h)
  PROVE  OfferInv'
<1>1. /\ Alike /\ JLTypeOK /\ judges' = judges \ {h} /\ cur' \in {cur, Start} /\ pend = None /\ pend' = None
      /\ UNCHANGED <<queue, working, retry_request, is_disabled, problems, todo, db_disabled, timer>>
      /\ todo = {} /\ scan = None /\ conn[h] = "shut" /\ conn' = [conn EXCEPT ![h] = "left"]
  BY DEF Disconnect, remove, LockFree, OfferTo, workVars, OfferInv, IInv, JLInv
<1>2. Alike'
  BY <1>1, Finite_Alike, Still_Alike DEF Alike, JLTypeOK
\* A single idle judge is offered what was held back.
<1>3. CASE \E c \in judges' : judges' = {c} /\ working[c] = None
  <2>1. PICK c \in judges' : judges' = {c}
    BY <1>3
  <2>2. (CHOOSE x \in judges' : TRUE) = c
    BY <2>1
  <2>3. scan' = c
    BY <1>3, <2>2 DEF Disconnect, remove, OfferTo
  <2>4. HeldBack'
    BY <2>1, <2>3, Empty_HeldBack DEF Unoffered, Idle, Enabled
  <2> QED
    BY <1>2, <2>4 DEF OfferInv
<1>4. CASE ~\E c \in judges' : judges' = {c} /\ working[c] = None
  <2>1. scan' = None
    BY <1>1, <1>4 DEF Disconnect, remove, workVars
  <2>2. Unoffered' \subseteq Unoffered
    BY <1>1, <2>1 DEF Unoffered, Idle, Enabled
  <2>3. ASSUME NEW c \in Unoffered' PROVE Cardinality(judges') > 1
    <3>1. c \in judges' /\ working[c] = None
      BY <1>1 DEF Unoffered, Idle, Enabled
    <3>2. judges' # {c} /\ IsFiniteSet(judges')
      BY <1>1, <1>4, <3>1, Finite_Alike
    <3> QED
      BY <3>1, <3>2, OneOfMany
  <2>4. HeldBack => HeldBack'
    BY <1>1, <2>2, <2>3, Fewer_HeldBack
  <2> QED
    BY <1>1, <1>2, <2>4 DEF OfferInv
<1> QED
  BY <1>3, <1>4

LEMMA Discard_Offer ==
  ASSUME Uniform, IInv, JLMap, OfferInv, NEW h \in Conns, Discard(h)
  PROVE  OfferInv'
<1>1. /\ Alike /\ judges' = judges \ {h} /\ conn[h] = "shut"
      /\ UNCHANGED <<queue, handlerVars, pend, scan, cur, todo, db_disabled, timer>>
  BY DEF Discard, discard, lockVars, workVars, OfferInv
<1>2. Alike'
  BY <1>1, Finite_Alike DEF Alike, handlerVars
<1>3. Unoffered' \subseteq Unoffered /\ Leaving'
  BY <1>1 DEF Unoffered, Idle, Enabled, Leaving, handlerVars
<1>4. HeldBack => HeldBack'
  BY <1>1, <1>3, Fewer_HeldBack DEF handlerVars
<1> QED
  BY <1>1, <1>2, <1>4 DEF OfferInv

LEMMA Gone_Offer ==
  ASSUME Uniform, IInv, JLMap, OfferInv, NEW h \in Conns, Gone(h)
  PROVE  OfferInv'
<1>1. /\ Alike /\ JLTypeOK /\ UNCHANGED <<queue, judges, pend, scan, cur, todo, db_disabled, timer>>
      /\ conn[h] = "left" /\ h \notin judges
  BY DEF Gone, Forget, listVars, lockVars, workVars, OfferInv, IInv, JLInv, JLMap, ListLive, Live, LiveStates
<1>2. \A c \in Conns : /\ conn'[c] = IF c = h THEN "off" ELSE conn[c]
                       /\ working'[c] = IF c = h THEN None ELSE working[c]
                       /\ retry_request'[c] = IF c = h THEN None ELSE retry_request[c]
                       /\ is_disabled'[c] = IF c = h THEN FALSE ELSE is_disabled[c]
                       /\ problems'[c] = IF c = h THEN {} ELSE problems[c]
  <2>1. ~Mapped(h)
    BY <1>1 DEF Mapped, JLMap, GoneUnmapped
  <2> QED
    BY <1>1, <2>1 DEF Gone, Forget, JLTypeOK
<1>3. Alike'
  BY <1>1, <1>2 DEF Alike
<1>4. /\ Unoffered' = Unoffered /\ \A g \in Unoffered : g \in Conns /\ g # h
      /\ Leaving => Leaving'
  <2>1. \A g \in judges : g \in Conns /\ g # h
    BY <1>1, Listed
  <2>2. Idle' = Idle
    BY <1>1, <1>2, <2>1 DEF Idle, Enabled
  <2>3. Unoffered' = Unoffered /\ \A g \in Unoffered : g \in Conns /\ g # h
    BY <1>1, <2>1, <2>2 DEF Unoffered, Idle, Enabled
  <2>4. Leaving => Leaving'
    BY <1>1, <1>2 DEF Leaving
  <2> QED
    BY <2>3, <2>4
<1>5. HeldBack => HeldBack'
  <2> HIDE DEF Unoffered
  <2> QED
    BY <1>1, <1>2, <1>4 DEF HeldBack
<1> QED
  BY <1>1, <1>3, <1>5 DEF OfferInv

LEMMA RunEnds_Offer ==
  ASSUME Uniform, IInv, JLMap, OfferInv, NEW h \in Conns, RunEnds(h)
  PROVE  OfferInv'
<1>1. /\ Alike /\ JLTypeOK /\ on_judge_free(h, working[h]) /\ UNCHANGED <<db_disabled, timer>>
      /\ UNCHANGED <<queue, judges, conn, retry_request, is_disabled, problems, pend, todo>>
      /\ todo = {} /\ scan = None /\ pend = None
  BY DEF RunEnds, on_judge_free, LockFree, OfferTo, workVars, OfferInv, IInv, JLInv
<1>2. CASE working' = [working EXCEPT ![h] = None] /\ scan' = h /\ cur' = Start
  <2>1. \A c \in Conns : working'[c] = IF c = h THEN None ELSE working[c]
    BY <1>1, <1>2 DEF JLTypeOK
  <2>2. Alike'
    BY <1>1, <1>2, <2>1 DEF Alike
  <2>3. Unoffered' \subseteq Unoffered /\ Leaving' = Leaving
    BY <1>1, <1>2, <2>1, Listed DEF Unoffered, Idle, Enabled, Leaving
  <2>4. HeldBack => HeldBack'
    BY <1>1, <1>2, <2>3, Fewer_HeldBack
  <2> QED
    BY <1>1, <2>2, <2>4 DEF OfferInv
<1>3. CASE UNCHANGED <<working, scan, cur>>
  BY <1>1, <1>3, Sockets_Offer DEF Alike
<1> QED
  BY <1>1, <1>2, <1>3 DEF on_judge_free, OfferTo, workVars

\* A handler that is connected leaves a timer behind; one that is not was not listed.
LEMMA RunDeferred_Offer ==
  ASSUME Uniform, IInv, JLMap, OfferInv, NEW h \in Conns, RunDeferred(h)
  PROVE  OfferInv'
<1>1. PICK tok : defer(h, working[h], tok)
  BY DEF RunDeferred
<1>2. /\ Alike /\ JLTypeOK /\ UNCHANGED db_disabled /\ working[h] # None
      /\ UNCHANGED <<judges, conn, retry_request, is_disabled, problems, scan, cur, todo>>
      /\ todo = {} /\ scan = None /\ pend = None
      /\ queue' = queue /\ pend' \in {None, retry_request[h]}
      /\ working' \in {working, [working EXCEPT ![h] = None]}
      /\ timer' \/ (timer' = timer /\ h \notin judges)
  <2>1. /\ Alike /\ JLTypeOK /\ UNCHANGED db_disabled /\ working[h] # None
        /\ UNCHANGED <<judges, conn, retry_request, is_disabled, problems, scan, cur, todo>>
        /\ todo = {} /\ scan = None /\ pend = None
        /\ working' \in {working, [working EXCEPT ![h] = None]}
        /\ timer' \/ (timer' = timer /\ h \notin judges)
    BY <1>1 DEF RunDeferred, defer, LockFree, OfferInv, IInv, JLInv
  <2>2. retry_request[h].id = working[h] /\ working[h] \in Subs
    BY <2>1 DEF JLMap, RetrySame, JLTypeOK
  \* Its own request, which nobody works on any more.
  <2>3. CASE ~Queued(working[h]) /\ Admit(retry_request[h], tok, [submission_map EXCEPT ![working[h]] = None],
                                          [dispatch_ids EXCEPT ![working[h]] = None])
    <3>1. UnlinkId(retry_request[h].id) = queue /\ [submission_map EXCEPT ![working[h]] = None][working[h]] = None
      BY <2>1, <2>2, <2>3 DEF UnlinkId, JLTypeOK
    <3>2. queue' = queue /\ pend' \in {None, retry_request[h]}
      BY <2>1, <2>2, <2>3, <3>1 DEF Admit
    <3> QED
      BY <2>1, <3>2
  <2> QED
    BY <1>1, <2>1, <2>3 DEF defer
<1>3. \A c \in Conns : working'[c] \in {working[c], None} /\ (c # h => working'[c] = working[c])
  BY <1>2 DEF JLTypeOK
<1>4. Alike'
  BY <1>2, <1>3 DEF Alike
<1>5. CASE timer'
  BY <1>4, <1>5 DEF OfferInv
<1>6. CASE timer' = timer /\ h \notin judges
  <2>1. Unoffered' = Unoffered /\ Leaving' = Leaving
    BY <1>2, <1>3, <1>6, Listed DEF Unoffered, Idle, Enabled, Leaving
  <2>2. HeldBack => HeldBack'
    BY <1>2, <2>1, Fewer_HeldBack
  <2> QED
    BY <1>4, <1>6, <2>2 DEF OfferInv
<1> QED
  BY <1>2, <1>5, <1>6

LEMMA RetryQueued_Offer ==
  ASSUME Uniform, IInv, JLMap, OfferInv, RetryQueued
  PROVE  OfferInv'
<1>1. Alike /\ UNCHANGED <<queue, judges, handlerVars, pend, scan, cur, db_disabled>> /\ todo' = judges /\ pend = None
  BY DEF RetryQueued, retry_queued, LockFree, listVars, OfferInv
<1>2. Alike'
  BY <1>1 DEF Alike, handlerVars
<1>3. HeldBack'
  BY <1>1, Empty_HeldBack DEF Unoffered, Idle, Enabled
<1> QED
  BY <1>2, <1>3 DEF OfferInv

LEMMA Termination_Offer ==
  ASSUME Uniform, IInv, JLMap, OfferInv, NEW s \in Subs, Termination(s)
  PROVE  OfferInv'
<1>1. /\ Alike /\ queue \in Queues /\ queue' \in {queue, UnlinkId(s)}
      /\ UNCHANGED <<judges, handlerVars, pend, scan, cur, todo, db_disabled, timer>>
  BY DEF Termination, abort, lockVars, workVars, OfferInv, IInv, JLInv, JLTypeOK, Queues
<1>2. \A p \in Priorities : \A x : Has(queue', p, x) => Has(queue, p, x)
  BY <1>1, UnlinkIdHas
<1>3. Alike' /\ Unoffered' = Unoffered /\ Leaving' = Leaving
  BY <1>1, <1>2 DEF Alike, handlerVars, Unoffered, Idle, Enabled, Leaving
<1>4. HeldBack => HeldBack'
  BY <1>1, <1>2, <1>3, Fewer_HeldBack DEF handlerVars
<1> QED
  BY <1>1, <1>3, <1>4 DEF OfferInv


LEMMA ScanStep_Offer ==
  ASSUME Uniform, IInv, JLMap, OfferInv, ScanStep
  PROVE  OfferInv'
<1>1. UNCHANGED <<db_disabled, timer>>
  BY DEF ScanStep
<1> QED
  BY <1>1, OfferNothing_Offer, QueueNew_Offer, NextCandidate_Offer, OfferNode_Offer, DispatchNew_Offer DEF ScanStep

LEMMA Next_Offer ==
  ASSUME Uniform, IInv, JLMap, SlotInv, OfferInv, [Next]_vars
  PROVE  OfferInv'
<1>1. JLTypeOK /\ Alike
  BY DEF IInv, JLInv, OfferInv
<1>2. ASSUME NEW h \in Conns, Connected(h)
      PROVE  OfferInv'
  <2>1. /\ conn[h] = "new" /\ conn' = [conn EXCEPT ![h] = "up"]
        /\ is_disabled' = [is_disabled EXCEPT ![h] = FALSE]
    <3>1. db_disabled[NameOf[h]] = FALSE
      BY <1>1, NameOfAssumption DEF Alike, IInv, EnvTypeOK
    <3> QED
      BY <1>2, <3>1 DEF Connected, connected
  <2>2. \A c \in Conns : conn'[c] \in {conn[c], "up"} /\ (conn'[c] # conn[c] => conn[c] = "new") /\ ~is_disabled'[c]
    BY <1>1, <2>1 DEF JLTypeOK, Alike
  <2> QED
    BY <1>2, <2>2, Sockets_Offer DEF Connected, connected, listVars, lockVars, workVars
<1>3. ASSUME NEW h \in Conns, Lost(h)
      PROVE  OfferInv'
  <2>1. \A c \in Conns : conn'[c] \in {conn[c], "shut"} /\ (conn'[c] # conn[c] => conn[c] # "off")
    BY <1>1, <1>3 DEF Lost, ConnectionLost, JLTypeOK
  <2> QED
    BY <1>1, <1>3, <2>1, Sockets_Offer DEF Alike, Lost, ConnectionLost, listVars, lockVars, workVars
<1>4. ASSUME NEW n \in Names, DisconnectRequest(n)
      PROVE  OfferInv'
  <2>1. \A c \in Conns : conn'[c] \in {conn[c], Shut(c)}
    BY <1>1, <1>4 DEF DisconnectRequest, disconnect
  <2>2. \A c \in Conns : (conn'[c] # "off" => conn[c] # "off") /\ (conn[c] = "shut" => conn'[c] = "shut")
    BY <2>1 DEF Shut
  <2> QED
    BY <1>1, <1>4, <2>2, Sockets_Offer DEF Alike, DisconnectRequest, disconnect, listVars, lockVars, workVars
<1>5. CASE UNCHANGED vars
  BY <1>1, <1>5, Sockets_Offer DEF Alike, vars, jlVars, listVars, handlerVars, lockVars, workVars
\* Nobody reports problems again, and nobody is disabled.
<1>6. ~\E h \in Conns : SupportedProblems(h)
  BY DEF SupportedProblems, update_problems, JLMap, Uniform
<1>7. ~\E n \in Names : DisableJudge(n)
  BY DEF DisableJudge, Uniform
<1>8. ASSUME NEW h \in Conns,
             Handshake(h) \/ Connected(h) \/ Lost(h) \/ RunEnds(h) \/ RunDeferred(h) \/ Discard(h) \/ Disconnect(h) \/ Gone(h)
      PROVE  OfferInv'
  BY <1>2, <1>3, <1>8, Handshake_Offer, RunEnds_Offer, RunDeferred_Offer, Discard_Offer, Disconnect_Offer, Gone_Offer
<1> QED
  BY <1>4, <1>5, <1>6, <1>7, <1>8, OnSubmission_Offer, ScanStep_Offer, RetryQueued_Offer, Termination_Offer DEF Next

\* judge_list.py:144-145: when nothing is under way, no idle judge could take a queued
\* request that is not held back for a second idle judge, whichever judges came, went,
\* failed and were replaced, if judges and requests are alike and nothing is deferred
\* or rejudged while it runs.
THEOREM NoJudgeIsWasted ==
  ASSUME Uniform
  PROVE  Spec => []NoIdleJudgeWasted
<1>1. Init => OfferInv
  <2> SUFFICES ASSUME Init PROVE OfferInv
    OBVIOUS
  <2>1. Alike
    BY FS_EmptySet DEF Init, JLInit, Alike, Has
  <2>2. HeldBack
    BY DEF Init, JLInit, HeldBack, Has
  <2> QED
    BY <2>1, <2>2 DEF OfferInv
<1>2. OneToken /\ Updaters = {}
  BY DEF Uniform
<1>3. Spec => [](IInv /\ JLMap /\ SlotInv)
  <2>1. Init => JLMap
    BY JLInit_JLMap DEF Init
  <2>2. IInv /\ JLMap /\ [Next]_vars => JLMap'
    BY <1>2, Next_JLMap
  <2>3. Spec => [](IInv /\ SlotInv)
    BY <1>2, Spec_Slots
  <2> QED
    BY <2>1, <2>2, <2>3, PTL DEF Spec
<1>4. IInv /\ JLMap /\ SlotInv /\ OfferInv /\ [Next]_vars => OfferInv'
  BY Next_Offer
<1>5. IInv /\ JLMap /\ OfferInv => NoIdleJudgeWasted
  <2> SUFFICES ASSUME IInv, JLMap, OfferInv, Quiet, NEW n \in Nodes, NEW h \in Idle, Eligible(h, At(n))
               PROVE  Reserved(n[1])
    BY DEF NoIdleJudgeWasted
  <2>1. Alike /\ HeldBack /\ ~Leaving /\ todo = {} /\ scan = None
    BY DEF OfferInv, Quiet, LockFree, Leaving
  <2>2. Unoffered = Idle /\ Enabled = judges
    BY <2>1, Listed DEF Unoffered
  <2>3. n[1] \in Priorities /\ Has(queue, n[1], At(n))
    BY NodeFacts DEF IInv, JLInv, JLTypeOK, Queues, Has, At
  <2>4. n[1] >= REJUDGE_PRIORITY /\ Cardinality(Idle) <= 1 /\ Cardinality(judges) > 1
    BY <2>1, <2>2, <2>3 DEF HeldBack, Eligible, can_judge
  <2> QED
    BY <2>2, <2>4 DEF Reserved
<1> QED
  BY <1>1, <1>3, <1>4, <1>5, PTL DEF Spec
=============================================================================
