----------------------------- MODULE BridgeProofs -----------------------------
(***************************************************************************)
(* Theorems about Bridge for every set of connections, submissions and     *)
(* tokens.  The environment is left open where the code copes with it; a   *)
(* theorem that excludes some of it says so, and the runs that expect a    *)
(* violation show what happens there.                                      *)
(***************************************************************************)
EXTENDS Bridge, JudgeListProofs, SetLemmas

-----------------------------------------------------------------------------
(* abort_problem() takes requests out of the middle of the queue.            *)

\* The places of a set of indices in their order.
InOrderOf(f, S) ==
  /\ \A i, j \in DOMAIN f : i < j => f[i] < f[j]
  /\ \A i \in S : \E j \in DOMAIN f : f[j] = i

LEMMA PlacesExist ==
  ASSUME NEW L \in Nat, NEW K \in SUBSET (1 .. L)
  PROVE  \E f \in UNION {[1 .. n -> K] : n \in 0 .. L} : InOrderOf(f, K)
<1> DEFINE Upto(l) == {i \in K : i <= l}
           Good(l) == \E n \in 0 .. l : \E f \in [1 .. n -> Upto(l)] : InOrderOf(f, Upto(l))
           Bad == {l \in 0 .. L : ~Good(l)}
<1>0. \A i \in K : i \in Nat /\ 1 <= i /\ i <= L
  OBVIOUS
<1>1. SUFFICES Bad = {}
  <2>0. Upto(L) = K
    BY <1>0
  <2>1. Good(L)
    <3> HIDE DEF Good
    <3> QED
      OBVIOUS
  <2>2. PICK n \in 0 .. L : \E f \in [1 .. n -> K] : InOrderOf(f, K)
    <3> HIDE DEF Upto
    <3> QED
      BY <2>0, <2>1
  <2> QED
    BY <2>2
<1>2. SUFFICES ASSUME Bad # {} PROVE FALSE
  OBVIOUS
<1>3. PICK l \in Bad : \A m \in Bad : l <= m
  <2>1. Bad \in SUBSET Nat
    OBVIOUS
  <2> HIDE DEF Bad
  <2> QED
    BY <1>2, <2>1, LeastExists
<1>4. l # 0
  <2>1. Upto(0) = {}
    <3>1. \A i \in K : ~(i <= 0)
      BY <1>0
    <3> QED
      BY <3>1
  <2>2. ASSUME l = 0 PROVE Good(0)
    <3>1. [i \in 1 .. 0 |-> i] \in [1 .. 0 -> {}] /\ InOrderOf([i \in 1 .. 0 |-> i], {})
      BY DEF InOrderOf
    <3>2. \E f \in [1 .. 0 -> Upto(0)] : InOrderOf(f, Upto(0))
      <4> HIDE DEF Upto
      <4> QED
        BY <2>1, <3>1
    <3>3. 0 \in 0 .. 0
      OBVIOUS
    <3> HIDE DEF Upto
    <3> QED
      BY <3>2, <3>3
  <2> QED
    BY <1>3, <2>2
<1>5. l - 1 \in 0 .. L /\ l \in 1 .. L /\ Good(l - 1)
  <2>1. l \in 1 .. L /\ l - 1 \in 0 .. L /\ ~(l <= l - 1)
    BY <1>3, <1>4
  <2>2. l - 1 \notin Bad
    BY <1>3, <2>1
  <2> QED
    BY <2>1, <2>2
<1>6. PICK n \in 0 .. l - 1 : \E f \in [1 .. n -> Upto(l - 1)] : InOrderOf(f, Upto(l - 1))
  BY <1>5
<1>7. PICK f \in [1 .. n -> Upto(l - 1)] : InOrderOf(f, Upto(l - 1))
  BY <1>6
<1>8. Good(l)
  <2>1. CASE l \notin K
    <3>1. Upto(l) = Upto(l - 1) /\ n \in 0 .. l
      <4>1. \A i \in K : i <= l <=> i <= l - 1
        BY <2>1, <1>0, <1>5
      <4>2. Upto(l) = Upto(l - 1)
        BY <4>1
      <4> HIDE DEF Upto
      <4> QED
        BY <4>2, <1>5
    <3> HIDE DEF Upto
    <3> QED
      BY <3>1, <1>7
  <2>2. CASE l \in K
    <3> DEFINE g == [i \in 1 .. n + 1 |-> IF i = n + 1 THEN l ELSE f[i]]
    <3>1. Upto(l) = Upto(l - 1) \cup {l} /\ n + 1 \in 0 .. l /\ \A i \in Upto(l - 1) : i \in Nat /\ i < l
      <4>1. \A i \in K : i <= l <=> i <= l - 1 \/ i = l
        BY <1>0, <1>5
      <4>2. Upto(l) = Upto(l - 1) \cup {l}
        <5>1. \A i \in Upto(l) : i \in Upto(l - 1) \cup {l}
          BY <4>1
        <5>2. \A i \in Upto(l - 1) \cup {l} : i \in Upto(l)
          BY <2>2, <4>1
        <5> HIDE DEF Upto
        <5> QED
          BY <5>1, <5>2
      <4>3. \A i \in Upto(l - 1) : i \in Nat /\ i < l
        BY <1>0, <1>5
      <4> QED
        BY <4>2, <4>3, <1>5
    <3> HIDE DEF Upto
    <3>2. \A i \in 1 .. n + 1 : i = n + 1 \/ i \in 1 .. n
      BY <1>6
    <3>3. g \in [1 .. n + 1 -> Upto(l)]
      BY <3>1, <3>2, <1>7
    <3>4. \A i, j \in 1 .. n + 1 : i < j => g[i] < g[j]
      <4> SUFFICES ASSUME NEW i \in 1 .. n + 1, NEW j \in 1 .. n + 1, i < j PROVE g[i] < g[j]
        OBVIOUS
      <4>1. i \in 1 .. n /\ g[i] = f[i]
        BY <1>6
      <4>2. CASE j = n + 1
        BY <4>1, <4>2, <3>1, <1>7
      <4>3. CASE j \in 1 .. n
        <5>1. g[j] = f[j] /\ f[i] < f[j]
          BY <4>1, <4>3, <1>6, <1>7 DEF InOrderOf
        <5> QED
          BY <4>1, <5>1
      <4> QED
        BY <4>2, <4>3, <3>2
    <3>5. \A i \in Upto(l) : \E j \in 1 .. n + 1 : g[j] = i
      <4>1. ASSUME NEW i \in Upto(l - 1) PROVE \E j \in 1 .. n + 1 : g[j] = i
        <5>1. PICK j \in 1 .. n : f[j] = i
          BY <1>7 DEF InOrderOf
        <5>2. j \in 1 .. n + 1 /\ g[j] = i
          BY <5>1, <1>6
        <5> QED
          BY <5>2
      <4>2. n + 1 \in 1 .. n + 1 /\ g[n + 1] = l
        BY <1>6
      <4> QED
        BY <4>1, <4>2, <3>1
    <3>6. DOMAIN g = 1 .. n + 1
      OBVIOUS
    <3> HIDE DEF g
    <3>7. InOrderOf(g, Upto(l))
      BY <3>4, <3>5, <3>6 DEF InOrderOf
    <3> QED
      BY <3>1, <3>3, <3>7
  <2> QED
    BY <2>1, <2>2
<1> QED
  BY <1>3, <1>8

\* The requests of v are those of q that are not for ids, request j of v being number f[j] of q.
ComesFrom(v, q, ids, f) ==
  /\ \A j \in 1 .. Len(v) : f[j] \in 1 .. Len(q) /\ q[f[j]].id \notin ids /\ v[j] = q[f[j]]
  /\ \A i, j \in 1 .. Len(v) : f[i] = f[j] => i = j
  /\ \A i \in 1 .. Len(q) : q[i].id \notin ids => \E j \in 1 .. Len(v) : f[j] = i

LEMMA WithoutFacts ==
  ASSUME NEW S, NEW q \in Seq(S), NEW ids
  PROVE  /\ Without(q, ids) \in Seq(S)
         /\ \E f : ComesFrom(Without(q, ids), q, ids, f)
<1> DEFINE kept == {i \in 1 .. Len(q) : q[i].id \notin ids}
           Places == UNION {[1 .. n -> kept] : n \in 0 .. Len(q)}
           f == CHOOSE g \in Places : InOrderOf(g, kept)
           w == [j \in DOMAIN f |-> q[f[j]]]
<1>1. Len(q) \in Nat /\ \A i \in 1 .. Len(q) : q[i] \in S
  BY LenProperties, ElementOfSeq
<1>2. f \in Places /\ InOrderOf(f, kept)
  <2>1. \E g \in Places : InOrderOf(g, kept)
    BY <1>1, PlacesExist
  <2> HIDE DEF Places, kept
  <2> QED
    BY <2>1
<1>3. Without(q, ids) = w
  BY DEF Without, InOrderOf
<1> HIDE DEF f
<1>4. PICK n \in 0 .. Len(q) : f \in [1 .. n -> kept]
  BY <1>2
<1>5. n \in Nat /\ DOMAIN f = 1 .. n
  BY <1>1, <1>4
<1>6. w \in [1 .. n -> S]
  BY <1>1, <1>4, <1>5
<1>7. w \in Seq(S) /\ Len(w) = n
  BY <1>5, <1>6, IsASeq, LenProperties
<1>8. \A j \in 1 .. n : f[j] \in 1 .. Len(q) /\ q[f[j]].id \notin ids /\ w[j] = q[f[j]]
  BY <1>4, <1>5
<1>9. \A i, j \in 1 .. n : f[i] = f[j] => i = j
  <2> SUFFICES ASSUME NEW i \in 1 .. n, NEW j \in 1 .. n, f[i] = f[j], i # j PROVE FALSE
    OBVIOUS
  <2>1. f[i] \in Int /\ f[j] \in Int
    <3>1. f[i] \in 1 .. Len(q) /\ f[j] \in 1 .. Len(q)
      BY <1>8
    <3>2. \A x \in 1 .. Len(q) : x \in Int
      BY <1>1
    <3> QED
      BY <3>1, <3>2
  <2>2. i < j \/ j < i
    BY <1>5
  <2>3. i \in DOMAIN f /\ j \in DOMAIN f /\ \A a, b \in DOMAIN f : a < b => f[a] < f[b]
    BY <1>2, <1>5 DEF InOrderOf
  <2> HIDE DEF w, kept, Places
  <2>4. f[i] < f[j] \/ f[j] < f[i]
    BY <2>2, <2>3
  <2> QED
    BY <2>1, <2>4
<1>10. \A i \in 1 .. Len(q) : q[i].id \notin ids => \E j \in 1 .. n : f[j] = i
  BY <1>2, <1>5 DEF InOrderOf
<1> HIDE DEF w
<1>11. ComesFrom(w, q, ids, f)
  BY <1>7, <1>8, <1>9, <1>10 DEF ComesFrom
<1> QED
  BY <1>3, <1>7, <1>11

LEMMA DropFacts ==
  ASSUME queue \in Queues, NEW ids
  PROVE  /\ DropQueued(ids) \in Queues
         /\ \A id : HasId(DropQueued(ids), id) <=> HasId(queue, id) /\ id \notin ids
         /\ UniqueIds(queue) => UniqueIds(DropQueued(ids))
<1> DEFINE d == DropQueued(ids)
<1>1. \A p \in Priorities : queue[p] \in Seq(Request) /\ d[p] = Without(queue[p], ids)
  BY DEF Queues, DropQueued
<1>2. d \in Queues
  BY <1>1, WithoutFacts DEF Queues, DropQueued
<1> HIDE DEF d
<1>3. ASSUME NEW p \in Priorities
      PROVE  \E f : ComesFrom(d[p], queue[p], ids, f)
  <2>1. queue[p] \in Seq(Request) /\ d[p] = Without(queue[p], ids)
    BY <1>1
  <2> QED
    BY <2>1, WithoutFacts
<1> DEFINE F == [p \in Priorities |-> CHOOSE f : ComesFrom(d[p], queue[p], ids, f)]
<1>4. \A p \in Priorities : ComesFrom(d[p], queue[p], ids, F[p])
  BY <1>3
<1> HIDE DEF F
<1>5. ASSUME NEW id, HasId(d, id)
      PROVE  HasId(queue, id) /\ id \notin ids
  <2>0. PICK p \in Priorities : \E j \in 1 .. Len(d[p]) : d[p][j].id = id
    BY <1>5 DEF HasId
  <2>1. PICK j \in 1 .. Len(d[p]) : d[p][j].id = id
    BY <2>0
  <2> QED
    BY <2>1, <1>4 DEF HasId, ComesFrom
<1>6. ASSUME NEW id, HasId(queue, id), id \notin ids
      PROVE  HasId(d, id)
  <2>0. PICK p \in Priorities : \E i \in 1 .. Len(queue[p]) : queue[p][i].id = id
    BY <1>6 DEF HasId
  <2>1. PICK i \in 1 .. Len(queue[p]) : queue[p][i].id = id
    BY <2>0
  <2>2. PICK j \in 1 .. Len(d[p]) : F[p][j] = i
    BY <2>1, <1>4, <1>6 DEF ComesFrom
  <2>3. d[p][j].id = id
    BY <2>1, <2>2, <1>4 DEF ComesFrom
  <2> QED
    BY <2>3 DEF HasId
<1>7. ASSUME UniqueIds(queue)
      PROVE  UniqueIds(d)
  <2> SUFFICES ASSUME NEW p1 \in Priorities, NEW p2 \in Priorities,
                      NEW i \in 1 .. Len(d[p1]), NEW j \in 1 .. Len(d[p2]), d[p1][i].id = d[p2][j].id
               PROVE  p1 = p2 /\ i = j
    BY DEF UniqueIds
  <2>1. /\ F[p1][i] \in 1 .. Len(queue[p1]) /\ d[p1][i] = queue[p1][F[p1][i]]
        /\ F[p2][j] \in 1 .. Len(queue[p2]) /\ d[p2][j] = queue[p2][F[p2][j]]
    BY <1>4 DEF ComesFrom
  <2> DEFINE x == F[p1][i]
             y == F[p2][j]
  <2>3. x \in 1 .. Len(queue[p1]) /\ y \in 1 .. Len(queue[p2]) /\ queue[p1][x].id = queue[p2][y].id
    BY <2>1
  <2>2. p1 = p2 /\ x = y
    <3> HIDE DEF x, y
    <3> QED
      BY <2>3, <1>7 DEF UniqueIds
  <2> QED
    BY <2>2, <1>4 DEF ComesFrom
<1> QED
  BY <1>2, <1>5, <1>6, <1>7 DEF d

-----------------------------------------------------------------------------
(* What the methods of JudgeList do to the runs: which submissions wait for a judge, the run the
   scheduler expects for each, the holder in submission_map and the run each handler works on. *)

\* The request of s is in the queue, or judge() has yet to place it.
Waits(s) == HasId(queue, s) \/ (pend # None /\ pend.id = s)

\* A socket opens, comes into use, or is shut.
ConnStep ==
  \A h \in Conns : \/ conn'[h] = conn[h]
                   \/ conn[h] = "off" /\ conn'[h] = "new"
                   \/ conn[h] \in {"new", "up"} /\ conn'[h] \in {"up", "shut"}

\* The holder of the lock walks, queues or waits: no run moves.
Quiet ==
  /\ \A x \in Subs : Waits(x)' <=> Waits(x)
  /\ dispatch_ids' = dispatch_ids /\ submission_map' = submission_map
  /\ working' = working /\ run_id' = run_id /\ retry_request' = retry_request
  /\ ConnStep

LEMMA QuietQueue ==
  ASSUME JLTypeOK, queue' = queue, pend' = pend, dispatch_ids' = dispatch_ids, submission_map' = submission_map,
         working' = working, run_id' = run_id, retry_request' = retry_request,
         \/ conn' = conn
         \/ ConnStep
  PROVE  Quiet
  BY DEF Quiet, Waits, ConnStep

LEMMA QuietMethods ==
  ASSUME JLInv,
         \/ OfferNothing
         \/ retry_queued
         \/ \E h \in Conns : \/ NextCandidate(h) \/ update_problems(h) \/ discard(h) \/ ConnectionLost(h)
                             \/ connected(h, FALSE) \/ register(h, Subs) \/ on_supported_problems(h, problems[h])
  PROVE  Quiet
<1>1. JLTypeOK
  BY DEF JLInv
<1>2. CASE OfferNothing
  BY <1>1, <1>2, QuietQueue DEF OfferNothing, listVars, handlerVars
<1>3. CASE retry_queued
  BY <1>1, <1>3, QuietQueue DEF retry_queued, listVars, handlerVars
<1>4. ASSUME NEW h \in Conns, NextCandidate(h) PROVE Quiet
  BY <1>1, <1>4, QuietQueue DEF NextCandidate, listVars, handlerVars
<1>5. ASSUME NEW h \in Conns, update_problems(h) PROVE Quiet
  BY <1>1, <1>5, QuietQueue DEF update_problems, OfferTo, listVars
<1>6. ASSUME NEW h \in Conns, discard(h) PROVE Quiet
  BY <1>1, <1>6, QuietQueue DEF discard, handlerVars, lockVars, workVars
<1>7. ASSUME NEW h \in Conns, ConnectionLost(h) PROVE Quiet
  <2>1. ConnStep
    BY <1>1, <1>7 DEF ConnStep, ConnectionLost, JLTypeOK
  <2> QED
    BY <1>1, <1>7, <2>1, QuietQueue DEF ConnectionLost, listVars, lockVars, workVars
<1>8. ASSUME NEW h \in Conns, connected(h, FALSE) PROVE Quiet
  <2>1. ConnStep
    BY <1>1, <1>8 DEF ConnStep, connected, JLTypeOK
  <2> QED
    BY <1>1, <1>8, <2>1, QuietQueue DEF connected, listVars, lockVars, workVars
<1>9. ASSUME NEW h \in Conns, register(h, Subs) PROVE Quiet
  <2>1. ConnStep
    BY <1>1, <1>9 DEF ConnStep, register, Shut, JLTypeOK
  <2> QED
    BY <1>1, <1>9, <2>1, QuietQueue DEF register, OfferTo
<1>10. ASSUME NEW h \in Conns, on_supported_problems(h, problems[h]) PROVE Quiet
  BY <1>1, <1>10, QuietQueue DEF on_supported_problems, listVars, lockVars, workVars
<1> QED
  BY <1>2, <1>3, <1>4, <1>5, <1>6, <1>7, <1>8, <1>9, <1>10

\* judge() found no judge for the request: it waits in the queue instead.
LEMMA QueueNew_Quiet ==
  ASSUME JLInv, QueueNew
  PROVE  Quiet
<1>1. pend \in Request /\ pend # None /\ pend' = None /\ queue' = Link(queue, pend) /\ queue \in Queues
  BY DEF QueueNew, JLInv, JLTypeOK, Queues
<1>2. \A x \in Subs : Waits(x)' <=> Waits(x)
  BY <1>1, LinkFacts DEF Waits
<1> QED
  BY <1>2 DEF Quiet, ConnStep, QueueNew, handlerVars

\* JudgeHandler.submit() answered `out' when the run tok of s was offered to h.
Offered(h, s, out, tok) ==
  /\ Waits(s)
  /\ \A x \in Subs : Waits(x)' <=> Waits(x) /\ (x = s => out \in {"deferred", "unready", "failed"})
  /\ submission_map' = [submission_map EXCEPT ![s] = IF out = "ok" THEN h ELSE None]
  /\ dispatch_ids' = IF out = "invalid" THEN [dispatch_ids EXCEPT ![s] = None] ELSE dispatch_ids
  /\ working' = IF out = "ok" THEN [working EXCEPT ![h] = s]
                ELSE IF out = "failed" THEN [working EXCEPT ![h] = None] ELSE working
  /\ run_id' = IF out \in {"ok", "unready", "failed"} THEN [run_id EXCEPT ![h] = tok] ELSE run_id
  /\ \E r \in Request : r.id = s /\ retry_request' = [retry_request EXCEPT ![h] = r]
  /\ conn' = IF out = "failed" THEN [conn EXCEPT ![h] = Shut(h)] ELSE conn

LEMMA OfferNode_Offered ==
  ASSUME JLInv, NEW n \in Nodes, NEW out \in Outcomes, NEW tok, OfferNode(n, out, tok)
  PROVE  /\ scan \in Conns /\ At(n).id \in Subs /\ Offered(scan, At(n).id, out, tok)
         /\ JLMap => Live(scan) /\ working[scan] = None
<1> DEFINE r == At(n)
           s == At(n).id
<1>1. /\ queue \in Queues /\ r \in Request /\ s \in Subs /\ scan \in Conns
      /\ n[1] \in Priorities /\ n[2] \in 1 .. Len(queue[n[1]])
  <2>1. queue \in Queues /\ scan \in Conns
    BY DEF JLInv, JLTypeOK, Queues, OfferNode
  <2>2. n[1] \in Priorities /\ n[2] \in 1 .. Len(queue[n[1]]) /\ r \in Request
    BY <2>1, NodeFacts
  <2> QED
    BY <2>1, <2>2 DEF Request
<1>2. HasId(queue, s) /\ pend' = pend /\ (pend # None => pend.id # s)
  <2>1. HasId(queue, s)
    BY <1>1 DEF HasId, At
  <2> QED
    BY <2>1 DEF JLInv, JLUnique, OfferNode
<1>3. \A x : HasId(Unlink(n), x) <=> HasId(queue, x) /\ x # s
  BY <1>1, UnlinkNode DEF JLInv, JLUnique
<1>4. \A x \in Subs : Waits(x)' <=> Waits(x) /\ (x = s => out \in {"deferred", "unready", "failed"})
  <2>1. CASE out \in {"deferred", "unready", "failed"}
    <3>1. queue' = queue
      BY <2>1 DEF OfferNode
    <3> QED
      BY <3>1, <2>1, <1>2 DEF Waits
  <2>2. CASE out \notin {"deferred", "unready", "failed"}
    <3>1. queue' = Unlink(n)
      BY <2>2 DEF OfferNode
    <3> QED
      BY <3>1, <2>2, <1>2, <1>3 DEF Waits
  <2> QED
    BY <2>1, <2>2
<1>5. JLMap => Live(scan) /\ working[scan] = None
  BY DEF OfferNode, JLMap, ScanIdle
<1>6. /\ submission_map' = [submission_map EXCEPT ![s] = IF out = "ok" THEN scan ELSE None]
      /\ dispatch_ids' = IF out = "invalid" THEN [dispatch_ids EXCEPT ![s] = None] ELSE dispatch_ids
      /\ working' = IF out = "ok" THEN [working EXCEPT ![scan] = s]
                    ELSE IF out = "failed" THEN [working EXCEPT ![scan] = None] ELSE working
      /\ run_id' = IF out \in {"ok", "unready", "failed"} THEN [run_id EXCEPT ![scan] = tok] ELSE run_id
      /\ retry_request' = [retry_request EXCEPT ![scan] = r]
      /\ conn' = IF out = "failed" THEN [conn EXCEPT ![scan] = Shut(scan)] ELSE conn
  BY DEF OfferNode, Assign, Refuse, DropFailed, Outcomes
<1>7. Offered(scan, s, out, tok)
  BY <1>1, <1>2, <1>4, <1>6 DEF Offered, Waits
<1> QED
  BY <1>1, <1>5, <1>7

LEMMA DispatchNew_Offered ==
  ASSUME JLInv, NEW h \in judges, NEW out \in Outcomes, NEW tok, DispatchNew(h, out, tok)
  PROVE  /\ h \in Conns /\ pend.id \in Subs /\ Offered(h, pend.id, out, tok)
         /\ working[h] = None
         /\ JLMap => Live(h)
<1> DEFINE s == pend.id
<1>1. /\ queue \in Queues /\ pend \in Request /\ pend # None /\ s \in Subs /\ h \in Conns
      /\ ~HasId(queue, s)
  BY DEF JLInv, JLTypeOK, JLUnique, Queues, DispatchNew, Request
<1>2. \A x \in Subs : Waits(x)' <=> Waits(x) /\ (x = s => out \in {"deferred", "unready", "failed"})
  <2>1. CASE out \in {"deferred", "unready"}
    <3>1. queue' = Link(queue, pend) /\ pend' = None
      BY <2>1 DEF DispatchNew
    <3> QED
      BY <3>1, <2>1, <1>1, LinkFacts DEF Waits
  <2>2. CASE out = "failed"
    <3>1. queue' = queue /\ pend' = pend
      BY <2>2 DEF DispatchNew
    <3> QED
      BY <3>1, <2>2, <1>1 DEF Waits
  <2>3. CASE out \notin {"deferred", "unready", "failed"}
    <3>1. queue' = queue /\ pend' = None
      BY <2>3 DEF DispatchNew
    <3> QED
      BY <3>1, <2>3, <1>1 DEF Waits
  <2> QED
    BY <2>1, <2>2, <2>3
<1>3. working[h] = None
  BY DEF DispatchNew, Available
<1>4. JLMap => Live(h)
  BY DEF JLMap, ListLive
<1>5. /\ submission_map' = [submission_map EXCEPT ![s] = IF out = "ok" THEN h ELSE None]
      /\ dispatch_ids' = IF out = "invalid" THEN [dispatch_ids EXCEPT ![s] = None] ELSE dispatch_ids
      /\ working' = IF out = "ok" THEN [working EXCEPT ![h] = s]
                    ELSE IF out = "failed" THEN [working EXCEPT ![h] = None] ELSE working
      /\ run_id' = IF out \in {"ok", "unready", "failed"} THEN [run_id EXCEPT ![h] = tok] ELSE run_id
      /\ retry_request' = [retry_request EXCEPT ![h] = pend]
      /\ conn' = IF out = "failed" THEN [conn EXCEPT ![h] = Shut(h)] ELSE conn
  BY DEF DispatchNew, Assign, Refuse, DropFailed, Outcomes
<1>6. Offered(h, s, out, tok)
  BY <1>1, <1>2, <1>5 DEF Offered, Waits
<1> QED
  BY <1>1, <1>3, <1>4, <1>6

\* judge(): the request of the run tok of s was known already, is being judged, or is the new one.
Known(s, tok) ==
  /\ Waits(s) /\ dispatch_ids[s] = tok
  /\ \A x \in Subs : Waits(x)' <=> Waits(x)
  /\ dispatch_ids' = dispatch_ids
BeingJudged(s, tok) ==
  /\ submission_map[s] # None /\ run_id[submission_map[s]] = tok
  /\ \A x \in Subs : Waits(x)' <=> Waits(x) /\ x # s
  /\ dispatch_ids' = dispatch_ids
Accepted(s, tok) ==
  /\ ~(submission_map[s] # None /\ run_id[submission_map[s]] = tok)
  /\ \A x \in Subs : Waits(x)' <=> Waits(x) \/ x = s
  /\ dispatch_ids' = [dispatch_ids EXCEPT ![s] = tok]

LEMMA judge_Facts ==
  ASSUME JLInv, NEW r \in Request, NEW tok \in Tokens, judge(r, tok)
  PROVE  /\ Known(r.id, tok) \/ BeingJudged(r.id, tok) \/ Accepted(r.id, tok)
         /\ submission_map' = submission_map /\ working' = working /\ run_id' = run_id /\ conn' = conn
         /\ retry_request' = retry_request
<1> DEFINE s == r.id
           u == UnlinkId(s)
           queued == SameQueued(dispatch_ids, s, tok)
           running == SameRunning(submission_map, s, tok)
<1>1. queue \in Queues /\ pend = None /\ r # None /\ s \in Subs
  BY NoneAssumption DEF JLInv, JLTypeOK, Queues, Request, judge, LockFree
<1>2. u \in Queues /\ \A x : HasId(u, x) <=> HasId(queue, x) /\ x # s
  BY <1>1, UnlinkIdFacts DEF JLInv, JLUnique
<1>3. HasId(queue, s) <=> Queued(s)
  BY QueuedHasId
<1> HIDE DEF u
<1>4. CASE queued
  <2>1. Known(s, tok)
    BY <1>1, <1>3, <1>4 DEF judge, Admit, Known, Waits, SameQueued
  <2> QED
    BY <2>1 DEF judge, handlerVars
<1>5. CASE ~queued /\ running
  <2>1. queue' = u /\ pend' = pend /\ dispatch_ids' = dispatch_ids
    BY <1>5 DEF judge, Admit, u, SameRunning
  <2>2. BeingJudged(s, tok)
    BY <1>1, <1>2, <1>5, <2>1 DEF BeingJudged, Waits, SameRunning
  <2> QED
    BY <2>2 DEF judge, handlerVars
<1>6. CASE ~queued /\ ~running
  <2>1. /\ dispatch_ids' = [dispatch_ids EXCEPT ![s] = tok]
        /\ (queue' = Link(u, r) /\ pend' = pend) \/ (queue' = u /\ pend' = r)
    BY <1>6 DEF judge, Admit, u, SameRunning
  <2>2. \A x \in Subs : Waits(x)' <=> Waits(x) \/ x = s
    <3>1. CASE queue' = Link(u, r) /\ pend' = pend
      BY <3>1, <1>1, <1>2, LinkFacts DEF Waits
    <3>2. CASE queue' = u /\ pend' = r
      BY <3>2, <1>1, <1>2 DEF Waits
    <3> QED
      BY <3>1, <3>2, <2>1
  <2>3. Accepted(s, tok)
    BY <2>1, <2>2, <1>6 DEF Accepted, SameRunning
  <2> QED
    BY <2>3 DEF judge, handlerVars
<1> QED
  BY <1>4, <1>5, <1>6

\* The requests for ids are taken out of the queue; nobody holds these submissions.
Dropped(ids) ==
  /\ \A x \in ids : submission_map[x] = None
  /\ \A x \in Subs : Waits(x)' <=> Waits(x) /\ x \notin ids
  /\ \A x \in Subs : dispatch_ids'[x] = IF x \in ids THEN None ELSE dispatch_ids[x]
  /\ dispatch_ids' \in [Subs -> Tokens \cup {None}]

LEMMA abort_Facts ==
  ASSUME JLInv, NEW s \in Subs, abort(s)
  PROVE  /\ \E ids \in SUBSET {s} : Dropped(ids)
         /\ submission_map' = submission_map /\ working' = working /\ run_id' = run_id /\ conn' = conn
         /\ retry_request' = retry_request
<1>1. /\ queue \in Queues /\ pend = None /\ pend' = None
      /\ dispatch_ids \in [Subs -> Tokens \cup {None}]
      /\ UniqueIds(queue)
      /\ HasId(queue, s) <=> Queued(s)
  BY QueuedHasId DEF JLInv, JLTypeOK, JLUnique, Queues, abort, LockFree, lockVars, workVars
<1>2. CASE submission_map[s] = None /\ Queued(s)
  <2>1. queue' = UnlinkId(s) /\ dispatch_ids' = [dispatch_ids EXCEPT ![s] = None]
    BY <1>2 DEF abort
  <2>2. \A x \in Subs : Waits(x)' <=> Waits(x) /\ x \notin {s}
    BY <1>1, <2>1, UnlinkIdFacts DEF Waits
  <2>3. Dropped({s})
    BY <1>1, <1>2, <2>1, <2>2 DEF Dropped
  <2> QED
    BY <2>3 DEF abort, handlerVars
<1>3. CASE ~(submission_map[s] = None /\ Queued(s))
  <2>1. queue' = queue /\ dispatch_ids' = dispatch_ids
    BY <1>3 DEF abort
  <2>2. Dropped({})
    BY <1>1, <2>1 DEF Dropped, Waits
  <2> QED
    BY <2>2 DEF abort, handlerVars
<1> QED
  BY <1>2, <1>3

\* abort_problem() found ids without a holder.
LEMMA DropQueued_Facts ==
  ASSUME JLInv, NEW ids \in SUBSET Subs, \A x \in ids : submission_map[x] = None,
         LockFree, queue' = DropQueued(ids), lockVars' = lockVars,
         dispatch_ids' = [x \in Subs |-> IF x \in ids THEN None ELSE dispatch_ids[x]]
  PROVE  Dropped(ids)
<1>1. queue \in Queues /\ pend = None /\ pend' = None /\ dispatch_ids \in [Subs -> Tokens \cup {None}]
  BY DEF JLInv, JLTypeOK, Queues, LockFree, lockVars, workVars
<1>2. \A x \in Subs : Waits(x)' <=> Waits(x) /\ x \notin ids
  BY <1>1, DropFacts DEF Waits
<1> QED
  BY <1>1, <1>2 DEF Dropped

LEMMA DropQueued_JLInv ==
  ASSUME JLInv, NEW ids \in SUBSET Subs, LockFree, queue' = DropQueued(ids),
         dispatch_ids' = [x \in Subs |-> IF x \in ids THEN None ELSE dispatch_ids[x]],
         UNCHANGED <<judges, submission_map, handlerVars, lockVars>>
  PROVE  JLInv'
<1>1. queue \in Queues /\ UniqueIds(queue) /\ pend = None /\ pend' = None
  BY DEF JLInv, JLTypeOK, JLUnique, Queues, LockFree, lockVars, workVars
<1>2. queue' \in Queues /\ UniqueIds(queue')
  BY <1>1, DropFacts
<1>3. JLTypeOK'
  BY <1>2 DEF JLInv, JLTypeOK, Queues, handlerVars, lockVars, workVars
<1>4. JLUnique'
  BY <1>1, <1>2 DEF JLUnique
<1>5. RetryKept'
  BY DEF JLInv, RetryKept, handlerVars
<1> QED
  BY <1>3, <1>4, <1>5 DEF JLInv

\* The end of the run of s on h: on_judge_free() and defer() act only for the holder.
Freed(h, s) ==
  /\ submission_map' = [submission_map EXCEPT ![s] = None]
  /\ working' = [working EXCEPT ![h] = None] /\ retry_request' = retry_request
  /\ dispatch_ids' = IF Waits(s) THEN dispatch_ids ELSE [dispatch_ids EXCEPT ![s] = None]
  /\ \A x \in Subs : Waits(x)' <=> Waits(x)
PutBackAs(h, s, tok) ==
  /\ submission_map' = [submission_map EXCEPT ![s] = None]
  /\ working' = [working EXCEPT ![h] = None] /\ retry_request' = retry_request
  /\ dispatch_ids' = [dispatch_ids EXCEPT ![s] = IF Waits(s) THEN None ELSE tok]
  /\ \A x \in Subs : Waits(x)' <=> Waits(x) \/ x = s

LEMMA on_judge_free_Facts ==
  ASSUME JLInv, NEW h \in Conns, NEW s \in Subs, on_judge_free(h, s)
  PROVE  /\ run_id' = run_id /\ conn' = conn
         /\ IF Holds(h, s) THEN Freed(h, s) ELSE Quiet
<1>1. HasId(queue, s) <=> Queued(s)
  BY QueuedHasId
<1>2. queue' = queue /\ pend = None /\ pend' = None /\ run_id' = run_id /\ conn' = conn
  BY DEF on_judge_free, LockFree, OfferTo, workVars
<1>3. \A x \in Subs : Waits(x)' <=> Waits(x)
  BY <1>2 DEF Waits
<1>4. CASE Holds(h, s)
  BY <1>1, <1>2, <1>3, <1>4 DEF on_judge_free, Freed, Waits
<1>5. CASE ~Holds(h, s)
  BY <1>2, <1>3, <1>5 DEF on_judge_free, Quiet, ConnStep
<1> QED
  BY <1>2, <1>4, <1>5

LEMMA defer_Facts ==
  ASSUME JLInv, RetrySame, NEW h \in Conns, NEW s \in Subs, NEW tok \in Tokens, defer(h, s, tok)
  PROVE  /\ run_id' = run_id /\ conn' = conn
         /\ IF Holds(h, s) THEN PutBackAs(h, s, tok) ELSE Quiet
<1>1. HasId(queue, s) <=> Queued(s)
  BY QueuedHasId
<1>2. /\ queue \in Queues /\ pend = None /\ submission_map \in [Subs -> Conns \cup {None}]
      /\ dispatch_ids \in [Subs -> Tokens \cup {None}]
      /\ run_id' = run_id /\ conn' = conn /\ retry_request' = retry_request
  BY DEF defer, LockFree, JLInv, JLTypeOK, Queues
<1>3. CASE Holds(h, s)
  <2>1. retry_request[h] # None /\ retry_request[h].id = s
    BY <1>3, NoneAssumption DEF RetrySame, Holds
  <2>2. CASE Queued(s)
    BY <1>1, <1>2, <1>3, <2>2 DEF defer, PutBackAs, Waits
  <2>3. CASE ~Queued(s)
    <3>1. /\ Admit(retry_request[h], tok, [submission_map EXCEPT ![s] = None], [dispatch_ids EXCEPT ![s] = None])
          /\ submission_map' = [submission_map EXCEPT ![s] = None]
          /\ working' = [working EXCEPT ![h] = None]
      BY <1>3, <2>3 DEF defer
    <3> DEFINE r == retry_request[h]
               map == [submission_map EXCEPT ![s] = None]
               ids == [dispatch_ids EXCEPT ![s] = None]
    <3>2. map[s] = None /\ r.id = s /\ ids \in [Subs -> Tokens \cup {None}] /\ [ids EXCEPT ![s] = tok] = [dispatch_ids EXCEPT ![s] = tok]
      BY <1>2, <2>1
    <3>3. Admit(r, tok, map, ids)
      BY <3>1
    <3> HIDE DEF r, map, ids
    <3>4. queue' = queue /\ pend' = r /\ dispatch_ids' = [ids EXCEPT ![s] = tok]
      BY <2>3, <3>2, <3>3 DEF Admit, SameQueued, SameRunning, UnlinkId
    <3>5. \A x \in Subs : Waits(x)' <=> Waits(x) \/ x = s
      BY <1>2, <2>1, <3>4 DEF Waits, r
    <3>6. ~Waits(s)
      BY <1>1, <1>2, <2>3 DEF Waits
    <3>7. dispatch_ids' = [dispatch_ids EXCEPT ![s] = IF Waits(s) THEN None ELSE tok]
      BY <3>2, <3>4, <3>6
    <3>8. submission_map' = [submission_map EXCEPT ![s] = None] /\ working' = [working EXCEPT ![h] = None]
      BY <1>3, <2>3 DEF defer
    <3> QED
      BY <1>2, <1>3, <3>5, <3>7, <3>8 DEF PutBackAs
  <2> QED
    BY <2>2, <2>3
<1>4. CASE ~Holds(h, s)
  BY <1>2, <1>4 DEF defer, Quiet, ConnStep, Waits
<1> QED
  BY <1>2, <1>3, <1>4

\* Without RetrySame: another submission, that of the last offer, may be put back instead.
LEMMA defer_Waits ==
  ASSUME JLInv, NEW h \in Conns, NEW s \in Subs, NEW tok \in Tokens, defer(h, s, tok)
  PROVE  /\ retry_request' = retry_request
         /\ \A x \in Subs : Waits(x)' => Waits(x) \/ (retry_request[h] # None /\ x = retry_request[h].id)
<1> DEFINE r == retry_request[h]
<1>1. queue \in Queues /\ retry_request' = retry_request
  BY DEF defer, JLInv, JLTypeOK, Queues
<1>2. CASE queue' = queue /\ pend' = pend
  BY <1>1, <1>2 DEF Waits
<1>3. CASE /\ Holds(h, s)
           /\ Admit(r, tok, [submission_map EXCEPT ![s] = None], [dispatch_ids EXCEPT ![s] = None])
  <2>1. r \in Request /\ r # None
    BY <1>3, NoneAssumption DEF Holds, JLInv, JLTypeOK, RetryKept
  <2>2. UnlinkId(r.id) \in Queues /\ \A x : HasId(UnlinkId(r.id), x) <=> HasId(queue, x) /\ x # r.id
    BY <1>1, UnlinkIdFacts DEF JLInv, JLUnique
  <2>3. \/ queue' = queue /\ pend' = pend
        \/ queue' = UnlinkId(r.id) /\ pend' \in {pend, r}
        \/ queue' = Link(UnlinkId(r.id), r) /\ pend' = pend
    BY <1>3 DEF Admit
  <2>4. \A x : HasId(queue', x) => HasId(queue, x) \/ x = r.id
    BY <2>1, <2>2, <2>3, LinkFacts
  <2> QED
    BY <1>1, <2>1, <2>3, <2>4 DEF Waits
<1> QED
  BY <1>1, <1>2, <1>3 DEF defer

\* on_disconnect(): remove() takes the run out of the map, Forget drops the handler.
Removed(h) ==
  /\ submission_map' = IF working[h] # None /\ submission_map[working[h]] = h
                       THEN [submission_map EXCEPT ![working[h]] = None] ELSE submission_map
  /\ conn[h] = "shut" /\ conn' = [conn EXCEPT ![h] = "left"]
  /\ working' = working /\ run_id' = run_id /\ dispatch_ids' = dispatch_ids /\ retry_request' = retry_request
  /\ \A x \in Subs : Waits(x)' <=> Waits(x)
Forgotten(h) ==
  /\ conn[h] = "left"
  /\ conn' = [conn EXCEPT ![h] = IF Mapped(h) THEN @ ELSE "off"]
  /\ run_id' = [run_id EXCEPT ![h] = IF Mapped(h) THEN @ ELSE None]
  /\ working' = [working EXCEPT ![h] = None]
  /\ retry_request' = [retry_request EXCEPT ![h] = None]
  /\ submission_map' = submission_map /\ dispatch_ids' = dispatch_ids
  /\ \A x \in Subs : Waits(x)' <=> Waits(x)

LEMMA remove_Facts ==
  ASSUME JLInv, NEW h \in Conns, remove(h)
  PROVE  Removed(h)
<1>1. queue' = queue /\ pend' = pend
  BY DEF remove, LockFree, OfferTo, workVars
<1> QED
  BY <1>1 DEF remove, Removed, Waits

LEMMA Forget_Facts ==
  ASSUME JLInv, NEW h \in Conns, Forget(h)
  PROVE  Forgotten(h)
  BY DEF Forget, Forgotten, Waits, listVars, lockVars, workVars

\* A new process starts with nothing.
LEMMA JLRestart_Facts ==
  ASSUME JLRestart
  PROVE  /\ JLInv'
         /\ \A x \in Subs : ~Waits(x)' /\ dispatch_ids'[x] = None /\ submission_map'[x] = None
         /\ \A h \in Conns : conn'[h] = "off" /\ working'[h] = None /\ run_id'[h] = None /\ retry_request'[h] = None
<1>1. JLTypeOK'
  BY StartType DEF JLRestart, JLTypeOK, ConnStates
<1>2. \A id : ~HasId(queue', id)
  BY DEF JLRestart, HasId
<1>3. UniqueIds(queue')
  BY DEF JLRestart, UniqueIds
<1>4. RetryKept'
  BY DEF JLRestart, RetryKept
<1>5. JLUnique' /\ \A x \in Subs : ~Waits(x)'
  BY <1>2, <1>3 DEF JLRestart, JLUnique, Waits
<1> QED
  BY <1>1, <1>4, <1>5 DEF JLInv, JLRestart

-----------------------------------------------------------------------------
(* The base invariant.  It has the types, the queue invariants of JudgeListProofs, and what ties
   the tokens the program passes around to the tokens uuid4 has produced. *)

\* The packets on the way from the worker of h.
Elems(q) == {q[i] : i \in 1 .. Len(q)}
\* The on_commit callback of h is going to put a run back.
PutBack(h) == after[h] # None /\ after[h].op \in {"defer", "discard", "leave"}

\* No judge announces new problems: on_supported_problems evaluates `working' without the
\* lock, so update_problems may offer a judge at work another submission.
NoUpdate == "update" \notin Env

OwnTypes ==
  /\ row \in [Subs -> Row]
  /\ issued \in [Subs -> SUBSET Tokens]
  /\ is_locked \in BOOLEAN /\ abort_due \in BOOLEAN /\ timers \in SUBSET Conns
  /\ handoffs \subseteq Handoff
  /\ aborts \in [Subs -> {"idle", "asked", "refused"}]
  /\ jobs \in [Conns -> SUBSET Job]
  /\ pipe \in [Conns -> Seq(Packet)]
  /\ after \in [Conns -> Callback \cup {None}]
  /\ preparing \in [Conns -> BOOLEAN] /\ remote_run \in [Conns -> BOOLEAN] /\ acked \in [Conns -> BOOLEAN]
  /\ booting \in SUBSET Subs
  /\ by \in [Subs -> Tokens \cup {None}]

\* The token of a row is the newest one of its submission.
RowTokens ==
  \A s \in Subs : IF row[s].dispatch_id = None THEN issued[s] = {}
                  ELSE row[s].dispatch_id \in issued[s] /\ \A u \in issued[s] : u <= row[s].dispatch_id
HandoffTokens == \A m \in handoffs : m.tok \in issued[m.req.id]
\* The scheduler expects only runs that were requested, and no submission without a run waits.
ListTokens == \A s \in Subs : /\ NoUpdate /\ dispatch_ids[s] # None => dispatch_ids[s] \in issued[s]
                              /\ Waits(s) => issued[s] # {}
HandlerTokens ==
  \A h \in Conns : /\ NoUpdate /\ working[h] # None => run_id[h] \in issued[working[h]]
                   /\ retry_request[h] # None => issued[retry_request[h].id] # {}
WorkerTokens == \A h \in Conns : /\ \A j \in jobs[h] : j.tok \in issued[j.sub]
                                 /\ \A p \in Elems(pipe[h]) : p.job \in issued[p.sub]
BackTokens == \A h \in Conns : PutBack(h) => after[h].tok \in issued[after[h].sub]
TokensIssued == RowTokens /\ HandoffTokens /\ ListTokens /\ HandlerTokens /\ WorkerTokens /\ BackTokens

\* A packet names the run its worker judges, if it names one.
EchoTrue == \A h \in Conns : \A p \in Elems(pipe[h]) : p.did = IF h \in Echo THEN p.job ELSE None
\* Only remote judges prepare; callbacks belong to handlers whose socket was in use.
RemoteOnly == \A h \in Conns : /\ preparing[h] \/ remote_run[h] \/ PutBack(h) => h \in Remote
                               /\ after[h] # None => conn[h] \in {"up", "shut"}

BaseInv == JLInv /\ OwnTypes /\ TokensIssued /\ EchoTrue /\ RemoteOnly

LEMMA AppendElems ==
  ASSUME NEW S, NEW q \in Seq(S), NEW p \in S
  PROVE  /\ Append(q, p) \in Seq(S)
         /\ Elems(Append(q, p)) = Elems(q) \cup {p}
<1>1. /\ Append(q, p) \in Seq(S) /\ Len(q) \in Nat
      /\ Len(Append(q, p)) = Len(q) + 1
      /\ \A i \in 1 .. Len(q) : Append(q, p)[i] = q[i]
      /\ Append(q, p)[Len(q) + 1] = p
  BY AppendProperties, LenProperties
<1>2. 1 .. Len(q) + 1 = 1 .. Len(q) \cup {Len(q) + 1}
  BY <1>1
<1> QED
  BY <1>1, <1>2 DEF Elems

LEMMA TailElems ==
  ASSUME NEW S, NEW q \in Seq(S), q # <<>>
  PROVE  /\ Tail(q) \in Seq(S)
         /\ Head(q) \in Elems(q) /\ Head(q) \in S
         /\ Elems(Tail(q)) \subseteq Elems(q)
<1>1. /\ Tail(q) \in Seq(S) /\ Head(q) \in S
      /\ Len(Tail(q)) = Len(q) - 1
      /\ \A i \in 1 .. Len(Tail(q)) : Tail(q)[i] = q[i + 1]
  BY HeadTailProperties
<1>2. Len(q) \in Nat \ {0}
  BY EmptySeq, LenProperties
<1>3. Head(q) = q[1] /\ 1 \in 1 .. Len(q)
  BY <1>2
<1>4. \A i \in 1 .. Len(Tail(q)) : i + 1 \in 1 .. Len(q)
  BY <1>1, <1>2
<1> QED
  BY <1>1, <1>3, <1>4 DEF Elems

LEMMA NoElems == Elems(<<>>) = {}
  BY DEF Elems

\* The worker of h ends or advances the job j and sends the packet p.
WorkerStep(h, j, p, rest) ==
  /\ conn[h] \in {"new", "up"}
  /\ jobs' = [jobs EXCEPT ![h] = (@ \ {j}) \cup rest]
  /\ pipe' = [pipe EXCEPT ![h] = Append(@, p)]
  /\ p \in Packet /\ p.sub = j.sub /\ p.job = j.tok /\ p.did = IF h \in Echo THEN j.tok ELSE None
  /\ \A k \in rest : k \in Job /\ k.sub = j.sub /\ k.tok = j.tok /\ k.stage # "sent"
  /\ \A k, l \in rest : k = l
  /\ Terminal(p) <=> rest = {}
  /\ p.kind = "ack" <=> j.stage = "sent"
  /\ p.kind = "unavailable" => h \in Remote /\ j.stage = "acked"
  /\ p.kind \in {"prepared", "begin"} => \A k \in rest : k.stage # "acked"
  /\ UNCHANGED <<jlVars, dbVars, webVars, runVars, booting>>

LEMMA Emit_Facts ==
  ASSUME OwnTypes, NEW h \in Conns, NEW j \in jobs[h], NEW kind \in Kinds, NEW status \in FINAL, NEW rest,
         \A k \in rest : k \in Job /\ k.sub = j.sub /\ k.tok = j.tok /\ k.stage # "sent",
         \A k, l \in rest : k = l,
         kind \in {"end", "unavailable"} <=> rest = {},
         kind = "ack" <=> j.stage = "sent",
         kind = "unavailable" => h \in Remote /\ j.stage = "acked",
         kind \in {"prepared", "begin"} => \A k \in rest : k.stage # "acked",
         Emit(h, j, kind, status, rest)
  PROVE  \E p : WorkerStep(h, j, p, rest)
<1> DEFINE p == [kind |-> kind, sub |-> j.sub, job |-> j.tok,
                 did |-> IF h \in Echo THEN j.tok ELSE None, status |-> status]
<1>1. j \in Job
  BY DEF OwnTypes
<1>2. p \in Packet
  BY <1>1 DEF Packet, Job
<1>3. WorkerStep(h, j, p, rest)
  BY <1>2 DEF WorkerStep, Emit, Terminal
<1> QED
  BY <1>3

LEMMA Worker_Facts ==
  ASSUME OwnTypes, NEW h \in Conns, NEW j \in jobs[h],
         WorkerAcks(h, j) \/ WorkerPrepares(h, j) \/ WorkerBegins(h, j) \/ WorkerEnds(h, j)
  PROVE  \E p, rest : WorkerStep(h, j, p, rest)
<1>1. j \in Job
  BY DEF OwnTypes
<1>2. \A st \in {"sent", "acked", "prepared", "begun"} :
        LET k == [j EXCEPT !.stage = st] IN k \in Job /\ k.sub = j.sub /\ k.tok = j.tok /\ k.stage = st
  BY <1>1 DEF Job
<1>3. "IE" \in FINAL /\ "AB" \in FINAL /\ \A st \in Verdicts : st \in FINAL
  BY VerdictsAssumption DEF FINAL
<1>4. CASE WorkerAcks(h, j)
  <2>1. \E p : WorkerStep(h, j, p, {[j EXCEPT !.stage = "acked"]})
    BY <1>2, <1>3, <1>4, Emit_Facts DEF WorkerAcks, Kinds
  <2> QED
    BY <2>1
<1>5. CASE j.stage = "acked" /\ Emit(h, j, "prepared", "IE", {[j EXCEPT !.stage = "prepared"]})
  <2>1. \E p : WorkerStep(h, j, p, {[j EXCEPT !.stage = "prepared"]})
    BY <1>2, <1>3, <1>5, Emit_Facts DEF Kinds
  <2> QED
    BY <2>1
<1>6. CASE h \in Remote /\ j.stage = "acked" /\ Emit(h, j, "unavailable", "IE", {})
  <2>1. \E p : WorkerStep(h, j, p, {})
    BY <1>2, <1>3, <1>6, Emit_Facts DEF Kinds
  <2> QED
    BY <2>1
<1>7. CASE WorkerBegins(h, j)
  <2>1. \E p : WorkerStep(h, j, p, {[j EXCEPT !.stage = "begun"]})
    BY <1>2, <1>3, <1>7, Emit_Facts DEF WorkerBegins, Kinds
  <2> QED
    BY <2>1
<1>8. CASE WorkerEnds(h, j)
  <2>1. PICK st \in FINAL : j.stage # "sent" /\ Emit(h, j, "end", st, {})
    BY <1>3, <1>8 DEF WorkerEnds
  <2>2. \E p : WorkerStep(h, j, p, {})
    BY <2>1, Emit_Facts DEF Kinds
  <2> QED
    BY <2>2
<1> QED
  BY <1>4, <1>5, <1>6, <1>7, <1>8 DEF WorkerPrepares

\* submit() is asked about a run that waits, so its row has a token.
LEMMA Offer_Facts ==
  ASSUME BaseInv, NEW h \in Conns, NEW s \in Subs, NEW out \in Outcomes, Offered(h, s, out, row[s].dispatch_id),
         Submit(h, s, out)
  PROVE  /\ row[s] \in Row /\ row[s].dispatch_id \in Tokens /\ row[s].dispatch_id \in issued[s]
         /\ out \in {"ok", "failed", "deferred", "unready"} => ~Refused(s)
<1>1. issued[s] # {} /\ row[s] \in Row
  BY DEF BaseInv, OwnTypes, TokensIssued, ListTokens, Offered
<1>2. row[s].dispatch_id \in issued[s] /\ issued[s] \subseteq Tokens
  BY <1>1 DEF BaseInv, OwnTypes, TokensIssued, RowTokens
<1> QED
  BY <1>1, <1>2 DEF Submit, Answer

\* The steps of whoever holds JudgeList.lock, and of the threads that only wait for it.
OwnVars == <<dbVars, webVars, workerVars, runVars, booting>>
LEMMA Schedule_Facts ==
  ASSUME BaseInv, Schedule
  PROVE  /\ JLInv'
         /\ \/ Quiet /\ UNCHANGED OwnVars
            \/ \E h \in Conns, s \in Subs, out \in Outcomes :
                 /\ Offered(h, s, out, row[s].dispatch_id) /\ Submit(h, s, out)
                 /\ JLMap => Live(h) /\ working[h] = None
<1>1. JLInv
  BY DEF BaseInv
<1>2. ASSUME OfferNothing \/ QueueNew \/ \E h \in Conns : NextCandidate(h)
      PROVE  JLInv' /\ Quiet
  BY <1>1, <1>2, OfferNothing_JLInv, QueueNew_JLInv, NextCandidate_JLInv, QuietMethods, QueueNew_Quiet
<1>3. ASSUME NEW n \in Nodes, NEW out \in Outcomes,
             OfferNode(n, out, row[At(n).id].dispatch_id), Submit(scan, At(n).id, out)
      PROVE  JLInv' /\ \E h \in Conns, s \in Subs :
               /\ Offered(h, s, out, row[s].dispatch_id) /\ Submit(h, s, out)
               /\ JLMap => Live(h) /\ working[h] = None
  <2>1. /\ scan \in Conns /\ At(n).id \in Subs /\ Offered(scan, At(n).id, out, row[At(n).id].dispatch_id)
        /\ JLMap => Live(scan) /\ working[scan] = None
    BY <1>1, <1>3, OfferNode_Offered
  <2>2. row[At(n).id].dispatch_id \in Tokens
    BY <2>1, <1>3, Offer_Facts
  <2>3. JLInv'
    BY <1>1, <1>3, <2>2, OfferNode_JLInv
  <2> QED
    BY <1>3, <2>1, <2>3
<1>4. ASSUME NEW h \in judges, NEW out \in Outcomes, pend # None,
             DispatchNew(h, out, row[pend.id].dispatch_id), Submit(h, pend.id, out)
      PROVE  JLInv' /\ \E g \in Conns, s \in Subs :
               /\ Offered(g, s, out, row[s].dispatch_id) /\ Submit(g, s, out)
               /\ JLMap => Live(g) /\ working[g] = None
  <2>1. /\ h \in Conns /\ pend.id \in Subs /\ Offered(h, pend.id, out, row[pend.id].dispatch_id)
        /\ working[h] = None /\ (JLMap => Live(h))
    BY <1>1, <1>4, DispatchNew_Offered
  <2>2. row[pend.id].dispatch_id \in Tokens
    BY <2>1, <1>4, Offer_Facts
  <2>3. JLInv'
    BY <1>1, <1>4, <2>1, <2>2, DispatchNew_JLInv
  <2> QED
    BY <1>4, <2>1, <2>3
<1>5. CASE (OfferNothing \/ QueueNew \/ \E h \in Conns : NextCandidate(h)) /\ UNCHANGED OwnVars
  BY <1>2, <1>5
<1> QED
  BY <1>3, <1>4, <1>5 DEF Schedule, OwnVars

\* The methods of JudgeList that other threads call.
LEMMA Quiet_Facts ==
  ASSUME BaseInv,
         \/ SyncRemoteData
         \/ \E h \in Conns : Handshake(h) \/ Connected(h) \/ Lost(h) \/ SupportedProblems(h)
  PROVE  JLInv' /\ Quiet /\ UNCHANGED OwnVars
<1>1. JLInv /\ Subs \in SUBSET Subs
  BY DEF BaseInv
<1>2. CASE SyncRemoteData
  BY <1>1, <1>2, retry_queued_JLInv, QuietMethods DEF SyncRemoteData, OwnVars
<1>3. ASSUME NEW h \in Conns, Handshake(h) PROVE JLInv' /\ Quiet /\ UNCHANGED OwnVars
  BY <1>1, <1>3, register_JLInv, QuietMethods DEF Handshake, OwnVars
<1>4. ASSUME NEW h \in Conns, Connected(h) PROVE JLInv' /\ Quiet /\ UNCHANGED OwnVars
  BY <1>1, <1>4, connected_JLInv, QuietMethods DEF Connected, OwnVars
<1>5. ASSUME NEW h \in Conns, Lost(h) PROVE JLInv' /\ Quiet /\ UNCHANGED OwnVars
  BY <1>1, <1>5, ConnectionLost_JLInv, QuietMethods DEF Lost, OwnVars
<1>6. ASSUME NEW h \in Conns, SupportedProblems(h) PROVE JLInv' /\ Quiet /\ UNCHANGED OwnVars
  <2>1. problems[h] \in SUBSET Subs
    BY <1>1 DEF JLInv, JLTypeOK
  <2>2. JLInv'
    BY <1>1, <1>6, <2>1, on_supported_problems_JLInv, update_problems_JLInv DEF SupportedProblems
  <2>3. Quiet
    BY <1>1, <1>6, QuietMethods DEF SupportedProblems
  <2> QED
    BY <1>6, <2>2, <2>3 DEF SupportedProblems, OwnVars
<1> QED
  BY <1>2, <1>3, <1>4, <1>5, <1>6

\* A step that changes nothing of JudgeList but, perhaps, the data a judge is ready for.
LEMMA Problems_Facts ==
  ASSUME JLInv, UNCHANGED <<listVars, conn, working, run_id, retry_request, is_disabled, checked, lockVars>>,
         problems' \in [Conns -> SUBSET Subs]
  PROVE  JLInv' /\ Quiet
<1>1. JLTypeOK'
  BY DEF JLInv, JLTypeOK, listVars, lockVars, workVars
<1>2. JLUnique' /\ RetryKept'
  BY DEF JLInv, JLUnique, RetryKept, listVars, lockVars, workVars
<1>3. Quiet
  BY DEF Quiet, ConnStep, Waits, listVars, lockVars, workVars
<1> QED
  BY <1>1, <1>2, <1>3 DEF JLInv

LEMMA Same_Facts ==
  ASSUME JLInv, UNCHANGED jlVars
  PROVE  JLInv' /\ Quiet
<1>1. problems' \in [Conns -> SUBSET Subs]
  BY DEF JLInv, JLTypeOK, jlVars, handlerVars
<1> QED
  BY <1>1, Problems_Facts DEF jlVars, handlerVars

-----------------------------------------------------------------------------
(* Most steps bring no token to a place where it was not. *)
Mono == \A s \in Subs : issued[s] \subseteq issued'[s]
RowsKept == \A s \in Subs : row'[s].dispatch_id = row[s].dispatch_id /\ issued'[s] = issued[s]
HandoffsKept == \A m \in handoffs' : \E k \in handoffs : m.req = k.req /\ m.tok = k.tok
ListKept == \A s \in Subs : dispatch_ids'[s] \in {dispatch_ids[s], None} /\ (Waits(s)' => Waits(s))
HandlersKept == \A h \in Conns : /\ working'[h] = None \/ (working'[h] = working[h] /\ run_id'[h] = run_id[h])
                                 /\ retry_request'[h] \in {retry_request[h], None}
JobsKept == \A h \in Conns : \A j \in jobs'[h] : \E k \in jobs[h] : j.sub = k.sub /\ j.tok = k.tok
PipesKept == \A h \in Conns : Elems(pipe'[h]) \subseteq Elems(pipe[h])
BackKept == \A h \in Conns : PutBack(h)' => PutBack(h) /\ after'[h].sub = after[h].sub /\ after'[h].tok = after[h].tok
FlagsKept == \A h \in Conns : /\ preparing'[h] => preparing[h]
                              /\ remote_run'[h] => remote_run[h]
                              /\ after'[h] # None => after[h] # None
                              /\ conn'[h] = conn[h] \/ after'[h] = None \/ conn'[h] \in {"up", "shut"}

LEMMA Kept_Parts ==
  ASSUME BaseInv, Mono
  PROVE  /\ RowsKept => RowTokens'
         /\ HandoffsKept => HandoffTokens'
         /\ ListKept => ListTokens'
         /\ HandlersKept /\ JLInv' => HandlerTokens'
         /\ JobsKept /\ PipesKept /\ OwnTypes' => WorkerTokens'
         /\ BackKept /\ OwnTypes' => BackTokens'
         /\ PipesKept => EchoTrue'
         /\ FlagsKept /\ BackKept => RemoteOnly'
<1>1. RowsKept => RowTokens'
  BY DEF BaseInv, TokensIssued, RowTokens, RowsKept
<1>2. HandoffsKept => HandoffTokens'
  <2>1. \A m \in handoffs : m.req.id \in Subs
    BY DEF BaseInv, OwnTypes, Handoff, Request
  <2> QED
    BY <2>1 DEF BaseInv, TokensIssued, HandoffTokens, HandoffsKept, Mono
<1>3. ListKept => ListTokens'
  BY DEF BaseInv, TokensIssued, ListTokens, ListKept, Mono
<1>4. HandlersKept /\ JLInv' => HandlerTokens'
  <2> SUFFICES ASSUME HandlersKept, JLInv', NEW h \in Conns
               PROVE  /\ NoUpdate /\ working'[h] # None => run_id'[h] \in issued'[working'[h]]
                      /\ retry_request'[h] # None => issued'[retry_request'[h].id] # {}
    BY DEF HandlerTokens
  <2>1. NoUpdate /\ working'[h] # None => run_id'[h] \in issued'[working'[h]]
    BY DEF BaseInv, TokensIssued, HandlerTokens, HandlersKept, Mono, JLInv, JLTypeOK
  <2>2. ASSUME retry_request'[h] # None PROVE issued'[retry_request'[h].id] # {}
    <3>1. retry_request'[h] = retry_request[h]
      BY <2>2 DEF HandlersKept
    <3>2. retry_request[h] \in Request
      BY <2>2, <3>1 DEF BaseInv, JLInv, JLTypeOK
    <3>3. retry_request[h].id \in Subs /\ issued[retry_request[h].id] # {}
      BY <2>2, <3>1, <3>2 DEF Request, BaseInv, TokensIssued, HandlerTokens
    <3> QED
      BY <3>1, <3>3 DEF Mono
  <2> QED
    BY <2>1, <2>2
<1>5. JobsKept /\ PipesKept /\ OwnTypes' => WorkerTokens'
  <2>1. ASSUME NEW h \in Conns
        PROVE  /\ \A j \in jobs[h] : j.sub \in Subs
               /\ \A p \in Elems(pipe[h]) : p.sub \in Subs
    <3>1. pipe[h] \in Seq(Packet) /\ jobs[h] \subseteq Job
      BY DEF BaseInv, OwnTypes
    <3>2. \A i \in 1 .. Len(pipe[h]) : pipe[h][i] \in Packet
      BY <3>1, ElementOfSeq
    <3> QED
      BY <3>1, <3>2 DEF Job, Packet, Elems
  <2> QED
    BY <2>1 DEF BaseInv, TokensIssued, WorkerTokens, JobsKept, PipesKept, Mono
<1>6. BackKept /\ OwnTypes' => BackTokens'
  <2>1. \A h \in Conns : after[h] # None => after[h].sub \in Subs
    BY DEF BaseInv, OwnTypes, Callback
  <2>2. \A h \in Conns : PutBack(h) => after[h].sub \in Subs
    BY <2>1 DEF PutBack
  <2> QED
    BY <2>2 DEF BaseInv, TokensIssued, BackTokens, BackKept, Mono
<1>7. PipesKept => EchoTrue'
  BY DEF BaseInv, EchoTrue, PipesKept
<1>8. FlagsKept /\ BackKept => RemoteOnly'
  BY DEF BaseInv, RemoteOnly, FlagsKept, BackKept
<1> QED
  BY <1>1, <1>2, <1>3, <1>4, <1>5, <1>6, <1>7, <1>8

LEMMA Kept_BaseInv ==
  ASSUME BaseInv, JLInv', OwnTypes', RowsKept, HandoffsKept, ListKept, HandlersKept, JobsKept, PipesKept,
         BackKept, FlagsKept
  PROVE  BaseInv'
<1>1. Mono
  BY DEF RowsKept, Mono
<1> QED
  BY <1>1, Kept_Parts DEF BaseInv, TokensIssued

\* What leaves a group of variables alone keeps the parts that are about them.
LEMMA Unchanged_Parts ==
  ASSUME BaseInv
  PROVE  /\ UNCHANGED <<row, issued>> => RowsKept
         /\ UNCHANGED handoffs => HandoffsKept
         /\ Quiet => ListKept /\ HandlersKept
         /\ UNCHANGED jobs => JobsKept
         /\ UNCHANGED pipe => PipesKept
         /\ UNCHANGED after => BackKept
         /\ UNCHANGED <<after, preparing, remote_run>> /\ ConnStep => FlagsKept
<1>1. UNCHANGED <<row, issued>> => RowsKept
  BY DEF RowsKept
<1>2. UNCHANGED handoffs => HandoffsKept
  BY DEF HandoffsKept
<1>3. Quiet => ListKept /\ HandlersKept
  BY DEF Quiet, ListKept, HandlersKept
<1>4. UNCHANGED jobs => JobsKept
  BY DEF JobsKept
<1>5. UNCHANGED pipe => PipesKept
  BY DEF PipesKept
<1>6. UNCHANGED after => BackKept
  BY DEF BackKept, PutBack
<1>7. UNCHANGED <<after, preparing, remote_run>> /\ ConnStep => FlagsKept
  BY DEF BaseInv, RemoteOnly, ConnStep, FlagsKept
<1> QED
  BY <1>1, <1>2, <1>3, <1>4, <1>5, <1>6, <1>7

LEMMA Quiet_BaseInv ==
  ASSUME BaseInv, JLInv', Quiet, UNCHANGED OwnVars
  PROVE  BaseInv'
<1>1. OwnTypes'
  BY DEF BaseInv, OwnTypes, OwnVars, dbVars, webVars, workerVars, runVars
<1> QED
  BY <1>1, Unchanged_Parts, Kept_BaseInv DEF Quiet, OwnVars, dbVars, webVars, workerVars, runVars

-----------------------------------------------------------------------------
(* The website. *)
LEMMA NextToken ==
  ASSUME OwnTypes, NEW s \in Subs, NEW tok \in Fresh(s)
  PROVE  /\ tok \in Tokens /\ tok \in Nat
         /\ \A x \in Subs : tok \notin issued[x] /\ \A u \in issued[x] : u < tok /\ u <= tok /\ u \in Nat
  BY TokensAssumption DEF OwnTypes, Fresh

LEMMA JudgeSubmission_BaseInv ==
  ASSUME BaseInv, NEW s \in Subs, JudgeSubmission(s)
  PROVE  BaseInv'
<1>1. JLInv' /\ Quiet
  BY Same_Facts DEF BaseInv, JudgeSubmission
<1>2. PICK tok \in Fresh(s) :
        /\ row' = [row EXCEPT ![s] = [status |-> "QU", dispatch_id |-> tok]]
        /\ issued' = [issued EXCEPT ![s] = @ \cup {tok}]
        /\ handoffs' = handoffs \cup
             {[req |-> [id |-> s, prio |-> IF row[s].status = "QU" THEN 1 ELSE REJUDGE_PRIORITY,
                        judge_id |-> None, banned |-> {}], tok |-> tok, at |-> "web"]}
  BY DEF JudgeSubmission
<1>3. tok \in Tokens /\ tok \in Nat /\ \A u \in issued[s] : u <= tok
  BY NextToken DEF BaseInv
<1>4. OwnTypes'
  BY <1>2, <1>3 DEF BaseInv, OwnTypes, JudgeSubmission, Row, IN_PROGRESS, Handoff, Request, Priorities,
     REJUDGE_PRIORITY, jlVars, workerVars, runVars
<1>5. Mono
  BY <1>2 DEF BaseInv, OwnTypes, Mono
<1>6. RowTokens'
  BY <1>2, <1>3, NoneFacts DEF BaseInv, OwnTypes, TokensIssued, RowTokens
<1>7. HandoffTokens'
  BY <1>2, <1>5 DEF BaseInv, OwnTypes, TokensIssued, HandoffTokens, Mono, Handoff, Request
<1> QED
  BY <1>1, <1>4, <1>5, <1>6, <1>7, Kept_Parts, Unchanged_Parts
     DEF BaseInv, TokensIssued, JudgeSubmission, Quiet, workerVars, runVars

\* The web threads behind a run, the aborts, the lock of the tests and the marks of a starting bridge.
LEMMA Web_BaseInv ==
  ASSUME BaseInv, UNCHANGED <<jlVars, issued, by, workerVars, runVars>>, OwnTypes', HandoffsKept,
         \A s \in Subs : row'[s].dispatch_id = row[s].dispatch_id
  PROVE  BaseInv'
<1>1. JLInv' /\ Quiet
  BY Same_Facts DEF BaseInv
<1>2. RowsKept
  BY DEF RowsKept
<1> QED
  BY <1>1, <1>2, Unchanged_Parts, Kept_BaseInv DEF Quiet, workerVars, runVars

LEMMA FinalRow ==
  ASSUME NEW r \in Row, NEW st \in FINAL
  PROVE  [r EXCEPT !.status = st] \in Row /\ [r EXCEPT !.status = st].dispatch_id = r.dispatch_id
<1>1. st \in IN_PROGRESS \cup FINAL
  OBVIOUS
<1> QED
  BY <1>1 DEF Row

LEMMA FailRun_Facts ==
  ASSUME OwnTypes, NEW s \in Subs, NEW tok, FailRun(s, tok)
  PROVE  /\ row' \in [Subs -> Row] /\ \A x \in Subs : row'[x].dispatch_id = row[x].dispatch_id
<1>1. row \in [Subs -> Row] /\ "IE" \in FINAL
  BY DEF OwnTypes, FINAL
<1>2. row' = row \/ row' = [row EXCEPT ![s] = [row[s] EXCEPT !.status = "IE"]]
  BY DEF FailRun
<1>3. LET r == [row[s] EXCEPT !.status = "IE"] IN r \in Row /\ r.dispatch_id = row[s].dispatch_id
  BY <1>1, FinalRow
<1> QED
  BY <1>1, <1>2, <1>3

LEMMA WebThreads_BaseInv ==
  ASSUME BaseInv, NEW m \in handoffs, SendSubmission(m) \/ SendFails(m) \/ SendAnswered(m)
  PROVE  BaseInv'
<1>1. m \in Handoff /\ m.req.id \in Subs
  BY DEF BaseInv, OwnTypes, Handoff, Request
<1>2. \A a \in {"sent", "late", "done"} :
        LET k == [m EXCEPT !.at = a] IN k \in Handoff /\ k.req = m.req /\ k.tok = m.tok
  BY <1>1 DEF Handoff
<1>3. /\ handoffs' \subseteq Handoff
      /\ HandoffsKept
  <2>1. handoffs' \subseteq (handoffs \cup {[m EXCEPT !.at = "sent"], [m EXCEPT !.at = "late"]})
    BY DEF SendSubmission, SendFails, SendAnswered
  <2> QED
    BY <1>2, <2>1 DEF BaseInv, OwnTypes, HandoffsKept
<1>4. row' \in [Subs -> Row] /\ \A x \in Subs : row'[x].dispatch_id = row[x].dispatch_id
  <2>1. CASE SendFails(m)
    BY <1>1, <2>1, FailRun_Facts DEF SendFails, BaseInv
  <2>2. CASE SendSubmission(m) \/ SendAnswered(m)
    BY <2>2 DEF SendSubmission, SendAnswered, dbVars, BaseInv, OwnTypes
  <2> QED
    BY <2>1, <2>2
<1>5. UNCHANGED <<jlVars, issued, is_locked, by, aborts, abort_due, workerVars, runVars, booting>>
  BY DEF SendSubmission, SendFails, SendAnswered, dbVars
<1>6. OwnTypes'
  BY <1>3, <1>4, <1>5 DEF BaseInv, OwnTypes, workerVars, runVars
<1> QED
  BY <1>3, <1>4, <1>5, <1>6, Web_BaseInv

LEMMA AbortThreads_BaseInv ==
  ASSUME BaseInv,
         \/ \E s \in Subs : AbortRequested(s) \/ AbortWritten(s) \/ BootMark(s)
         \/ Unlock \/ Apply
  PROVE  BaseInv'
<1>1. row' \in [Subs -> Row] /\ \A x \in Subs : row'[x].dispatch_id = row[x].dispatch_id
  <2>1. ASSUME NEW s \in Subs, row' = row \/ \E st \in {"AB", "IE"} : row' = [row EXCEPT ![s].status = st]
        PROVE  row' \in [Subs -> Row] /\ \A x \in Subs : row'[x].dispatch_id = row[x].dispatch_id
    <3>1. row \in [Subs -> Row] /\ \A st \in {"AB", "IE"} : [row[s] EXCEPT !.status = st] \in Row
      BY FinalRow DEF BaseInv, OwnTypes, FINAL
    <3>2. \A st \in {"AB", "IE"} : [row EXCEPT ![s].status = st] = [row EXCEPT ![s] = [row[s] EXCEPT !.status = st]]
      OBVIOUS
    <3> QED
      BY <2>1, <3>1, <3>2 DEF Row
  <2>2. CASE \E s \in Subs : AbortRequested(s) \/ AbortWritten(s) \/ BootMark(s)
    BY <2>1, <2>2 DEF AbortRequested, AbortWritten, BootMark, dbVars
  <2>3. CASE Unlock
    <3>1. \A s \in Subs : LET r == [row[s] EXCEPT !.status = "AB"] IN
            row[s] \in Row /\ r \in Row /\ r.dispatch_id = row[s].dispatch_id
      BY FinalRow DEF BaseInv, OwnTypes, FINAL
    <3>2. \/ row' = row
          \/ row' = [s \in Subs |-> IF InProgress(s) THEN [row[s] EXCEPT !.status = "AB"] ELSE row[s]]
      BY <2>3 DEF Unlock
    <3>3. row \in [Subs -> Row]
      BY DEF BaseInv, OwnTypes
    <3> QED
      BY <3>1, <3>2, <3>3
  <2>4. CASE Apply
    BY <2>4 DEF Apply, BaseInv, OwnTypes
  <2> QED
    BY <2>2, <2>3, <2>4
<1>2. UNCHANGED <<jlVars, issued, by, handoffs, workerVars, runVars>>
  BY DEF AbortRequested, AbortWritten, BootMark, Unlock, Apply, dbVars, webVars
<1>3. OwnTypes'
  BY <1>1, <1>2 DEF AbortRequested, AbortWritten, BootMark, Unlock, Apply, dbVars, webVars, BaseInv, OwnTypes,
     workerVars, runVars
<1>4. HandoffsKept
  BY <1>2, Unchanged_Parts
<1> QED
  BY <1>1, <1>2, <1>3, <1>4, Web_BaseInv

-----------------------------------------------------------------------------
(* The bridge's requests and timers. *)
LEMMA OnSubmission_BaseInv ==
  ASSUME BaseInv, NEW m \in handoffs, OnSubmission(m)
  PROVE  BaseInv'
<1>1. m \in Handoff /\ m.req \in Request /\ m.req.id \in Subs /\ m.tok \in Tokens /\ m.tok \in issued[m.req.id]
  BY DEF BaseInv, OwnTypes, Handoff, Request, TokensIssued, HandoffTokens
<1>2. JLInv'
  BY <1>1, judge_JLInv DEF OnSubmission, BaseInv
<1>3. /\ Known(m.req.id, m.tok) \/ BeingJudged(m.req.id, m.tok) \/ Accepted(m.req.id, m.tok)
      /\ submission_map' = submission_map /\ working' = working /\ run_id' = run_id /\ conn' = conn
      /\ retry_request' = retry_request
  BY <1>1, judge_Facts DEF OnSubmission, BaseInv
<1>4. HandoffsKept /\ handoffs' \subseteq Handoff
  <2>1. LET k == [m EXCEPT !.at = "done"] IN k \in Handoff /\ k.req = m.req /\ k.tok = m.tok
    BY <1>1 DEF Handoff
  <2>2. handoffs' \subseteq handoffs \cup {[m EXCEPT !.at = "done"]}
    BY DEF OnSubmission
  <2> QED
    BY <2>1, <2>2 DEF HandoffsKept, BaseInv, OwnTypes
<1>5. OwnTypes'
  BY <1>4 DEF OnSubmission, BaseInv, OwnTypes, dbVars, workerVars, runVars
<1>6. Mono /\ RowsKept /\ HandlersKept /\ JobsKept /\ PipesKept /\ BackKept /\ FlagsKept
  BY <1>3, Unchanged_Parts DEF OnSubmission, Mono, HandlersKept, ConnStep, dbVars, workerVars, runVars
<1>7. ListTokens'
  <2>1. issued' = issued
    BY DEF OnSubmission, dbVars
  <2>2. \A s \in Subs : dispatch_ids'[s] \in {dispatch_ids[s], m.tok} /\ (dispatch_ids'[s] = dispatch_ids[s] \/ s = m.req.id)
    BY <1>1, <1>3 DEF Known, BeingJudged, Accepted, BaseInv, JLInv, JLTypeOK
  <2>3. \A s \in Subs : Waits(s)' => Waits(s) \/ s = m.req.id
    BY <1>3 DEF Known, BeingJudged, Accepted
  <2> QED
    BY <1>1, <2>1, <2>2, <2>3 DEF ListTokens, BaseInv, TokensIssued
<1> QED
  BY <1>2, <1>4, <1>5, <1>6, <1>7, Kept_Parts DEF BaseInv, TokensIssued

LEMMA Terminated_Facts ==
  ASSUME OwnTypes, NEW h \in Conns
  PROVE  /\ Terminated(h) \in SUBSET Job
         /\ \A j \in Terminated(h) : \E k \in jobs[h] : j.sub = k.sub /\ j.tok = k.tok /\ j.stage = k.stage
         /\ \A k \in jobs[h] : \E j \in Terminated(h) : j.sub = k.sub /\ j.tok = k.tok /\ j.stage = k.stage
<1> DEFINE T(j) == [j EXCEPT !.kill = @ \/ (j.sub = working[h] /\ j.tok = run_id[h])]
<1>1. \A j \in jobs[h] : T(j) \in Job /\ T(j).sub = j.sub /\ T(j).tok = j.tok /\ T(j).stage = j.stage
  <2> SUFFICES ASSUME NEW j \in jobs[h] PROVE T(j) \in Job /\ T(j).sub = j.sub /\ T(j).tok = j.tok /\ T(j).stage = j.stage
    OBVIOUS
  <2>1. j \in [sub : Subs, tok : Tokens, stage : {"sent", "acked", "prepared", "begun"}, kill : BOOLEAN]
    BY DEF OwnTypes, Job
  <2>2. PICK b \in BOOLEAN : b = (j.kill \/ (j.sub = working[h] /\ j.tok = run_id[h]))
    OBVIOUS
  <2>3. T(j) = [j EXCEPT !.kill = b]
    BY <2>2
  <2> HIDE DEF T
  <2> QED
    BY <2>1, <2>3 DEF Job
<1>2. Terminated(h) = {T(j) : j \in jobs[h]}
  BY DEF Terminated
<1> HIDE DEF T
<1> QED
  BY <1>1, <1>2

\* A step that takes requests out of the queue and tells the workers of some handlers to end.
LEMMA Dropped_BaseInv ==
  ASSUME BaseInv, JLInv', UNCHANGED <<dbVars, handoffs, pipe, runVars, booting>>,
         aborts' \in [Subs -> {"idle", "asked", "refused"}], abort_due' \in BOOLEAN,
         submission_map' = submission_map, working' = working, run_id' = run_id, conn' = conn,
         retry_request' = retry_request, NEW ids, Dropped(ids) \/ Quiet,
         \A h \in Conns : jobs'[h] \in {jobs[h], Terminated(h)}, jobs' \in [Conns -> SUBSET Job]
  PROVE  BaseInv'
<1>1. OwnTypes'
  BY DEF BaseInv, OwnTypes, dbVars, runVars
<1>2. ListKept
  BY Unchanged_Parts DEF Dropped, ListKept
<1>3. JobsKept
  <2>1. ASSUME NEW h \in Conns, NEW j \in jobs'[h] PROVE \E k \in jobs[h] : j.sub = k.sub /\ j.tok = k.tok
    BY <2>1, Terminated_Facts DEF BaseInv
  <2> QED
    BY <2>1 DEF JobsKept
<1>4. HandlersKept /\ ConnStep
  BY DEF HandlersKept, ConnStep
<1> QED
  BY <1>1, <1>2, <1>3, <1>4, Unchanged_Parts, Kept_BaseInv DEF dbVars, runVars

LEMMA OnTermination_BaseInv ==
  ASSUME BaseInv, NEW s \in Subs, OnTermination(s)
  PROVE  BaseInv'
<1>1. JLInv'
  BY abort_JLInv DEF OnTermination, BaseInv
<1>2. PICK ids \in SUBSET Subs : /\ Dropped(ids)
                                 /\ submission_map' = submission_map /\ working' = working
                                 /\ run_id' = run_id /\ conn' = conn /\ retry_request' = retry_request
  BY abort_Facts DEF OnTermination, BaseInv
<1>3. aborts' \in [Subs -> {"idle", "asked", "refused"}] /\ abort_due' \in BOOLEAN
  BY DEF OnTermination, BaseInv, OwnTypes
<1>4. (\A h \in Conns : jobs'[h] \in {jobs[h], Terminated(h)}) /\ jobs' \in [Conns -> SUBSET Job]
  <2>1. CASE submission_map[s] = None
    BY <2>1 DEF OnTermination, BaseInv, OwnTypes
  <2>2. CASE submission_map[s] # None
    <3>1. submission_map[s] \in Conns
      BY <2>2 DEF BaseInv, JLInv, JLTypeOK
    <3>2. jobs' = [jobs EXCEPT ![submission_map[s]] = Terminated(submission_map[s])]
      BY <2>2 DEF OnTermination
    <3>3. Terminated(submission_map[s]) \in SUBSET Job
      BY <3>1, Terminated_Facts DEF BaseInv
    <3> QED
      BY <3>1, <3>2, <3>3 DEF BaseInv, OwnTypes
  <2> QED
    BY <2>1, <2>2
<1>5. UNCHANGED <<dbVars, handoffs, pipe, runVars, booting>>
  BY DEF OnTermination
<1> QED
  BY <1>1, <1>2, <1>3, <1>4, <1>5, Dropped_BaseInv

\* What abort_problem() did, if it was called at all.
LEMMA OnAbortProblem_Facts ==
  ASSUME JLInv, OnAbortProblem
  PROVE  /\ JLInv'
         /\ \E ids \in SUBSET Subs :
              /\ Dropped(ids) /\ \A s \in ids : row[s].status = "AB" /\ submission_map[s] = None
         /\ \A h \in Conns : jobs'[h] = jobs[h] \/ jobs'[h] = Terminated(h)
         /\ jobs' = jobs \/ jobs' = [h \in Conns |-> jobs'[h]]
         /\ UNCHANGED <<submission_map, working, run_id, conn>>
<1>1. UNCHANGED <<judges, submission_map, handlerVars, lockVars>>
  BY DEF OnAbortProblem
<1>2. UNCHANGED <<submission_map, working, run_id, conn>>
  BY <1>1 DEF handlerVars
<1>3. CASE UNCHANGED <<queue, dispatch_ids, jobs>>
  <2>1. UNCHANGED jlVars
    BY <1>1, <1>3 DEF jlVars, listVars
  <2>2. JLInv' /\ Quiet
    BY <2>1, Same_Facts
  <2>3. Dropped({})
    BY <2>2 DEF Dropped, Quiet, JLInv, JLTypeOK
  <2> QED
    BY <1>2, <1>3, <2>2, <2>3
<1>4. CASE /\ Serving /\ LockFree
           /\ \E ids \in SUBSET AbortIds :
                LET unheld == {s \in ids : submission_map[s] = None}
                    holders == {submission_map[s] : s \in ids \ unheld} IN
                /\ AbortLoop(ids)
                /\ queue' = DropQueued(unheld)
                /\ dispatch_ids' = [s \in Subs |-> IF s \in unheld THEN None ELSE dispatch_ids[s]]
                /\ jobs' = [h \in Conns |-> IF h \in holders THEN Terminated(h) ELSE jobs[h]]
  <2>1. PICK ids \in SUBSET AbortIds :
          LET unheld == {s \in ids : submission_map[s] = None}
              holders == {submission_map[s] : s \in ids \ unheld} IN
          /\ queue' = DropQueued(unheld)
          /\ dispatch_ids' = [s \in Subs |-> IF s \in unheld THEN None ELSE dispatch_ids[s]]
          /\ jobs' = [h \in Conns |-> IF h \in holders THEN Terminated(h) ELSE jobs[h]]
    BY <1>4
  <2> DEFINE unheld == {s \in ids : submission_map[s] = None}
             holders == {submission_map[s] : s \in ids \ unheld}
  <2>2. /\ queue' = DropQueued(unheld)
        /\ dispatch_ids' = [s \in Subs |-> IF s \in unheld THEN None ELSE dispatch_ids[s]]
        /\ jobs' = [h \in Conns |-> IF h \in holders THEN Terminated(h) ELSE jobs[h]]
    BY <2>1
  <2>3. unheld \in SUBSET Subs /\ \A s \in unheld : row[s].status = "AB" /\ submission_map[s] = None
    BY DEF AbortIds
  <2> HIDE DEF unheld, holders
  <2>4. JLInv' /\ Dropped(unheld)
    BY <1>1, <1>4, <2>2, <2>3, DropQueued_JLInv, DropQueued_Facts
  <2> QED
    BY <1>2, <2>2, <2>3, <2>4
<1> QED
  BY <1>3, <1>4 DEF OnAbortProblem

LEMMA OnAbortProblem_BaseInv ==
  ASSUME BaseInv, OnAbortProblem
  PROVE  BaseInv'
<1>1. /\ JLInv'
      /\ \A h \in Conns : jobs'[h] = jobs[h] \/ jobs'[h] = Terminated(h)
      /\ jobs' = jobs \/ jobs' = [h \in Conns |-> jobs'[h]]
      /\ UNCHANGED <<submission_map, working, run_id, retry_request, conn>>
  BY OnAbortProblem_Facts DEF BaseInv, OnAbortProblem, handlerVars
<1>2. PICK ids \in SUBSET Subs : Dropped(ids)
  BY OnAbortProblem_Facts DEF BaseInv
<1>3. \A h \in Conns : jobs'[h] \in SUBSET Job
  BY <1>1, Terminated_Facts DEF BaseInv, OwnTypes
<1>4. jobs' \in [Conns -> SUBSET Job]
  BY <1>1, <1>3 DEF BaseInv, OwnTypes
<1>5. /\ UNCHANGED <<dbVars, handoffs, pipe, runVars, booting>>
      /\ aborts' \in [Subs -> {"idle", "asked", "refused"}] /\ abort_due' \in BOOLEAN
  BY DEF OnAbortProblem, BaseInv, OwnTypes
<1> QED
  BY <1>1, <1>2, <1>4, <1>5, Dropped_BaseInv

LEMMA Timers_Facts ==
  ASSUME BaseInv, NEW h \in Conns, OnRetryQueued(h) \/ RetryWindowEnds(h)
  PROVE  /\ JLInv' /\ Quiet
         /\ UNCHANGED <<dbVars, webVars, workerVars, after, preparing, remote_run, acked, booting>>
         /\ timers' \in SUBSET Conns
<1>1. JLInv
  BY DEF BaseInv
<1>2. CASE OnRetryQueued(h)
  BY <1>1, <1>2, retry_queued_JLInv, QuietMethods DEF OnRetryQueued, BaseInv, OwnTypes
<1>3. CASE RetryWindowEnds(h)
  <2>1. problems' \in [Conns -> SUBSET Subs]
    BY <1>1, <1>3 DEF RetryWindowEnds, JLInv, JLTypeOK
  <2> QED
    BY <1>1, <1>3, <2>1, Problems_Facts DEF RetryWindowEnds, packetJl, runVars, BaseInv, OwnTypes
<1> QED
  BY <1>2, <1>3

LEMMA Timers_BaseInv ==
  ASSUME BaseInv, NEW h \in Conns, OnRetryQueued(h) \/ RetryWindowEnds(h)
  PROVE  BaseInv'
<1>1. /\ JLInv' /\ Quiet
      /\ UNCHANGED <<dbVars, webVars, workerVars, after, preparing, remote_run, acked, booting>>
      /\ timers' \in SUBSET Conns
  BY Timers_Facts
<1>2. OwnTypes'
  BY <1>1 DEF BaseInv, OwnTypes, dbVars, webVars, workerVars
<1> QED
  BY <1>1, <1>2, Unchanged_Parts, Kept_BaseInv DEF Quiet, dbVars, webVars, workerVars

-----------------------------------------------------------------------------
(* Dispatch, workers and packets. *)
Sending(s) == [sub |-> s, tok |-> row[s].dispatch_id, stage |-> "sent", kill |-> FALSE]

LEMMA Offer_BaseInv ==
  ASSUME BaseInv, JLInv', NEW h \in Conns, NEW s \in Subs, NEW out \in Outcomes,
         Offered(h, s, out, row[s].dispatch_id), Submit(h, s, out), NoUpdate => working[h] = None
  PROVE  BaseInv'
<1>1. row[s] \in Row /\ row[s].dispatch_id \in Tokens /\ row[s].dispatch_id \in issued[s]
  BY Offer_Facts
<1>2. Sending(s) \in Job /\ Sending(s).sub = s /\ Sending(s).tok = row[s].dispatch_id
  BY <1>1 DEF Sending, Job
<1>3. jobs' = IF out # "ok" THEN jobs ELSE [jobs EXCEPT ![h] = @ \cup {Sending(s)}]
  BY DEF Submit, Sent, Sending
<1>4. row' \in [Subs -> Row] /\ \A x \in Subs : row'[x].dispatch_id = row[x].dispatch_id
  <2>1. row' = row \/ row' = [row EXCEPT ![s] = [row[s] EXCEPT !.status = "IE"]]
    BY DEF Submit, Answer
  <2>2. [row[s] EXCEPT !.status = "IE"] \in Row /\ [row[s] EXCEPT !.status = "IE"].dispatch_id = row[s].dispatch_id
    BY <1>1 DEF Row, FINAL
  <2> QED
    BY <2>1, <2>2 DEF BaseInv, OwnTypes
<1>5. /\ preparing' \in [Conns -> BOOLEAN] /\ remote_run' \in [Conns -> BOOLEAN] /\ acked' \in [Conns -> BOOLEAN]
      /\ \A g \in Conns : (preparing'[g] => preparing[g] \/ g \in Remote) /\ (remote_run'[g] => remote_run[g] \/ g \in Remote)
  <2>1. PICK b \in BOOLEAN : b = (out = "ok" /\ h \in Remote)
    OBVIOUS
  <2>2. preparing' \in {preparing, [preparing EXCEPT ![h] = b]} /\ remote_run' \in {remote_run, [remote_run EXCEPT ![h] = b]}
    BY <2>1 DEF Submit, Sent, BaseInv, OwnTypes
  <2>3. PICK a \in BOOLEAN : a = (acked[h] /\ out \notin {"ok", "failed"})
    OBVIOUS
  <2>4. acked' = [acked EXCEPT ![h] = a]
    BY <2>3 DEF Submit, Sent
  <2> QED
    BY <2>1, <2>2, <2>4 DEF BaseInv, OwnTypes
<1>6. UNCHANGED <<issued, is_locked, by, webVars, pipe, after, timers, booting>>
  BY DEF Submit, Sent
<1>7. jobs' \in [Conns -> SUBSET Job]
  BY <1>2, <1>3 DEF BaseInv, OwnTypes
<1>8. OwnTypes'
  BY <1>4, <1>5, <1>6, <1>7 DEF BaseInv, OwnTypes, webVars
<1>9. Mono /\ RowsKept /\ HandoffsKept /\ PipesKept /\ BackKept
  BY <1>4, <1>6, Unchanged_Parts DEF Mono, RowsKept, webVars
<1>10. ListKept
  BY DEF Offered, ListKept, BaseInv, JLInv, JLTypeOK
<1>11. HandlerTokens'
  <2>1. \A g \in Conns : NoUpdate /\ working'[g] # None => run_id'[g] \in issued[working'[g]]
    <3> SUFFICES ASSUME NoUpdate, NEW g \in Conns, working'[g] # None PROVE run_id'[g] \in issued[working'[g]]
      OBVIOUS
    <3>1. working[h] = None
      OBVIOUS
    <3>2. (g = h /\ working'[g] = s /\ run_id'[g] = row[s].dispatch_id) \/ (working'[g] = working[g] /\ run_id'[g] = run_id[g])
      BY <3>1 DEF Offered, BaseInv, JLInv, JLTypeOK
    <3> QED
      BY <1>1, <3>2 DEF HandlerTokens, BaseInv, TokensIssued
  <2>2. \A g \in Conns : retry_request'[g] # None => issued[retry_request'[g].id] # {}
    <3> SUFFICES ASSUME NEW g \in Conns, retry_request'[g] # None PROVE issued[retry_request'[g].id] # {}
      OBVIOUS
    <3>1. retry_request'[g] = retry_request[g] \/ retry_request'[g].id = s
      BY DEF Offered, BaseInv, JLInv, JLTypeOK
    <3> QED
      BY <1>1, <3>1 DEF HandlerTokens, BaseInv, TokensIssued
  <2> QED
    BY <2>1, <2>2, <1>6 DEF HandlerTokens
<1>12. WorkerTokens'
  <2>1. ASSUME NEW g \in Conns, NEW j \in jobs'[g] PROVE j.tok \in issued[j.sub]
    <3>1. j \in jobs[g] \/ j = Sending(s)
      BY <2>1, <1>3 DEF BaseInv, OwnTypes
    <3> QED
      BY <3>1, <1>1, <1>2 DEF BaseInv, TokensIssued, WorkerTokens
  <2> QED
    BY <2>1, <1>6 DEF WorkerTokens, BaseInv, TokensIssued
<1>13. RemoteOnly'
  <2>1. \A g \in Conns : conn[g] \in {"up", "shut"} => conn'[g] \in {"up", "shut"}
    BY DEF Offered, Shut, BaseInv, JLInv, JLTypeOK
  <2> QED
    BY <2>1, <1>5, <1>6, <1>9 DEF RemoteOnly, BackKept, BaseInv
<1> QED
  BY <1>8, <1>9, <1>10, <1>11, <1>12, <1>13, Kept_Parts DEF BaseInv, TokensIssued

LEMMA Schedule_BaseInv ==
  ASSUME BaseInv, NoUpdate => JLMap, Schedule
  PROVE  BaseInv'
<1>1. CASE Quiet /\ UNCHANGED OwnVars
  BY <1>1, Schedule_Facts, Quiet_BaseInv
<1>2. ASSUME NEW h \in Conns, NEW s \in Subs, NEW out \in Outcomes,
             Offered(h, s, out, row[s].dispatch_id), Submit(h, s, out), JLMap => Live(h) /\ working[h] = None
      PROVE  BaseInv'
  BY <1>2, Schedule_Facts, Offer_BaseInv
<1> QED
  BY <1>1, <1>2, Schedule_Facts

LEMMA WorkerStep_BaseInv ==
  ASSUME BaseInv, NEW h \in Conns, NEW j \in jobs[h], NEW p, NEW rest, WorkerStep(h, j, p, rest)
  PROVE  BaseInv'
<1>1. j \in Job /\ j.tok \in issued[j.sub] /\ jobs[h] \in SUBSET Job /\ pipe[h] \in Seq(Packet)
  BY DEF BaseInv, OwnTypes, TokensIssued, WorkerTokens
<1>2. JLInv' /\ Quiet
  BY Same_Facts DEF WorkerStep, BaseInv
<1>3. UNCHANGED <<dbVars, webVars, runVars, booting>>
  BY DEF WorkerStep
<1>4. p \in Packet /\ Append(pipe[h], p) \in Seq(Packet) /\ Elems(Append(pipe[h], p)) = Elems(pipe[h]) \cup {p}
  BY <1>1, AppendElems DEF WorkerStep
<1>5. /\ jobs' = [jobs EXCEPT ![h] = (jobs[h] \ {j}) \cup rest]
      /\ pipe' = [pipe EXCEPT ![h] = Append(pipe[h], p)]
      /\ rest \in SUBSET Job
      /\ \A k \in rest : k.sub = j.sub /\ k.tok = j.tok
      /\ p.sub = j.sub /\ p.job = j.tok /\ p.did = IF h \in Echo THEN j.tok ELSE None
  BY DEF WorkerStep
<1>6. OwnTypes'
  BY <1>1, <1>3, <1>4, <1>5 DEF BaseInv, OwnTypes, dbVars, webVars, runVars
<1>7. \A g \in Conns : Elems(pipe'[g]) \subseteq Elems(pipe[g]) \cup IF g = h THEN {p} ELSE {}
  BY <1>4, <1>5 DEF BaseInv, OwnTypes
<1>8. JobsKept
  BY <1>5 DEF JobsKept, BaseInv, OwnTypes
<1>9. WorkerTokens'
  <2>1. issued' = issued
    BY <1>3 DEF dbVars
  <2>2. \A g \in Conns : \A k \in jobs'[g] : k.tok \in issued[k.sub]
    BY <1>8 DEF WorkerTokens, JobsKept, BaseInv, TokensIssued
  <2>3. \A g \in Conns : \A q \in Elems(pipe'[g]) : q = p \/ q \in Elems(pipe[g])
    BY <1>7
  <2>4. p.job \in issued[p.sub]
    BY <1>1, <1>5
  <2>5. \A g \in Conns : \A q \in Elems(pipe'[g]) : q.job \in issued[q.sub]
    BY <2>3, <2>4 DEF WorkerTokens, BaseInv, TokensIssued
  <2> QED
    BY <2>1, <2>2, <2>5 DEF WorkerTokens
<1>10. EchoTrue'
  BY <1>5, <1>7 DEF EchoTrue, BaseInv
<1>11. Mono
  BY <1>3 DEF Mono, dbVars
<1> QED
  BY <1>2, <1>3, <1>6, <1>9, <1>10, <1>11, Unchanged_Parts, Kept_Parts
     DEF BaseInv, TokensIssued, dbVars, webVars, runVars, Quiet

LEMMA Worker_BaseInv ==
  ASSUME BaseInv, NEW h \in Conns, NEW j \in jobs[h],
         WorkerAcks(h, j) \/ WorkerPrepares(h, j) \/ WorkerBegins(h, j) \/ WorkerEnds(h, j)
  PROVE  BaseInv'
<1>1. PICK p, rest : WorkerStep(h, j, p, rest)
  BY Worker_Facts DEF BaseInv
<1> QED
  BY <1>1, WorkerStep_BaseInv

\* A packet that passes the test of _handle_submission_packet is about the run its handler works on.
LEMMA CurrentRun_Facts ==
  ASSUME BaseInv, NEW h \in Conns, NEW p \in Elems(pipe[h]), CurrentRun(h, p)
  PROVE  /\ p \in Packet /\ p.sub \in Subs /\ p.job \in issued[p.sub] /\ InProgress(p.sub)
         /\ row[p.sub].dispatch_id \in Tokens /\ row[p.sub].dispatch_id # None
         /\ working[h] = p.sub /\ run_id[h] = row[p.sub].dispatch_id
         /\ h \in Echo => p.job = run_id[h]
<1>1. pipe[h] \in Seq(Packet)
  BY DEF BaseInv, OwnTypes
<1>2. p \in Packet
  BY <1>1, ElementOfSeq DEF Elems
<1>3. p.sub \in Subs /\ p.job \in Tokens /\ p.job \in issued[p.sub]
  BY <1>2 DEF Packet, BaseInv, TokensIssued, WorkerTokens
<1>4. row[p.sub].dispatch_id # None /\ row[p.sub].dispatch_id \in Tokens
  BY <1>3 DEF BaseInv, OwnTypes, TokensIssued, RowTokens
<1>5. p.did = IF h \in Echo THEN p.job ELSE None
  BY DEF BaseInv, EchoTrue
<1> QED
  BY <1>2, <1>3, <1>4, <1>5, NoneFacts DEF CurrentRun

\* _retry_remote_submission() replaces the token of a row that was not judged yet.
Requeued(h, op, tok) ==
  /\ working[h] \in Subs /\ tok \in Fresh(working[h])
  /\ row' = [row EXCEPT ![working[h]] = [status |-> "QU", dispatch_id |-> tok]]
  /\ issued' = [issued EXCEPT ![working[h]] = @ \cup {tok}]
  /\ after' = [after EXCEPT ![h] = [op |-> op, sub |-> working[h], tok |-> tok]]
  /\ problems' = [problems EXCEPT ![h] = {}]

LEMMA Requeue_Facts ==
  ASSUME NEW h \in Conns, working[h] \in Subs, NEW op, Requeue(h, op)
  PROVE  \E tok : Requeued(h, op, tok)
  BY DEF Requeue, Requeued, Then

LEMMA Requeued_Parts ==
  ASSUME BaseInv, NEW h \in Conns, NEW op \in {"defer", "discard"}, NEW tok, Requeued(h, op, tok),
         h \in Remote, conn[h] \in {"up", "shut"},
         UNCHANGED <<packetJl, preparing, remote_run, handoffs>>
  PROVE  /\ JLInv' /\ Mono /\ RowTokens' /\ BackTokens' /\ RemoteOnly' /\ Quiet
         /\ row' \in [Subs -> Row] /\ issued' \in [Subs -> SUBSET Tokens]
         /\ after' \in [Conns -> Callback \cup {None}]
<1> DEFINE s == working[h]
<1>1. s \in Subs /\ tok \in Tokens /\ tok \in Nat /\ \A u \in issued[s] : u <= tok
  BY NextToken DEF Requeued, BaseInv
<1>2. /\ row' = [row EXCEPT ![s] = [status |-> "QU", dispatch_id |-> tok]]
      /\ issued' = [issued EXCEPT ![s] = issued[s] \cup {tok}]
      /\ after' = [after EXCEPT ![h] = [op |-> op, sub |-> s, tok |-> tok]]
      /\ problems' = [problems EXCEPT ![h] = {}]
  BY DEF Requeued
<1> HIDE DEF s
<1>3. row' \in [Subs -> Row] /\ issued' \in [Subs -> SUBSET Tokens] /\ after' \in [Conns -> Callback \cup {None}]
  <2>1. [status |-> "QU", dispatch_id |-> tok] \in Row /\ [op |-> op, sub |-> s, tok |-> tok] \in Callback
    BY <1>1 DEF Row, IN_PROGRESS, Callback
  <2> QED
    BY <2>1, <1>1, <1>2 DEF BaseInv, OwnTypes
<1>4. Mono
  BY <1>1, <1>2 DEF Mono, BaseInv, OwnTypes
<1>5. RowTokens'
  BY <1>1, <1>2, NoneFacts DEF RowTokens, BaseInv, OwnTypes, TokensIssued
<1>6. \A g \in Conns \ {h} : after'[g] = after[g]
  BY <1>2 DEF BaseInv, OwnTypes
<1>7. BackTokens'
  <2>1. ASSUME NEW g \in Conns, PutBack(g)' PROVE after'[g].tok \in issued'[after'[g].sub]
    <3>1. CASE g = h
      BY <3>1, <1>1, <1>2 DEF BaseInv, OwnTypes
    <3>2. CASE g # h
      <4>1. PutBack(g) /\ after'[g] = after[g] /\ after[g] # None
        BY <2>1, <3>2, <1>6 DEF PutBack
      <4>2. after[g] \in Callback /\ after[g].tok \in issued[after[g].sub]
        BY <4>1 DEF BaseInv, OwnTypes, TokensIssued, BackTokens
      <4>3. after[g].sub \in Subs
        BY <4>2 DEF Callback
      <4> QED
        BY <4>1, <4>2, <4>3, <1>4 DEF Mono
    <3> QED
      BY <3>1, <3>2
  <2> QED
    BY <2>1 DEF BackTokens
<1>8. RemoteOnly'
  BY <1>6 DEF RemoteOnly, PutBack, BaseInv, packetJl
<1>9. JLInv' /\ Quiet
  <2>1. problems' \in [Conns -> SUBSET Subs]
    BY <1>2 DEF BaseInv, JLInv, JLTypeOK
  <2> QED
    BY <2>1, Problems_Facts DEF BaseInv, packetJl
<1> QED
  BY <1>3, <1>4, <1>5, <1>7, <1>8, <1>9

LEMMA PipeHead ==
  ASSUME OwnTypes, NEW h \in Conns, pipe[h] # <<>>, pipe' = [pipe EXCEPT ![h] = Tail(@)]
  PROVE  /\ Head(pipe[h]) \in Elems(pipe[h]) /\ Head(pipe[h]) \in Packet
         /\ pipe' \in [Conns -> Seq(Packet)] /\ PipesKept
<1>1. pipe[h] \in Seq(Packet) /\ pipe' = [pipe EXCEPT ![h] = Tail(pipe[h])]
  BY DEF OwnTypes
<1>2. /\ Tail(pipe[h]) \in Seq(Packet) /\ Elems(Tail(pipe[h])) \subseteq Elems(pipe[h])
      /\ Head(pipe[h]) \in Elems(pipe[h]) /\ Head(pipe[h]) \in Packet
  BY <1>1, TailElems
<1> QED
  BY <1>1, <1>2 DEF PipesKept, OwnTypes

Called(h, p) ==
  \/ after' = after
  \/ after' = [after EXCEPT ![h] = [op |-> "release", sub |-> p.sub, tok |-> None]]
  \/ after' = [after EXCEPT ![h] = [op |-> "abort", sub |-> p.sub, tok |-> None]]
\* What a packet's transaction does when it does not put the run back.
Plain(h, p) ==
  /\ issued' = issued /\ problems' = problems
  /\ \/ row' = row
     \/ p.sub \in Subs /\ \E st \in {"P", "G", p.status} : row' = [row EXCEPT ![p.sub].status = st]
  /\ by' = by \/ by' = [by EXCEPT ![p.sub] = p.job]
  /\ Called(h, p)
  /\ preparing' = preparing \/ \E b \in BOOLEAN : preparing' = [preparing EXCEPT ![h] = preparing[h] /\ b]
  /\ acked' = acked \/ acked' = [acked EXCEPT ![h] = TRUE]

LEMMA HandlePacket_Facts ==
  ASSUME BaseInv, NEW h \in Conns, HandlePacket(h)
  PROVE  LET p == Head(pipe[h]) IN
         \/ Plain(h, p)
         \/ /\ \E tok : Requeued(h, "defer", tok)
            /\ CurrentRun(h, p) /\ p.kind = "unavailable" /\ remote_run[h] /\ Retryable(h)
            /\ UNCHANGED <<by, preparing, acked>>
<1> DEFINE p == Head(pipe[h])
<1>1. p \in Elems(pipe[h]) /\ p \in Packet
  BY PipeHead DEF HandlePacket, BaseInv
<1>2. CASE UNCHANGED packetVars
  BY <1>2 DEF packetVars, Plain, Called
<1>3. ASSUME CurrentRun(h, p), Handled(h, p)
      PROVE  \/ Plain(h, p)
             \/ /\ \E tok : Requeued(h, "defer", tok)
                /\ p.kind = "unavailable" /\ remote_run[h] /\ Retryable(h)
                /\ UNCHANGED <<by, preparing, acked>>
  <2>1. p.sub \in Subs /\ working[h] = p.sub
    BY <1>1, <1>3, CurrentRun_Facts
  <2> HIDE DEF p
  <2>2. CASE OnAcknowledged(h, p)
    BY <2>1, <2>2 DEF OnAcknowledged, Plain, Called
  <2>3. CASE OnPrepared(h, p)
    <3>1. PICK b \in BOOLEAN : b = ~remote_run[h]
      OBVIOUS
    <3> QED
      BY <2>3, <3>1 DEF OnPrepared, Plain, Called
  <2>4. CASE OnGradingBegin(h, p)
    BY <2>1, <2>4 DEF OnGradingBegin, Plain, Called
  <2>5. CASE OnRunEnd(h, p)
    BY <2>1, <2>5 DEF OnRunEnd, Then, Plain, Called
  <2>6. CASE OnUnavailable(h, p)
    <3>1. CASE remote_run[h] /\ Retryable(h)
      BY <2>1, <2>6, <3>1, Requeue_Facts DEF OnUnavailable
    <3>2. CASE ~(remote_run[h] /\ Retryable(h))
      BY <2>6, <3>2 DEF OnUnavailable, Plain, Called
    <3> QED
      BY <3>1, <3>2
  <2> QED
    BY <1>3, <2>2, <2>3, <2>4, <2>5, <2>6 DEF Handled
<1> HIDE DEF p
<1>4. CASE Stale(h, p)
  <2>1. UNCHANGED <<row, issued, by, preparing, acked, problems>> /\ Called(h, p)
    BY <1>4 DEF Stale, Then, Called
  <2>2. Plain(h, p)
    BY <2>1 DEF Plain
  <2> QED
    BY <2>2 DEF p
<1>5. \/ UNCHANGED packetVars
      \/ CurrentRun(h, p) /\ Handled(h, p)
      \/ Stale(h, p)
  BY DEF HandlePacket, p
<1> QED
  BY <1>2, <1>3, <1>4, <1>5 DEF p

LEMMA HandlePacket_BaseInv ==
  ASSUME BaseInv, NEW h \in Conns, HandlePacket(h)
  PROVE  BaseInv'
<1> DEFINE p == Head(pipe[h])
<1>1. p \in Elems(pipe[h]) /\ p \in Packet /\ pipe' \in [Conns -> Seq(Packet)] /\ PipesKept
  BY PipeHead DEF HandlePacket, BaseInv
<1>2. UNCHANGED <<packetJl, is_locked, webVars, jobs, remote_run, timers, booting>> /\ conn[h] \in {"up", "shut"}
  BY DEF HandlePacket, Reading
<1>3. HandoffsKept /\ JobsKept
  BY <1>2, Unchanged_Parts DEF webVars
<1> HIDE DEF p
<1>4. CASE Plain(h, p)
  <2>1. JLInv' /\ Quiet
    <3>1. problems' \in [Conns -> SUBSET Subs]
      BY <1>4 DEF Plain, BaseInv, JLInv, JLTypeOK
    <3> QED
      BY <3>1, <1>2, Problems_Facts DEF BaseInv, packetJl
  <2>2. row' \in [Subs -> Row] /\ RowsKept
    <3>1. ASSUME p.sub \in Subs, NEW st \in {"P", "G", p.status}, row' = [row EXCEPT ![p.sub].status = st]
          PROVE  row' \in [Subs -> Row] /\ \A x \in Subs : row'[x].dispatch_id = row[x].dispatch_id
      <4>1. /\ row' = [row EXCEPT ![p.sub] = [row[p.sub] EXCEPT !.status = st]]
            /\ [row[p.sub] EXCEPT !.status = st] \in Row
            /\ [row[p.sub] EXCEPT !.status = st].dispatch_id = row[p.sub].dispatch_id
        <5>1. row[p.sub] \in Row /\ st \in IN_PROGRESS \cup FINAL
          BY <1>1, <3>1 DEF Packet, IN_PROGRESS, BaseInv, OwnTypes
        <5> QED
          BY <3>1, <5>1 DEF Row
      <4> QED
        BY <3>1, <4>1 DEF BaseInv, OwnTypes
    <3> QED
      BY <1>4, <3>1 DEF Plain, BaseInv, OwnTypes, RowsKept
  <2>3. /\ by' \in [Subs -> Tokens \cup {None}]
        /\ after' \in [Conns -> Callback \cup {None}]
        /\ preparing' \in [Conns -> BOOLEAN] /\ \A g \in Conns : preparing'[g] => preparing[g]
        /\ acked' \in [Conns -> BOOLEAN]
    <3>1. \A op \in {"release", "abort"} : [op |-> op, sub |-> p.sub, tok |-> None] \in Callback
      BY <1>1 DEF Callback, Packet
    <3>2. p.job \in Tokens
      BY <1>1 DEF Packet
    <3>3. preparing' \in [Conns -> BOOLEAN] /\ \A g \in Conns : preparing'[g] => preparing[g]
      BY <1>4 DEF Plain, BaseInv, OwnTypes
    <3>4. after' \in [Conns -> Callback \cup {None}]
      <4>1. CASE after' = after
        BY <4>1 DEF BaseInv, OwnTypes
      <4>2. ASSUME NEW c \in Callback, after' = [after EXCEPT ![h] = c] PROVE after' \in [Conns -> Callback \cup {None}]
        BY <4>2 DEF BaseInv, OwnTypes
      <4> QED
        BY <1>4, <3>1, <4>1, <4>2 DEF Plain, Called
    <3>5. by' \in [Subs -> Tokens \cup {None}]
      BY <1>4, <3>2 DEF Plain, BaseInv, OwnTypes
    <3>6. acked' \in [Conns -> BOOLEAN]
      BY <1>4 DEF Plain, BaseInv, OwnTypes
    <3> QED
      BY <3>3, <3>4, <3>5, <3>6
  <2>4. OwnTypes'
    BY <1>1, <1>2, <1>4, <2>2, <2>3 DEF Plain, BaseInv, OwnTypes, webVars
  <2>5. \A g \in Conns : \/ after'[g] = after[g]
                         \/ g = h /\ after'[g] \in [op : {"release", "abort"}, sub : {p.sub}, tok : {None}]
    BY <1>4 DEF Plain, Called, BaseInv, OwnTypes
  <2>6. BackKept
    BY <2>5 DEF BackKept, PutBack
  <2>7. RemoteOnly'
    BY <1>2, <2>3, <2>5, <2>6 DEF RemoteOnly, BackKept, BaseInv, packetJl
  <2>8. Mono
    BY <2>2 DEF Mono, RowsKept
  <2> QED
    BY <1>1, <1>3, <2>1, <2>2, <2>4, <2>6, <2>7, <2>8, Kept_Parts, Unchanged_Parts DEF BaseInv, TokensIssued
<1>5. ASSUME NEW tok, Requeued(h, "defer", tok), remote_run[h], UNCHANGED <<by, preparing, acked>>
      PROVE  BaseInv'
  <2>1. h \in Remote /\ UNCHANGED <<packetJl, preparing, remote_run, handoffs>>
    BY <1>2, <1>5 DEF BaseInv, RemoteOnly, webVars
  <2>2. /\ JLInv' /\ Mono /\ RowTokens' /\ BackTokens' /\ RemoteOnly' /\ Quiet
        /\ row' \in [Subs -> Row] /\ issued' \in [Subs -> SUBSET Tokens]
        /\ after' \in [Conns -> Callback \cup {None}]
    BY <1>2, <1>5, <2>1, Requeued_Parts
  <2>3. OwnTypes'
    BY <1>1, <1>2, <1>5, <2>2 DEF BaseInv, OwnTypes, webVars
  <2> QED
    BY <1>1, <1>3, <2>2, <2>3, Kept_Parts, Unchanged_Parts DEF BaseInv, TokensIssued
<1> QED
  BY <1>4, <1>5, HandlePacket_Facts DEF p

-----------------------------------------------------------------------------
(* The callbacks, the end of a connection and the end of the process. *)
LEMMA Release_BaseInv ==
  ASSUME BaseInv, NEW h \in Conns, Release(h)
  PROVE  BaseInv'
<1>1. after[h] \in Callback /\ after[h].sub \in Subs /\ after[h].op = "release"
  BY DEF Release, BaseInv, OwnTypes, Callback
<1>2. JLInv'
  BY <1>1, on_judge_free_JLInv, Same_Facts DEF Release, BaseInv
<1>3. ListKept /\ HandlersKept /\ ConnStep
  <2>1. CASE working[h] = after[h].sub
    <3>1. /\ run_id' = run_id /\ conn' = conn
          /\ IF Holds(h, after[h].sub) THEN Freed(h, after[h].sub) ELSE Quiet
      BY <1>1, <2>1, on_judge_free_Facts DEF Release, BaseInv
    <3>2. CASE Freed(h, after[h].sub)
      BY <3>1, <3>2 DEF Freed, ListKept, HandlersKept, ConnStep, BaseInv, JLInv, JLTypeOK
    <3>3. CASE Quiet
      BY <3>1, <3>3, Unchanged_Parts DEF ConnStep
    <3> QED
      BY <3>1, <3>2, <3>3
  <2>2. CASE working[h] # after[h].sub
    <3>1. Quiet
      BY <2>2, Same_Facts DEF Release, BaseInv
    <3> QED
      BY <3>1, Unchanged_Parts DEF Quiet
  <2> QED
    BY <2>1, <2>2
<1>4. /\ after' = [after EXCEPT ![h] = None]
      /\ preparing' \in {preparing, [preparing EXCEPT ![h] = FALSE]}
      /\ remote_run' \in {remote_run, [remote_run EXCEPT ![h] = FALSE]}
      /\ UNCHANGED <<dbVars, webVars, workerVars, acked, timers, booting>>
  BY DEF Release
<1>5. OwnTypes'
  BY <1>4 DEF BaseInv, OwnTypes, dbVars, webVars, workerVars
<1>6. BackKept /\ FlagsKept
  BY <1>3, <1>4 DEF BackKept, FlagsKept, PutBack, ConnStep, BaseInv, OwnTypes, RemoteOnly
<1> QED
  BY <1>2, <1>3, <1>4, <1>5, <1>6, Unchanged_Parts, Kept_BaseInv DEF dbVars, webVars, workerVars

LEMMA AbortWorker_BaseInv ==
  ASSUME BaseInv, NEW h \in Conns, AbortWorker(h)
  PROVE  BaseInv'
<1>1. JLInv' /\ Quiet
  BY Same_Facts DEF AbortWorker, BaseInv
<1>2. /\ after' = [after EXCEPT ![h] = None] /\ jobs' = [jobs EXCEPT ![h] = Terminated(h)]
      /\ UNCHANGED <<dbVars, webVars, pipe, preparing, remote_run, acked, timers, booting>>
  BY DEF AbortWorker
<1>3. Terminated(h) \in SUBSET Job /\ JobsKept
  BY <1>2, Terminated_Facts DEF BaseInv, OwnTypes, JobsKept
<1>4. OwnTypes'
  BY <1>2, <1>3 DEF BaseInv, OwnTypes, dbVars, webVars
<1>5. BackKept /\ FlagsKept
  BY <1>1, <1>2 DEF BackKept, FlagsKept, PutBack, Quiet, ConnStep, BaseInv, OwnTypes, RemoteOnly
<1> QED
  BY <1>1, <1>2, <1>3, <1>4, <1>5, Unchanged_Parts, Kept_BaseInv DEF dbVars, webVars

LEMMA Defer_BaseInv ==
  ASSUME BaseInv, NoUpdate => JLMap, NEW h \in Conns, Defer(h)
  PROVE  BaseInv'
<1> DEFINE s == after[h].sub
           tok == after[h].tok
<1>1. s \in Subs /\ tok \in issued[s] /\ tok \in Tokens
  <2>1. PutBack(h) /\ after[h] \in Callback
    BY DEF Defer, PutBack, BaseInv, OwnTypes
  <2>2. s \in Subs /\ tok \in issued[s]
    BY <2>1 DEF BaseInv, TokensIssued, BackTokens, Callback
  <2> QED
    BY <2>2 DEF BaseInv, OwnTypes
<1>2. defer(h, s, tok)
  BY DEF Defer
<1>3. /\ after' = [after EXCEPT ![h] = None]
      /\ timers' \in {timers, timers \cup {h}}
      /\ UNCHANGED <<dbVars, webVars, workerVars, acked, booting>>
  BY DEF Defer
<1>4. \E b \in BOOLEAN : /\ preparing' = [preparing EXCEPT ![h] = preparing[h] /\ b]
                         /\ remote_run' = [remote_run EXCEPT ![h] = remote_run[h] /\ b]
  <2>1. PICK b \in BOOLEAN : b = ~Holds(h, s)
    OBVIOUS
  <2> QED
    BY <2>1 DEF Defer
<1> HIDE DEF s, tok
<1>5. JLInv'
  BY <1>1, <1>2, defer_JLInv DEF BaseInv
<1>6. /\ run_id' = run_id /\ conn' = conn /\ retry_request' = retry_request
      /\ working' = working \/ working' = [working EXCEPT ![h] = None]
  BY <1>2 DEF defer
<1>7. HandlersKept /\ ConnStep
  BY <1>6 DEF HandlersKept, ConnStep, BaseInv, JLInv, JLTypeOK
<1>8. ListTokens'
  <2>1. issued' = issued
    BY <1>3 DEF dbVars
  <2>2. ASSUME NEW x \in Subs, Waits(x)' PROVE issued[x] # {}
    <3>1. Waits(x) \/ (retry_request[h] # None /\ x = retry_request[h].id)
      BY <2>2, <1>1, <1>2, defer_Waits DEF BaseInv
    <3>2. retry_request[h] # None => issued[retry_request[h].id] # {}
      BY DEF BaseInv, TokensIssued, HandlerTokens
    <3>3. Waits(x) => issued[x] # {}
      BY DEF BaseInv, TokensIssued, ListTokens
    <3> QED
      BY <3>1, <3>2, <3>3
  <2>3. ASSUME NoUpdate, NEW x \in Subs, dispatch_ids'[x] # None PROVE dispatch_ids'[x] \in issued[x]
    <3>1. IF Holds(h, s) THEN PutBackAs(h, s, tok) ELSE Quiet
      BY <2>3, <1>1, <1>2, defer_Facts DEF BaseInv, JLMap
    <3>2. dispatch_ids'[x] = dispatch_ids[x] \/ (x = s /\ dispatch_ids'[x] \in {None, tok})
      BY <3>1, <1>1 DEF PutBackAs, Quiet, BaseInv, JLInv, JLTypeOK
    <3> QED
      BY <2>3, <3>2, <1>1 DEF ListTokens, BaseInv, TokensIssued
  <2> QED
    BY <2>1, <2>2, <2>3 DEF ListTokens
<1>9. OwnTypes'
  BY <1>3, <1>4 DEF BaseInv, OwnTypes, dbVars, webVars, workerVars
<1>10. BackKept /\ FlagsKept
  BY <1>3, <1>4, <1>6 DEF BackKept, FlagsKept, PutBack, BaseInv, OwnTypes, RemoteOnly
<1>11. Mono
  BY <1>3 DEF Mono, dbVars
<1> QED
  BY <1>3, <1>5, <1>7, <1>8, <1>9, <1>10, <1>11, Unchanged_Parts, Kept_Parts
     DEF BaseInv, TokensIssued, dbVars, webVars, workerVars

LEMMA DisconnectRetry_Facts ==
  ASSUME BaseInv, NEW h \in Conns, DisconnectRetry(h)
  PROVE  /\ conn[h] = "shut" /\ after[h] = None /\ h \in Remote /\ Retryable(h)
         /\ \E tok : Requeued(h, "discard", tok)
         /\ pipe' = [pipe EXCEPT ![h] = <<>>]
         /\ UNCHANGED <<packetJl, is_locked, by, webVars, jobs, preparing, remote_run, acked, timers, booting>>
<1>1. working[h] \in Subs
  BY DEF DisconnectRetry, BaseInv, JLInv, JLTypeOK
<1>2. h \in Remote
  BY DEF DisconnectRetry, Retryable, BaseInv, RemoteOnly
<1> QED
  BY <1>1, <1>2, Requeue_Facts DEF DisconnectRetry

LEMMA EmptyPipe ==
  ASSUME OwnTypes, NEW h \in Conns, pipe' = [pipe EXCEPT ![h] = <<>>]
  PROVE  pipe' \in [Conns -> Seq(Packet)] /\ PipesKept
<1>1. <<>> \in Seq(Packet) /\ Elems(<<>>) = {}
  BY EmptySeq, NoElems
<1> QED
  BY <1>1 DEF OwnTypes, PipesKept

LEMMA DisconnectRetry_BaseInv ==
  ASSUME BaseInv, NEW h \in Conns, DisconnectRetry(h)
  PROVE  BaseInv'
<1>1. PICK tok : Requeued(h, "discard", tok)
  BY DisconnectRetry_Facts
<1>2. /\ conn[h] = "shut" /\ h \in Remote
      /\ UNCHANGED <<packetJl, is_locked, by, webVars, jobs, preparing, remote_run, acked, timers, booting>>
  BY DisconnectRetry_Facts
<1>3. pipe' \in [Conns -> Seq(Packet)] /\ PipesKept
  BY DisconnectRetry_Facts, EmptyPipe DEF BaseInv
<1>4. /\ JLInv' /\ Mono /\ RowTokens' /\ BackTokens' /\ RemoteOnly' /\ Quiet
      /\ row' \in [Subs -> Row] /\ issued' \in [Subs -> SUBSET Tokens]
      /\ after' \in [Conns -> Callback \cup {None}]
  BY <1>1, <1>2, Requeued_Parts DEF webVars
<1>5. OwnTypes'
  BY <1>2, <1>3, <1>4 DEF BaseInv, OwnTypes, webVars
<1> QED
  BY <1>2, <1>3, <1>4, <1>5, Kept_Parts, Unchanged_Parts DEF BaseInv, TokensIssued, webVars

LEMMA DisconnectDiscard_BaseInv ==
  ASSUME BaseInv, NEW h \in Conns, DisconnectDiscard(h)
  PROVE  BaseInv'
<1>1. JLInv' /\ Quiet
  BY discard_JLInv, QuietMethods DEF DisconnectDiscard, BaseInv
<1>2. /\ after' = [after EXCEPT ![h].op = "leave"] /\ after[h] \in Callback /\ after[h].op = "discard"
      /\ UNCHANGED <<dbVars, webVars, workerVars, preparing, remote_run, acked, timers, booting>>
  BY DEF DisconnectDiscard, BaseInv, OwnTypes
<1>3. /\ after' = [after EXCEPT ![h] = [after[h] EXCEPT !.op = "leave"]]
      /\ [after[h] EXCEPT !.op = "leave"] \in Callback
      /\ [after[h] EXCEPT !.op = "leave"].sub = after[h].sub /\ [after[h] EXCEPT !.op = "leave"].tok = after[h].tok
  BY <1>2 DEF Callback
<1>4. OwnTypes'
  BY <1>2, <1>3 DEF BaseInv, OwnTypes, dbVars, webVars, workerVars
<1>5. PutBack(h)
  BY <1>2 DEF PutBack, DisconnectDiscard
<1>6. BackKept
  BY <1>3, <1>5 DEF BackKept, PutBack, BaseInv, OwnTypes
<1>7. FlagsKept
  BY <1>1, <1>2, <1>3, <1>5 DEF FlagsKept, PutBack, Quiet, ConnStep, BaseInv, OwnTypes, RemoteOnly
<1> QED
  BY <1>1, <1>2, <1>4, <1>6, <1>7, Unchanged_Parts, Kept_BaseInv DEF dbVars, webVars, workerVars

LEMMA DisconnectRemove_BaseInv ==
  ASSUME BaseInv, NEW h \in Conns, DisconnectRemove(h)
  PROVE  BaseInv'
<1>1. JLInv' /\ Removed(h)
  BY remove_JLInv, remove_Facts DEF DisconnectRemove, BaseInv
<1>2. after[h] = None /\ UNCHANGED <<dbVars, webVars, jobs, runVars, booting>>
  BY DEF DisconnectRemove
<1>3. pipe' \in [Conns -> Seq(Packet)] /\ PipesKept
  BY EmptyPipe DEF DisconnectRemove, BaseInv
<1>4. OwnTypes'
  BY <1>2, <1>3 DEF BaseInv, OwnTypes, dbVars, webVars, runVars
<1>5. ListKept /\ HandlersKept
  BY <1>1 DEF Removed, ListKept, HandlersKept
<1>6. FlagsKept
  BY <1>1, <1>2 DEF FlagsKept, Removed, runVars, BaseInv, JLInv, JLTypeOK
<1> QED
  BY <1>1, <1>2, <1>3, <1>4, <1>5, <1>6, Unchanged_Parts, Kept_BaseInv DEF dbVars, webVars, runVars

LEMMA DisconnectFail_Facts ==
  ASSUME BaseInv, NEW h \in Conns, DisconnectFail(h)
  PROVE  /\ JLInv' /\ Forgotten(h)
         /\ \/ row' = row
            \/ /\ working[h] \in Subs /\ Current(working[h], run_id[h])
               /\ row' = [row EXCEPT ![working[h]] = [row[working[h]] EXCEPT !.status = "IE"]]
         /\ row' \in [Subs -> Row] /\ \A x \in Subs : row'[x].dispatch_id = row[x].dispatch_id
<1>1. JLInv' /\ Forgotten(h)
  BY Forget_JLInv, Forget_Facts DEF DisconnectFail, BaseInv
<1>2. \/ row' = row
      \/ /\ working[h] \in Subs /\ Current(working[h], run_id[h])
         /\ row' = [row EXCEPT ![working[h]] = [row[working[h]] EXCEPT !.status = "IE"]]
  BY DEF DisconnectFail, BaseInv, JLInv, JLTypeOK
<1>3. \A x \in Subs : row[x] \in Row /\ [row[x] EXCEPT !.status = "IE"] \in Row
                      /\ [row[x] EXCEPT !.status = "IE"].dispatch_id = row[x].dispatch_id
  BY FinalRow DEF BaseInv, OwnTypes, FINAL
<1> QED
  BY <1>1, <1>2, <1>3 DEF BaseInv, OwnTypes

LEMMA DisconnectFail_BaseInv ==
  ASSUME BaseInv, NEW h \in Conns, DisconnectFail(h)
  PROVE  BaseInv'
<1>1. /\ JLInv' /\ Forgotten(h)
      /\ row' \in [Subs -> Row] /\ \A x \in Subs : row'[x].dispatch_id = row[x].dispatch_id
  BY DisconnectFail_Facts
<1>2. /\ jobs' = [jobs EXCEPT ![h] = {}]
      /\ preparing' = [preparing EXCEPT ![h] = FALSE] /\ remote_run' = [remote_run EXCEPT ![h] = FALSE]
      /\ acked' = [acked EXCEPT ![h] = FALSE]
      /\ UNCHANGED <<issued, is_locked, by, webVars, pipe, after, timers, booting>>
  BY DEF DisconnectFail
<1>3. OwnTypes'
  BY <1>1, <1>2 DEF BaseInv, OwnTypes, webVars
<1>4. RowsKept /\ JobsKept
  BY <1>1, <1>2 DEF RowsKept, JobsKept, BaseInv, OwnTypes
<1>5. ListKept /\ HandlersKept
  BY <1>1 DEF Forgotten, ListKept, HandlersKept, BaseInv, JLInv, JLTypeOK
<1>6. FlagsKept
  BY <1>1, <1>2 DEF FlagsKept, Forgotten, BaseInv, OwnTypes, JLInv, JLTypeOK, RemoteOnly
<1> QED
  BY <1>1, <1>2, <1>3, <1>4, <1>5, <1>6, Unchanged_Parts, Kept_BaseInv DEF webVars

LEMMA Crash_BaseInv ==
  ASSUME BaseInv, Crash
  PROVE  BaseInv'
<1>1. /\ JLInv'
      /\ \A x \in Subs : ~Waits(x)' /\ dispatch_ids'[x] = None /\ submission_map'[x] = None
      /\ \A h \in Conns : conn'[h] = "off" /\ working'[h] = None /\ run_id'[h] = None /\ retry_request'[h] = None
  BY JLRestart_Facts DEF Crash
<1>2. /\ jobs' = [h \in Conns |-> {}] /\ pipe' = [h \in Conns |-> <<>>]
      /\ after' = [h \in Conns |-> None]
      /\ preparing' = [h \in Conns |-> FALSE] /\ remote_run' = [h \in Conns |-> FALSE]
      /\ acked' = [h \in Conns |-> FALSE] /\ timers' = {}
      /\ handoffs' \subseteq handoffs
      /\ booting' = {s \in Subs : InProgress(s)}
      /\ UNCHANGED <<dbVars, aborts, abort_due>>
  BY DEF Crash
<1>3. <<>> \in Seq(Packet) /\ Elems(<<>>) = {}
  BY EmptySeq, NoElems
<1>4. OwnTypes'
  BY <1>2, <1>3 DEF BaseInv, OwnTypes, dbVars
<1>5. RowsKept /\ HandoffsKept /\ JobsKept /\ PipesKept
  BY <1>2, <1>3, Unchanged_Parts DEF HandoffsKept, JobsKept, PipesKept, dbVars
<1>6. BackKept /\ FlagsKept /\ ListKept /\ HandlersKept
  BY <1>1, <1>2 DEF BackKept, FlagsKept, PutBack, ListKept, HandlersKept, BaseInv, RemoteOnly
<1> QED
  BY <1>1, <1>4, <1>5, <1>6, Kept_BaseInv

-----------------------------------------------------------------------------
(* The initial states. *)
LEMMA Init_BaseInv == Init => BaseInv
<1> SUFFICES ASSUME Init PROVE BaseInv
  OBVIOUS
<1>1. JLInv
  BY JLInit_JLInv DEF Init
<1>2. <<>> \in Seq(Packet) /\ Elems(<<>>) = {}
  BY EmptySeq, NoElems
<1>3. OwnTypes
  BY <1>2 DEF Init, OwnTypes, Row, IN_PROGRESS
<1>4. \A s \in Subs : ~Waits(s)
  BY DEF Init, JLInit, Waits, HasId
<1>5. TokensIssued
  BY <1>2, <1>4 DEF Init, JLInit, TokensIssued, RowTokens, HandoffTokens, ListTokens, HandlerTokens, WorkerTokens,
     BackTokens, PutBack
<1>6. EchoTrue /\ RemoteOnly
  BY <1>2 DEF Init, EchoTrue, RemoteOnly, PutBack
<1> QED
  BY <1>1, <1>3, <1>5, <1>6 DEF BaseInv

-----------------------------------------------------------------------------
(* submission_map and _working, when no judge announces its problems while it is served. *)
\* A step that changes neither the map, nor the handlers, nor what the holder of the lock does.
LEMMA Other_JLMap ==
  ASSUME JLTypeOK, JLMap, UNCHANGED <<judges, submission_map, conn, working, retry_request, checked, lockVars>>
  PROVE  JLMap'
  BY DEF JLMap, MapEntries, ScanIdle, OneCall, ListLive, OffIdle, GoneUnmapped, RetrySame, Live, lockVars, workVars

LEMMA JLRestart_JLMap ==
  ASSUME JLRestart
  PROVE  JLMap'
  BY NoneFacts DEF JLRestart, JLMap, OneCall, MapEntries, ScanIdle, ListLive, OffIdle, GoneUnmapped, RetrySame

LEMMA Schedule_JLMap ==
  ASSUME BaseInv, JLMap, Schedule
  PROVE  JLMap'
<1>1. JLInv
  BY DEF BaseInv
<1>2. CASE OfferNothing \/ QueueNew \/ \E h \in Conns : NextCandidate(h)
  BY <1>1, <1>2, OfferNothing_JLMap, QueueNew_JLMap, NextCandidate_JLMap
<1>3. ASSUME NEW n \in Nodes, NEW out, OfferNode(n, out, row[At(n).id].dispatch_id)
      PROVE  JLMap'
  BY <1>1, <1>3, OfferNode_JLMap
<1>4. ASSUME NEW h \in judges, NEW out, DispatchNew(h, out, row[pend.id].dispatch_id)
      PROVE  JLMap'
  <2>1. h \in Conns
    BY <1>1 DEF JLInv, JLTypeOK
  <2> QED
    BY <1>1, <1>4, <2>1, DispatchNew_JLMap
<1> QED
  BY <1>2, <1>3, <1>4 DEF Schedule

LEMMA Next_JLMap ==
  ASSUME BaseInv, NoUpdate, JLMap, [Next]_vars
  PROVE  JLMap'
<1>1. JLInv /\ JLTypeOK
  BY DEF BaseInv, JLInv
<1>2. CASE UNCHANGED jlVars
  BY <1>1, <1>2, Other_JLMap DEF jlVars, listVars, handlerVars
<1>3. ASSUME NEW s \in Subs,
             JudgeSubmission(s) \/ AbortRequested(s) \/ AbortWritten(s) \/ OnTermination(s) \/ BootMark(s)
      PROVE  JLMap'
  BY <1>1, <1>2, <1>3, abort_JLMap DEF JudgeSubmission, AbortRequested, AbortWritten, OnTermination, BootMark
<1>4. ASSUME NEW m \in handoffs, SendSubmission(m) \/ SendFails(m) \/ SendAnswered(m) \/ OnSubmission(m)
      PROVE  JLMap'
  BY <1>1, <1>2, <1>4, judge_JLMap DEF SendSubmission, SendFails, SendAnswered, OnSubmission
<1>5. ASSUME Unlock \/ Apply \/ OnAbortProblem \/ SyncRemoteData \/ Schedule \/ Crash
      PROVE  JLMap'
  <2>1. CASE Unlock \/ Apply
    BY <1>2, <2>1 DEF Unlock, Apply
  <2>2. CASE OnAbortProblem
    <3>1. UNCHANGED <<judges, submission_map, handlerVars, lockVars>>
      BY <2>2 DEF OnAbortProblem
    <3> QED
      BY <1>1, <3>1, Other_JLMap DEF handlerVars
  <2>3. CASE SyncRemoteData
    BY <1>1, <2>3, retry_queued_JLMap DEF SyncRemoteData
  <2>4. CASE Crash
    BY <2>4, JLRestart_JLMap DEF Crash
  <2> QED
    BY <1>5, <2>1, <2>2, <2>3, <2>4, Schedule_JLMap
<1>6. ASSUME NEW h \in Conns,
             \/ Handshake(h) \/ Connected(h) \/ Lost(h) \/ SupportedProblems(h)
             \/ OnRetryQueued(h) \/ RetryWindowEnds(h)
      PROVE  JLMap'
  <2>1. CASE Handshake(h) \/ Connected(h) \/ Lost(h) \/ OnRetryQueued(h)
    BY <1>1, <2>1, register_JLMap, connected_JLMap, ConnectionLost_JLMap, retry_queued_JLMap
       DEF Handshake, Connected, Lost, OnRetryQueued
  <2>2. CASE SupportedProblems(h)
    BY <2>2 DEF SupportedProblems, update_problems, NoUpdate, JLMap
  <2>3. CASE RetryWindowEnds(h)
    BY <1>1, <2>3, Other_JLMap DEF RetryWindowEnds, packetJl, listVars
  <2> QED
    BY <1>6, <2>1, <2>2, <2>3
<1>7. ASSUME NEW h \in Conns,
             \/ HandlePacket(h) \/ Release(h) \/ AbortWorker(h) \/ Defer(h)
             \/ DisconnectRetry(h) \/ DisconnectDiscard(h) \/ DisconnectRemove(h) \/ DisconnectFail(h)
      PROVE  JLMap'
  <2>1. CASE HandlePacket(h) \/ DisconnectRetry(h)
    BY <1>1, <2>1, Other_JLMap DEF HandlePacket, DisconnectRetry, packetJl, listVars
  <2>2. CASE Release(h)
    <3>1. Live(h) /\ after[h].sub \in Subs
      BY <2>2 DEF Release, Live, LiveStates, BaseInv, RemoteOnly, OwnTypes, Callback
    <3> QED
      BY <1>1, <1>2, <2>2, <3>1, on_judge_free_JLMap DEF Release
  <2>3. CASE Defer(h)
    <3>1. after[h].sub \in Subs
      BY <2>3 DEF Defer, BaseInv, OwnTypes, Callback
    <3> QED
      BY <1>1, <2>3, <3>1, defer_JLMap DEF Defer
  <2>4. CASE AbortWorker(h) \/ DisconnectDiscard(h) \/ DisconnectRemove(h) \/ DisconnectFail(h)
    BY <1>1, <1>2, <2>4, discard_JLMap, remove_JLMap, Forget_JLMap
       DEF AbortWorker, DisconnectDiscard, DisconnectRemove, DisconnectFail
  <2> QED
    BY <1>7, <2>1, <2>2, <2>3, <2>4
<1>8. ASSUME NEW h \in Conns, NEW j \in jobs[h],
             WorkerAcks(h, j) \/ WorkerPrepares(h, j) \/ WorkerBegins(h, j) \/ WorkerEnds(h, j)
      PROVE  JLMap'
  <2>1. PICK p, rest : WorkerStep(h, j, p, rest)
    BY <1>8, Worker_Facts DEF BaseInv
  <2> QED
    BY <1>2, <2>1 DEF WorkerStep
<1> QED
  BY <1>2, <1>3, <1>4, <1>5, <1>6, <1>7, <1>8 DEF Next, vars

-----------------------------------------------------------------------------
(* Types.  Of every run. *)
LEMMA Next_BaseInv ==
  ASSUME BaseInv, NoUpdate => JLMap, [Next]_vars
  PROVE  BaseInv'
<1>1. ASSUME NEW s \in Subs,
             JudgeSubmission(s) \/ AbortRequested(s) \/ AbortWritten(s) \/ OnTermination(s) \/ BootMark(s)
      PROVE  BaseInv'
  BY <1>1, JudgeSubmission_BaseInv, AbortThreads_BaseInv, OnTermination_BaseInv
<1>2. ASSUME NEW m \in handoffs, SendSubmission(m) \/ SendFails(m) \/ SendAnswered(m) \/ OnSubmission(m)
      PROVE  BaseInv'
  BY <1>2, WebThreads_BaseInv, OnSubmission_BaseInv
<1>3. ASSUME Unlock \/ Apply \/ OnAbortProblem \/ Schedule \/ Crash
      PROVE  BaseInv'
  BY <1>3, AbortThreads_BaseInv, OnAbortProblem_BaseInv, Schedule_BaseInv, Crash_BaseInv
<1>4. ASSUME SyncRemoteData \/ \E h \in Conns : Handshake(h) \/ Connected(h) \/ Lost(h) \/ SupportedProblems(h)
      PROVE  BaseInv'
  BY <1>4, Quiet_Facts, Quiet_BaseInv
<1>5. ASSUME NEW h \in Conns,
             \/ OnRetryQueued(h) \/ RetryWindowEnds(h)
             \/ HandlePacket(h) \/ Release(h) \/ AbortWorker(h) \/ Defer(h)
             \/ DisconnectRetry(h) \/ DisconnectDiscard(h) \/ DisconnectRemove(h) \/ DisconnectFail(h)
      PROVE  BaseInv'
  BY <1>5, Timers_BaseInv, HandlePacket_BaseInv, Release_BaseInv, AbortWorker_BaseInv, Defer_BaseInv,
     DisconnectRetry_BaseInv, DisconnectDiscard_BaseInv, DisconnectRemove_BaseInv, DisconnectFail_BaseInv
<1>6. ASSUME NEW h \in Conns, NEW j \in jobs[h],
             WorkerAcks(h, j) \/ WorkerPrepares(h, j) \/ WorkerBegins(h, j) \/ WorkerEnds(h, j)
      PROVE  BaseInv'
  BY <1>6, Worker_BaseInv
<1>7. CASE UNCHANGED vars
  <2>1. JLInv' /\ Quiet /\ UNCHANGED OwnVars
    BY <1>7, Same_Facts DEF vars, BaseInv, OwnVars
  <2> QED
    BY <2>1, Quiet_BaseInv
<1> QED
  BY <1>1, <1>2, <1>3, <1>4, <1>5, <1>6, <1>7 DEF Next

\* The database row, the web threads, the handlers and the workers keep their types, whatever the
\* environment does: a run that goes back to the queue has a token, and submit() never hands a run
\* without a token to a worker.
THEOREM BridgeTypeCorrect == Spec => []TypeOK
<1>1. BaseInv => TypeOK
  BY DEF BaseInv, JLInv, OwnTypes, TypeOK
<1> DEFINE TypeInv == BaseInv /\ (NoUpdate => JLMap)
<1>2. Init => TypeInv
  BY Init_BaseInv, JLInit_JLMap DEF Init
<1>3. TypeInv /\ [Next]_vars => TypeInv'
  BY Next_BaseInv, Next_JLMap DEF NoUpdate
<1>4. TypeInv => TypeOK
  BY <1>1
<1> HIDE DEF TypeInv
<1> QED
  BY <1>2, <1>3, <1>4, PTL DEF Spec

-----------------------------------------------------------------------------
(* A worker that does not name the run in its packets.  JudgeHandler can only tell the packets of
   its old runs from those of the current one because there are none: the handler is given a run
   when nothing of the run before is left with its worker or on the way. *)
EndsLast(q) == \A i \in 1 .. Len(q) : Terminal(q[i]) => i = Len(q)
OneRun(h) ==
  /\ \A j \in jobs[h] : j.sub = working[h] /\ j.tok = run_id[h]
  /\ \A j, k \in jobs[h] : j = k
  /\ \A p \in Elems(pipe[h]) : p.sub = working[h] /\ p.job = run_id[h] /\ (Terminal(p) => jobs[h] = {})
  /\ EndsLast(pipe[h])
  /\ after[h] # None /\ after[h].op = "release" => after[h].sub = working[h] /\ jobs[h] = {} /\ pipe[h] = <<>>
  /\ conn[h] \in {"off", "left"} => pipe[h] = <<>>
SoleRuns == \A h \in Conns \ Echo : OneRun(h)

LEMMA EmptyLast == EndsLast(<<>>)
  BY DEF EndsLast

LEMMA AppendLast ==
  ASSUME NEW q \in Seq(Packet), NEW p \in Packet, \A e \in Elems(q) : ~Terminal(e)
  PROVE  EndsLast(Append(q, p))
<1>1. /\ Len(q) \in Nat /\ Len(Append(q, p)) = Len(q) + 1
      /\ \A i \in 1 .. Len(q) : Append(q, p)[i] = q[i]
  BY AppendProperties, LenProperties
<1>2. \A i \in 1 .. Len(q) + 1 : i \in 1 .. Len(q) \/ i = Len(q) + 1
  BY <1>1
<1> QED
  BY <1>1, <1>2 DEF EndsLast, Elems

LEMMA TailLast ==
  ASSUME NEW q \in Seq(Packet), q # <<>>, EndsLast(q)
  PROVE  EndsLast(Tail(q)) /\ (Terminal(Head(q)) => Tail(q) = <<>>)
<1>1. /\ Tail(q) \in Seq(Packet) /\ Len(Tail(q)) = Len(q) - 1
      /\ \A i \in 1 .. Len(Tail(q)) : Tail(q)[i] = q[i + 1]
  BY HeadTailProperties
<1>2. Len(q) \in Nat \ {0} /\ Head(q) = q[1]
  BY EmptySeq, LenProperties
<1>3. \A i \in 1 .. Len(q) - 1 : i + 1 \in 1 .. Len(q) /\ (i + 1 = Len(q) => i = Len(q) - 1)
  BY <1>2
<1>4. EndsLast(Tail(q))
  BY <1>1, <1>3 DEF EndsLast
<1>5. ASSUME Terminal(Head(q)) PROVE Tail(q) = <<>>
  <2>1. 1 = Len(q)
    <3>1. 1 \in 1 .. Len(q) /\ Terminal(q[1])
      BY <1>2, <1>5
    <3> QED
      BY <3>1 DEF EndsLast
  <2>2. Len(q) - 1 = 0
    BY <2>1
  <2>3. Len(Tail(q)) = 0
    BY <1>1, <2>2
  <2> QED
    BY <1>1, <2>3, EmptySeq
<1> QED
  BY <1>4, <1>5

\* What says nothing to the worker of h and takes nothing from its handler.
LEMMA OneRun_Kept ==
  ASSUME BaseInv, NEW h \in Conns, OneRun(h), jobs'[h] = jobs[h] \/ jobs'[h] = Terminated(h),
         working'[h] = working[h], run_id'[h] = run_id[h], pipe'[h] = pipe[h], after'[h] = after[h],
         conn'[h] \in {"off", "left"} => conn[h] \in {"off", "left"}
  PROVE  OneRun(h)'
<1> DEFINE kind == {[sub |-> working[h], tok |-> run_id[h]]}
<1>1. /\ \A j \in jobs'[h] : j.sub = working[h] /\ j.tok = run_id[h]
      /\ \A j, k \in jobs'[h] : j = k
      /\ jobs[h] = {} => jobs'[h] = {}
  <2>1. CASE jobs'[h] = Terminated(h)
    <3>1. \A j \in Terminated(h) : \E k \in jobs[h] : j.sub = k.sub /\ j.tok = k.tok
      BY Terminated_Facts DEF BaseInv
    <3>2. \A j, k \in jobs[h] : j = k
      BY DEF OneRun
    <3>3. \A j, k \in Terminated(h) : j = k
      BY <3>2 DEF Terminated
    <3> QED
      BY <2>1, <3>1, <3>3 DEF OneRun
  <2> QED
    BY <2>1 DEF OneRun
<1>2. \A p \in Elems(pipe'[h]) : p.sub = working'[h] /\ p.job = run_id'[h] /\ (Terminal(p) => jobs'[h] = {})
  BY <1>1 DEF OneRun
<1>3. after'[h] # None /\ after'[h].op = "release" => after'[h].sub = working'[h] /\ jobs'[h] = {} /\ pipe'[h] = <<>>
  BY <1>1 DEF OneRun
<1> QED
  BY <1>1, <1>2, <1>3 DEF OneRun

\* Nothing is with the worker of an idle handler, nor on the way.
LEMMA IdleOneRun ==
  ASSUME BaseInv, NEW h \in Conns, OneRun(h), working[h] = None
  PROVE  jobs[h] = {} /\ pipe[h] = <<>> /\ (after[h] # None => after[h].op # "release")
<1>1. jobs[h] \in SUBSET Job /\ pipe[h] \in Seq(Packet) /\ after[h] \in Callback \cup {None}
  BY DEF BaseInv, OwnTypes
<1>2. jobs[h] = {}
  BY <1>1, NoneFacts DEF OneRun, Job
<1>3. pipe[h] = <<>>
  <2>1. SUFFICES ASSUME pipe[h] # <<>> PROVE FALSE
    OBVIOUS
  <2>2. Head(pipe[h]) \in Elems(pipe[h]) /\ Head(pipe[h]) \in Packet
    BY <1>1, <2>1, TailElems
  <2> QED
    BY <2>2, NoneFacts DEF OneRun, Packet
<1>4. after[h] # None => after[h].op # "release"
  BY <1>1, NoneFacts DEF OneRun, Callback
<1> QED
  BY <1>2, <1>3, <1>4

LEMMA NoRun ==
  ASSUME NEW h \in Conns, jobs[h] = {}, pipe[h] = <<>>, after[h] # None => after[h].op # "release"
  PROVE  OneRun(h)
  BY EmptyLast, NoElems DEF OneRun

LEMMA Offer_OneRun ==
  ASSUME BaseInv, JLMap, NEW h \in Conns, OneRun(h), NEW g \in Conns, NEW s \in Subs, NEW out \in Outcomes,
         Offered(g, s, out, row[s].dispatch_id), Submit(g, s, out), Live(g), working[g] = None
  PROVE  OneRun(h)'
<1>1. pipe' = pipe /\ after' = after
  BY DEF Submit, Sent
<1>2. \A c \in Conns : conn'[c] \in {"off", "left"} => conn[c] \in {"off", "left"}
  BY DEF Offered, Shut, BaseInv, JLInv, JLTypeOK
<1>3. CASE h = g /\ out = "ok"
  <2>1. jobs[h] = {} /\ pipe[h] = <<>> /\ (after[h] # None => after[h].op # "release")
    BY <1>3, IdleOneRun
  <2>2. jobs' = [jobs EXCEPT ![h] = @ \cup {Sending(s)}]
    BY <1>3 DEF Submit, Sent, Sending
  <2>3. jobs'[h] = {Sending(s)} /\ working'[h] = s /\ run_id'[h] = row[s].dispatch_id
    BY <1>3, <2>1, <2>2 DEF Offered, BaseInv, OwnTypes, JLInv, JLTypeOK
  <2>4. Sending(s).sub = s /\ Sending(s).tok = row[s].dispatch_id
    BY DEF Sending
  <2> QED
    BY <1>1, <2>1, <2>3, <2>4, NoElems, EmptyLast DEF OneRun
<1>4. CASE h # g
  <2>1. jobs'[h] = jobs[h] /\ working'[h] = working[h] /\ run_id'[h] = run_id[h]
    BY <1>4 DEF Offered, Submit, Sent, BaseInv, OwnTypes, JLInv, JLTypeOK
  <2> QED
    BY <1>1, <1>2, <2>1, OneRun_Kept
<1>5. CASE h = g /\ out # "ok"
  <2>1. jobs[h] = {} /\ pipe[h] = <<>> /\ (after[h] # None => after[h].op # "release")
    BY <1>5, IdleOneRun
  <2>2. jobs'[h] = {}
    BY <1>5, <2>1 DEF Submit, Sent
  <2> QED
    BY <1>1, <2>1, <2>2, NoElems, EmptyLast DEF OneRun
<1> QED
  BY <1>3, <1>4, <1>5

LEMMA Worker_OneRun ==
  ASSUME BaseInv, NEW h \in Conns, OneRun(h), NEW g \in Conns, NEW j \in jobs[g], NEW p, NEW rest, WorkerStep(g, j, p, rest)
  PROVE  OneRun(h)'
<1>1. UNCHANGED <<jlVars, after>>
  BY DEF WorkerStep, runVars
<1>2. UNCHANGED <<working, run_id, conn>>
  BY <1>1 DEF jlVars, handlerVars
<1>3. CASE h # g
  <2>1. jobs'[h] = jobs[h] /\ pipe'[h] = pipe[h]
    BY <1>3 DEF WorkerStep, BaseInv, OwnTypes
  <2> QED
    BY <1>1, <1>2, <2>1, OneRun_Kept
<1>4. CASE h = g
  <2>1. /\ j.sub = working[h] /\ j.tok = run_id[h] /\ jobs[h] = {j}
        /\ \A e \in Elems(pipe[h]) : ~Terminal(e) /\ e.sub = working[h] /\ e.job = run_id[h]
        /\ EndsLast(pipe[h]) /\ ~(after[h] # None /\ after[h].op = "release")
    BY <1>4 DEF OneRun
  <2>2. /\ jobs'[h] = rest /\ pipe'[h] = Append(pipe[h], p) /\ p \in Packet /\ p.sub = j.sub /\ p.job = j.tok
        /\ \A k \in rest : k.sub = j.sub /\ k.tok = j.tok
        /\ \A k, l \in rest : k = l
        /\ Terminal(p) <=> rest = {}
        /\ conn[h] \in {"new", "up"}
    BY <1>4, <2>1 DEF WorkerStep, BaseInv, OwnTypes
  <2>3. pipe[h] \in Seq(Packet)
    BY DEF BaseInv, OwnTypes
  <2>4. Elems(pipe'[h]) = Elems(pipe[h]) \cup {p} /\ EndsLast(pipe'[h])
    BY <2>1, <2>2, <2>3, AppendElems, AppendLast
  <2>5. \A e \in Elems(pipe'[h]) : e.sub = working'[h] /\ e.job = run_id'[h] /\ (Terminal(e) => jobs'[h] = {})
    BY <1>2, <2>1, <2>2, <2>4
  <2> QED
    BY <1>1, <1>2, <2>1, <2>2, <2>4, <2>5 DEF OneRun
<1> QED
  BY <1>3, <1>4

LEMMA HandlePacket_OneRun ==
  ASSUME BaseInv, NEW h \in Conns \ Echo, OneRun(h), NEW g \in Conns, HandlePacket(g)
  PROVE  OneRun(h)'
<1> DEFINE p == Head(pipe[h])
<1>1. /\ UNCHANGED <<working, run_id, conn, jobs>> /\ pipe' = [pipe EXCEPT ![g] = Tail(@)]
      /\ pipe[g] # <<>> /\ after[g] = None /\ conn[g] \in {"up", "shut"}
  BY DEF HandlePacket, packetJl, Reading
<1>2. \A x \in Conns \ {g} : after'[x] = after[x]
  <2>1. CASE Plain(g, Head(pipe[g]))
    BY <2>1 DEF Plain, Called, BaseInv, OwnTypes
  <2>2. ASSUME NEW tok, Requeued(g, "defer", tok) PROVE \A x \in Conns \ {g} : after'[x] = after[x]
    BY <2>2 DEF Requeued, BaseInv, OwnTypes
  <2> QED
    BY <2>1, <2>2, HandlePacket_Facts
<1>3. CASE h # g
  <2>1. pipe'[h] = pipe[h] /\ after'[h] = after[h] /\ jobs'[h] = jobs[h]
    BY <1>1, <1>2, <1>3 DEF BaseInv, OwnTypes
  <2> QED
    BY <1>1, <2>1, OneRun_Kept
<1>4. CASE h = g
  <2>1. /\ pipe[h] \in Seq(Packet) /\ pipe[h] # <<>> /\ pipe'[h] = Tail(pipe[h]) /\ ~remote_run[h]
    BY <1>1, <1>4, RemoteAssumption, EchoAssumption DEF BaseInv, OwnTypes, RemoteOnly
  <2>2. p \in Elems(pipe[h]) /\ p \in Packet /\ Elems(pipe'[h]) \subseteq Elems(pipe[h])
    BY <2>1, TailElems
  <2>3. EndsLast(pipe'[h]) /\ (Terminal(p) => pipe'[h] = <<>>)
    BY <2>1, TailLast DEF OneRun
  <2>4. p.sub = working[h] /\ (Terminal(p) => jobs[h] = {})
    BY <2>2 DEF OneRun
  <2>5. after'[h] # None /\ after'[h].op = "release" => after'[h].sub = p.sub /\ Terminal(p)
    <3> HIDE DEF p
    <3>1. CASE UNCHANGED packetVars
      BY <1>1, <1>4, <3>1 DEF packetVars
    <3>2. CASE OnAcknowledged(h, p) \/ OnPrepared(h, p) \/ OnGradingBegin(h, p) \/ OnUnavailable(h, p)
      BY <1>1, <1>4, <2>1, <3>2 DEF OnAcknowledged, OnPrepared, OnGradingBegin, OnUnavailable
    <3>3. CASE OnRunEnd(h, p)
      BY <3>3 DEF OnRunEnd, Then, Terminal, BaseInv, OwnTypes
    <3>4. CASE Stale(h, p)
      BY <1>1, <1>4, <3>4 DEF Stale, Then, BaseInv, OwnTypes
    <3> QED
      BY <1>4, <3>1, <3>2, <3>3, <3>4 DEF HandlePacket, Handled, p
  <2> HIDE DEF p
  <2> QED
    BY <1>1, <1>4, <2>2, <2>3, <2>4, <2>5 DEF OneRun
<1> QED
  BY <1>3, <1>4

LEMMA Release_OneRun ==
  ASSUME BaseInv, NEW h \in Conns, OneRun(h), NEW g \in Conns, Release(g)
  PROVE  OneRun(h)'
<1>1. after[g].sub \in Subs /\ UNCHANGED <<jobs, pipe>> /\ after' = [after EXCEPT ![g] = None]
  BY DEF Release, BaseInv, OwnTypes, Callback, workerVars
<1>2. /\ UNCHANGED <<run_id, conn>>
      /\ working' = working \/ (working[g] = after[g].sub /\ working' = [working EXCEPT ![g] = None])
  BY <1>1, on_judge_free_Facts DEF Release, BaseInv, Freed, Quiet, jlVars, handlerVars
<1>3. CASE h # g
  BY <1>1, <1>2, <1>3, OneRun_Kept DEF BaseInv, OwnTypes, JLInv, JLTypeOK
<1>4. CASE h = g
  <2>1. jobs'[h] = {} /\ pipe'[h] = <<>> /\ after'[h] = None
    BY <1>1, <1>4 DEF Release, OneRun, BaseInv, OwnTypes
  <2> QED
    BY <2>1, NoElems, EmptyLast DEF OneRun
<1> QED
  BY <1>3, <1>4

\* Only remote judges put runs back, and their packets name the run.
LEMMA PutBack_OneRun ==
  ASSUME BaseInv, NEW h \in Conns \ Echo, OneRun(h), NEW g \in Conns,
         Defer(g) \/ DisconnectRetry(g) \/ DisconnectDiscard(g)
  PROVE  OneRun(h)'
<1>1. h # g
  BY DisconnectRetry_Facts, EchoAssumption
     DEF Defer, DisconnectDiscard, PutBack, BaseInv, RemoteOnly
<1>2. CASE Defer(g)
  <2>1. run_id' = run_id /\ conn' = conn /\ working'[h] = working[h]
    BY <1>1, <1>2 DEF Defer, defer, BaseInv, JLInv, JLTypeOK
  <2>2. jobs'[h] = jobs[h] /\ pipe'[h] = pipe[h] /\ after'[h] = after[h]
    BY <1>1, <1>2 DEF Defer, workerVars, BaseInv, OwnTypes
  <2> QED
    BY <2>1, <2>2, OneRun_Kept
<1>3. CASE DisconnectRetry(g)
  <2>1. PICK tok : Requeued(g, "discard", tok)
    BY <1>3, DisconnectRetry_Facts
  <2>2. after'[h] = after[h]
    BY <1>1, <2>1 DEF Requeued, BaseInv, OwnTypes
  <2>3. pipe'[h] = pipe[h] /\ jobs' = jobs /\ UNCHANGED <<working, run_id, conn>>
    BY <1>1, <1>3 DEF DisconnectRetry, packetJl, BaseInv, OwnTypes
  <2> QED
    BY <2>2, <2>3, OneRun_Kept
<1>4. CASE DisconnectDiscard(g)
  <2>1. after'[h] = after[h] /\ UNCHANGED <<jobs, pipe, working, run_id, conn>>
    BY <1>1, <1>4 DEF DisconnectDiscard, discard, workerVars, handlerVars, BaseInv, OwnTypes
  <2> QED
    BY <2>1, OneRun_Kept
<1> QED
  BY <1>2, <1>3, <1>4

LEMMA Disconnect_OneRun ==
  ASSUME BaseInv, NEW h \in Conns, OneRun(h), NEW g \in Conns, DisconnectRemove(g) \/ DisconnectFail(g)
  PROVE  OneRun(h)'
<1>1. CASE DisconnectRemove(g)
  <2>1. Removed(g) /\ after[g] = None /\ after' = after /\ jobs' = jobs /\ pipe' = [pipe EXCEPT ![g] = <<>>]
    BY <1>1, remove_Facts DEF DisconnectRemove, BaseInv, runVars
  <2>2. CASE h # g
    BY <2>1, <2>2, OneRun_Kept DEF Removed, BaseInv, OwnTypes, JLInv, JLTypeOK
  <2>3. CASE h = g
    BY <2>1, <2>3, NoElems, EmptyLast DEF OneRun, Removed, BaseInv, OwnTypes
  <2> QED
    BY <2>2, <2>3
<1>2. CASE DisconnectFail(g)
  <2>1. Forgotten(g) /\ UNCHANGED <<after, pipe>> /\ jobs' = [jobs EXCEPT ![g] = {}]
    BY <1>2, DisconnectFail_Facts DEF DisconnectFail
  <2>2. CASE h # g
    BY <2>1, <2>2, OneRun_Kept DEF Forgotten, BaseInv, OwnTypes, JLInv, JLTypeOK
  <2>3. CASE h = g
    <3>1. conn[h] = "left"
      BY <2>1, <2>3 DEF Forgotten
    <3>2. jobs'[h] = {} /\ pipe'[h] = <<>> /\ after'[h] = None
      BY <2>1, <2>3, <3>1 DEF OneRun, BaseInv, OwnTypes, RemoteOnly
    <3> QED
      BY <3>2, NoElems, EmptyLast DEF OneRun
  <2> QED
    BY <2>2, <2>3
<1> QED
  BY <1>1, <1>2

LEMMA Next_OneRun ==
  ASSUME BaseInv, NoUpdate, JLMap, NEW h \in Conns \ Echo, OneRun(h), [Next]_vars
  PROVE  OneRun(h)'
<1>1. ASSUME UNCHANGED <<jobs, pipe, after, working, run_id>>, conn'[h] \in {"off", "left"} => conn[h] \in {"off", "left"}
      PROVE  OneRun(h)'
  BY <1>1, OneRun_Kept
<1>2. ASSUME Quiet, UNCHANGED <<jobs, pipe, after>>
      PROVE  OneRun(h)'
  BY <1>1, <1>2 DEF Quiet, ConnStep
<1>3. CASE UNCHANGED <<jlVars, jobs, pipe, after>>
  BY <1>2, <1>3, Same_Facts DEF BaseInv
<1>4. ASSUME NEW s \in Subs,
             JudgeSubmission(s) \/ AbortRequested(s) \/ AbortWritten(s) \/ OnTermination(s) \/ BootMark(s)
      PROVE  OneRun(h)'
  <2>1. CASE JudgeSubmission(s) \/ AbortRequested(s) \/ AbortWritten(s) \/ BootMark(s)
    BY <1>3, <2>1 DEF JudgeSubmission, AbortRequested, AbortWritten, BootMark, workerVars, runVars
  <2>2. CASE OnTermination(s)
    <3>1. UNCHANGED <<submission_map, working, run_id, conn, pipe, after>>
      BY <2>2, abort_Facts DEF OnTermination, BaseInv, runVars
    <3>2. jobs'[h] = jobs[h] \/ jobs'[h] = Terminated(h)
      BY <2>2 DEF OnTermination, BaseInv, OwnTypes
    <3> QED
      BY <3>1, <3>2, OneRun_Kept
  <2> QED
    BY <1>4, <2>1, <2>2
<1>5. ASSUME NEW m \in handoffs, SendSubmission(m) \/ SendFails(m) \/ SendAnswered(m) \/ OnSubmission(m)
      PROVE  OneRun(h)'
  <2>1. CASE SendSubmission(m) \/ SendFails(m) \/ SendAnswered(m)
    BY <1>3, <2>1 DEF SendSubmission, SendFails, SendAnswered, workerVars, runVars
  <2>2. CASE OnSubmission(m)
    BY <1>1, <2>2 DEF OnSubmission, judge, handlerVars, workerVars, runVars
  <2> QED
    BY <1>5, <2>1, <2>2
<1>6. ASSUME Unlock \/ Apply \/ OnAbortProblem \/ Schedule \/ Crash
      PROVE  OneRun(h)'
  <2>1. CASE Unlock \/ Apply
    BY <1>3, <2>1 DEF Unlock, Apply, webVars, workerVars, runVars
  <2>2. CASE OnAbortProblem
    BY <2>2, OnAbortProblem_Facts, OneRun_Kept DEF OnAbortProblem, BaseInv, runVars
  <2>3. CASE Quiet /\ UNCHANGED OwnVars
    BY <1>2, <2>3 DEF OwnVars, workerVars, runVars
  <2>4. ASSUME NEW g \in Conns, NEW s \in Subs, NEW out \in Outcomes, Offered(g, s, out, row[s].dispatch_id),
               Submit(g, s, out), JLMap => Live(g) /\ working[g] = None
        PROVE  OneRun(h)'
    BY <2>4, Offer_OneRun
  <2>5. CASE Crash
    <3>1. jobs'[h] = {} /\ pipe'[h] = <<>> /\ after'[h] = None
      BY <2>5 DEF Crash
    <3> QED
      BY <3>1, NoElems, EmptyLast DEF OneRun
  <2> QED
    BY <1>6, <2>1, <2>2, <2>3, <2>4, <2>5, Schedule_Facts
<1>7. ASSUME SyncRemoteData \/ \E g \in Conns : Handshake(g) \/ Connected(g) \/ Lost(g) \/ SupportedProblems(g)
      PROVE  OneRun(h)'
  BY <1>2, <1>7, Quiet_Facts DEF OwnVars, workerVars, runVars
<1>8. ASSUME NEW g \in Conns,
             \/ OnRetryQueued(g) \/ RetryWindowEnds(g)
             \/ HandlePacket(g) \/ Release(g) \/ AbortWorker(g) \/ Defer(g)
             \/ DisconnectRetry(g) \/ DisconnectDiscard(g) \/ DisconnectRemove(g) \/ DisconnectFail(g)
      PROVE  OneRun(h)'
  <2>1. CASE OnRetryQueued(g) \/ RetryWindowEnds(g)
    BY <1>2, <2>1, Timers_Facts DEF workerVars
  <2>2. CASE AbortWorker(g)
    <3>1. UNCHANGED <<working, run_id, conn, pipe>>
      BY <2>2 DEF AbortWorker, jlVars, handlerVars
    <3>2. CASE h # g
      BY <2>2, <3>1, <3>2, OneRun_Kept DEF AbortWorker, BaseInv, OwnTypes
    <3>3. CASE h = g
      <4>1. jobs'[h] = Terminated(h) /\ after'[h] = None
        BY <2>2, <3>3 DEF AbortWorker, BaseInv, OwnTypes
      <4>2. \A j \in Terminated(h) : \E k \in jobs[h] : j.sub = k.sub /\ j.tok = k.tok
        BY Terminated_Facts DEF BaseInv
      <4>3. \A j, k \in Terminated(h) : j = k
        BY DEF Terminated, OneRun
      <4>4. jobs[h] = {} => Terminated(h) = {}
        BY <4>2
      <4> QED
        BY <3>1, <4>1, <4>2, <4>3, <4>4 DEF OneRun
    <3> QED
      BY <3>2, <3>3
  <2> QED
    BY <1>8, <2>1, <2>2, HandlePacket_OneRun, Release_OneRun, PutBack_OneRun, Disconnect_OneRun
<1>9. ASSUME NEW g \in Conns, NEW j \in jobs[g],
             WorkerAcks(g, j) \/ WorkerPrepares(g, j) \/ WorkerBegins(g, j) \/ WorkerEnds(g, j)
      PROVE  OneRun(h)'
  <2>1. PICK p, rest : WorkerStep(g, j, p, rest)
    BY <1>9, Worker_Facts DEF BaseInv
  <2> QED
    BY <2>1, Worker_OneRun
<1>10. CASE UNCHANGED vars
  BY <1>3, <1>10 DEF vars, workerVars, runVars
<1> QED
  BY <1>4, <1>5, <1>6, <1>7, <1>8, <1>9, <1>10 DEF Next

-----------------------------------------------------------------------------
(* The row of one submission.  What a step can do to it, and who does it. *)
Same(s) == row'[s] = row[s] /\ issued'[s] = issued[s] /\ by'[s] = by[s]
Marked(s, st) == row'[s] = [row[s] EXCEPT !.status = st] /\ issued'[s] = issued[s] /\ by'[s] = by[s]
\* The packet that handler h reads tells of the current run of s.
Said(h, s, kind) ==
  /\ pipe[h] # <<>> /\ Head(pipe[h]).kind = kind /\ Head(pipe[h]).sub = s
  /\ CurrentRun(h, Head(pipe[h]))
Renewed(s) ==
  \E tok \in Fresh(s) :
    /\ row'[s] = [status |-> "QU", dispatch_id |-> tok]
    /\ issued'[s] = issued[s] \cup {tok} /\ by'[s] = by[s]
    /\ \/ row[s].dispatch_id = None \/ row[s].status \in FINAL
       \/ \E h \in Conns : working[h] = s /\ Retryable(h)
Failed(s) ==
  \/ Marked(s, "AB") /\ (("unlock" \in Env /\ InProgress(s)) \/ aborts[s] = "refused")
  \/ /\ Marked(s, "IE")
     /\ \/ \E m \in handoffs : m.req.id = s /\ Current(s, m.tok)
        \/ \E h \in Conns : working[h] = s /\ Current(s, run_id[h])
        \/ Waits(s) /\ InProgress(s)
        \/ s \in booting
Advanced(s) ==
  \E h \in Conns : \/ Said(h, s, "ack") /\ ~acked[h] /\ Marked(s, "P")
                   \/ Said(h, s, "begin") /\ Marked(s, "G")
Ended(s) ==
  \E h \in Conns : /\ Said(h, s, "end")
                   /\ row'[s] = [row[s] EXCEPT !.status = Head(pipe[h]).status]
                   /\ issued'[s] = issued[s] /\ by'[s] = Head(pipe[h]).job
RowStep(s) == Same(s) \/ Renewed(s) \/ Failed(s) \/ Advanced(s) \/ Ended(s)

\* One status is written.
LEMMA SetStatus ==
  ASSUME OwnTypes, NEW s \in Subs, NEW st, row' = [row EXCEPT ![s].status = st], NEW x \in Subs
  PROVE  row'[x] = IF x = s THEN [row[s] EXCEPT !.status = st] ELSE row[x]
  BY DEF OwnTypes

LEMMA Web_RowStep ==
  ASSUME BaseInv, NEW s \in Subs,
         \/ \E x \in Subs : JudgeSubmission(x) \/ AbortRequested(x) \/ AbortWritten(x) \/ BootMark(x)
         \/ \E m \in handoffs : SendSubmission(m) \/ SendFails(m) \/ SendAnswered(m)
         \/ Unlock \/ Apply
  PROVE  RowStep(s)
<1>1. OwnTypes
  BY DEF BaseInv
<1>2. ASSUME NEW x \in Subs, JudgeSubmission(x) PROVE RowStep(s)
  <2>1. PICK tok \in Fresh(x) : /\ row' = [row EXCEPT ![x] = [status |-> "QU", dispatch_id |-> tok]]
                                /\ issued' = [issued EXCEPT ![x] = @ \cup {tok}]
    BY <1>2 DEF JudgeSubmission
  <2>2. by' = by /\ (row[x].dispatch_id = None \/ row[x].status \in FINAL)
    BY <1>2 DEF JudgeSubmission
  <2> QED
    BY <1>1, <2>1, <2>2 DEF RowStep, Same, Renewed, OwnTypes
<1>3. ASSUME NEW x \in Subs, AbortRequested(x) \/ AbortWritten(x) \/ BootMark(x) PROVE RowStep(s)
  <2>1. CASE AbortRequested(x)
    BY <2>1 DEF AbortRequested, dbVars, RowStep, Same
  <2>2. CASE AbortWritten(x)
    <3>1. row'[s] = IF s = x THEN [row[x] EXCEPT !.status = "AB"] ELSE row[s]
      BY <1>1, <2>2, SetStatus DEF AbortWritten
    <3> QED
      BY <2>2, <3>1 DEF AbortWritten, RowStep, Same, Failed, Marked
  <2>3. CASE BootMark(x)
    <3>1. row'[s] = IF s = x THEN [row[x] EXCEPT !.status = "IE"] ELSE row[s]
      BY <1>1, <2>3, SetStatus DEF BootMark
    <3> QED
      BY <2>3, <3>1 DEF BootMark, RowStep, Same, Failed, Marked
  <2> QED
    BY <1>3, <2>1, <2>2, <2>3
<1>4. ASSUME NEW m \in handoffs, SendSubmission(m) \/ SendFails(m) \/ SendAnswered(m) PROVE RowStep(s)
  <2>1. m.req.id \in Subs
    BY <1>1 DEF OwnTypes, Handoff, Request
  <2>2. UNCHANGED <<issued, by>> /\ (row' = row \/ FailRun(m.req.id, m.tok))
    BY <1>4 DEF SendSubmission, SendFails, SendAnswered, dbVars
  <2>3. CASE row' = row
    BY <2>2, <2>3 DEF RowStep, Same
  <2>4. CASE Current(m.req.id, m.tok) /\ row' = [row EXCEPT ![m.req.id].status = "IE"]
    <3>1. row'[s] = IF s = m.req.id THEN [row[m.req.id] EXCEPT !.status = "IE"] ELSE row[s]
      BY <1>1, <2>1, <2>4, SetStatus
    <3> QED
      BY <2>2, <2>4, <3>1 DEF RowStep, Same, Failed, Marked
  <2> QED
    BY <2>2, <2>3, <2>4 DEF FailRun
<1>5. CASE Unlock \/ Apply
  BY <1>5 DEF Unlock, Apply, RowStep, Same, Failed, Marked
<1> QED
  BY <1>2, <1>3, <1>4, <1>5

LEMMA HandlePacket_RowStep ==
  ASSUME BaseInv, NEW s \in Subs, NEW h \in Conns, HandlePacket(h)
  PROVE  RowStep(s)
<1> DEFINE p == Head(pipe[h])
<1>1. p \in Elems(pipe[h]) /\ p \in Packet /\ pipe[h] # <<>>
  BY PipeHead DEF HandlePacket, BaseInv
<1>2. p.sub \in Subs /\ p.job \in Tokens
  BY <1>1 DEF Packet
<1>3. OwnTypes
  BY DEF BaseInv
<1>4. CASE UNCHANGED packetVars
  BY <1>4 DEF packetVars, RowStep, Same
<1>5. CASE Stale(h, p)
  BY <1>5 DEF Stale, RowStep, Same
<1>6. ASSUME CurrentRun(h, p), Handled(h, p) PROVE RowStep(s)
  <2>1. working[h] = p.sub
    BY <1>1, <1>6, CurrentRun_Facts
  <2>2. \A kind : p.kind = kind /\ p.sub = s => Said(h, s, kind)
    BY <1>1, <1>6 DEF Said
  <2> HIDE DEF p
  <2>3. CASE OnAcknowledged(h, p)
    BY <1>2, <1>3, <2>2, <2>3, SetStatus DEF OnAcknowledged, RowStep, Same, Advanced, Marked
  <2>4. CASE OnPrepared(h, p)
    BY <2>4 DEF OnPrepared, RowStep, Same
  <2>5. CASE OnGradingBegin(h, p)
    BY <1>2, <1>3, <2>1, <2>2, <2>5, SetStatus DEF OnGradingBegin, RowStep, Same, Advanced, Marked
  <2>6. CASE OnRunEnd(h, p)
    <3>1. CASE p.sub = s
      <4>1. Said(h, s, "end") /\ by'[s] = p.job /\ issued'[s] = issued[s]
            /\ row'[s] = [row[s] EXCEPT !.status = p.status]
        BY <1>2, <1>3, <2>2, <2>6, <3>1, SetStatus DEF OnRunEnd, OwnTypes
      <4> QED
        BY <4>1 DEF RowStep, Ended, p
    <3>2. CASE p.sub # s
      BY <1>2, <1>3, <2>6, <3>2, SetStatus DEF OnRunEnd, RowStep, Same, OwnTypes
    <3> QED
      BY <3>1, <3>2
  <2>7. CASE OnUnavailable(h, p)
    <3>1. CASE remote_run[h] /\ Retryable(h)
      <4>1. PICK tok : Requeued(h, "defer", tok)
        BY <1>2, <2>1, <2>7, <3>1, Requeue_Facts DEF OnUnavailable
      <4>2. by' = by
        BY <2>7 DEF OnUnavailable
      <4> QED
        BY <1>3, <3>1, <4>1, <4>2 DEF Requeued, RowStep, Same, Renewed, OwnTypes
    <3>2. CASE ~(remote_run[h] /\ Retryable(h))
      BY <2>7, <3>2 DEF OnUnavailable, RowStep, Same
    <3> QED
      BY <3>1, <3>2
  <2> QED
    BY <1>6, <2>3, <2>4, <2>5, <2>6, <2>7 DEF Handled
<1> QED
  BY <1>4, <1>5, <1>6 DEF HandlePacket

LEMMA Next_RowStep ==
  ASSUME BaseInv, [Next]_vars, NEW s \in Subs
  PROVE  RowStep(s)
<1>1. OwnTypes
  BY DEF BaseInv
<1>2. CASE UNCHANGED dbVars
  BY <1>2 DEF dbVars, RowStep, Same
<1>3. ASSUME NEW x \in Subs,
             JudgeSubmission(x) \/ AbortRequested(x) \/ AbortWritten(x) \/ OnTermination(x) \/ BootMark(x)
      PROVE  RowStep(s)
  BY <1>2, <1>3, Web_RowStep DEF OnTermination
<1>4. ASSUME NEW m \in handoffs, SendSubmission(m) \/ SendFails(m) \/ SendAnswered(m) \/ OnSubmission(m)
      PROVE  RowStep(s)
  BY <1>2, <1>4, Web_RowStep DEF OnSubmission
<1>5. ASSUME Unlock \/ Apply \/ OnAbortProblem \/ SyncRemoteData \/ Crash PROVE RowStep(s)
  BY <1>2, <1>5, Web_RowStep DEF OnAbortProblem, SyncRemoteData, Crash
<1>6. CASE Schedule
  <2>1. ASSUME NEW h \in Conns, NEW x \in Subs, NEW out \in Outcomes, Waits(x), Submit(h, x, out) PROVE RowStep(s)
    <3>1. UNCHANGED <<issued, by>>
      BY <2>1 DEF Submit, Sent
    <3>2. row' = row \/ (InProgress(x) /\ row' = [row EXCEPT ![x].status = "IE"])
      BY <2>1 DEF Submit, Answer, Refused
    <3>3. CASE row' = row
      BY <3>1, <3>3 DEF RowStep, Same
    <3>4. CASE InProgress(x) /\ row' = [row EXCEPT ![x].status = "IE"]
      <4>1. row'[s] = IF s = x THEN [row[x] EXCEPT !.status = "IE"] ELSE row[s]
        BY <1>1, <3>4, SetStatus
      <4> QED
        BY <2>1, <3>1, <3>4, <4>1 DEF RowStep, Same, Failed, Marked
    <3> QED
      BY <3>2, <3>3, <3>4
  <2> QED
    BY <1>2, <1>6, <2>1, Schedule_Facts DEF OwnVars, Offered
<1>7. ASSUME NEW h \in Conns,
             \/ Handshake(h) \/ Connected(h) \/ Lost(h) \/ SupportedProblems(h)
             \/ OnRetryQueued(h) \/ RetryWindowEnds(h)
             \/ Release(h) \/ AbortWorker(h) \/ Defer(h) \/ DisconnectDiscard(h) \/ DisconnectRemove(h)
      PROVE  RowStep(s)
  BY <1>2, <1>7 DEF Handshake, Connected, Lost, SupportedProblems, OnRetryQueued, RetryWindowEnds, Release,
     AbortWorker, Defer, DisconnectDiscard, DisconnectRemove
<1>8. ASSUME NEW h \in Conns, DisconnectRetry(h) PROVE RowStep(s)
  <2>1. PICK tok : Requeued(h, "discard", tok)
    BY <1>8, DisconnectRetry_Facts
  <2>2. by' = by /\ Retryable(h)
    BY <1>8, DisconnectRetry_Facts
  <2> QED
    BY <1>1, <2>1, <2>2 DEF Requeued, RowStep, Same, Renewed, OwnTypes
<1>9. ASSUME NEW h \in Conns, DisconnectFail(h) PROVE RowStep(s)
  <2>1. UNCHANGED <<issued, by>>
    BY <1>9 DEF DisconnectFail
  <2>2. CASE row' = row
    BY <2>1, <2>2 DEF RowStep, Same
  <2>3. CASE /\ working[h] \in Subs /\ Current(working[h], run_id[h])
             /\ row' = [row EXCEPT ![working[h]] = [row[working[h]] EXCEPT !.status = "IE"]]
    <3>1. row'[s] = IF s = working[h] THEN [row[s] EXCEPT !.status = "IE"] ELSE row[s]
      BY <1>1, <2>3 DEF OwnTypes
    <3> QED
      BY <2>1, <2>3, <3>1 DEF RowStep, Same, Failed, Marked
  <2> QED
    BY <1>9, <2>2, <2>3, DisconnectFail_Facts
<1>10. ASSUME NEW h \in Conns, NEW j \in jobs[h],
              WorkerAcks(h, j) \/ WorkerPrepares(h, j) \/ WorkerBegins(h, j) \/ WorkerEnds(h, j)
       PROVE  RowStep(s)
  BY <1>1, <1>2, <1>10, Worker_Facts DEF WorkerStep
<1> QED
  BY <1>2, <1>3, <1>4, <1>5, <1>6, <1>7, <1>8, <1>9, <1>10, HandlePacket_RowStep DEF Next, vars

-----------------------------------------------------------------------------
(* Verdicts.  The packet of a judge that names its run is compared with the row.  That of a judge
   that does not is taken for the run its handler works on, and SoleRuns is why that is right. *)
RunsTold == "update" \in Env => Echo = Conns
VerdictInv == BaseInv /\ (NoUpdate => JLMap /\ SoleRuns) /\ VerdictOfCurrentRun

\* The run a packet speaks of is the one it is taken for.
LEMMA SaidRun ==
  ASSUME BaseInv, RunsTold, NoUpdate => SoleRuns, NEW h \in Conns, NEW s \in Subs, NEW kind, Said(h, s, kind)
  PROVE  Head(pipe[h]).job = row[s].dispatch_id /\ row[s].dispatch_id # None /\ InProgress(s)
<1> DEFINE p == Head(pipe[h])
<1>1. p \in Elems(pipe[h])
  BY TailElems DEF Said, BaseInv, OwnTypes
<1>2. /\ working[h] = s /\ run_id[h] = row[s].dispatch_id /\ row[s].dispatch_id # None /\ InProgress(s)
      /\ h \in Echo => p.job = run_id[h]
  BY <1>1, CurrentRun_Facts DEF Said
<1>3. h \notin Echo => p.job = run_id[h]
  BY <1>1 DEF RunsTold, NoUpdate, SoleRuns, OneRun
<1> QED
  BY <1>2, <1>3

LEMMA Init_VerdictInv == Init => VerdictInv
<1> SUFFICES ASSUME Init PROVE VerdictInv
  OBVIOUS
<1>1. JLMap
  BY JLInit_JLMap DEF Init
<1>2. SoleRuns
  BY NoRun DEF SoleRuns, Init
<1>3. VerdictOfCurrentRun
  BY DEF Init, VerdictOfCurrentRun
<1> QED
  BY <1>1, <1>2, <1>3, Init_BaseInv DEF VerdictInv

LEMMA Next_VerdictInv ==
  ASSUME RunsTold, VerdictInv, [Next]_vars
  PROVE  VerdictInv'
<1>1. BaseInv /\ BaseInv'
  BY Next_BaseInv DEF VerdictInv
<1>2. NoUpdate => JLMap' /\ SoleRuns'
  BY <1>1, Next_JLMap, Next_OneRun DEF VerdictInv, SoleRuns
<1>3. VerdictOfCurrentRun'
  <2> SUFFICES ASSUME NEW s \in Subs, row'[s].status \in {"D", "CE"} PROVE by'[s] = row'[s].dispatch_id
    BY DEF VerdictOfCurrentRun
  <2>1. row[s] \in Row
    BY <1>1 DEF BaseInv, OwnTypes
  <2>2. CASE Same(s)
    BY <2>2 DEF Same, VerdictInv, VerdictOfCurrentRun
  <2>3. CASE Renewed(s) \/ Failed(s) \/ Advanced(s)
    <3>1. row'[s].status \notin {"D", "CE"}
      <4>1. \A st : [row[s] EXCEPT !.status = st].status = st
        BY <2>1 DEF Row
      <4>2. CASE Renewed(s)
        BY <4>2 DEF Renewed
      <4>3. CASE Failed(s) \/ Advanced(s)
        BY <4>1, <4>3 DEF Failed, Advanced, Marked
      <4> QED
        BY <2>3, <4>2, <4>3
    <3> QED
      BY <3>1
  <2>4. CASE Ended(s)
    BY <1>1, <2>1, <2>4, SaidRun DEF Ended, VerdictInv, Row
  <2> QED
    BY <1>1, <2>2, <2>3, <2>4, Next_RowStep DEF RowStep
<1> QED
  BY <1>1, <1>2, <1>3 DEF VerdictInv, NoUpdate

\* The row of a submission stands for a verdict only if the worker that judged
\* that very run produced it.  A judge that does not name its run must not announce new problems
\* while it is offered work: on_supported_problems can then hand it a second run (the run
\* double_dispatch shows it), and its packets tell nobody which of the two they are about.
THEOREM VerdictsAreCurrent ==
  ASSUME RunsTold
  PROVE  Spec => []VerdictOfCurrentRun
<1>1. VerdictInv /\ [Next]_vars => VerdictInv'
  BY Next_VerdictInv
<1>2. VerdictInv => VerdictOfCurrentRun
  BY DEF VerdictInv
<1> QED
  BY <1>1, <1>2, Init_VerdictInv, PTL DEF Spec

-----------------------------------------------------------------------------
(* One handler for a run.  The bridge compares tokens for equality only; that a run is never given
   out twice rests on the order in which requests reach it.  For one submission: every request on
   the way is for a newer run than the one the scheduler expects, and than every run given out.  No
   judge announces new problems (NoUpdate), so that a deferral puts back the run of its own
   submission. *)
Orderly == NoUpdate /\ "overtake" \notin Env /\ (Remote = {} \/ ("unlock" \notin Env /\ "abort" \notin Env))

\* The request m can still reach the bridge.
OnItsWay(m) == m.at \in {"sent", "late"} \/ (m.at = "web" /\ m.tok = row[m.req.id].dispatch_id)
\* The worker of h has the run t of s, or packets of it are on the way; or its handler works on it.
Trace(h, s, t) ==
  \/ \E j \in jobs[h] : j.sub = s /\ j.tok = t
  \/ \E p \in Elems(pipe[h]) : p.sub = s /\ p.job = t
Started(h, s, t) == (working[h] = s /\ run_id[h] = t) \/ Trace(h, s, t)
Given(s, t) == (\E h \in Conns : Started(h, s, t)) \/ row[s] = [status |-> "G", dispatch_id |-> t]

\* The run h is going to put back is the row's, and nobody else has it or asks for it.
Kept(h, s, t) ==
  /\ row[s] = [status |-> "QU", dispatch_id |-> t]
  /\ \A m \in handoffs : m.req.id = s => ~OnItsWay(m) /\ m.tok # t
  /\ ~Waits(s) /\ ~Given(s, t)
  /\ \A k \in Conns : PutBack(k) /\ after[k].sub = s => k = h
GivenOnce(s) ==
  /\ Waits(s) => dispatch_ids[s] # None
  /\ \A m \in handoffs : m.req.id = s /\ OnItsWay(m) =>
       /\ dispatch_ids[s] # None => dispatch_ids[s] < m.tok
       /\ \A t \in Tokens : Given(s, t) => t < m.tok
  /\ \A t \in Tokens : Given(s, t) /\ Waits(s) => t < dispatch_ids[s]
  /\ \A h, k \in Conns : \A t \in Tokens : Started(h, s, t) /\ Started(k, s, t) => h = k
  /\ \A h \in Conns : PutBack(h) /\ after[h].sub = s => Kept(h, s, after[h].tok)

OneHandoff == \A m, k \in handoffs : m.req.id = k.req.id /\ m.tok = k.tok => m = k
\* A starting bridge serves no judge, and nobody aborts a submission that cannot be aborted.
NobodyServed == booting # {} => \A h \in Conns : conn[h] = "off"
AbortsIdle == "abort" \notin Env => \A s \in Subs : aborts[s] = "idle"
WebInv == OneHandoff /\ NobodyServed /\ AbortsIdle

\* Once given is what OnceGiven says of two handlers.
OnceGiven == \A h, k \in Conns, s \in Subs, t \in Tokens : Started(h, s, t) /\ Started(k, s, t) => h = k

LEMMA SentFresh ==
  ASSUME BaseInv, Orderly, NEW s \in Subs, NEW t \in Tokens, Given(s, t)
  PROVE  t \in issued[s] /\ t \in Nat /\ row[s].dispatch_id \in Nat /\ t <= row[s].dispatch_id
<1>1. t \in issued[s]
  <2>1. ASSUME NEW h \in Conns, Started(h, s, t) PROVE t \in issued[s]
    BY <2>1, NoneFacts DEF Started, Trace, BaseInv, TokensIssued, HandlerTokens, WorkerTokens, Orderly
  <2>2. CASE row[s] = [status |-> "G", dispatch_id |-> t]
    BY <2>2, NoneFacts DEF BaseInv, TokensIssued, RowTokens
  <2> QED
    BY <2>1, <2>2 DEF Given
<1>2. row[s].dispatch_id \in issued[s] /\ \A u \in issued[s] : u <= row[s].dispatch_id
  BY <1>1 DEF BaseInv, TokensIssued, RowTokens
<1> QED
  BY <1>1, <1>2, TokensAssumption DEF BaseInv, OwnTypes

-----------------------------------------------------------------------------
(* What most steps leave as it is, seen from one submission. *)
StartedKept(s) == \A h \in Conns : \A t \in Tokens : Started(h, s, t)' => Started(h, s, t)
QueueKept(s) == /\ Waits(s)' => Waits(s) /\ dispatch_ids'[s] = dispatch_ids[s]
                /\ dispatch_ids'[s] \in {dispatch_ids[s], None}
RequestsKept(s) ==
  \A m \in handoffs' : m.req.id = s =>
    \E k \in handoffs : /\ k.req = m.req /\ k.tok = m.tok
                        /\ m.at \in {"sent", "late"} => OnItsWay(k)
                        /\ m.at = "web" => k.at = "web"

BackKeptFor(s) ==
  \A h \in Conns : PutBack(h)' /\ after'[h].sub = s => PutBack(h) /\ after'[h].sub = after[h].sub /\ after'[h].tok = after[h].tok

\* The row of a run that is to be put back stays as it is, and no row turns to G but by a packet.
LEMMA PutBackRow ==
  ASSUME BaseInv, WebInv, JLMap, Orderly, NEW s \in Subs, GivenOnce(s), RowStep(s), NEW h \in Conns, PutBack(h), after[h].sub = s
  PROVE  row'[s] = row[s] /\ issued'[s] = issued[s]
<1> DEFINE t == after[h].tok
<1>1. t \in Tokens /\ Kept(h, s, t) /\ h \in Remote /\ booting = {}
  <2>1. t \in issued[s] /\ issued[s] \subseteq Tokens
    BY DEF BaseInv, OwnTypes, TokensIssued, BackTokens
  <2>2. h \in Remote /\ conn[h] \in {"up", "shut"}
    BY DEF BaseInv, RemoteOnly, PutBack
  <2>3. Kept(h, s, t)
    BY DEF GivenOnce
  <2> QED
    BY <2>1, <2>2, <2>3 DEF WebInv, NobodyServed
<1> HIDE DEF t
<1>2. row[s] = [status |-> "QU", dispatch_id |-> t] /\ ~Given(s, t) /\ ~Waits(s)
  BY <1>1 DEF Kept
<1>3. \A g \in Conns : ~(working[g] = s /\ run_id[g] = t)
  BY <1>2 DEF Given, Started
<1>4. ~Renewed(s)
  <2>1. row[s].dispatch_id = t /\ row[s].status = "QU" /\ t # None
    BY <1>1, <1>2, NoneFacts
  <2>2. \A g \in Conns : ~(working[g] = s /\ Retryable(g))
    BY <1>3, <2>1 DEF Retryable
  <2> QED
    BY <2>1, <2>2 DEF Renewed, FINAL
<1>5. ~Failed(s)
  <2>1. "unlock" \notin Env /\ aborts[s] # "refused"
    BY <1>1 DEF Orderly, WebInv, AbortsIdle
  <2>2. \A m \in handoffs : m.req.id = s => ~Current(s, m.tok)
    BY <1>1, <1>2 DEF Kept, Current
  <2>3. \A g \in Conns : working[g] = s => ~Current(s, run_id[g])
    BY <1>2, <1>3 DEF Current
  <2> QED
    BY <1>1, <1>2, <2>1, <2>2, <2>3 DEF Failed
<1>6. \A g \in Conns : \A kind : ~Said(g, s, kind)
  <2> SUFFICES ASSUME NEW g \in Conns, NEW kind, Said(g, s, kind) PROVE FALSE
    OBVIOUS
  <2>1. Head(pipe[g]) \in Elems(pipe[g])
    BY TailElems DEF Said, BaseInv, OwnTypes
  <2> QED
    BY <1>2, <1>3, <2>1, CurrentRun_Facts DEF Said
<1>7. Same(s)
  BY <1>4, <1>5, <1>6 DEF RowStep, Advanced, Ended
<1> QED
  BY <1>7 DEF Same

LEMMA RowOfG ==
  ASSUME BaseInv, NEW s \in Subs, RowStep(s), NEW t \in Tokens, row'[s] = [status |-> "G", dispatch_id |-> t]
  PROVE  Given(s, t)
<1>1. row[s] \in Row
  BY DEF BaseInv, OwnTypes
<1>2. CASE Same(s)
  BY <1>2 DEF Same, Given
<1>3. ~Renewed(s) /\ ~Failed(s)
  <2>1. \A st : [row[s] EXCEPT !.status = st].status = st
    BY <1>1 DEF Row
  <2>2. row'[s].status = "G"
    OBVIOUS
  <2>3. ASSUME Renewed(s) PROVE FALSE
    <3>1. PICK tok \in Fresh(s) : row'[s] = [status |-> "QU", dispatch_id |-> tok]
      BY <2>3 DEF Renewed
    <3> QED
      BY <2>2, <3>1
  <2> QED
    BY <2>1, <2>2, <2>3 DEF Failed, Marked
<1>4. ASSUME NEW h \in Conns, NEW kind, Said(h, s, kind), row'[s].dispatch_id = row[s].dispatch_id PROVE Given(s, t)
  <2>1. Head(pipe[h]) \in Elems(pipe[h])
    BY <1>4, TailElems DEF Said, BaseInv, OwnTypes
  <2> QED
    BY <1>4, <2>1, CurrentRun_Facts DEF Said, Given, Started
<1>5. CASE Advanced(s) \/ Ended(s)
  <2>1. row'[s].dispatch_id = row[s].dispatch_id
    BY <1>1, <1>5 DEF Advanced, Ended, Marked, Row
  <2> QED
    BY <1>4, <1>5, <2>1 DEF Advanced, Ended
<1> QED
  BY <1>2, <1>3, <1>5 DEF RowStep

\* A web thread never gets a run back that the row does not stand for any more.
LEMMA OnItsWay_Kept ==
  ASSUME BaseInv, NEW s \in Subs, RowStep(s), RequestsKept(s), NEW m \in handoffs', m.req.id = s
  PROVE  \E k \in handoffs : k.req.id = s /\ k.tok = m.tok /\ (OnItsWay(m)' => OnItsWay(k))
<1>1. PICK k \in handoffs : /\ k.req = m.req /\ k.tok = m.tok
                            /\ m.at \in {"sent", "late"} => OnItsWay(k)
                            /\ m.at = "web" => k.at = "web"
  BY DEF RequestsKept
<1>2. k.tok \in issued[s]
  BY <1>1 DEF BaseInv, TokensIssued, HandoffTokens
<1>3. row'[s].dispatch_id = m.tok => row[s].dispatch_id = m.tok
  <2>1. row[s] \in Row
    BY DEF BaseInv, OwnTypes
  <2>2. \A st : [row[s] EXCEPT !.status = st].dispatch_id = row[s].dispatch_id
    BY <2>1 DEF Row
  <2>3. CASE Renewed(s)
    <3>1. PICK tok \in Fresh(s) : row'[s] = [status |-> "QU", dispatch_id |-> tok]
      BY <2>3 DEF Renewed
    <3>2. tok \notin issued[s]
      BY NextToken DEF BaseInv
    <3> QED
      BY <1>1, <1>2, <3>1, <3>2
  <2>4. CASE Same(s) \/ Failed(s) \/ Advanced(s) \/ Ended(s)
    <3>1. row'[s] = row[s] \/ \E st : row'[s] = [row[s] EXCEPT !.status = st]
      BY <2>4 DEF Same, Failed, Advanced, Ended, Marked
    <3> QED
      BY <2>2, <3>1
  <2> QED
    BY <2>3, <2>4 DEF RowStep
<1>4. m.at = "web" /\ m.tok = row'[s].dispatch_id => OnItsWay(k)
  BY <1>1, <1>3 DEF OnItsWay
<1> QED
  BY <1>1, <1>4 DEF OnItsWay

LEMMA KeptFor_GivenOnce ==
  ASSUME BaseInv, WebInv, JLMap, Orderly, NEW s \in Subs, GivenOnce(s), RowStep(s),
         StartedKept(s), QueueKept(s), RequestsKept(s), BackKeptFor(s)
  PROVE  GivenOnce(s)'
<1>1. \A t \in Tokens : Given(s, t)' => Given(s, t)
  BY RowOfG DEF Given, StartedKept
<1>2. \A m \in handoffs' : m.req.id = s =>
        \E k \in handoffs : k.req.id = s /\ k.tok = m.tok /\ (OnItsWay(m)' => OnItsWay(k))
  BY OnItsWay_Kept
<1>3. (Waits(s) => dispatch_ids[s] # None)'
  BY DEF GivenOnce, QueueKept
<1>4. ASSUME NEW m \in handoffs', m.req.id = s, OnItsWay(m)'
      PROVE  /\ dispatch_ids'[s] # None => dispatch_ids'[s] < m.tok
             /\ \A t \in Tokens : Given(s, t)' => t < m.tok
  BY <1>1, <1>2, <1>4 DEF GivenOnce, QueueKept
<1>5. \A t \in Tokens : Given(s, t)' /\ Waits(s)' => t < dispatch_ids'[s]
  BY <1>1 DEF GivenOnce, QueueKept
<1>6. \A h, k \in Conns : \A t \in Tokens : Started(h, s, t)' /\ Started(k, s, t)' => h = k
  BY DEF GivenOnce, StartedKept
<1>7. ASSUME NEW h \in Conns, PutBack(h)', after'[h].sub = s
      PROVE  Kept(h, s, after[h].tok)'
  <2>1. /\ PutBack(h) /\ after[h].sub = s /\ after'[h].tok = after[h].tok
        /\ row'[s] = row[s] /\ Kept(h, s, after[h].tok)
    BY <1>7, PutBackRow DEF BackKeptFor, GivenOnce
  <2>2. after[h].tok \in Tokens
    BY <2>1, TokensAssumption DEF BaseInv, OwnTypes, TokensIssued, BackTokens
  <2>3. \A k \in Conns : PutBack(k)' /\ after'[k].sub = s => k = h
    BY <2>1 DEF BackKeptFor, Kept
  <2>4. \A m \in handoffs' : m.req.id = s => ~OnItsWay(m)' /\ m.tok # after'[h].tok
    BY <1>2, <2>1 DEF Kept
  <2>5. ~Waits(s)' /\ ~Given(s, after[h].tok)' /\ row'[s] = [status |-> "QU", dispatch_id |-> after[h].tok]
    BY <1>1, <2>1, <2>2 DEF Kept, QueueKept
  <2> QED
    BY <2>1, <2>3, <2>4, <2>5 DEF Kept, Given, Started, Trace
<1> QED
  BY <1>3, <1>4, <1>5, <1>6, <1>7 DEF GivenOnce

LEMMA Kept_GivenOnce ==
  ASSUME BaseInv, WebInv, JLMap, Orderly, NEW s \in Subs, GivenOnce(s), RowStep(s),
         StartedKept(s), QueueKept(s), RequestsKept(s), BackKept
  PROVE  GivenOnce(s)'
<1>1. BackKeptFor(s)
  BY DEF BackKept, BackKeptFor
<1> QED
  BY <1>1, KeptFor_GivenOnce

LEMMA Next_OneHandoff ==
  ASSUME BaseInv, OneHandoff, [Next]_vars
  PROVE  OneHandoff'
<1>1. CASE handoffs' \subseteq handoffs
  BY <1>1 DEF OneHandoff
<1>2. ASSUME NEW m \in handoffs, NEW k, k.req = m.req, k.tok = m.tok, handoffs' \subseteq (handoffs \ {m}) \cup {k}
      PROVE  OneHandoff'
  BY <1>2 DEF OneHandoff
<1>3. ASSUME NEW s \in Subs, JudgeSubmission(s) PROVE OneHandoff'
  <2>1. PICK tok \in Fresh(s) :
          handoffs' = handoffs \cup
             {[req |-> [id |-> s, prio |-> IF row[s].status = "QU" THEN 1 ELSE REJUDGE_PRIORITY,
                        judge_id |-> None, banned |-> {}], tok |-> tok, at |-> "web"]}
    BY <1>3 DEF JudgeSubmission
  <2>2. \A m \in handoffs : m.req.id = s => m.tok # tok
    BY NextToken DEF BaseInv, TokensIssued, HandoffTokens
  <2> DEFINE n == [req |-> [id |-> s, prio |-> IF row[s].status = "QU" THEN 1 ELSE REJUDGE_PRIORITY,
                            judge_id |-> None, banned |-> {}], tok |-> tok, at |-> "web"]
  <2>3. n.req.id = s /\ n.tok = tok /\ handoffs' = handoffs \cup {n}
    BY <2>1
  <2> HIDE DEF n
  <2> QED
    BY <2>2, <2>3 DEF OneHandoff
<1>4. ASSUME NEW m \in handoffs, SendSubmission(m) \/ SendFails(m) \/ SendAnswered(m) \/ OnSubmission(m)
      PROVE  OneHandoff'
  <2>1. m \in Handoff
    BY DEF BaseInv, OwnTypes
  <2>2. \A a : LET k == [m EXCEPT !.at = a] IN k.req = m.req /\ k.tok = m.tok
    BY <2>1 DEF Handoff
  <2>3. handoffs' \subseteq handoffs \/ \E a : handoffs' \subseteq (handoffs \ {m}) \cup {[m EXCEPT !.at = a]}
    BY <1>4 DEF SendSubmission, SendFails, SendAnswered, OnSubmission
  <2> QED
    BY <1>1, <1>2, <2>2, <2>3
<1>5. CASE \/ \E s \in Subs : AbortRequested(s) \/ AbortWritten(s) \/ OnTermination(s) \/ BootMark(s)
           \/ Unlock \/ Apply \/ OnAbortProblem \/ SyncRemoteData \/ Crash
  BY <1>1, <1>5 DEF AbortRequested, AbortWritten, OnTermination, BootMark, Unlock, Apply, OnAbortProblem,
     SyncRemoteData, Crash, webVars
<1>6. CASE Schedule
  <2>1. handoffs' = handoffs
    BY <1>6, Schedule_Facts DEF OwnVars, webVars, Submit, Sent
  <2> QED
    BY <1>1, <2>1
<1>7. ASSUME NEW h \in Conns,
             \/ Handshake(h) \/ Connected(h) \/ Lost(h) \/ SupportedProblems(h)
             \/ OnRetryQueued(h) \/ RetryWindowEnds(h)
             \/ HandlePacket(h) \/ Release(h) \/ AbortWorker(h) \/ Defer(h)
             \/ DisconnectRetry(h) \/ DisconnectDiscard(h) \/ DisconnectRemove(h) \/ DisconnectFail(h)
      PROVE  OneHandoff'
  BY <1>1, <1>7 DEF Handshake, Connected, Lost, SupportedProblems, OnRetryQueued, RetryWindowEnds, HandlePacket,
     Release, AbortWorker, Defer, DisconnectRetry, DisconnectDiscard, DisconnectRemove, DisconnectFail, webVars
<1>8. ASSUME NEW h \in Conns, NEW j \in jobs[h],
             WorkerAcks(h, j) \/ WorkerPrepares(h, j) \/ WorkerBegins(h, j) \/ WorkerEnds(h, j)
      PROVE  OneHandoff'
  <2>1. handoffs' = handoffs
    BY <1>8, Worker_Facts DEF BaseInv, WorkerStep, webVars
  <2> QED
    BY <1>1, <2>1
<1>9. CASE UNCHANGED vars
  BY <1>1, <1>9 DEF vars, webVars
<1> QED
  BY <1>3, <1>4, <1>5, <1>6, <1>7, <1>8, <1>9 DEF Next

LEMMA Next_NobodyServed ==
  ASSUME BaseInv, NobodyServed, [Next]_vars
  PROVE  NobodyServed'
<1>1. CASE Crash
  BY <1>1, JLRestart_Facts DEF Crash, NobodyServed
<1> SUFFICES ASSUME booting' # {}, ~Crash, NEW g \in Conns PROVE conn'[g] = "off"
  BY <1>1 DEF NobodyServed
<1> USE DEF Serving
<1>2. CASE booting = {}
  <2>1. booting' = booting
    <3>1. ASSUME NEW h \in Conns, NEW j \in jobs[h],
                 WorkerAcks(h, j) \/ WorkerPrepares(h, j) \/ WorkerBegins(h, j) \/ WorkerEnds(h, j)
          PROVE  booting' = booting
      BY <3>1, Worker_Facts DEF BaseInv, WorkerStep
    <3>2. ASSUME Schedule PROVE booting' = booting
      BY <3>2, Schedule_Facts DEF OwnVars, Submit, Sent
    <3>3. ASSUME \E s \in Subs : JudgeSubmission(s) \/ AbortRequested(s) \/ AbortWritten(s) \/ OnTermination(s) \/ BootMark(s)
          PROVE  booting' = booting
      BY <1>2, <3>3 DEF JudgeSubmission, AbortRequested, AbortWritten, OnTermination, BootMark
    <3>4. ASSUME \E m \in handoffs : SendSubmission(m) \/ SendFails(m) \/ SendAnswered(m) \/ OnSubmission(m)
          PROVE  booting' = booting
      BY <3>4 DEF SendSubmission, SendFails, SendAnswered, OnSubmission
    <3>5. ASSUME Unlock \/ Apply \/ OnAbortProblem \/ SyncRemoteData PROVE booting' = booting
      BY <3>5 DEF Unlock, Apply, OnAbortProblem, SyncRemoteData
    <3>6. ASSUME NEW h \in Conns,
             \/ Handshake(h) \/ Connected(h) \/ Lost(h) \/ SupportedProblems(h)
             \/ OnRetryQueued(h) \/ RetryWindowEnds(h)
             \/ HandlePacket(h) \/ Release(h) \/ AbortWorker(h) \/ Defer(h)
             \/ DisconnectRetry(h) \/ DisconnectDiscard(h) \/ DisconnectRemove(h) \/ DisconnectFail(h)
          PROVE  booting' = booting
      BY <3>6 DEF Handshake, Connected, Lost, SupportedProblems, OnRetryQueued, RetryWindowEnds, HandlePacket,
         Release, AbortWorker, Defer, DisconnectRetry, DisconnectDiscard, DisconnectRemove, DisconnectFail
    <3> QED
      BY <3>1, <3>2, <3>3, <3>4, <3>5, <3>6 DEF Next, vars
  <2> QED
    BY <1>2, <2>1
<1>3. CASE booting # {}
  <2>1. conn[g] = "off" /\ \A h \in Conns : conn[h] = "off" /\ after[h] = None
    BY <1>3 DEF NobodyServed, BaseInv, RemoteOnly
  <2>2. CASE conn' = conn
    BY <2>1, <2>2
  <2>3. ASSUME \E s \in Subs : JudgeSubmission(s) \/ AbortRequested(s) \/ AbortWritten(s) \/ OnTermination(s) \/ BootMark(s)
        PROVE  conn' = conn
    BY <1>3, <2>3 DEF JudgeSubmission, AbortRequested, AbortWritten, OnTermination, BootMark, jlVars, handlerVars
  <2>4. ASSUME \E m \in handoffs : SendSubmission(m) \/ SendFails(m) \/ SendAnswered(m) \/ OnSubmission(m)
        PROVE  conn' = conn
    BY <1>3, <2>4 DEF SendSubmission, SendFails, SendAnswered, OnSubmission, jlVars, handlerVars
  <2>5. ASSUME Unlock \/ Apply \/ OnAbortProblem \/ SyncRemoteData PROVE conn' = conn
    BY <1>3, <2>5 DEF Unlock, Apply, OnAbortProblem, SyncRemoteData, jlVars, handlerVars
  <2>6. CASE Schedule
    <3>1. ASSUME NEW h \in Conns, NEW out, conn' = IF out = "failed" THEN [conn EXCEPT ![h] = Shut(h)] ELSE conn
          PROVE  conn'[g] = "off"
      BY <2>1, <3>1 DEF Shut, BaseInv, JLInv, JLTypeOK
    <3>2. CASE OfferNothing \/ QueueNew \/ \E h \in Conns : NextCandidate(h)
      BY <2>1, <3>2 DEF OfferNothing, QueueNew, NextCandidate, handlerVars
    <3>3. ASSUME NEW n \in Nodes, NEW out \in Outcomes, OfferNode(n, out, row[At(n).id].dispatch_id) PROVE conn'[g] = "off"
      BY <3>1, <3>3, OfferNode_Offered DEF Offered, BaseInv
    <3>4. ASSUME NEW h \in judges, NEW out \in Outcomes, DispatchNew(h, out, row[pend.id].dispatch_id) PROVE conn'[g] = "off"
      BY <3>1, <3>4, DispatchNew_Offered DEF Offered, BaseInv
    <3> QED
      BY <2>6, <3>2, <3>3, <3>4 DEF Schedule
  <2>7. ASSUME NEW h \in Conns,
             \/ Handshake(h) \/ Connected(h) \/ Lost(h)
             \/ OnRetryQueued(h) \/ RetryWindowEnds(h)
             \/ HandlePacket(h) \/ Release(h) \/ AbortWorker(h) \/ Defer(h)
             \/ DisconnectRetry(h) \/ DisconnectDiscard(h) \/ DisconnectRemove(h) \/ DisconnectFail(h)
        PROVE  FALSE
    BY <1>3, <2>1, <2>7 DEF Handshake, Connected, connected, Lost, ConnectionLost, OnRetryQueued, RetryWindowEnds,
       HandlePacket, Reading, Release, AbortWorker, Defer, DisconnectRetry, DisconnectDiscard, DisconnectRemove,
       remove, DisconnectFail, Forget
  <2>8. ASSUME NEW h \in Conns, SupportedProblems(h) PROVE conn' = conn
    BY <2>8 DEF SupportedProblems, on_supported_problems, update_problems
  <2>9. ASSUME NEW h \in Conns, NEW j \in jobs[h],
             WorkerAcks(h, j) \/ WorkerPrepares(h, j) \/ WorkerBegins(h, j) \/ WorkerEnds(h, j)
        PROVE  conn' = conn
    BY <2>9, Worker_Facts DEF BaseInv, WorkerStep, jlVars, handlerVars
  <2>10. CASE UNCHANGED vars
    BY <2>2, <2>10 DEF vars, jlVars, handlerVars
  <2> QED
    BY <2>2, <2>3, <2>4, <2>5, <2>6, <2>7, <2>8, <2>9, <2>10 DEF Next
<1> QED
  BY <1>2, <1>3

LEMMA Next_AbortsIdle ==
  ASSUME BaseInv, AbortsIdle, [Next]_vars
  PROVE  AbortsIdle'
<1> SUFFICES ASSUME "abort" \notin Env PROVE aborts' = aborts
  BY DEF AbortsIdle
<1>1. \A s \in Subs : aborts[s] = "idle"
  BY DEF AbortsIdle
<1>2. ASSUME NEW s \in Subs,
             JudgeSubmission(s) \/ AbortRequested(s) \/ AbortWritten(s) \/ OnTermination(s) \/ BootMark(s)
      PROVE  aborts' = aborts
  BY <1>1, <1>2 DEF JudgeSubmission, AbortRequested, AbortWritten, OnTermination, BootMark, webVars
<1>3. ASSUME NEW m \in handoffs, SendSubmission(m) \/ SendFails(m) \/ SendAnswered(m) \/ OnSubmission(m)
      PROVE  aborts' = aborts
  BY <1>3 DEF SendSubmission, SendFails, SendAnswered, OnSubmission
<1>4. CASE Unlock \/ Apply \/ OnAbortProblem \/ SyncRemoteData \/ Crash
  BY <1>4 DEF Unlock, Apply, OnAbortProblem, SyncRemoteData, Crash, webVars
<1>5. CASE Schedule
  BY <1>5, Schedule_Facts DEF OwnVars, webVars, Submit, Sent
<1>6. ASSUME NEW h \in Conns,
             \/ Handshake(h) \/ Connected(h) \/ Lost(h) \/ SupportedProblems(h)
             \/ OnRetryQueued(h) \/ RetryWindowEnds(h)
             \/ HandlePacket(h) \/ Release(h) \/ AbortWorker(h) \/ Defer(h)
             \/ DisconnectRetry(h) \/ DisconnectDiscard(h) \/ DisconnectRemove(h) \/ DisconnectFail(h)
      PROVE  aborts' = aborts
  BY <1>6 DEF Handshake, Connected, Lost, SupportedProblems, OnRetryQueued, RetryWindowEnds, HandlePacket,
     Release, AbortWorker, Defer, DisconnectRetry, DisconnectDiscard, DisconnectRemove, DisconnectFail, webVars
<1>7. ASSUME NEW h \in Conns, NEW j \in jobs[h],
             WorkerAcks(h, j) \/ WorkerPrepares(h, j) \/ WorkerBegins(h, j) \/ WorkerEnds(h, j)
      PROVE  aborts' = aborts
  BY <1>7, Worker_Facts DEF BaseInv, WorkerStep, webVars
<1> QED
  BY <1>2, <1>3, <1>4, <1>5, <1>6, <1>7 DEF Next, vars, webVars

LEMMA Next_WebInv ==
  ASSUME BaseInv, WebInv, [Next]_vars
  PROVE  WebInv'
  BY Next_OneHandoff, Next_NobodyServed, Next_AbortsIdle DEF WebInv

-----------------------------------------------------------------------------
(* Each step keeps GivenOnce. *)
LEMMA Frames ==
  ASSUME BaseInv, NEW s \in Subs
  PROVE  /\ JobsKept /\ PipesKept /\ HandlersKept => StartedKept(s)
         /\ Quiet \/ (\E h \in Conns : Removed(h) \/ Forgotten(h)) => QueueKept(s)
         /\ (\E ids : Dropped(ids)) => QueueKept(s)
         /\ (\E h \in Conns, x \in Subs : Freed(h, x)) => QueueKept(s)
         /\ UNCHANGED handoffs => RequestsKept(s)
<1>1. JobsKept /\ PipesKept /\ HandlersKept => StartedKept(s)
  BY NoneFacts DEF JobsKept, PipesKept, HandlersKept, StartedKept, Started, Trace
<1>2. Quiet \/ (\E h \in Conns : Removed(h) \/ Forgotten(h)) => QueueKept(s)
  BY DEF Quiet, Removed, Forgotten, QueueKept
<1>3. (\E ids : Dropped(ids)) => QueueKept(s)
  BY DEF Dropped, QueueKept
<1>4. (\E h \in Conns, x \in Subs : Freed(h, x)) => QueueKept(s)
  BY DEF Freed, QueueKept, BaseInv, JLInv, JLTypeOK
<1>5. UNCHANGED handoffs => RequestsKept(s)
  BY DEF RequestsKept, OnItsWay
<1> QED
  BY <1>1, <1>2, <1>3, <1>4, <1>5

LEMMA Quiet_GivenOnce ==
  ASSUME BaseInv, WebInv, JLMap, Orderly, NEW s \in Subs, GivenOnce(s), RowStep(s), Quiet, JobsKept, PipesKept, BackKept,
         UNCHANGED handoffs
  PROVE  GivenOnce(s)'
<1>1. HandlersKept
  BY DEF Quiet, HandlersKept
<1> QED
  BY <1>1, Frames, Kept_GivenOnce

LEMMA Requests_GivenOnce ==
  ASSUME BaseInv, WebInv, JLMap, Orderly, NEW s \in Subs, GivenOnce(s), RowStep(s), RequestsKept(s), UNCHANGED <<jlVars, jobs, pipe, after>>
  PROVE  GivenOnce(s)'
<1>1. Quiet /\ HandlersKept
  BY Same_Facts, Unchanged_Parts DEF BaseInv
<1> QED
  BY <1>1, Frames, Kept_GivenOnce, Unchanged_Parts

\* A new run is newer than all there were.
LEMMA JudgeSubmission_GivenOnce ==
  ASSUME BaseInv, WebInv, JLMap, Orderly, NEW s \in Subs, GivenOnce(s), RowStep(s), NEW x \in Subs, JudgeSubmission(x)
  PROVE  GivenOnce(s)'
<1>1. PICK tok \in Fresh(x) :
        /\ row' = [row EXCEPT ![x] = [status |-> "QU", dispatch_id |-> tok]]
        /\ handoffs' = handoffs \cup
             {[req |-> [id |-> x, prio |-> IF row[x].status = "QU" THEN 1 ELSE REJUDGE_PRIORITY,
                        judge_id |-> None, banned |-> {}], tok |-> tok, at |-> "web"]}
  BY DEF JudgeSubmission
<1> DEFINE n == [req |-> [id |-> x, prio |-> IF row[x].status = "QU" THEN 1 ELSE REJUDGE_PRIORITY,
                          judge_id |-> None, banned |-> {}], tok |-> tok, at |-> "web"]
<1>2. n.req.id = x /\ n.tok = tok /\ handoffs' = handoffs \cup {n}
  BY <1>1
<1> HIDE DEF n
<1>3. tok \in Tokens /\ tok \in Nat /\ tok \notin issued[x] /\ \A u \in issued[x] : u < tok
  BY NextToken DEF BaseInv
<1>4. UNCHANGED <<jlVars, jobs, pipe, after>>
  BY DEF JudgeSubmission, workerVars, runVars
<1>5. UNCHANGED <<queue, pend, working, run_id, dispatch_ids>>
  BY <1>4 DEF jlVars, listVars, handlerVars, lockVars, workVars
<1>6. CASE x # s
  <2>1. RequestsKept(s)
    BY <1>2, <1>6 DEF RequestsKept, OnItsWay
  <2> QED
    BY <1>4, <2>1, Requests_GivenOnce
<1>7. CASE x = s
  <2>1. row[s].dispatch_id = None \/ row[s].status \in FINAL
    BY <1>7 DEF JudgeSubmission
  <2>2. \A h \in Conns : ~(PutBack(h) /\ after[h].sub = s)
    <3> SUFFICES ASSUME NEW h \in Conns, PutBack(h), after[h].sub = s PROVE FALSE
      OBVIOUS
    <3>1. after[h].tok \in issued[s] /\ issued[s] \subseteq Tokens
      BY DEF BaseInv, OwnTypes, TokensIssued, BackTokens
    <3>2. row[s] = [status |-> "QU", dispatch_id |-> after[h].tok]
      BY DEF GivenOnce, Kept
    <3> QED
      BY <2>1, <3>1, <3>2, NoneFacts DEF FINAL
  <2>3. row'[s] = [status |-> "QU", dispatch_id |-> tok]
    BY <1>1, <1>7 DEF BaseInv, OwnTypes
  <2>4. \A t \in Tokens : Given(s, t)' => Given(s, t) /\ t < tok
    <3>1. \A t \in Tokens : Given(s, t)' => Given(s, t)
      BY <1>4, <1>5, <2>3 DEF Given, Started, Trace
    <3>2. \A t \in Tokens : Given(s, t) => t < tok
      BY <1>3, <1>7, SentFresh
    <3> QED
      BY <3>1, <3>2
  <2>5. dispatch_ids[s] # None => dispatch_ids[s] < tok
    BY <1>3, <1>7 DEF BaseInv, TokensIssued, ListTokens, Orderly
  <2>6. Waits(s)' <=> Waits(s)
    BY <1>5 DEF Waits
  <2>7. \A h \in Conns : PutBack(h)' /\ after'[h].sub = s => FALSE
    BY <1>4, <2>2 DEF PutBack
  <2>8. ASSUME NEW m \in handoffs', m.req.id = s, OnItsWay(m)'
        PROVE  /\ dispatch_ids'[s] # None => dispatch_ids'[s] < m.tok
               /\ \A t \in Tokens : Given(s, t)' => t < m.tok
    <3>1. CASE m = n
      BY <3>1, <1>2, <1>5, <2>4, <2>5
    <3>2. CASE m \in handoffs
      <4>1. m.tok \in issued[s]
        BY <2>8, <3>2 DEF BaseInv, TokensIssued, HandoffTokens
      <4>2. OnItsWay(m)
        BY <4>1, <2>3, <2>8, <1>3, <1>7 DEF OnItsWay
      <4> QED
        BY <4>2, <2>4, <2>8, <3>2, <1>5 DEF GivenOnce
    <3> QED
      BY <3>1, <3>2, <1>2
  <2>9. \A h, k \in Conns : \A t \in Tokens : Started(h, s, t)' /\ Started(k, s, t)' => h = k
    BY <1>4, <1>5 DEF GivenOnce, Started, Trace
  <2>10. \A t \in Tokens : Given(s, t)' /\ Waits(s)' => t < dispatch_ids'[s]
    BY <1>5, <2>4, <2>6 DEF GivenOnce
  <2>11. (Waits(s) => dispatch_ids[s] # None)'
    BY <1>5, <2>6 DEF GivenOnce
  <2> QED
    BY <2>7, <2>8, <2>9, <2>10, <2>11 DEF GivenOnce
<1> QED
  BY <1>6, <1>7

LEMMA Send_GivenOnce ==
  ASSUME BaseInv, WebInv, JLMap, Orderly, NEW s \in Subs, GivenOnce(s), RowStep(s),
         NEW m \in handoffs, SendSubmission(m) \/ SendFails(m) \/ SendAnswered(m)
  PROVE  GivenOnce(s)'
<1>1. UNCHANGED <<jlVars, jobs, pipe, after>>
  BY DEF SendSubmission, SendFails, SendAnswered, workerVars, runVars
<1>2. m \in Handoff
  BY DEF BaseInv, OwnTypes
<1>3. CASE handoffs' = handoffs \ {m}
  BY <1>1, <1>3, Requests_GivenOnce DEF RequestsKept, OnItsWay
<1>4. ASSUME NEW a \in {"sent", "late"}, OnItsWay(m), handoffs' = (handoffs \ {m}) \cup {[m EXCEPT !.at = a]}
      PROVE  GivenOnce(s)'
  <2>1. [m EXCEPT !.at = a].req = m.req /\ [m EXCEPT !.at = a].tok = m.tok /\ [m EXCEPT !.at = a].at = a
    BY <1>2 DEF Handoff
  <2>2. RequestsKept(s)
    BY <1>4, <2>1 DEF RequestsKept, OnItsWay
  <2> QED
    BY <1>1, <2>2, Requests_GivenOnce
<1>5. m.at = "sent" \/ (m.at = "web" /\ Current(m.req.id, m.tok)) => OnItsWay(m)
  BY DEF OnItsWay, Current
<1> QED
  BY <1>3, <1>4, <1>5 DEF SendSubmission, SendFails, SendAnswered

\* Requests arrive in their order, so the one accepted now is older than those on the way.
LEMMA OnSubmission_GivenOnce ==
  ASSUME BaseInv, WebInv, JLMap, Orderly, NEW s \in Subs, GivenOnce(s), RowStep(s), NEW m \in handoffs, OnSubmission(m)
  PROVE  GivenOnce(s)'
<1>1. m \in Handoff /\ m.req \in Request /\ m.req.id \in Subs /\ m.tok \in Tokens /\ m.tok \in issued[m.req.id]
  BY DEF BaseInv, OwnTypes, Handoff, Request, TokensIssued, HandoffTokens
<1>2. /\ Known(m.req.id, m.tok) \/ BeingJudged(m.req.id, m.tok) \/ Accepted(m.req.id, m.tok)
      /\ submission_map' = submission_map /\ working' = working /\ run_id' = run_id /\ conn' = conn
      /\ retry_request' = retry_request
  BY <1>1, judge_Facts DEF OnSubmission, BaseInv
<1>3. UNCHANGED <<row, issued, jobs, pipe, after>> /\ m.at \in {"sent", "late"} /\ InOrder(m)
  BY DEF OnSubmission, dbVars, workerVars, runVars, Orderly
<1>4. RequestsKept(s)
  <2>1. LET k == [m EXCEPT !.at = "done"] IN k.req = m.req /\ k.tok = m.tok /\ k.at = "done"
    BY <1>1 DEF Handoff
  <2>2. handoffs' \subseteq handoffs \cup {[m EXCEPT !.at = "done"]}
    BY DEF OnSubmission
  <2> QED
    BY <2>1, <2>2 DEF RequestsKept, OnItsWay
<1>5. HandlersKept /\ JobsKept /\ PipesKept /\ BackKept
  BY <1>2, <1>3, Unchanged_Parts DEF HandlersKept
<1>6. StartedKept(s)
  BY <1>5, Frames
<1>7. CASE m.req.id # s \/ ~Accepted(m.req.id, m.tok)
  <2>1. QueueKept(s)
    BY <1>1, <1>2, <1>7 DEF Known, BeingJudged, Accepted, QueueKept, BaseInv, JLInv, JLTypeOK
  <2> QED
    BY <1>4, <1>5, <1>6, <2>1, Kept_GivenOnce
<1>8. CASE m.req.id = s /\ Accepted(s, m.tok)
  <2>1. dispatch_ids'[s] = m.tok /\ m.tok # None
    BY <1>1, <1>8, NoneFacts DEF Accepted, BaseInv, JLInv, JLTypeOK
  <2>2. OnItsWay(m)
    BY <1>3 DEF OnItsWay
  <2>3. \A t \in Tokens : Given(s, t)' => Given(s, t) /\ t < m.tok
    <3>1. \A t \in Tokens : Given(s, t)' => Given(s, t)
      BY <1>3, <1>6 DEF Given, StartedKept
    <3> QED
      BY <1>8, <2>2, <3>1 DEF GivenOnce
  <2>4. \A h \in Conns : PutBack(h)' /\ after'[h].sub = s => FALSE
    <3>1. \A h \in Conns : PutBack(h) /\ after[h].sub = s => FALSE
      BY <1>8, <2>2 DEF GivenOnce, Kept
    <3> QED
      BY <3>1, <1>3 DEF PutBack
  <2>5. ASSUME NEW n \in handoffs', n.req.id = s, OnItsWay(n)' PROVE m.tok < n.tok
    <3>1. n.at # "done"
      BY <2>5 DEF OnItsWay
    <3>2. n \in handoffs /\ n # m
      <4>1. [m EXCEPT !.at = "done"].at = "done"
        BY <1>1 DEF Handoff
      <4> QED
        BY <3>1, <4>1 DEF OnSubmission
    <3>3. n.tok # m.tok
      BY <1>8, <2>5, <3>2 DEF WebInv, OneHandoff
    <3>4. n.tok \in issued[s] /\ issued[s] \subseteq Tokens
      BY <2>5, <3>2 DEF BaseInv, OwnTypes, TokensIssued, HandoffTokens
    <3>5. m.tok <= n.tok
      <4>1. CASE n.at \in {"sent", "late"}
        BY <4>1, <1>3, <1>8, <2>5, <3>2 DEF InOrder
      <4>2. CASE n.at = "web" /\ n.tok = row[s].dispatch_id
        BY <4>2, <1>1, <1>8, <3>4 DEF BaseInv, TokensIssued, RowTokens
      <4> QED
        BY <4>1, <4>2, <1>3, <2>5 DEF OnItsWay
    <3>6. m.tok \in Nat /\ n.tok \in Nat
      BY <1>1, <3>4, TokensAssumption
    <3> QED
      BY <3>3, <3>5, <3>6
  <2>6. \A h, k \in Conns : \A t \in Tokens : Started(h, s, t)' /\ Started(k, s, t)' => h = k
    BY <1>6 DEF GivenOnce, StartedKept
  <2>7. \A n \in handoffs' : n.req.id = s /\ OnItsWay(n)' => \A t \in Tokens : Given(s, t)' => t < n.tok
    <3> SUFFICES ASSUME NEW n \in handoffs', n.req.id = s, OnItsWay(n)', NEW t \in Tokens, Given(s, t)' PROVE t < n.tok
      OBVIOUS
    <3>1. PICK k \in handoffs : k.req.id = s /\ k.tok = n.tok /\ (OnItsWay(n)' => OnItsWay(k))
      BY <1>4, OnItsWay_Kept
    <3> QED
      BY <2>3, <3>1 DEF GivenOnce
  <2> QED
    BY <2>1, <2>3, <2>4, <2>5, <2>6, <2>7 DEF GivenOnce
<1> QED
  BY <1>2, <1>7, <1>8

LEMMA Terminate_GivenOnce ==
  ASSUME BaseInv, WebInv, JLMap, Orderly, NEW s \in Subs, GivenOnce(s), RowStep(s),
         OnAbortProblem \/ \E x \in Subs : OnTermination(x)
  PROVE  GivenOnce(s)'
<1>1. UNCHANGED <<working, run_id, retry_request, handoffs, pipe, after>> /\ \E ids : Dropped(ids)
  BY abort_Facts, OnAbortProblem_Facts DEF OnTermination, OnAbortProblem, handlerVars, runVars, BaseInv
<1>2. \A h \in Conns : jobs'[h] = jobs[h] \/ jobs'[h] = Terminated(h)
  BY OnAbortProblem_Facts DEF OnTermination, BaseInv, OwnTypes
<1>3. JobsKept
  BY <1>2, Terminated_Facts DEF JobsKept, BaseInv
<1>4. HandlersKept
  BY <1>1 DEF HandlersKept
<1> QED
  BY <1>1, <1>3, <1>4, Frames, Unchanged_Parts, Kept_GivenOnce

\* submit() gives out the run the scheduler expects, which nobody was given.
LEMMA Offer_GivenOnce ==
  ASSUME BaseInv, WebInv, JLMap, Orderly, NEW s \in Subs, GivenOnce(s), RowStep(s), NEW h \in Conns, NEW x \in Subs, NEW out \in Outcomes,
         GivenOnce(x), Offered(h, x, out, row[x].dispatch_id), Submit(h, x, out), working[h] = None
  PROVE  GivenOnce(s)'
<1> DEFINE T == row[x].dispatch_id
<1>1. T \in Tokens /\ (out = "ok" => ~Refused(x))
  BY Offer_Facts
<1>2. UNCHANGED <<issued, handoffs, pipe, after>>
  BY DEF Submit, Sent, webVars
<1>3. /\ Waits(x) /\ \A y \in Subs : Waits(y)' <=> Waits(y) /\ (y = x => out \in {"deferred", "unready", "failed"})
      /\ dispatch_ids' = IF out = "invalid" THEN [dispatch_ids EXCEPT ![x] = None] ELSE dispatch_ids
      /\ \A g \in Conns : \/ working'[g] = working[g] /\ run_id'[g] = run_id[g]
                          \/ g = h /\ out # "ok" /\ working'[g] = None
                          \/ g = h /\ out = "ok" /\ working'[g] = x /\ run_id'[g] = T
  BY DEF Offered, BaseInv, JLInv, JLTypeOK
<1>4. jobs' = IF out # "ok" THEN jobs ELSE [jobs EXCEPT ![h] = @ \cup {Sending(x)}]
  BY DEF Submit, Sent, Sending
<1>5. Sending(x).sub = x /\ Sending(x).tok = T
  BY DEF Sending
<1>6. QueueKept(s)
  BY <1>3 DEF QueueKept, BaseInv, JLInv, JLTypeOK
<1>7. RequestsKept(s) /\ BackKept
  BY <1>2, Frames, Unchanged_Parts
<1> HIDE DEF T
<1>8. \A g \in Conns : \A t \in Tokens : Started(g, s, t)' => Started(g, s, t) \/ (out = "ok" /\ s = x /\ g = h /\ t = T)
  <2> SUFFICES ASSUME NEW g \in Conns, NEW t \in Tokens, Started(g, s, t)'
               PROVE  Started(g, s, t) \/ (out = "ok" /\ s = x /\ g = h /\ t = T)
    OBVIOUS
  <2>1. CASE working'[g] = s /\ run_id'[g] = t
    BY <2>1, <1>3, NoneFacts DEF Started
  <2>2. CASE \E j \in jobs'[g] : j.sub = s /\ j.tok = t
    <3>1. PICK j \in jobs'[g] : j.sub = s /\ j.tok = t
      BY <2>2
    <3>2. j \in jobs[g] \/ (out = "ok" /\ g = h /\ j = Sending(x))
      BY <1>4 DEF BaseInv, OwnTypes
    <3> QED
      BY <3>1, <3>2, <1>5 DEF Started, Trace
  <2>3. CASE \E p \in Elems(pipe'[g]) : p.sub = s /\ p.job = t
    BY <2>3, <1>2 DEF Started, Trace
  <2> QED
    BY <2>1, <2>2, <2>3 DEF Started, Trace
<1>9. CASE ~(out = "ok" /\ s = x)
  <2>1. StartedKept(s)
    BY <1>8, <1>9 DEF StartedKept
  <2> QED
    BY <1>6, <1>7, <2>1, Kept_GivenOnce
<1>10. CASE out = "ok" /\ s = x
  <2>1. /\ dispatch_ids[s] = T /\ dispatch_ids' = dispatch_ids /\ row' = row /\ T # None
        /\ ~Waits(s)' /\ Waits(s)
    BY <1>1, <1>3, <1>10, NoneFacts DEF Refused, GivenOnce, Submit, Answer, T
  <2>2. ~Given(s, T)
    <3> SUFFICES ASSUME Given(s, T) PROVE FALSE
      OBVIOUS
    <3>1. T < dispatch_ids[s] /\ T \in Nat
      BY <1>1, <2>1, TokensAssumption DEF GivenOnce
    <3> QED
      BY <2>1, <3>1
  <2>3. \A t \in Tokens : Given(s, t)' => Given(s, t) \/ t = T
    BY <1>8, <2>1 DEF Given
  <2>4. \A g, k \in Conns : \A t \in Tokens : Started(g, s, t)' /\ Started(k, s, t)' => g = k
    BY <1>8, <2>2 DEF GivenOnce, Given
  <2>5. \A g \in Conns : PutBack(g)' /\ after'[g].sub = s => FALSE
    BY <1>2, <2>1 DEF PutBack, GivenOnce, Kept
  <2>6. \A m \in handoffs' : m.req.id = s /\ OnItsWay(m)' => m \in handoffs /\ OnItsWay(m)
    BY <1>2, <2>1 DEF OnItsWay
  <2> QED
    BY <2>1, <2>3, <2>4, <2>5, <2>6 DEF GivenOnce
<1> QED
  BY <1>9, <1>10

LEMMA Worker_GivenOnce ==
  ASSUME BaseInv, WebInv, JLMap, Orderly, NEW s \in Subs, GivenOnce(s), RowStep(s),
         NEW h \in Conns, NEW j \in jobs[h], NEW p, NEW rest, WorkerStep(h, j, p, rest)
  PROVE  GivenOnce(s)'
<1>1. UNCHANGED <<jlVars, handoffs, after>>
  BY DEF WorkerStep, webVars, runVars
<1>2. Quiet /\ HandlersKept
  BY <1>1, Same_Facts, Unchanged_Parts DEF BaseInv
<1>3. UNCHANGED <<working, run_id>>
  BY <1>1 DEF jlVars, handlerVars
<1>4. /\ p.sub = j.sub /\ p.job = j.tok /\ \A k \in rest : k.sub = j.sub /\ k.tok = j.tok
      /\ jobs' = [jobs EXCEPT ![h] = (@ \ {j}) \cup rest]
      /\ pipe' = [pipe EXCEPT ![h] = Append(pipe[h], p)] /\ p \in Packet /\ pipe[h] \in Seq(Packet)
  BY DEF WorkerStep, BaseInv, OwnTypes
<1>5. \A g \in Conns : \A e \in Elems(pipe'[g]) : e \in Elems(pipe[g]) \/ (g = h /\ e = p)
  <2>1. Elems(Append(pipe[h], p)) = Elems(pipe[h]) \cup {p}
    BY <1>4, AppendElems
  <2> QED
    BY <1>4, <2>1 DEF BaseInv, OwnTypes
<1>6. \A g \in Conns : \A k \in jobs'[g] : k \in jobs[g] \/ (g = h /\ k.sub = j.sub /\ k.tok = j.tok)
  BY <1>4 DEF BaseInv, OwnTypes
<1>7. StartedKept(s)
  <2> SUFFICES ASSUME NEW g \in Conns, NEW t \in Tokens, Started(g, s, t)' PROVE Started(g, s, t)
    BY DEF StartedKept
  <2>1. CASE \E k \in jobs'[g] : k.sub = s /\ k.tok = t
    BY <2>1, <1>6 DEF Started, Trace
  <2>2. CASE \E e \in Elems(pipe'[g]) : e.sub = s /\ e.job = t
    BY <2>2, <1>4, <1>5 DEF Started, Trace
  <2> QED
    BY <1>3, <2>1, <2>2 DEF Started, Trace
<1> QED
  BY <1>1, <1>2, <1>7, Frames, Unchanged_Parts, Kept_GivenOnce

LEMMA Threads_GivenOnce ==
  ASSUME BaseInv, WebInv, JLMap, Orderly, NEW s \in Subs, GivenOnce(s), RowStep(s),
         \/ SyncRemoteData
         \/ \E h \in Conns : \/ Handshake(h) \/ Connected(h) \/ Lost(h) \/ SupportedProblems(h)
                             \/ OnRetryQueued(h) \/ RetryWindowEnds(h)
         \/ \E x \in Subs : AbortRequested(x) \/ AbortWritten(x) \/ BootMark(x)
         \/ Unlock \/ Apply
  PROVE  GivenOnce(s)'
<1>1. CASE SyncRemoteData \/ \E h \in Conns : Handshake(h) \/ Connected(h) \/ Lost(h) \/ SupportedProblems(h)
  <2>1. Quiet /\ UNCHANGED OwnVars
    BY <1>1, Quiet_Facts
  <2> QED
    BY <2>1, Unchanged_Parts, Quiet_GivenOnce DEF OwnVars, webVars, workerVars, runVars
<1>2. ASSUME NEW h \in Conns, OnRetryQueued(h) \/ RetryWindowEnds(h) PROVE GivenOnce(s)'
  <2>1. Quiet /\ UNCHANGED <<webVars, workerVars, after>>
    BY <1>2, Timers_Facts
  <2> QED
    BY <2>1, Unchanged_Parts, Quiet_GivenOnce DEF webVars, workerVars
<1>3. CASE (\E x \in Subs : AbortRequested(x) \/ AbortWritten(x) \/ BootMark(x)) \/ Unlock \/ Apply
  <2>1. UNCHANGED <<jlVars, jobs, pipe, after, handoffs>>
    BY <1>3 DEF AbortRequested, AbortWritten, BootMark, Unlock, Apply, webVars, workerVars, runVars
  <2> QED
    BY <2>1, Frames, Requests_GivenOnce
<1> QED
  BY <1>1, <1>2, <1>3

\* A run that is requeued was given to the handler that has it, so no request is on the way and
\* nothing waits; its new token is known to nobody but the callback.
LEMMA Requeued_GivenOnce ==
  ASSUME BaseInv, WebInv, JLMap, Orderly, NEW s \in Subs, GivenOnce(s), RowStep(s), NEW h \in Conns, NEW op, NEW tok,
         Requeued(h, op, tok), Retryable(h), after[h] = None, Quiet, JobsKept, PipesKept, UNCHANGED handoffs
  PROVE  GivenOnce(s)'
<1> DEFINE u == run_id[h]
<1>1. /\ \A g \in Conns \ {h} : after'[g] = after[g]
      /\ after'[h].sub = working[h] /\ after'[h].tok = tok /\ working[h] \in Subs
  BY DEF Requeued, BaseInv, OwnTypes
<1>2. StartedKept(s) /\ QueueKept(s) /\ RequestsKept(s)
  BY Frames, Unchanged_Parts
<1>3. CASE working[h] # s
  <2>1. BackKeptFor(s)
    BY <1>1, <1>3 DEF BackKeptFor, PutBack
  <2> QED
    BY <1>2, <2>1, KeptFor_GivenOnce
<1>4. CASE working[h] = s
  <2>1. /\ tok \in Nat /\ tok \in Tokens /\ tok \notin issued[s] /\ \A v \in issued[s] : v < tok
        /\ row'[s] = [status |-> "QU", dispatch_id |-> tok]
    BY <1>4, NextToken DEF Requeued, BaseInv, OwnTypes
  <2>2. u \in issued[s] /\ u \in Tokens /\ u = row[s].dispatch_id /\ Started(h, s, u) /\ Given(s, u)
    BY <1>4, NoneFacts DEF Retryable, BaseInv, OwnTypes, TokensIssued, HandlerTokens, Started, Given, Orderly
  <2>3. \A v \in issued[s] : v <= u
    BY <2>2, NoneFacts DEF BaseInv, TokensIssued, RowTokens
  <2>4. issued[s] \subseteq Tokens /\ Tokens \subseteq Nat
    BY TokensAssumption DEF BaseInv, OwnTypes
  <2> HIDE DEF u
  <2>5. ASSUME NEW m \in handoffs', m.req.id = s PROVE ~OnItsWay(m)' /\ m.tok # tok
    <3>1. m \in handoffs /\ m.tok \in issued[s]
      BY <2>5 DEF BaseInv, TokensIssued, HandoffTokens
    <3>2. m.tok # tok /\ (OnItsWay(m)' => OnItsWay(m))
      BY <2>1, <2>5, <3>1 DEF OnItsWay
    <3>3. ASSUME OnItsWay(m) PROVE FALSE
      <4>1. u < m.tok
        BY <2>2, <2>5, <3>1, <3>3 DEF GivenOnce
      <4>2. m.tok <= u /\ m.tok \in Nat /\ u \in Nat
        BY <2>2, <2>3, <2>4, <3>1
      <4> QED
        BY <4>1, <4>2
    <3> QED
      BY <3>2, <3>3
  <2>6. ~Waits(s) /\ ~Waits(s)'
    <3>1. ASSUME Waits(s) PROVE FALSE
      <4>1. dispatch_ids[s] \in issued[s] /\ u < dispatch_ids[s]
        BY <2>2, <3>1 DEF GivenOnce, BaseInv, TokensIssued, ListTokens, Orderly
      <4>2. dispatch_ids[s] <= u /\ dispatch_ids[s] \in Nat /\ u \in Nat
        BY <2>2, <2>3, <2>4, <4>1
      <4> QED
        BY <4>1, <4>2
    <3> QED
      BY <3>1 DEF Quiet
  <2>7. \A t \in Tokens : Given(s, t)' => Given(s, t)
    BY <1>2, <2>1 DEF Given, StartedKept
  <2>8. ~Given(s, tok)'
    BY <2>1, <2>7, SentFresh
  <2>9. \A g \in Conns : PutBack(g)' /\ after'[g].sub = s => g = h
    <3> SUFFICES ASSUME NEW g \in Conns, PutBack(g)', after'[g].sub = s, g # h PROVE FALSE
      OBVIOUS
    <3>1. PutBack(g) /\ after[g].sub = s
      BY <1>1 DEF PutBack
    <3>2. row[s] = [status |-> "QU", dispatch_id |-> after[g].tok] /\ ~Given(s, after[g].tok)
      BY <3>1 DEF GivenOnce, Kept
    <3> QED
      BY <2>2, <3>2
  <2>10. ASSUME NEW g \in Conns, PutBack(g)', after'[g].sub = s PROVE Kept(g, s, after[g].tok)'
    <3>1. g = h /\ after'[g].tok = tok
      BY <1>1, <2>9, <2>10
    <3> QED
      BY <2>1, <2>5, <2>6, <2>8, <2>9, <3>1 DEF Kept, Given, Started, Trace
  <2>11. \A g, k \in Conns : \A t \in Tokens : Started(g, s, t)' /\ Started(k, s, t)' => g = k
    BY <1>2 DEF GivenOnce, StartedKept
  <2> QED
    BY <2>5, <2>6, <2>10, <2>11 DEF GivenOnce
<1> QED
  BY <1>3, <1>4

LEMMA HandlePacket_GivenOnce ==
  ASSUME BaseInv, WebInv, JLMap, Orderly, NEW s \in Subs, GivenOnce(s), RowStep(s), NEW h \in Conns, HandlePacket(h)
  PROVE  GivenOnce(s)'
<1> DEFINE p == Head(pipe[h])
<1>1. PipesKept
  BY PipeHead DEF HandlePacket, BaseInv
<1>2. UNCHANGED <<packetJl, handoffs, jobs>> /\ JobsKept /\ conn[h] \in {"up", "shut"} /\ after[h] = None
  BY Unchanged_Parts DEF HandlePacket, Reading, webVars
<1> HIDE DEF p
<1>3. CASE Plain(h, p)
  <2>1. Quiet
    <3>1. problems' \in [Conns -> SUBSET Subs]
      BY <1>3 DEF Plain, BaseInv, JLInv, JLTypeOK
    <3> QED
      BY <3>1, <1>2, Problems_Facts DEF BaseInv, packetJl
  <2>2. \A g \in Conns : \/ after'[g] = after[g]
                         \/ g = h /\ after'[g] \in [op : {"release", "abort"}, sub : {p.sub}, tok : {None}]
    BY <1>3 DEF Plain, Called, BaseInv, OwnTypes
  <2>3. BackKept
    BY <2>2 DEF BackKept, PutBack
  <2> QED
    BY <1>1, <1>2, <2>1, <2>3, Quiet_GivenOnce
<1>4. ASSUME NEW tok, Requeued(h, "defer", tok), Retryable(h), remote_run[h], UNCHANGED preparing PROVE GivenOnce(s)'
  <2>1. h \in Remote /\ UNCHANGED remote_run
    BY <1>4 DEF BaseInv, RemoteOnly, HandlePacket
  <2>2. Quiet
    BY <1>2, <1>4, <2>1, Requeued_Parts
  <2> QED
    BY <1>1, <1>2, <1>4, <2>2, Requeued_GivenOnce
<1> QED
  BY <1>3, <1>4, HandlePacket_Facts DEF p

LEMMA Release_GivenOnce ==
  ASSUME BaseInv, WebInv, JLMap, Orderly, NEW s \in Subs, GivenOnce(s), RowStep(s), NEW h \in Conns, Release(h) \/ AbortWorker(h)
  PROVE  GivenOnce(s)'
<1>1. UNCHANGED <<handoffs, pipe>> /\ after' = [after EXCEPT ![h] = None]
  BY DEF Release, AbortWorker, webVars, workerVars
<1>2. BackKept
  BY <1>1 DEF BackKept, PutBack, BaseInv, OwnTypes
<1>3. JobsKept
  <2>1. jobs' = jobs \/ jobs' = [jobs EXCEPT ![h] = Terminated(h)]
    BY DEF Release, AbortWorker, workerVars
  <2>2. CASE jobs' = jobs
    BY <2>2, Unchanged_Parts
  <2>3. CASE jobs' = [jobs EXCEPT ![h] = Terminated(h)]
    BY <2>3, Terminated_Facts DEF BaseInv, OwnTypes, JobsKept
  <2> QED
    BY <2>1, <2>2, <2>3
<1>4. CASE Quiet
  BY <1>1, <1>2, <1>3, <1>4, Unchanged_Parts, Quiet_GivenOnce
<1>5. CASE ~Quiet
  <2>1. Release(h) /\ working[h] = after[h].sub
    BY <1>5, Same_Facts DEF Release, AbortWorker, BaseInv
  <2>2. after[h].sub \in Subs /\ on_judge_free(h, after[h].sub)
    BY <2>1 DEF Release, BaseInv, OwnTypes, Callback
  <2>3. run_id' = run_id /\ Freed(h, after[h].sub)
    BY <1>5, <2>2, on_judge_free_Facts DEF BaseInv
  <2>4. HandlersKept
    BY <2>3 DEF Freed, HandlersKept, BaseInv, JLInv, JLTypeOK
  <2> QED
    BY <1>1, <1>2, <1>3, <2>2, <2>3, <2>4, Unchanged_Parts, Frames, Kept_GivenOnce
<1> QED
  BY <1>4, <1>5

\* The run that is put back is the newest one, and nobody was given it.
LEMMA Defer_GivenOnce ==
  ASSUME BaseInv, WebInv, JLMap, Orderly, NEW s \in Subs, GivenOnce(s), RowStep(s), NEW h \in Conns, Defer(h)
  PROVE  GivenOnce(s)'
<1> DEFINE x == after[h].sub
           tok == after[h].tok
<1>1. x \in Subs /\ tok \in issued[x] /\ tok \in Tokens /\ PutBack(h)
  <2>1. PutBack(h) /\ after[h] \in Callback
    BY DEF Defer, PutBack, BaseInv, OwnTypes
  <2>2. x \in Subs /\ tok \in issued[x]
    BY <2>1 DEF BaseInv, TokensIssued, BackTokens, Callback
  <2> QED
    BY <2>1, <2>2 DEF BaseInv, OwnTypes
<1>2. run_id' = run_id /\ IF Holds(h, x) THEN PutBackAs(h, x, tok) ELSE Quiet
  BY <1>1, defer_Facts DEF Defer, BaseInv, JLMap
<1>3. UNCHANGED <<row, handoffs, jobs, pipe>> /\ after' = [after EXCEPT ![h] = None]
  BY DEF Defer, dbVars, webVars, workerVars
<1>4. BackKept
  BY <1>3 DEF BackKept, PutBack, BaseInv, OwnTypes
<1>5. CASE Quiet
  BY <1>3, <1>4, <1>5, Unchanged_Parts, Quiet_GivenOnce
<1>6. CASE PutBackAs(h, x, tok)
  <2>1. StartedKept(s) /\ RequestsKept(s)
    <3>1. HandlersKept
      BY <1>2, <1>6 DEF PutBackAs, HandlersKept, BaseInv, JLInv, JLTypeOK
    <3> QED
      BY <1>3, <3>1, Frames, Unchanged_Parts
  <2>2. CASE x # s
    <3>1. QueueKept(s)
      BY <1>1, <1>6, <2>2 DEF PutBackAs, QueueKept, BaseInv, JLInv, JLTypeOK
    <3> QED
      BY <1>4, <2>1, <3>1, Kept_GivenOnce
  <2>3. CASE x = s
    <3>1. Kept(h, s, tok)
      BY <1>1, <2>3 DEF GivenOnce
    <3>2. dispatch_ids'[s] = tok /\ tok # None
      BY <1>1, <1>6, <2>3, <3>1, NoneFacts DEF Kept, PutBackAs, BaseInv, JLInv, JLTypeOK
    <3>3. \A m \in handoffs' : m.req.id = s => ~OnItsWay(m)'
      BY <1>3, <3>1 DEF Kept, OnItsWay
    <3>4. \A t \in Tokens : Given(s, t)' => t < tok
      <4> SUFFICES ASSUME NEW t \in Tokens, Given(s, t)' PROVE t < tok
        OBVIOUS
      <4>1. Given(s, t)
        BY <1>3, <2>1 DEF Given, StartedKept
      <4>2. t # tok /\ row[s].dispatch_id = tok
        BY <3>1, <4>1 DEF Kept
      <4>3. t \in Nat /\ tok \in Nat /\ t <= tok
        BY <4>1, <4>2, SentFresh
      <4> QED
        BY <4>2, <4>3
    <3>5. \A g \in Conns : ~(PutBack(g)' /\ after'[g].sub = s)
      <4> SUFFICES ASSUME NEW g \in Conns, PutBack(g)', after'[g].sub = s PROVE FALSE
        OBVIOUS
      <4>1. PutBack(g) /\ after[g].sub = s
        BY <1>4 DEF BackKept
      <4>2. g = h
        BY <3>1, <4>1 DEF Kept
      <4> QED
        BY <1>3, <4>2 DEF PutBack, BaseInv, OwnTypes
    <3>6. \A g, k \in Conns : \A t \in Tokens : Started(g, s, t)' /\ Started(k, s, t)' => g = k
      BY <2>1 DEF GivenOnce, StartedKept
    <3> HIDE DEF tok
    <3> QED
      BY <3>2, <3>3, <3>4, <3>5, <3>6 DEF GivenOnce
  <2> QED
    BY <2>2, <2>3
<1> QED
  BY <1>2, <1>5, <1>6

LEMMA Disconnect_GivenOnce ==
  ASSUME BaseInv, WebInv, JLMap, Orderly, NEW s \in Subs, GivenOnce(s), RowStep(s), NEW h \in Conns,
         DisconnectRetry(h) \/ DisconnectDiscard(h) \/ DisconnectRemove(h) \/ DisconnectFail(h)
  PROVE  GivenOnce(s)'
<1>1. CASE DisconnectRetry(h)
  <2>1. PICK tok : Requeued(h, "discard", tok)
    BY <1>1, DisconnectRetry_Facts
  <2>2. /\ conn[h] = "shut" /\ h \in Remote /\ Retryable(h) /\ after[h] = None
        /\ UNCHANGED <<packetJl, handoffs, jobs, preparing, remote_run>>
    BY <1>1, DisconnectRetry_Facts DEF webVars
  <2>3. PipesKept
    BY <1>1, DisconnectRetry_Facts, EmptyPipe DEF BaseInv
  <2>4. Quiet
    BY <2>1, <2>2, Requeued_Parts
  <2> QED
    BY <2>1, <2>2, <2>3, <2>4, Unchanged_Parts, Requeued_GivenOnce
<1>2. CASE DisconnectDiscard(h)
  <2>1. Quiet
    BY <1>2, QuietMethods DEF DisconnectDiscard, BaseInv
  <2>2. /\ after[h] \in Callback /\ after[h] # None /\ after[h].op = "discard"
        /\ after' = [after EXCEPT ![h] = [after[h] EXCEPT !.op = "leave"]]
        /\ UNCHANGED <<handoffs, jobs, pipe>>
    BY <1>2 DEF DisconnectDiscard, BaseInv, OwnTypes, webVars, workerVars
  <2>3. BackKept
    <3>1. [after[h] EXCEPT !.op = "leave"].sub = after[h].sub /\ [after[h] EXCEPT !.op = "leave"].tok = after[h].tok
      BY <2>2 DEF Callback
    <3> QED
      BY <2>2, <3>1 DEF BackKept, PutBack, BaseInv, OwnTypes
  <2> QED
    BY <2>1, <2>2, <2>3, Unchanged_Parts, Quiet_GivenOnce
<1>3. CASE DisconnectRemove(h)
  <2>1. Removed(h) /\ PipesKept /\ UNCHANGED <<handoffs, jobs, after>>
    BY <1>3, remove_Facts, EmptyPipe DEF DisconnectRemove, BaseInv, webVars, runVars
  <2>2. HandlersKept
    BY <2>1 DEF Removed, HandlersKept
  <2> QED
    BY <2>1, <2>2, Unchanged_Parts, Frames, Kept_GivenOnce
<1>4. CASE DisconnectFail(h)
  <2>1. Forgotten(h) /\ UNCHANGED <<handoffs, pipe, after>> /\ jobs' = [jobs EXCEPT ![h] = {}]
    BY <1>4, DisconnectFail_Facts DEF DisconnectFail, webVars
  <2>2. JobsKept /\ HandlersKept
    BY <2>1 DEF Forgotten, JobsKept, HandlersKept, BaseInv, JLInv, JLTypeOK, OwnTypes
  <2> QED
    BY <2>1, <2>2, Unchanged_Parts, Frames, Kept_GivenOnce
<1> QED
  BY <1>1, <1>2, <1>3, <1>4

LEMMA Crash_GivenOnce ==
  ASSUME BaseInv, WebInv, JLMap, Orderly, NEW s \in Subs, GivenOnce(s), RowStep(s), Crash
  PROVE  GivenOnce(s)'
<1>1. /\ \A x \in Subs : ~Waits(x)' /\ dispatch_ids'[x] = None
      /\ \A h \in Conns : working'[h] = None
  BY JLRestart_Facts DEF Crash
<1>2. /\ jobs' = [h \in Conns |-> {}] /\ pipe' = [h \in Conns |-> <<>>]
      /\ after' = [h \in Conns |-> None]
      /\ handoffs' = {m \in handoffs : m.at # "late"}
  BY DEF Crash
<1>3. StartedKept(s) /\ QueueKept(s)
  BY <1>1, <1>2, NoElems, NoneFacts DEF StartedKept, Started, Trace, QueueKept
<1>4. RequestsKept(s) /\ BackKept
  BY <1>2 DEF RequestsKept, OnItsWay, BackKept, PutBack
<1> QED
  BY <1>3, <1>4, Kept_GivenOnce

AllGivenOnce == \A s \in Subs : GivenOnce(s)
LEMMA Next_GivenOnce ==
  ASSUME BaseInv, WebInv, JLMap, Orderly, AllGivenOnce, [Next]_vars
  PROVE  AllGivenOnce'
<1> SUFFICES ASSUME NEW s \in Subs PROVE GivenOnce(s)'
  BY DEF AllGivenOnce
<1>1. GivenOnce(s) /\ RowStep(s)
  BY Next_RowStep DEF AllGivenOnce
<1>2. ASSUME NEW x \in Subs,
             JudgeSubmission(x) \/ AbortRequested(x) \/ AbortWritten(x) \/ OnTermination(x) \/ BootMark(x)
      PROVE  GivenOnce(s)'
  BY <1>1, <1>2, JudgeSubmission_GivenOnce, Threads_GivenOnce, Terminate_GivenOnce
<1>3. ASSUME NEW m \in handoffs, SendSubmission(m) \/ SendFails(m) \/ SendAnswered(m) \/ OnSubmission(m)
      PROVE  GivenOnce(s)'
  BY <1>1, <1>3, Send_GivenOnce, OnSubmission_GivenOnce
<1>4. ASSUME Unlock \/ Apply \/ OnAbortProblem \/ SyncRemoteData \/ Crash PROVE GivenOnce(s)'
  BY <1>1, <1>4, Threads_GivenOnce, Terminate_GivenOnce, Crash_GivenOnce
<1>5. CASE Schedule
  <2>1. CASE Quiet /\ UNCHANGED OwnVars
    BY <1>1, <2>1, Unchanged_Parts, Quiet_GivenOnce DEF OwnVars, webVars, workerVars, runVars
  <2>2. ASSUME NEW h \in Conns, NEW x \in Subs, NEW out \in Outcomes,
               Offered(h, x, out, row[x].dispatch_id), Submit(h, x, out), working[h] = None
        PROVE  GivenOnce(s)'
    BY <1>1, <2>2, Offer_GivenOnce DEF AllGivenOnce
  <2> QED
    BY <1>5, <2>1, <2>2, Schedule_Facts
<1>6. ASSUME NEW h \in Conns,
             \/ Handshake(h) \/ Connected(h) \/ Lost(h) \/ SupportedProblems(h)
             \/ OnRetryQueued(h) \/ RetryWindowEnds(h)
             \/ HandlePacket(h) \/ Release(h) \/ AbortWorker(h) \/ Defer(h)
             \/ DisconnectRetry(h) \/ DisconnectDiscard(h) \/ DisconnectRemove(h) \/ DisconnectFail(h)
      PROVE  GivenOnce(s)'
  BY <1>1, <1>6, Threads_GivenOnce, HandlePacket_GivenOnce, Release_GivenOnce, Defer_GivenOnce, Disconnect_GivenOnce
<1>7. ASSUME NEW h \in Conns, NEW j \in jobs[h],
             WorkerAcks(h, j) \/ WorkerPrepares(h, j) \/ WorkerBegins(h, j) \/ WorkerEnds(h, j)
      PROVE  GivenOnce(s)'
  <2>1. \E p, rest : WorkerStep(h, j, p, rest)
    BY <1>7, Worker_Facts DEF BaseInv
  <2> QED
    BY <1>1, <2>1, Worker_GivenOnce
<1>8. CASE UNCHANGED vars
  <2>1. UNCHANGED <<jlVars, jobs, pipe, after, handoffs>>
    BY <1>8 DEF vars, webVars, workerVars, runVars
  <2> QED
    BY <1>1, <2>1, Frames, Requests_GivenOnce
<1> QED
  BY <1>2, <1>3, <1>4, <1>5, <1>6, <1>7, <1>8 DEF Next

LEMMA Init_GivenOnce == Init => WebInv /\ AllGivenOnce
<1> SUFFICES ASSUME Init PROVE WebInv /\ AllGivenOnce
  OBVIOUS
<1>1. WebInv
  BY DEF Init, WebInv, OneHandoff, NobodyServed, AbortsIdle
<1>2. \A s \in Subs : ~Waits(s)
  BY DEF Init, JLInit, Waits, HasId
<1>3. \A s \in Subs, t \in Tokens : ~Given(s, t) /\ \A h \in Conns : ~Started(h, s, t)
  BY NoElems, NoneFacts DEF Init, JLInit, Given, Started, Trace
<1>4. \A h \in Conns : ~PutBack(h)
  BY DEF Init, PutBack
<1>5. handoffs = {}
  BY DEF Init
<1>6. AllGivenOnce
  BY <1>2, <1>3, <1>4, <1>5 DEF AllGivenOnce, GivenOnce
<1> QED
  BY <1>1, <1>6

OrderInv == BaseInv /\ WebInv /\ JLMap /\ AllGivenOnce
LEMMA OrderInvariant ==
  ASSUME Orderly
  PROVE  Spec => []OrderInv
<1>1. Init => OrderInv
  BY Init_BaseInv, Init_GivenOnce, JLInit_JLMap DEF OrderInv, Init
<1>2. OrderInv /\ [Next]_vars => OrderInv'
  BY Next_BaseInv, Next_JLMap, Next_WebInv, Next_GivenOnce DEF OrderInv, Orderly
<1> QED
  BY <1>1, <1>2, PTL DEF Spec

\* No run of a submission is given to two judges.
THEOREM RunsAreGivenOnce ==
  ASSUME Orderly
  PROVE  Spec => []OnceGiven
<1>1. OrderInv => OnceGiven
  BY DEF OrderInv, AllGivenOnce, GivenOnce, OnceGiven
<1> QED
  BY <1>1, OrderInvariant, PTL

\* judge_list.py:125, a queued run is never replaced by an older one.
THEOREM QueuedTokensGrow ==
  ASSUME Orderly
  PROVE  Spec => QueuedTokenNeverGoesBack
<1> DEFINE Grows == \A s \in Subs : dispatch_ids[s] # None /\ dispatch_ids'[s] # None => dispatch_ids[s] <= dispatch_ids'[s]
<1>1. ASSUME OrderInv, [Next]_vars PROVE Grows
  <2> SUFFICES ASSUME NEW s \in Subs, dispatch_ids[s] # None, dispatch_ids'[s] # None
               PROVE  dispatch_ids[s] <= dispatch_ids'[s]
    OBVIOUS
  <2>1. dispatch_ids[s] \in Nat /\ dispatch_ids[s] \in issued[s] /\ BaseInv /\ GivenOnce(s)
    BY <1>1, TokensAssumption DEF OrderInv, AllGivenOnce, BaseInv, JLInv, JLTypeOK, TokensIssued, ListTokens, Orderly
  <2>2. CASE dispatch_ids'[s] \in {dispatch_ids[s], None}
    BY <2>1, <2>2
  <2>3. ASSUME NEW m \in handoffs, OnSubmission(m) PROVE dispatch_ids[s] <= dispatch_ids'[s]
    <3>1. m.req \in Request /\ m.req.id \in Subs /\ m.tok \in Tokens
      BY <2>1 DEF BaseInv, OwnTypes, Handoff, Request
    <3>2. Known(m.req.id, m.tok) \/ BeingJudged(m.req.id, m.tok) \/ Accepted(m.req.id, m.tok)
      BY <2>1, <2>3, <3>1, judge_Facts DEF OnSubmission, BaseInv
    <3>3. CASE dispatch_ids' = dispatch_ids \/ m.req.id # s
      BY <2>1, <2>2, <3>1, <3>2, <3>3 DEF Known, BeingJudged, Accepted, BaseInv, JLInv, JLTypeOK
    <3>4. CASE m.req.id = s /\ Accepted(s, m.tok)
      <4>1. dispatch_ids'[s] = m.tok /\ m.tok \in Nat
        BY <2>1, <3>1, <3>4, TokensAssumption DEF Accepted, BaseInv, JLInv, JLTypeOK
      <4>2. OnItsWay(m)
        BY <2>3 DEF OnSubmission, OnItsWay
      <4> QED
        BY <2>1, <3>4, <4>1, <4>2 DEF GivenOnce
    <3> QED
      BY <3>2, <3>3, <3>4 DEF Known, BeingJudged
  <2>4. ASSUME NEW h \in Conns, Defer(h) PROVE dispatch_ids[s] <= dispatch_ids'[s]
    <3> DEFINE x == after[h].sub
               tok == after[h].tok
    <3>1. x \in Subs /\ tok \in issued[x] /\ tok \in Tokens /\ PutBack(h)
      <4>1. PutBack(h) /\ after[h] \in Callback
        BY <2>1, <2>4 DEF Defer, PutBack, BaseInv, OwnTypes
      <4>2. x \in Subs /\ tok \in issued[x]
        BY <2>1, <4>1 DEF BaseInv, TokensIssued, BackTokens, Callback
      <4> QED
        BY <2>1, <4>1, <4>2 DEF BaseInv, OwnTypes
    <3>2. IF Holds(h, x) THEN PutBackAs(h, x, tok) ELSE Quiet
      BY <1>1, <2>1, <2>4, <3>1, defer_Facts DEF Defer, BaseInv, OrderInv, JLMap
    <3>3. CASE Quiet \/ x # s
      BY <2>1, <2>2, <3>1, <3>2, <3>3 DEF Quiet, PutBackAs, BaseInv, JLInv, JLTypeOK
    <3>4. CASE PutBackAs(h, s, tok) /\ x = s
      <4>1. row[s].dispatch_id = tok
        <5>1. Kept(h, s, tok)
          BY <2>1, <3>1, <3>4 DEF GivenOnce
        <5> QED
          BY <5>1 DEF Kept
      <4>2. dispatch_ids[s] <= tok
        BY <2>1, <4>1 DEF BaseInv, TokensIssued, RowTokens
      <4>3. dispatch_ids'[s] = tok
        BY <2>1, <3>4 DEF PutBackAs, BaseInv, JLInv, JLTypeOK
      <4> QED
        BY <4>2, <4>3
    <3> QED
      BY <3>2, <3>3, <3>4
  <2>5. CASE \/ UNCHANGED dispatch_ids
             \/ \E ids : Dropped(ids)
             \/ \E h \in Conns, x \in Subs : Freed(h, x)
             \/ \E h \in Conns, x \in Subs, out \in Outcomes : \E tok : Offered(h, x, out, tok)
             \/ \E h \in Conns : Removed(h) \/ Forgotten(h)
    BY <2>1, <2>2, <2>5 DEF Dropped, Freed, Offered, Removed, Forgotten, BaseInv, JLInv, JLTypeOK
  <2>6. UNCHANGED jlVars \/ Quiet => UNCHANGED dispatch_ids
    BY DEF jlVars, listVars, Quiet
  <2>7. ASSUME NEW x \in Subs,
               JudgeSubmission(x) \/ AbortRequested(x) \/ AbortWritten(x) \/ OnTermination(x) \/ BootMark(x)
        PROVE  dispatch_ids[s] <= dispatch_ids'[s]
    BY <2>1, <2>5, <2>6, <2>7, abort_Facts DEF JudgeSubmission, AbortRequested, AbortWritten, OnTermination, BootMark, BaseInv
  <2>8. ASSUME NEW m \in handoffs, SendSubmission(m) \/ SendFails(m) \/ SendAnswered(m)
        PROVE  dispatch_ids[s] <= dispatch_ids'[s]
    BY <2>5, <2>6, <2>8 DEF SendSubmission, SendFails, SendAnswered
  <2>9. ASSUME Unlock \/ Apply \/ OnAbortProblem \/ Crash PROVE dispatch_ids[s] <= dispatch_ids'[s]
    <3>1. CASE Unlock \/ Apply
      BY <2>5, <2>6, <3>1 DEF Unlock, Apply
    <3>2. CASE OnAbortProblem
      BY <2>1, <2>5, <3>2, OnAbortProblem_Facts DEF BaseInv
    <3>3. CASE Crash
      BY <2>2, <3>3, JLRestart_Facts DEF Crash
    <3> QED
      BY <2>9, <3>1, <3>2, <3>3
  <2>10. CASE Schedule
    BY <2>1, <2>5, <2>6, <2>10, Schedule_Facts
  <2>11. CASE SyncRemoteData \/ \E h \in Conns : Handshake(h) \/ Connected(h) \/ Lost(h) \/ SupportedProblems(h)
    BY <2>1, <2>5, <2>6, <2>11, Quiet_Facts
  <2>12. ASSUME NEW h \in Conns,
               \/ OnRetryQueued(h) \/ RetryWindowEnds(h)
               \/ HandlePacket(h) \/ Release(h) \/ AbortWorker(h) \/ DisconnectRetry(h) \/ DisconnectDiscard(h)
         PROVE dispatch_ids[s] <= dispatch_ids'[s]
    <3>1. CASE OnRetryQueued(h) \/ RetryWindowEnds(h)
      BY <2>1, <2>5, <2>6, <3>1, Timers_Facts
    <3>2. CASE HandlePacket(h) \/ AbortWorker(h) \/ DisconnectRetry(h)
      BY <2>5, <2>6, <3>2 DEF HandlePacket, AbortWorker, DisconnectRetry, packetJl, listVars
    <3>3. CASE Release(h)
      <4>1. after[h].sub \in Subs
        BY <2>1, <3>3 DEF Release, BaseInv, OwnTypes, Callback
      <4> QED
        BY <2>1, <2>5, <2>6, <3>3, <4>1, on_judge_free_Facts DEF Release, BaseInv
    <3>4. CASE DisconnectDiscard(h)
      BY <2>1, <2>5, <2>6, <3>4, QuietMethods DEF DisconnectDiscard, BaseInv
    <3> QED
      BY <2>12, <3>1, <3>2, <3>3, <3>4
  <2>13. ASSUME NEW h \in Conns, DisconnectRemove(h) \/ DisconnectFail(h) PROVE dispatch_ids[s] <= dispatch_ids'[s]
    BY <2>1, <2>5, <2>13, remove_Facts, DisconnectFail_Facts DEF DisconnectRemove, BaseInv
  <2>14. ASSUME NEW h \in Conns, NEW j \in jobs[h],
               WorkerAcks(h, j) \/ WorkerPrepares(h, j) \/ WorkerBegins(h, j) \/ WorkerEnds(h, j)
         PROVE  dispatch_ids[s] <= dispatch_ids'[s]
    <3>1. UNCHANGED jlVars
      BY <2>1, <2>14, Worker_Facts DEF WorkerStep, BaseInv
    <3> QED
      BY <2>5, <2>6, <3>1
  <2>15. CASE UNCHANGED vars
    BY <2>5, <2>6, <2>15 DEF vars
  <2> QED
    BY <1>1, <2>3, <2>4, <2>7, <2>8, <2>9, <2>10, <2>11, <2>12, <2>13, <2>14, <2>15 DEF Next
<1>2. OrderInv /\ [Next]_vars => [Grows]_vars
  BY <1>1
<1>3. QueuedTokenNeverGoesBack <=> [][Grows]_vars
  BY PTL DEF QueuedTokenNeverGoesBack
<1> QED
  BY <1>2, <1>3, OrderInvariant, PTL DEF Spec

-----------------------------------------------------------------------------
(* The worker's side of a run.  A worker acknowledges its run before it says anything else of it,
   so no acknowledgement is left once grading has begun. *)
AcksFirst(q) ==
  \A i, k \in 1 .. Len(q) : i < k /\ q[i].sub = q[k].sub /\ q[i].job = q[k].job => q[k].kind # "ack"
NoAck(s, t) ==
  \A h \in Conns : /\ \A j \in jobs[h] : j.sub = s /\ j.tok = t => j.stage # "sent"
                   /\ \A p \in Elems(pipe[h]) : p.sub = s /\ p.job = t => p.kind # "ack"
GradingAcked(s) == row[s].status = "G" => NoAck(s, row[s].dispatch_id)
PacketOrder ==
  /\ \A h \in Conns :
       /\ \A j, k \in jobs[h] : j.sub = k.sub /\ j.tok = k.tok => j = k
       /\ \A j \in jobs[h] : j.stage = "sent" => \A p \in Elems(pipe[h]) : ~(p.sub = j.sub /\ p.job = j.tok)
       /\ AcksFirst(pipe[h])
  /\ \A s \in Subs : GradingAcked(s)

LEMMA EmptyAcks == AcksFirst(<<>>)
  BY DEF AcksFirst

LEMMA AppendAcks ==
  ASSUME NEW q \in Seq(Packet), NEW p \in Packet, AcksFirst(q),
         p.kind = "ack" => \A e \in Elems(q) : ~(e.sub = p.sub /\ e.job = p.job)
  PROVE  AcksFirst(Append(q, p))
<1>1. /\ Len(q) \in Nat /\ Len(Append(q, p)) = Len(q) + 1
      /\ \A i \in 1 .. Len(q) : Append(q, p)[i] = q[i]
      /\ Append(q, p)[Len(q) + 1] = p
  BY AppendProperties, LenProperties
<1> SUFFICES ASSUME NEW i \in 1 .. Len(q) + 1, NEW k \in 1 .. Len(q) + 1, i < k,
                    Append(q, p)[i].sub = Append(q, p)[k].sub, Append(q, p)[i].job = Append(q, p)[k].job
             PROVE  Append(q, p)[k].kind # "ack"
  BY <1>1 DEF AcksFirst
<1>2. i \in 1 .. Len(q) /\ (k \in 1 .. Len(q) \/ k = Len(q) + 1)
  BY <1>1
<1>3. CASE k \in 1 .. Len(q)
  BY <1>1, <1>2, <1>3 DEF AcksFirst
<1>4. CASE k = Len(q) + 1
  <2>1. q[i] \in Elems(q) /\ q[i].sub = p.sub /\ q[i].job = p.job
    BY <1>1, <1>2, <1>4 DEF Elems
  <2> QED
    BY <1>1, <1>4, <2>1
<1> QED
  BY <1>2, <1>3, <1>4

LEMMA TailAcks ==
  ASSUME NEW q \in Seq(Packet), q # <<>>, AcksFirst(q)
  PROVE  /\ AcksFirst(Tail(q))
         /\ \A e \in Elems(q) : e.sub = Head(q).sub /\ e.job = Head(q).job /\ e.kind = "ack" => Head(q).kind = "ack"
<1>1. /\ Tail(q) \in Seq(Packet) /\ Len(Tail(q)) = Len(q) - 1
      /\ \A i \in 1 .. Len(Tail(q)) : Tail(q)[i] = q[i + 1]
  BY HeadTailProperties
<1>2. Len(q) \in Nat \ {0} /\ Head(q) = q[1]
  BY EmptySeq, LenProperties
<1>3. \A i \in 1 .. Len(q) - 1 : i + 1 \in 1 .. Len(q)
  BY <1>2
<1>4. \A i, k \in 1 .. Len(q) - 1 : i < k => i + 1 < k + 1
  BY <1>2
<1>5. AcksFirst(Tail(q))
  BY <1>1, <1>3, <1>4 DEF AcksFirst
<1>6. ASSUME NEW k \in 1 .. Len(q), q[k].sub = Head(q).sub, q[k].job = Head(q).job, q[k].kind = "ack"
      PROVE  Head(q).kind = "ack"
  <2>1. 1 \in 1 .. Len(q) /\ (k = 1 \/ 1 < k)
    BY <1>2
  <2> QED
    BY <1>2, <1>6, <2>1 DEF AcksFirst
<1> QED
  BY <1>5, <1>6 DEF Elems

\* What happens to the workers and the packets: they are told to end, forgotten or read, given a
\* run, or speak.
Less ==
  \A h \in Conns : /\ jobs'[h] = jobs[h] \/ jobs'[h] = Terminated(h) \/ jobs'[h] = {}
                   /\ pipe'[h] = pipe[h] \/ pipe'[h] = <<>> \/ (pipe[h] # <<>> /\ pipe'[h] = Tail(pipe[h]))

LEMMA Next_WorkerSide ==
  ASSUME BaseInv, [Next]_vars
  PROVE  \/ Less
         \/ \E h \in Conns, s \in Subs, out \in Outcomes : Offered(h, s, out, row[s].dispatch_id) /\ Submit(h, s, out)
         \/ \E h \in Conns : \E j \in jobs[h] : \E p, rest : WorkerStep(h, j, p, rest)
<1>0. OwnTypes /\ (UNCHANGED workerVars => Less)
  BY DEF BaseInv, workerVars, Less
<1>1. ASSUME NEW s \in Subs,
             JudgeSubmission(s) \/ AbortRequested(s) \/ AbortWritten(s) \/ BootMark(s)
      PROVE  Less
  BY <1>0, <1>1 DEF JudgeSubmission, AbortRequested, AbortWritten, BootMark
<1>2. ASSUME NEW s \in Subs, OnTermination(s) PROVE Less
  BY <1>0, <1>2 DEF OnTermination, OwnTypes, Less
<1>3. ASSUME NEW m \in handoffs, SendSubmission(m) \/ SendFails(m) \/ SendAnswered(m) \/ OnSubmission(m)
      PROVE  Less
  BY <1>0, <1>3 DEF SendSubmission, SendFails, SendAnswered, OnSubmission
<1>4. ASSUME Unlock \/ Apply \/ SyncRemoteData PROVE Less
  BY <1>0, <1>4 DEF Unlock, Apply, SyncRemoteData
<1>5. ASSUME OnAbortProblem PROVE Less
  <2>1. pipe' = pipe
    BY <1>5 DEF OnAbortProblem
  <2> QED
    BY <1>5, <2>1, OnAbortProblem_Facts DEF BaseInv, Less
<1>6. ASSUME Crash PROVE Less
  BY <1>6 DEF Crash, Less
<1>7. ASSUME NEW h \in Conns,
             \/ Handshake(h) \/ Connected(h) \/ Lost(h) \/ SupportedProblems(h)
             \/ OnRetryQueued(h) \/ RetryWindowEnds(h)
             \/ Release(h) \/ Defer(h) \/ DisconnectDiscard(h)
      PROVE  Less
  BY <1>0, <1>7 DEF Handshake, Connected, Lost, SupportedProblems, OnRetryQueued, RetryWindowEnds, Release, Defer,
     DisconnectDiscard
<1>8. ASSUME NEW h \in Conns,
             \/ HandlePacket(h) \/ AbortWorker(h)
             \/ DisconnectRetry(h) \/ DisconnectRemove(h) \/ DisconnectFail(h)
      PROVE  Less
  <2>1. CASE jobs' = jobs /\ pipe' = [pipe EXCEPT ![h] = Tail(pipe[h])] /\ pipe[h] # <<>>
    BY <1>0, <2>1 DEF OwnTypes, Less
  <2>2. CASE jobs' = jobs /\ pipe' = [pipe EXCEPT ![h] = <<>>]
    BY <1>0, <2>2 DEF OwnTypes, Less
  <2>3. CASE pipe' = pipe /\ (jobs' = [jobs EXCEPT ![h] = Terminated(h)] \/ jobs' = [jobs EXCEPT ![h] = {}])
    BY <1>0, <2>3 DEF OwnTypes, Less
  <2> QED
    BY <1>8, <2>1, <2>2, <2>3 DEF HandlePacket, AbortWorker, DisconnectRetry, DisconnectRemove, DisconnectFail
<1>9. ASSUME NEW h \in Conns, NEW j \in jobs[h],
             WorkerAcks(h, j) \/ WorkerPrepares(h, j) \/ WorkerBegins(h, j) \/ WorkerEnds(h, j)
      PROVE  \E p, rest : WorkerStep(h, j, p, rest)
  BY <1>0, <1>9, Worker_Facts
<1>10. CASE Schedule
  BY <1>0, <1>10, Schedule_Facts DEF OwnVars
<1>11. CASE UNCHANGED vars
  BY <1>0, <1>11 DEF vars
<1> QED
  BY <1>1, <1>2, <1>3, <1>4, <1>5, <1>6, <1>7, <1>8, <1>9, <1>10, <1>11 DEF Next

\* Whoever is given a run is the first.
LEMMA Offer_Fresh ==
  ASSUME BaseInv, NEW h \in Conns, NEW s \in Subs, GivenOnce(s),
         Offered(h, s, "ok", row[s].dispatch_id), Submit(h, s, "ok")
  PROVE  ~Given(s, row[s].dispatch_id) /\ row[s].dispatch_id \in Tokens
<1> DEFINE T == row[s].dispatch_id
<1>1. T \in Tokens /\ ~Refused(s)
  BY Offer_Facts DEF Outcomes
<1>2. Waits(s) /\ dispatch_ids[s] = T
  BY <1>1 DEF Offered, Refused, GivenOnce
<1>3. ASSUME Given(s, T) PROVE FALSE
  <2>1. T < dispatch_ids[s] /\ T \in Nat
    BY <1>1, <1>2, <1>3, TokensAssumption DEF GivenOnce
  <2> QED
    BY <1>2, <2>1
<1> QED
  BY <1>1, <1>3

\* Grading begins with a packet of the worker that acknowledged the run.
LEMMA GradingBegun ==
  ASSUME BaseInv, RunsTold, NoUpdate => SoleRuns, PacketOrder, NEW s \in Subs, GivenOnce(s), RowStep(s), row'[s].status = "G"
  PROVE  row'[s].dispatch_id = row[s].dispatch_id /\ NoAck(s, row[s].dispatch_id)
<1>1. row[s] \in Row /\ \A st : [row[s] EXCEPT !.status = st].status = st /\ [row[s] EXCEPT !.status = st].dispatch_id = row[s].dispatch_id
  BY DEF BaseInv, OwnTypes, Row
<1>2. CASE Same(s)
  BY <1>2 DEF Same, PacketOrder, GradingAcked
<1>3. ~Renewed(s) /\ ~Failed(s)
  <2>1. ASSUME Renewed(s) PROVE FALSE
    <3>1. PICK tok \in Fresh(s) : row'[s] = [status |-> "QU", dispatch_id |-> tok]
      BY <2>1 DEF Renewed
    <3> QED
      BY <3>1
  <2> QED
    BY <1>1, <2>1 DEF Failed, Marked
<1>4. ~Ended(s)
  <2> SUFFICES ASSUME NEW h \in Conns, Said(h, s, "end"), row'[s] = [row[s] EXCEPT !.status = Head(pipe[h]).status] PROVE FALSE
    BY DEF Ended
  <2>1. Head(pipe[h]) \in Packet
    BY TailElems DEF Said, BaseInv, OwnTypes
  <2> QED
    BY <1>1, <2>1 DEF Packet, FINAL
<1>5. ASSUME NEW h \in Conns, Said(h, s, "begin"), Marked(s, "G")
      PROVE  row'[s].dispatch_id = row[s].dispatch_id /\ NoAck(s, row[s].dispatch_id)
  <2> DEFINE p == Head(pipe[h])
             t == row[s].dispatch_id
  <2>1. p.job = t /\ p.sub = s /\ p.kind = "begin" /\ pipe[h] # <<>> /\ t \in Tokens
    BY <1>1, <1>5, SaidRun DEF Said, Row
  <2>2. p \in Elems(pipe[h]) /\ pipe[h] \in Seq(Packet)
    BY <2>1, TailElems DEF BaseInv, OwnTypes
  <2>3. \A e \in Elems(pipe[h]) : e.sub = s /\ e.job = t => e.kind # "ack"
    BY <2>1, <2>2, TailAcks DEF PacketOrder
  <2> HIDE DEF p, t
  <2>4. \A j \in jobs[h] : j.sub = s /\ j.tok = t => j.stage # "sent"
    BY <2>1, <2>2 DEF PacketOrder
  <2>5. Started(h, s, t)
    BY <2>1, <2>2 DEF Started, Trace
  <2>6. \A g \in Conns \ {h} : ~Trace(g, s, t)
    BY <2>1, <2>5 DEF GivenOnce, Started
  <2>7. NoAck(s, t)
    BY <2>3, <2>4, <2>6 DEF NoAck, Trace
  <2> QED
    BY <1>1, <1>5, <2>7 DEF Marked, t
<1>6. CASE Advanced(s)
  <2>1. PICK h \in Conns : (Said(h, s, "ack") /\ Marked(s, "P")) \/ (Said(h, s, "begin") /\ Marked(s, "G"))
    BY <1>6 DEF Advanced
  <2>2. ~Marked(s, "P")
    BY <1>1 DEF Marked
  <2> QED
    BY <1>5, <2>1, <2>2
<1> QED
  BY <1>2, <1>3, <1>4, <1>6 DEF RowStep

LEMMA Less_PacketOrder ==
  ASSUME BaseInv, RunsTold, NoUpdate => SoleRuns, PacketOrder, AllGivenOnce, \A s \in Subs : RowStep(s), Less
  PROVE  PacketOrder'
<1>1. ASSUME NEW h \in Conns
      PROVE  /\ \A j, k \in jobs'[h] : j.sub = k.sub /\ j.tok = k.tok => j = k
             /\ \A j \in jobs'[h] : \E k \in jobs[h] : j.sub = k.sub /\ j.tok = k.tok /\ j.stage = k.stage
  <2>1. CASE jobs'[h] = jobs[h] \/ jobs'[h] = {}
    BY <2>1 DEF PacketOrder
  <2>2. CASE jobs'[h] = Terminated(h)
    <3> DEFINE T(j) == [j EXCEPT !.kill = @ \/ (j.sub = working[h] /\ j.tok = run_id[h])]
    <3>1. \A j \in jobs[h] : T(j).sub = j.sub /\ T(j).tok = j.tok
      BY DEF BaseInv, OwnTypes, Job
    <3>2. Terminated(h) = {T(j) : j \in jobs[h]}
      BY DEF Terminated
    <3> HIDE DEF T
    <3>3. \A j, k \in Terminated(h) : j.sub = k.sub /\ j.tok = k.tok => j = k
      BY <3>1, <3>2 DEF PacketOrder
    <3> QED
      BY <2>2, <3>3, Terminated_Facts DEF BaseInv
  <2> QED
    BY <2>1, <2>2 DEF Less
<1>2. ASSUME NEW h \in Conns PROVE AcksFirst(pipe'[h]) /\ Elems(pipe'[h]) \subseteq Elems(pipe[h])
  <2>1. pipe[h] \in Seq(Packet) /\ AcksFirst(pipe[h])
    BY DEF PacketOrder, BaseInv, OwnTypes
  <2>2. CASE pipe'[h] = pipe[h]
    BY <2>1, <2>2
  <2>3. CASE pipe'[h] = <<>>
    BY <2>3, EmptyAcks, NoElems
  <2>4. CASE pipe[h] # <<>> /\ pipe'[h] = Tail(pipe[h])
    BY <2>1, <2>4, TailAcks, TailElems
  <2> QED
    BY <2>2, <2>3, <2>4 DEF Less
<1>3. \A s \in Subs : \A t : NoAck(s, t) => NoAck(s, t)'
  BY <1>1, <1>2 DEF NoAck
<1>4. \A s \in Subs : GradingAcked(s)'
  <2> SUFFICES ASSUME NEW s \in Subs, row'[s].status = "G"
               PROVE  \A t : t = row'[s].dispatch_id => NoAck(s, t)'
    BY DEF GradingAcked, NoAck
  <2>1. row'[s].dispatch_id = row[s].dispatch_id /\ NoAck(s, row[s].dispatch_id)
    BY GradingBegun DEF AllGivenOnce
  <2> QED
    BY <1>3, <2>1
<1>5. \A h \in Conns : \A j \in jobs'[h] : j.stage = "sent" => \A p \in Elems(pipe'[h]) : ~(p.sub = j.sub /\ p.job = j.tok)
  BY <1>1, <1>2 DEF PacketOrder
<1> QED
  BY <1>1, <1>2, <1>4, <1>5 DEF PacketOrder

LEMMA Offer_PacketOrder ==
  ASSUME BaseInv, PacketOrder, AllGivenOnce, NEW h \in Conns, NEW x \in Subs, NEW out \in Outcomes,
         Offered(h, x, out, row[x].dispatch_id), Submit(h, x, out)
  PROVE  PacketOrder'
<1>1. /\ jobs' = IF out # "ok" THEN jobs ELSE [jobs EXCEPT ![h] = @ \cup {Sending(x)}]
      /\ pipe' = pipe /\ \A s \in Subs : row'[s].status = "G" => row'[s] = row[s]
  <2>1. row' = row \/ row' = [row EXCEPT ![x].status = "IE"]
    BY DEF Submit, Answer
  <2>2. \A s \in Subs : row'[s].status = "G" => row'[s] = row[s]
    <3>1. CASE row' = row
      BY <3>1
    <3>2. CASE row' = [row EXCEPT ![x].status = "IE"]
      <4>1. row[x] \in Row /\ \A s \in Subs : row'[s] = IF s = x THEN [row[x] EXCEPT !.status = "IE"] ELSE row[s]
        BY <3>2, SetStatus DEF BaseInv, OwnTypes
      <4>2. [row[x] EXCEPT !.status = "IE"].status = "IE"
        BY <4>1 DEF Row
      <4> QED
        BY <4>1, <4>2
    <3> QED
      BY <2>1, <3>1, <3>2
  <2> QED
    BY <2>2 DEF Submit, Sent, Sending
<1>2. CASE out # "ok"
  BY <1>1, <1>2 DEF PacketOrder, GradingAcked, NoAck
<1>3. CASE out = "ok"
  <2> DEFINE n == Sending(x)
             T == row[x].dispatch_id
  <2>1. ~Given(x, T) /\ T \in Tokens
    BY <1>3, Offer_Fresh DEF AllGivenOnce
  <2>2. n.sub = x /\ n.tok = T
    BY DEF Sending
  <2> HIDE DEF n, T
  <2>3. \A g \in Conns : ~Trace(g, x, T)
    BY <2>1 DEF Given, Started
  <2>4. \A g \in Conns : \A j \in jobs'[g] : j \in jobs[g] \/ (g = h /\ j = n)
    BY <1>1, <1>3 DEF BaseInv, OwnTypes, n
  <2>5. \A g \in Conns : \A j, k \in jobs'[g] : j.sub = k.sub /\ j.tok = k.tok => j = k
    BY <2>2, <2>3, <2>4 DEF PacketOrder, Trace
  <2>6. \A g \in Conns : \A j \in jobs'[g] : j.stage = "sent" => \A p \in Elems(pipe'[g]) : ~(p.sub = j.sub /\ p.job = j.tok)
    BY <1>1, <2>2, <2>3, <2>4 DEF PacketOrder, Trace
  <2>7. ASSUME NEW s \in Subs, row'[s].status = "G" PROVE NoAck(s, row[s].dispatch_id)'
    <3>1. row'[s] = row[s] /\ NoAck(s, row[s].dispatch_id)
      BY <1>1, <2>7 DEF PacketOrder, GradingAcked
    <3>2. ~(s = x /\ row[s].dispatch_id = T)
      <4> SUFFICES ASSUME s = x PROVE FALSE
        BY DEF T
      <4>1. row[x] \in Row /\ row[x].status = "G" /\ row[x].dispatch_id = T
        BY <2>7, <3>1 DEF BaseInv, OwnTypes, T
      <4>2. row[x] = [status |-> "G", dispatch_id |-> T]
        BY <4>1 DEF Row
      <4> QED
        BY <2>1, <4>2 DEF Given
    <3>3. \A g \in Conns : \A j \in jobs'[g] : j.sub = s /\ j.tok = row[s].dispatch_id => j.stage # "sent"
      BY <2>2, <2>4, <3>1, <3>2 DEF NoAck
    <3> QED
      BY <1>1, <3>1, <3>3 DEF NoAck
  <2>8. \A s \in Subs : GradingAcked(s)'
    BY <1>1, <2>7 DEF GradingAcked, NoAck
  <2>9. \A g \in Conns : AcksFirst(pipe'[g])
    BY <1>1 DEF PacketOrder
  <2> QED
    BY <2>5, <2>6, <2>8, <2>9 DEF PacketOrder
<1> QED
  BY <1>2, <1>3

LEMMA Worker_PacketOrder ==
  ASSUME BaseInv, PacketOrder, NEW h \in Conns, NEW j \in jobs[h], NEW p, NEW rest, WorkerStep(h, j, p, rest)
  PROVE  PacketOrder'
<1>1. /\ p.sub = j.sub /\ p.job = j.tok /\ (p.kind = "ack" => j.stage = "sent")
      /\ \A k \in rest : k.sub = j.sub /\ k.tok = j.tok /\ k.stage # "sent"
      /\ \A k, l \in rest : k = l
      /\ jobs' = [jobs EXCEPT ![h] = (jobs[h] \ {j}) \cup rest]
      /\ pipe' = [pipe EXCEPT ![h] = Append(pipe[h], p)] /\ p \in Packet /\ pipe[h] \in Seq(Packet)
      /\ row' = row
  BY DEF WorkerStep, BaseInv, OwnTypes, dbVars
<1>2. Elems(Append(pipe[h], p)) = Elems(pipe[h]) \cup {p}
  BY <1>1, AppendElems
<1>3. \A g \in Conns : \A e \in Elems(pipe'[g]) : e \in Elems(pipe[g]) \/ (g = h /\ e = p)
  BY <1>1, <1>2 DEF BaseInv, OwnTypes
<1>4. \A g \in Conns : \A k \in jobs'[g] : (k \in jobs[g] /\ (g = h => k # j)) \/ (g = h /\ k \in rest)
  BY <1>1 DEF BaseInv, OwnTypes
<1>5. \A g \in Conns : \A k, l \in jobs'[g] : k.sub = l.sub /\ k.tok = l.tok => k = l
  <2>1. \A g \in Conns : \A k, l \in jobs[g] : k.sub = l.sub /\ k.tok = l.tok => k = l
    BY DEF PacketOrder
  <2> SUFFICES ASSUME NEW g \in Conns, NEW k \in jobs'[g], NEW l \in jobs'[g], k.sub = l.sub, k.tok = l.tok
               PROVE  k = l
    OBVIOUS
  <2>2. CASE k \in jobs[g] /\ l \in jobs[g]
    BY <2>1, <2>2
  <2>3. CASE g = h /\ k \in rest /\ l \in rest
    BY <1>1, <2>3
  <2>4. \A m \in jobs[h], n \in rest : m.sub = n.sub /\ m.tok = n.tok => m = j
    BY <1>1, <2>1
  <2> QED
    BY <1>4, <2>2, <2>3, <2>4
<1>6. \A g \in Conns : \A k \in jobs'[g] : k.stage = "sent" => \A e \in Elems(pipe'[g]) : ~(e.sub = k.sub /\ e.job = k.tok)
  <2>1. /\ \A g \in Conns : \A k, l \in jobs[g] : k.sub = l.sub /\ k.tok = l.tok => k = l
        /\ \A g \in Conns : \A k \in jobs[g] : k.stage = "sent" => \A e \in Elems(pipe[g]) : ~(e.sub = k.sub /\ e.job = k.tok)
    BY DEF PacketOrder
  <2> SUFFICES ASSUME NEW g \in Conns, NEW k \in jobs'[g], k.stage = "sent", NEW e \in Elems(pipe'[g]),
                      e.sub = k.sub, e.job = k.tok
               PROVE  FALSE
    OBVIOUS
  <2>2. k \in jobs[g] /\ (g = h => k # j)
    BY <1>1, <1>4
  <2>3. CASE e \in Elems(pipe[g])
    BY <2>1, <2>2, <2>3
  <2>4. CASE g = h /\ e = p
    BY <1>1, <2>1, <2>2, <2>4
  <2> QED
    BY <1>3, <2>3, <2>4
<1>7. \A g \in Conns : AcksFirst(pipe'[g])
  <2>1. p.kind = "ack" => \A e \in Elems(pipe[h]) : ~(e.sub = p.sub /\ e.job = p.job)
    BY <1>1 DEF PacketOrder
  <2>2. AcksFirst(Append(pipe[h], p))
    BY <1>1, <2>1, AppendAcks DEF PacketOrder
  <2> QED
    BY <1>1, <2>2 DEF PacketOrder, BaseInv, OwnTypes
<1>8. ASSUME NEW s \in Subs, row[s].status = "G" PROVE NoAck(s, row[s].dispatch_id)'
  <2>1. NoAck(s, row[s].dispatch_id)
    BY <1>8 DEF PacketOrder, GradingAcked
  <2> QED
    BY <1>1, <1>3, <1>4, <2>1 DEF NoAck
<1> QED
  BY <1>1, <1>5, <1>6, <1>7, <1>8 DEF PacketOrder, GradingAcked, NoAck

LEMMA Next_PacketOrder ==
  ASSUME BaseInv, RunsTold, NoUpdate => SoleRuns, PacketOrder, AllGivenOnce, [Next]_vars
  PROVE  PacketOrder'
  BY Next_WorkerSide, Next_RowStep, Less_PacketOrder, Offer_PacketOrder, Worker_PacketOrder

-----------------------------------------------------------------------------
(* A starting bridge marks rows that nobody else can end in the meantime. *)
BootInv ==
  /\ "crash" \notin Env => booting = {}
  /\ booting # {} => \A h \in Conns : pipe[h] = <<>>
  /\ \A s \in booting : InProgress(s) \/ row[s].status = "IE"
\* The website leaves finished runs alone, and those of a bridge that is starting.
NoOverwrite == "abort" \notin Env /\ ("crash" \notin Env \/ "unlock" \notin Env)

LEMMA Next_Booting ==
  ASSUME BaseInv, [Next]_vars
  PROVE  booting' \subseteq booting \/ Crash
<1>1. ASSUME NEW h \in Conns, NEW j \in jobs[h],
             WorkerAcks(h, j) \/ WorkerPrepares(h, j) \/ WorkerBegins(h, j) \/ WorkerEnds(h, j)
      PROVE  booting' = booting
  BY <1>1, Worker_Facts DEF BaseInv, WorkerStep
<1>2. ASSUME Schedule PROVE booting' = booting
  BY <1>2, Schedule_Facts DEF OwnVars, Submit, Sent
<1>3. ASSUME \E s \in Subs : JudgeSubmission(s) \/ AbortRequested(s) \/ AbortWritten(s) \/ OnTermination(s) \/ BootMark(s)
      PROVE  booting' \subseteq booting
  BY <1>3 DEF JudgeSubmission, AbortRequested, AbortWritten, OnTermination, BootMark
<1>4. ASSUME \E m \in handoffs : SendSubmission(m) \/ SendFails(m) \/ SendAnswered(m) \/ OnSubmission(m)
      PROVE  booting' = booting
  BY <1>4 DEF SendSubmission, SendFails, SendAnswered, OnSubmission
<1>5. ASSUME Unlock \/ Apply \/ OnAbortProblem \/ SyncRemoteData PROVE booting' = booting
  BY <1>5 DEF Unlock, Apply, OnAbortProblem, SyncRemoteData
<1>6. ASSUME NEW h \in Conns,
             \/ Handshake(h) \/ Connected(h) \/ Lost(h) \/ SupportedProblems(h)
             \/ OnRetryQueued(h) \/ RetryWindowEnds(h)
             \/ HandlePacket(h) \/ Release(h) \/ AbortWorker(h) \/ Defer(h)
             \/ DisconnectRetry(h) \/ DisconnectDiscard(h) \/ DisconnectRemove(h) \/ DisconnectFail(h)
      PROVE  booting' = booting
  BY <1>6 DEF Handshake, Connected, Lost, SupportedProblems, OnRetryQueued, RetryWindowEnds, HandlePacket,
     Release, AbortWorker, Defer, DisconnectRetry, DisconnectDiscard, DisconnectRemove, DisconnectFail
<1> QED
  BY <1>1, <1>2, <1>3, <1>4, <1>5, <1>6 DEF Next, vars

LEMMA Next_BootInv ==
  ASSUME BaseInv, NobodyServed, AbortsIdle, NoOverwrite, BootInv, [Next]_vars
  PROVE  BootInv'
<1>1. CASE Crash
  BY <1>1 DEF Crash, BootInv, InProgress, dbVars
<1>2. CASE booting' \subseteq booting
  <2>1. "crash" \notin Env => booting' = {}
    BY <1>2 DEF BootInv
  <2>2. ASSUME booting' # {}, NEW h \in Conns PROVE pipe'[h] = <<>>
    <3>1. booting # {} /\ \A g \in Conns : pipe[g] = <<>> /\ conn[g] = "off"
      BY <1>2, <2>2 DEF BootInv, NobodyServed
    <3>2. ASSUME NEW g \in Conns, NEW j \in jobs[g], NEW p, NEW rest, WorkerStep(g, j, p, rest) PROVE FALSE
      BY <3>1, <3>2 DEF WorkerStep
    <3> QED
      BY <3>1, <3>2, Next_WorkerSide DEF Less, Submit, Sent
  <2>3. ASSUME NEW s \in booting' PROVE InProgress(s)' \/ row'[s].status = "IE"
    <3>1. s \in booting /\ s \in Subs /\ (InProgress(s) \/ row[s].status = "IE") /\ "crash" \in Env
      BY <1>2, <2>3 DEF BootInv, BaseInv, OwnTypes
    <3>2. row[s] \in Row /\ \A st : [row[s] EXCEPT !.status = st].status = st
      BY <3>1 DEF BaseInv, OwnTypes, Row
    <3>3. ~\E h \in Conns, kind \in Kinds : Said(h, s, kind)
      BY <3>1 DEF Said, BootInv
    <3>4. ~Advanced(s) /\ ~Ended(s)
      BY <3>3 DEF Advanced, Ended, Kinds
    <3>5. CASE Same(s)
      BY <3>1, <3>5 DEF Same, InProgress
    <3>6. CASE Renewed(s)
      BY <3>6 DEF Renewed, InProgress, IN_PROGRESS
    <3>7. CASE Failed(s)
      <4>1. Marked(s, "IE")
        BY <3>1, <3>7 DEF Failed, NoOverwrite, AbortsIdle
      <4> QED
        BY <3>2, <4>1 DEF Marked
    <3> QED
      BY <3>1, <3>4, <3>5, <3>6, <3>7, Next_RowStep DEF RowStep
  <2> QED
    BY <2>1, <2>2, <2>3 DEF BootInv
<1> QED
  BY <1>1, <1>2, Next_Booting

-----------------------------------------------------------------------------
(* The abstract specification of a submission. *)

LEMMA Init_RunInv == Init => VerdictInv /\ OrderInv /\ PacketOrder /\ BootInv
<1> SUFFICES ASSUME Init PROVE VerdictInv /\ OrderInv /\ PacketOrder /\ BootInv
  OBVIOUS
<1>1. VerdictInv
  BY Init_VerdictInv
<1>2. OrderInv
  BY Init_BaseInv, Init_GivenOnce, JLInit_JLMap DEF Init, OrderInv
<1>3. PacketOrder
  BY EmptyAcks, NoElems DEF Init, PacketOrder, GradingAcked
<1>4. BootInv
  BY DEF Init, BootInv
<1> QED
  BY <1>1, <1>2, <1>3, <1>4

\* The write to a row, seen as a step of SubmissionRun.
LEMMA RunSteps ==
  ASSUME BaseInv, NoUpdate, SoleRuns, AbortsIdle, NoOverwrite, PacketOrder, BootInv, NEW s \in Subs, RowStep(s)
  PROVE  [Run(s)!Next]_(Run(s)!vars)
<1> DEFINE st == row[s].status
           run == row[s].dispatch_id
<1>1. /\ row[s] \in Row /\ st \in IN_PROGRESS \cup FINAL
      /\ \A x : [row[s] EXCEPT !.status = x].status = x /\ [row[s] EXCEPT !.status = x].dispatch_id = run
  BY DEF BaseInv, OwnTypes, Row
<1>2. CASE Same(s)
  BY <1>2 DEF Same, Run!vars
<1>3. CASE Renewed(s)
  <2>1. PICK tok \in Fresh(s) :
          /\ row'[s] = [status |-> "QU", dispatch_id |-> tok]
          /\ issued'[s] = issued[s] \cup {tok} /\ by'[s] = by[s]
          /\ \/ run = None \/ st \in FINAL
             \/ \E h \in Conns : working[h] = s /\ Retryable(h)
    BY <1>3 DEF Renewed
  <2>2. tok \in Tokens /\ tok \notin issued[s]
    BY NextToken DEF BaseInv
  <2>3. Run(s)!NewRun
    BY <2>1, <2>2 DEF Run!NewRun
  <2>4. CASE run = None \/ st \in FINAL
    BY <2>3, <2>4 DEF Run!Next, Run!Request, Run!Final, Run!Judged, FINAL
  <2>5. ASSUME NEW h \in Conns, working[h] = s, Retryable(h) PROVE Run(s)!Next
    <3>1. run_id[h] \in issued[s] /\ issued[s] \subseteq Tokens
      BY <2>5, NoneFacts DEF BaseInv, OwnTypes, TokensIssued, HandlerTokens
    <3>2. run # None /\ st \in {"QU", "P"}
      BY <2>5, <3>1, NoneFacts DEF Retryable
    <3> QED
      BY <2>3, <3>2 DEF Run!Next, Run!Retry
  <2> QED
    BY <2>1, <2>4, <2>5
<1>4. ASSUME NEW f \in {"AB", "IE"}, Marked(s, f), InProgress(s) PROVE Run(s)!Next
  BY <1>1, <1>4 DEF Marked, InProgress, IN_PROGRESS, Run!Next, Run!Finish, Run!InProgress, Run!Final, Run!Judged
<1>5. CASE Failed(s)
  <2>1. CASE Marked(s, "AB")
    <3>1. InProgress(s)
      <4>1. ~Marked(s, "IE")
        <5>1. row'[s].status = "AB"
          BY <1>1, <2>1 DEF Marked
        <5>2. Marked(s, "IE") => row'[s].status = "IE"
          BY <1>1 DEF Marked
        <5> QED
          BY <5>1, <5>2
      <4> QED
        BY <1>5, <4>1 DEF Failed, NoOverwrite, AbortsIdle
    <3> QED
      BY <1>4, <2>1, <3>1
  <2>2. CASE Marked(s, "IE") /\ InProgress(s)
    BY <1>4, <2>2
  <2>3. CASE Marked(s, "IE") /\ ~InProgress(s)
    <3>1. s \in booting
      <4>1. ~Marked(s, "AB")
        <5>1. row'[s].status = "IE"
          BY <1>1, <2>3 DEF Marked
        <5>2. Marked(s, "AB") => row'[s].status = "AB"
          BY <1>1 DEF Marked
        <5> QED
          BY <5>1, <5>2
      <4> QED
        BY <1>5, <2>3, <4>1 DEF Failed, Current
    <3>2. st = "IE"
      BY <2>3, <3>1 DEF BootInv
    <3> QED
      BY <1>1, <2>3, <3>2 DEF Marked, Run!vars
  <2> QED
    BY <1>5, <2>1, <2>2, <2>3 DEF Failed
<1>6. Run(s)!Steps[1] = "QU" /\ Run(s)!Steps[2] = "P" /\ Run(s)!Steps[3] = "G"
  BY DEF Run!Steps
<1>7. Run(s)!Step("QU") = 1 /\ Run(s)!Step("P") = 2 /\ Run(s)!Step("G") = 3
  <2> DEFINE S == Run(s)!Steps
  <2>1. \A i \in 1 .. 3 : i = 1 \/ i = 2 \/ i = 3
    OBVIOUS
  <2>2. \A i \in 1 .. 3 : (S[i] = "QU" <=> i = 1) /\ (S[i] = "P" <=> i = 2) /\ (S[i] = "G" <=> i = 3)
    BY <1>6, <2>1
  <2>3. 1 \in 1 .. 3 /\ 2 \in 1 .. 3 /\ 3 \in 1 .. 3
    OBVIOUS
  <2> HIDE DEF S
  <2>4. (CHOOSE i \in 1 .. 3 : S[i] = "QU") = 1
    BY <2>2, <2>3
  <2>5. (CHOOSE i \in 1 .. 3 : S[i] = "P") = 2
    BY <2>2, <2>3
  <2>6. (CHOOSE i \in 1 .. 3 : S[i] = "G") = 3
    BY <2>2, <2>3
  <2> QED
    BY <2>4, <2>5, <2>6 DEF S, Run!Step
<1>8. CASE Advanced(s)
  <2>1. PICK h \in Conns : \/ Said(h, s, "ack") /\ Marked(s, "P")
                           \/ Said(h, s, "begin") /\ Marked(s, "G")
    BY <1>8 DEF Advanced
  <2>2. run # None /\ InProgress(s) /\ Head(pipe[h]).job = run
    BY <2>1, SaidRun DEF RunsTold, NoUpdate
  <2>3. CASE Said(h, s, "ack") /\ Marked(s, "P")
    <3>1. st # "G"
      <4>1. Head(pipe[h]) \in Elems(pipe[h])
        BY <2>3, TailElems DEF Said, BaseInv, OwnTypes
      <4> QED
        BY <2>2, <2>3, <4>1 DEF PacketOrder, GradingAcked, NoAck, Said
    <3>2. CASE st = "P"
      BY <1>1, <2>3, <3>2 DEF Marked, Run!vars
    <3>3. CASE st = "QU"
      <4>1. 2 \in Run(s)!Step(st) + 1 .. 3 /\ row'[s].status = Run(s)!Steps[2]
        BY <1>1, <1>6, <1>7, <2>3, <3>3 DEF Marked
      <4> QED
        BY <1>1, <2>2, <2>3, <3>3, <4>1 DEF Marked, Run!Next, Run!Advance, Run!InProgress
    <3> QED
      BY <2>2, <3>1, <3>2, <3>3 DEF InProgress, IN_PROGRESS
  <2>4. CASE Marked(s, "G")
    <3>1. CASE st = "G"
      BY <1>1, <2>4, <3>1 DEF Marked, Run!vars
    <3>2. CASE st \in {"QU", "P"}
      <4>1. 3 \in Run(s)!Step(st) + 1 .. 3 /\ row'[s].status = Run(s)!Steps[3]
        BY <1>1, <1>6, <1>7, <2>4, <3>2 DEF Marked
      <4> QED
        BY <1>1, <2>2, <2>4, <3>2, <4>1 DEF Marked, Run!Next, Run!Advance, Run!InProgress
    <3> QED
      BY <2>2, <3>1, <3>2 DEF InProgress, IN_PROGRESS
  <2> QED
    BY <2>1, <2>3, <2>4
<1>9. CASE Ended(s)
  <2>1. PICK h \in Conns : /\ Said(h, s, "end")
                           /\ row'[s] = [row[s] EXCEPT !.status = Head(pipe[h]).status]
                           /\ issued'[s] = issued[s] /\ by'[s] = Head(pipe[h]).job
    BY <1>9 DEF Ended
  <2>2. run # None /\ InProgress(s) /\ Head(pipe[h]).job = run
    BY <2>1, SaidRun DEF RunsTold, NoUpdate
  <2>3. Head(pipe[h]).status \in FINAL
    <3>1. Head(pipe[h]) \in Packet
      BY <2>1, TailElems DEF Said, BaseInv, OwnTypes
    <3> QED
      BY <3>1 DEF Packet
  <2> QED
    BY <1>1, <2>1, <2>2, <2>3 DEF InProgress, IN_PROGRESS, FINAL, Run!Next, Run!Finish, Run!InProgress, Run!Final, Run!Judged
<1> QED
  BY <1>2, <1>3, <1>5, <1>8, <1>9 DEF RowStep

\* The rows are written by runs only: requested, advanced, finished once, or requeued before they
\* were judged; a verdict names the run it is of.  That excludes abort_submission(), which writes AB
\* over whatever became of the run, and an unlock while a bridge marks the rows it found in progress.
THEOREM RunsAreImplemented ==
  ASSUME Orderly, NoOverwrite
  PROVE  Spec => RunsImplemented
<1> DEFINE RunInv == VerdictInv /\ OrderInv /\ PacketOrder /\ BootInv
           Steps == \A s \in Subs : [Run(s)!Next]_(Run(s)!vars)
<1>0. NoUpdate /\ RunsTold
  BY DEF Orderly, NoUpdate, RunsTold
<1>1. ASSUME RunInv, [Next]_vars PROVE RunInv'
  <2>1. BaseInv /\ WebInv /\ AllGivenOnce /\ (NoUpdate => JLMap /\ SoleRuns) /\ PacketOrder /\ BootInv
    BY <1>1 DEF VerdictInv, OrderInv
  <2>2. VerdictInv'
    BY <1>0, <1>1, Next_VerdictInv
  <2>3. OrderInv'
    BY <1>0, <1>1, <2>1, Next_BaseInv, Next_WebInv, Next_JLMap, Next_GivenOnce DEF OrderInv
  <2>4. PacketOrder'
    BY <1>0, <1>1, <2>1, Next_PacketOrder
  <2>5. BootInv'
    BY <1>1, <2>1, Next_BootInv DEF WebInv
  <2> QED
    BY <2>2, <2>3, <2>4, <2>5
<1>2. ASSUME RunInv, [Next]_vars PROVE Steps
  BY <1>0, <1>2, Next_RowStep, RunSteps DEF VerdictInv, OrderInv, WebInv
<1>3. Init => RunInv
  BY Init_RunInv
<1>4. Init => \A s \in Subs : Run(s)!Init
  BY DEF Init, Run!Init
<1>5. Spec => [][Steps]_vars
  <2>1. RunInv /\ [Next]_vars => RunInv' /\ Steps
    BY <1>1, <1>2
  <2> HIDE DEF RunInv, Steps
  <2> QED
    BY <1>3, <2>1, PTL DEF Spec
<1> QED
  BY <1>4, <1>5 DEF Spec, RunsImplemented

-----------------------------------------------------------------------------
(* No run is forgotten.  Every run in progress has a driver: a request, its place in the queue, a
   judge, a callback that puts it back, a starting bridge, or an abort to be written.  A driver may
   only stop when it ends the run or hands it to the next.  The map must name the judge of a run in
   progress: on_judge_free() and defer() leave alone whom it does not name. *)
Asked(s) == \E m \in handoffs : m.req.id = s /\ m.tok = row[s].dispatch_id /\ m.at # "done"
Expected(s) == Waits(s) /\ dispatch_ids[s] = row[s].dispatch_id
Judged(h, s) ==
  working[h] = s /\ run_id[h] = row[s].dispatch_id /\ (submission_map[s] = h \/ conn[h] = "left")
Returned(h, s) ==
  /\ PutBack(h) /\ after[h].sub = s /\ after[h].tok = row[s].dispatch_id
  /\ working[h] = s /\ submission_map[s] = h
Driver(s) ==
  \/ Asked(s) \/ Expected(s)
  \/ \E h \in Conns : Judged(h, s) \/ Returned(h, s)
  \/ s \in booting \/ aborts[s] = "refused"
AllDriven == \A s \in Subs : InProgress(s) /\ row[s].dispatch_id # None => Driver(s)
\* A problem that is being edited has no run in progress.
Locked == ~is_locked => \A s \in Subs : ~InProgress(s)
\* A handler is freed of the run it works on, which is over.
ReleaseOver ==
  \A h \in Conns : after[h] # None /\ after[h].op = "release" =>
    after[h].sub = working[h] /\ ~Current(working[h], run_id[h])
DriveInv == OrderInv /\ JLMap /\ Locked /\ ReleaseOver /\ AllDriven

\* The run of s goes on.
Goes(s) == /\ InProgress(s) /\ row[s].dispatch_id # None
           /\ row'[s].dispatch_id = row[s].dispatch_id

LEMMA Ongoing ==
  ASSUME BaseInv, NEW s \in Subs, RowStep(s), ~Renewed(s), InProgress(s)'
  PROVE  InProgress(s) /\ row'[s].dispatch_id = row[s].dispatch_id
<1>1. row[s] \in Row
  BY DEF BaseInv, OwnTypes
<1>2. \A st : LET r == [row[s] EXCEPT !.status = st] IN r.status = st /\ r.dispatch_id = row[s].dispatch_id
  BY <1>1 DEF Row
<1>3. CASE Same(s)
  BY <1>3 DEF Same, InProgress
<1>4. CASE Failed(s)
  BY <1>2, <1>4 DEF Failed, Marked, InProgress, IN_PROGRESS
<1>5. CASE Advanced(s)
  <2>1. PICK st : row'[s] = [row[s] EXCEPT !.status = st] /\ InProgress(s)
    BY <1>5 DEF Advanced, Said, CurrentRun, Marked
  <2> QED
    BY <1>2, <2>1
<1>6. CASE Ended(s)
  <2>1. PICK h \in Conns : pipe[h] # <<>> /\ row'[s] = [row[s] EXCEPT !.status = Head(pipe[h]).status]
    BY <1>6 DEF Ended, Said
  <2>2. Head(pipe[h]).status \in FINAL
    <3>1. pipe[h] \in Seq(Packet)
      BY DEF BaseInv, OwnTypes
    <3>2. Head(pipe[h]) \in Packet
      BY <2>1, <3>1
    <3> QED
      BY <3>2 DEF Packet
  <2> QED
    BY <1>2, <2>1, <2>2 DEF InProgress, IN_PROGRESS, FINAL
<1> QED
  BY <1>3, <1>4, <1>5, <1>6 DEF RowStep

LEMMA NotRenewed ==
  ASSUME BaseInv, NEW s \in Subs, issued'[s] = issued[s]
  PROVE  ~Renewed(s)
  BY NextToken DEF Renewed, BaseInv

-----------------------------------------------------------------------------
(* What keeps a driver. *)
StaysAsked(s) ==
  \A m \in handoffs : m.req.id = s /\ m.tok = row[s].dispatch_id /\ m.at # "done" =>
    \E k \in handoffs' : k.req.id = s /\ k.tok = m.tok /\ k.at # "done"
StaysExpected(s) == (Waits(s) => Waits(s)') /\ dispatch_ids'[s] = dispatch_ids[s]
StaysJudged(s) ==
  \A h \in Conns : working[h] = s => /\ working'[h] = s /\ run_id'[h] = run_id[h]
                                     /\ submission_map[s] = h => submission_map'[s] = h
                                     /\ conn[h] = "left" => conn'[h] = "left"
StaysReturned(s) ==
  \A h \in Conns : PutBack(h) /\ after[h].sub = s =>
    PutBack(h)' /\ after'[h].sub = s /\ after'[h].tok = after[h].tok
StaysElse(s) == (s \in booting => s \in booting') /\ (aborts[s] = "refused" => aborts'[s] = "refused")

LEMMA Stays_Parts ==
  ASSUME NEW s \in Subs, Goes(s)
  PROVE  /\ StaysAsked(s) /\ Asked(s) => Asked(s)'
         /\ StaysExpected(s) /\ Expected(s) => Expected(s)'
         /\ StaysJudged(s) => \A h \in Conns : Judged(h, s) => Judged(h, s)'
         /\ StaysJudged(s) /\ StaysReturned(s) => \A h \in Conns : Returned(h, s) => Returned(h, s)'
<1>1. StaysAsked(s) /\ Asked(s) => Asked(s)'
  BY DEF Goes, StaysAsked, Asked
<1>2. StaysExpected(s) /\ Expected(s) => Expected(s)'
  BY DEF Goes, StaysExpected, Expected
<1>3. StaysJudged(s) => \A h \in Conns : Judged(h, s) => Judged(h, s)'
  BY DEF Goes, StaysJudged, Judged
<1>4. StaysJudged(s) /\ StaysReturned(s) => \A h \in Conns : Returned(h, s) => Returned(h, s)'
  BY DEF Goes, StaysJudged, StaysReturned, Returned
<1> QED
  BY <1>1, <1>2, <1>3, <1>4

LEMMA Stays_Driver ==
  ASSUME NEW s \in Subs, Goes(s), Driver(s),
         StaysAsked(s), StaysExpected(s), StaysJudged(s), StaysReturned(s), StaysElse(s)
  PROVE  Driver(s)'
  BY Stays_Parts DEF Driver, StaysElse

LEMMA Stays_Frames ==
  ASSUME NEW s \in Subs
  PROVE  /\ UNCHANGED handoffs => StaysAsked(s)
         /\ Quiet => StaysExpected(s) /\ StaysJudged(s)
         /\ UNCHANGED after => StaysReturned(s)
         /\ UNCHANGED <<booting, aborts>> => StaysElse(s)
<1>1. UNCHANGED handoffs => StaysAsked(s)
  BY DEF StaysAsked
<1>2. Quiet => StaysExpected(s) /\ StaysJudged(s)
  BY DEF Quiet, ConnStep, StaysExpected, StaysJudged
<1>3. UNCHANGED after => StaysReturned(s)
  BY DEF StaysReturned, PutBack
<1>4. UNCHANGED <<booting, aborts>> => StaysElse(s)
  BY DEF StaysElse
<1> QED
  BY <1>1, <1>2, <1>3, <1>4

\* The run has one driver: a run that waits was given to nobody, and nobody asks for it any more
\* once it was given to a judge.
LEMMA OneDriver ==
  ASSUME OrderInv, NoUpdate, NEW s \in Subs, row[s].dispatch_id # None
  PROVE  /\ Given(s, row[s].dispatch_id) => ~Asked(s) /\ ~Waits(s) /\ \A h \in Conns : ~Returned(h, s)
         /\ Waits(s) => \A h \in Conns : ~Judged(h, s) /\ ~Returned(h, s)
         /\ \A h \in Conns : PutBack(h) /\ after[h].sub = s =>
              /\ after[h].tok = row[s].dispatch_id /\ after[h].tok \in Tokens
              /\ ~Asked(s) /\ ~Waits(s) /\ \A k \in Conns : ~Judged(k, s)
              /\ \A k \in Conns : PutBack(k) /\ after[k].sub = s => k = h
<1> DEFINE T == row[s].dispatch_id
<1>1. T \in Tokens /\ T \in Nat /\ T \in issued[s] /\ \A u \in issued[s] : u <= T
  BY TokensAssumption DEF OrderInv, BaseInv, OwnTypes, Row, TokensIssued, RowTokens
<1>2. GivenOnce(s) /\ issued[s] \subseteq Tokens
  BY DEF OrderInv, AllGivenOnce, BaseInv, OwnTypes
<1>3. \A m \in handoffs : m.req.id = s /\ m.tok = T /\ m.at # "done" => OnItsWay(m)
  BY DEF OnItsWay, OrderInv, BaseInv, OwnTypes, Handoff
<1> HIDE DEF T
<1>4. ASSUME Given(s, T) PROVE ~Asked(s) /\ ~Waits(s)
  <2>1. ~Asked(s)
    <3> SUFFICES ASSUME NEW m \in handoffs, m.req.id = s, m.tok = T, OnItsWay(m) PROVE FALSE
      BY <1>3 DEF Asked, T
    <3>1. T < T
      BY <1>1, <1>2, <1>4 DEF GivenOnce
    <3> QED
      BY <1>1, <3>1
  <2>2. ~Waits(s)
    <3> SUFFICES ASSUME Waits(s) PROVE FALSE
      OBVIOUS
    <3>1. dispatch_ids[s] # None /\ T < dispatch_ids[s]
      BY <1>1, <1>2, <1>4 DEF GivenOnce
    <3>2. dispatch_ids[s] \in issued[s]
      BY <3>1 DEF OrderInv, BaseInv, TokensIssued, ListTokens
    <3>3. dispatch_ids[s] \in Nat /\ dispatch_ids[s] <= T
      BY <1>1, <1>2, <3>2, TokensAssumption
    <3> QED
      BY <1>1, <3>1, <3>3
  <2> QED
    BY <2>1, <2>2
<1>5. \A h \in Conns : Judged(h, s) => Given(s, T)
  BY DEF Judged, Given, Started, T
<1>6. ASSUME NEW h \in Conns, PutBack(h), after[h].sub = s
      PROVE  /\ after[h].tok = T /\ ~Asked(s) /\ ~Waits(s) /\ ~Given(s, T)
             /\ \A k \in Conns : PutBack(k) /\ after[k].sub = s => k = h
  <2>1. Kept(h, s, after[h].tok)
    BY <1>2, <1>6 DEF GivenOnce
  <2>2. after[h].tok = T
    BY <2>1 DEF Kept, T
  <2>3. ~Asked(s)
    BY <2>1, <2>2 DEF Kept, Asked, T
  <2> QED
    BY <2>1, <2>2, <2>3 DEF Kept
<1> QED
  BY <1>1, <1>4, <1>5, <1>6 DEF Returned, T

LEMMA Quiet_Driver ==
  ASSUME NEW s \in Subs, Goes(s), Driver(s), Quiet, StaysAsked(s), StaysReturned(s), StaysElse(s)
  PROVE  Driver(s)'
  BY Stays_Driver, Stays_Frames

\* A run that goes on had a driver before the step.
LEMMA Goes_Facts ==
  ASSUME DriveInv, [Next]_vars, NEW s \in Subs, InProgress(s)', row'[s].dispatch_id # None, issued'[s] = issued[s]
  PROVE  Goes(s) /\ Driver(s)
<1>1. BaseInv
  BY DEF DriveInv, OrderInv
<1>2. Goes(s)
  BY <1>1, Next_RowStep, NotRenewed, Ongoing DEF Goes
<1> QED
  BY <1>2 DEF Goes, DriveInv, AllDriven

-----------------------------------------------------------------------------
(* The website and the threads that only wait. *)
LEMMA JudgeSubmission_Driver ==
  ASSUME DriveInv, NEW s \in Subs, InProgress(s)', row'[s].dispatch_id # None, NEW x \in Subs, JudgeSubmission(x)
  PROVE  Driver(s)'
<1>1. BaseInv
  BY DEF DriveInv, OrderInv
<1>2. CASE x = s
  <2>1. PICK tok \in Fresh(s) :
          /\ row' = [row EXCEPT ![s] = [status |-> "QU", dispatch_id |-> tok]]
          /\ \E m \in handoffs' : m.req.id = s /\ m.tok = tok /\ m.at # "done"
    <3>1. PICK tok \in Fresh(s) :
            /\ row' = [row EXCEPT ![s] = [status |-> "QU", dispatch_id |-> tok]]
            /\ \E prio : handoffs' = handoffs \cup
                 {[req |-> [id |-> s, prio |-> prio, judge_id |-> None, banned |-> {}], tok |-> tok, at |-> "web"]}
      BY <1>2 DEF JudgeSubmission
    <3>2. PICK prio : handoffs' = handoffs \cup
            {[req |-> [id |-> s, prio |-> prio, judge_id |-> None, banned |-> {}], tok |-> tok, at |-> "web"]}
      BY <3>1
    <3> DEFINE m == [req |-> [id |-> s, prio |-> prio, judge_id |-> None, banned |-> {}], tok |-> tok, at |-> "web"]
    <3>3. m \in handoffs' /\ m.req.id = s /\ m.tok = tok /\ m.at # "done"
      BY <3>2
    <3> HIDE DEF m
    <3> QED
      BY <3>1, <3>3
  <2>2. row'[s].dispatch_id = tok
    BY <1>1, <2>1 DEF BaseInv, OwnTypes
  <2> QED
    BY <2>1, <2>2 DEF Driver, Asked
<1>3. CASE x # s
  <2>1. row'[s] = row[s] /\ handoffs \subseteq handoffs' /\ UNCHANGED <<jlVars, after, booting, aborts>>
    BY <1>1, <1>3 DEF JudgeSubmission, runVars, BaseInv, OwnTypes
  <2>2. Goes(s) /\ Driver(s)
    BY <2>1 DEF Goes, InProgress, DriveInv, AllDriven
  <2>3. Quiet
    BY <1>1, <2>1, Same_Facts DEF BaseInv
  <2>4. StaysAsked(s)
    BY <2>1 DEF StaysAsked
  <2> QED
    BY <2>1, <2>2, <2>3, <2>4, Quiet_Driver, Stays_Frames
<1> QED
  BY <1>2, <1>3

LEMMA Send_Driver ==
  ASSUME DriveInv, NEW s \in Subs, Goes(s), Driver(s), InProgress(s)',
         NEW m \in handoffs, SendSubmission(m) \/ SendFails(m) \/ SendAnswered(m)
  PROVE  Driver(s)'
<1>1. BaseInv /\ OwnTypes
  BY DEF DriveInv, OrderInv, BaseInv
<1>2. UNCHANGED <<jlVars, after, booting, aborts>>
  BY DEF SendSubmission, SendFails, SendAnswered, runVars
<1>3. Quiet
  BY <1>1, <1>2, Same_Facts DEF BaseInv
<1>4. \A k \in handoffs : k # m => k \in handoffs'
  BY DEF SendSubmission, SendFails, SendAnswered
<1>5. m.req.id = s /\ m.tok = row[s].dispatch_id /\ m.at # "done" =>
        \E k \in handoffs' : k.req.id = s /\ k.tok = m.tok /\ k.at # "done"
  <2> SUFFICES ASSUME m.req.id = s, m.tok = row[s].dispatch_id, m.at # "done"
               PROVE  \E k \in handoffs' : k.req.id = s /\ k.tok = m.tok /\ k.at # "done"
    OBVIOUS
  <2>1. Current(s, m.tok) /\ m \in Handoff
    BY <1>1 DEF Goes, Current, OwnTypes
  <2>2. CASE SendSubmission(m)
    <3>1. [m EXCEPT !.at = "sent"] \in handoffs'
      BY <2>1, <2>2 DEF SendSubmission
    <3>2. LET k == [m EXCEPT !.at = "sent"] IN k.req = m.req /\ k.tok = m.tok /\ k.at = "sent"
      BY <2>1 DEF Handoff
    <3> QED
      BY <3>1, <3>2
  <2>3. CASE SendFails(m)
    <3>1. row' = [row EXCEPT ![s].status = "IE"]
      BY <2>1, <2>3 DEF SendFails, FailRun
    <3>2. row'[s] = [row[s] EXCEPT !.status = "IE"] /\ row[s] \in Row
      BY <1>1, <3>1, SetStatus DEF OwnTypes
    <3>3. row'[s].status = "IE"
      BY <3>2 DEF Row
    <3> QED
      BY <3>3 DEF InProgress, IN_PROGRESS
  <2> QED
    BY <2>2, <2>3 DEF SendAnswered
<1>6. StaysAsked(s)
  BY <1>4, <1>5 DEF StaysAsked
<1> QED
  BY <1>2, <1>3, <1>6, Quiet_Driver, Stays_Frames

LEMMA Rows_Driver ==
  ASSUME DriveInv, NEW s \in Subs, Goes(s), Driver(s), InProgress(s)',
         \/ \E x \in Subs : AbortRequested(x) \/ AbortWritten(x) \/ BootMark(x)
         \/ Unlock \/ Apply
  PROVE  Driver(s)'
<1>1. BaseInv /\ OwnTypes
  BY DEF DriveInv, OrderInv, BaseInv
<1>2. UNCHANGED <<jlVars, after, handoffs>>
  BY DEF AbortRequested, AbortWritten, BootMark, Unlock, Apply, runVars, webVars
<1>3. Quiet
  BY <1>1, <1>2, Same_Facts DEF BaseInv
<1>4. \A st \in FINAL : row'[s] # [row[s] EXCEPT !.status = st]
  <2>1. \A st : [row[s] EXCEPT !.status = st].status = st
    BY <1>1 DEF OwnTypes, Row
  <2> QED
    BY <2>1 DEF InProgress, IN_PROGRESS, FINAL
<1>5. StaysElse(s)
  <2>1. ASSUME NEW x \in Subs, AbortRequested(x) PROVE StaysElse(s)
    BY <1>1, <2>1 DEF AbortRequested, StaysElse, OwnTypes
  <2>2. ASSUME NEW x \in Subs, AbortWritten(x) PROVE StaysElse(s)
    <3>1. row'[x] = [row[x] EXCEPT !.status = "AB"]
      <4>1. row' = [row EXCEPT ![x].status = "AB"]
        BY <2>2 DEF AbortWritten
      <4> QED
        BY <1>1, <4>1 DEF OwnTypes
    <3>2. x # s
      BY <1>4, <3>1 DEF FINAL
    <3> QED
      BY <1>1, <2>2, <3>2 DEF AbortWritten, StaysElse, OwnTypes
  <2>3. ASSUME NEW x \in Subs, BootMark(x) PROVE StaysElse(s)
    <3>1. row'[x] = [row[x] EXCEPT !.status = "IE"]
      <4>1. row' = [row EXCEPT ![x].status = "IE"]
        BY <2>3 DEF BootMark
      <4> QED
        BY <1>1, <4>1 DEF OwnTypes
    <3>2. x # s
      BY <1>4, <3>1 DEF FINAL
    <3> QED
      BY <2>3, <3>2 DEF BootMark, StaysElse, webVars
  <2>4. CASE Unlock \/ Apply
    BY <2>4 DEF Unlock, Apply, StaysElse, webVars
  <2> QED
    BY <2>1, <2>2, <2>3, <2>4
<1> QED
  BY <1>2, <1>3, <1>5, Quiet_Driver, Stays_Frames

LEMMA Threads_Driver ==
  ASSUME DriveInv, NEW s \in Subs, Goes(s), Driver(s),
         \/ SyncRemoteData
         \/ \E h \in Conns : \/ Handshake(h) \/ Connected(h) \/ Lost(h) \/ SupportedProblems(h)
                             \/ OnRetryQueued(h) \/ RetryWindowEnds(h)
                             \/ \E j \in jobs[h] : \E p, rest : WorkerStep(h, j, p, rest)
         \/ UNCHANGED vars
  PROVE  Driver(s)'
<1>1. BaseInv /\ JLInv
  BY DEF DriveInv, OrderInv, BaseInv
<1>2. Quiet /\ UNCHANGED <<after, handoffs, booting, aborts>>
  <2>1. CASE SyncRemoteData \/ \E h \in Conns : Handshake(h) \/ Connected(h) \/ Lost(h) \/ SupportedProblems(h)
    BY <1>1, <2>1, Quiet_Facts DEF OwnVars, webVars, runVars
  <2>2. ASSUME NEW h \in Conns, OnRetryQueued(h) \/ RetryWindowEnds(h) PROVE Quiet /\ UNCHANGED <<after, handoffs, booting, aborts>>
    <3>1. UNCHANGED booting
      BY <2>2 DEF OnRetryQueued, RetryWindowEnds
    <3> QED
      BY <1>1, <2>2, <3>1, Timers_Facts DEF webVars
  <2>3. ASSUME NEW h \in Conns, NEW j \in jobs[h], NEW p, NEW rest, WorkerStep(h, j, p, rest)
        PROVE  Quiet /\ UNCHANGED <<after, handoffs, booting, aborts>>
    BY <1>1, <2>3, Same_Facts DEF WorkerStep, webVars, runVars
  <2>4. CASE UNCHANGED vars
    BY <1>1, <2>4, Same_Facts DEF vars, webVars, runVars
  <2> QED
    BY <2>1, <2>2, <2>3, <2>4
<1> QED
  BY <1>2, Quiet_Driver, Stays_Frames

-----------------------------------------------------------------------------
(* The bridge's requests and the scheduler. *)
LEMMA OnSubmission_Driver ==
  ASSUME DriveInv, NEW s \in Subs, Goes(s), Driver(s), NEW m \in handoffs, OnSubmission(m)
  PROVE  Driver(s)'
<1> DEFINE T == row[s].dispatch_id
<1>1. BaseInv /\ GivenOnce(s) /\ MapEntries
  BY DEF DriveInv, OrderInv, AllGivenOnce, JLMap
<1>2. m \in Handoff /\ m.req \in Request /\ m.req.id \in Subs /\ m.tok \in Tokens /\ m.tok \in issued[m.req.id]
  BY <1>1 DEF BaseInv, OwnTypes, Handoff, Request, TokensIssued, HandoffTokens
<1>3. /\ Known(m.req.id, m.tok) \/ BeingJudged(m.req.id, m.tok) \/ Accepted(m.req.id, m.tok)
      /\ submission_map' = submission_map /\ working' = working /\ run_id' = run_id /\ conn' = conn
  BY <1>1, <1>2, judge_Facts DEF OnSubmission, BaseInv
<1>4. UNCHANGED <<after, booting, aborts>> /\ m.at \in {"sent", "late"} /\ \A k \in handoffs : k # m => k \in handoffs'
  BY DEF OnSubmission, runVars
<1>5. StaysJudged(s) /\ StaysReturned(s) /\ StaysElse(s)
  BY <1>3, <1>4, Stays_Frames DEF StaysJudged
<1>6. dispatch_ids \in [Subs -> Tokens \cup {None}]
  BY <1>1 DEF BaseInv, JLInv, JLTypeOK
<1>7. CASE m.req.id # s
  <2>1. StaysAsked(s)
    BY <1>4, <1>7 DEF StaysAsked
  <2>2. StaysExpected(s)
    BY <1>2, <1>3, <1>6, <1>7 DEF Known, BeingJudged, Accepted, StaysExpected
  <2> QED
    BY <1>5, <2>1, <2>2, Stays_Driver
<1>8. CASE m.req.id = s /\ m.tok = T
  <2>1. CASE BeingJudged(s, T)
    <3>1. submission_map[s] \in Conns
      BY <1>1, <2>1 DEF BeingJudged, BaseInv, JLInv, JLTypeOK
    <3>2. Judged(submission_map[s], s)
      BY <1>1, <2>1, <3>1 DEF BeingJudged, Judged, MapEntries
    <3> QED
      BY <1>5, <3>1, <3>2, Stays_Parts DEF Driver
  <2>2. CASE Known(s, T) \/ Accepted(s, T)
    <3>1. Waits(s)' /\ dispatch_ids'[s] = T
      BY <1>6, <2>2 DEF Known, Accepted
    <3> QED
      BY <3>1 DEF Driver, Expected, Goes
  <2> QED
    BY <1>3, <1>8, <2>1, <2>2
<1>9. CASE m.req.id = s /\ m.tok # T
  <2>1. StaysAsked(s)
    BY <1>4, <1>9 DEF StaysAsked
  <2>2. ~Expected(s)
    <3> SUFFICES ASSUME Expected(s) PROVE FALSE
      OBVIOUS
    <3>1. T < m.tok
      BY <1>1, <1>4, <1>9 DEF GivenOnce, OnItsWay, Expected, Goes
    <3>2. T \in issued[s] /\ m.tok \in issued[s] /\ m.tok <= T /\ issued[s] \subseteq Tokens
      BY <1>1, <1>2, <1>9 DEF BaseInv, OwnTypes, TokensIssued, RowTokens
    <3>3. T \in Nat /\ m.tok \in Nat
      BY <3>2, TokensAssumption
    <3> HIDE DEF T
    <3> QED
      BY <3>1, <3>2, <3>3
  <2> QED
    BY <1>5, <2>1, <2>2, Stays_Parts DEF Driver, StaysElse
<1> QED
  BY <1>7, <1>8, <1>9

LEMMA Terminate_Driver ==
  ASSUME DriveInv, NEW s \in Subs, Goes(s), Driver(s), OnAbortProblem \/ \E x \in Subs : OnTermination(x)
  PROVE  Driver(s)'
<1>1. BaseInv /\ JLInv
  BY DEF DriveInv, OrderInv, BaseInv
<1>2. UNCHANGED <<submission_map, working, run_id, conn, after, handoffs, booting>>
  BY <1>1, abort_Facts, OnAbortProblem_Facts DEF OnTermination, OnAbortProblem, runVars
<1>3. StaysJudged(s) /\ StaysReturned(s) /\ StaysAsked(s)
  BY <1>2, Stays_Frames DEF StaysJudged
<1>4. CASE OnAbortProblem
  <2>1. PICK ids \in SUBSET Subs : Dropped(ids) /\ \A x \in ids : row[x].status = "AB"
    BY <1>1, <1>4, OnAbortProblem_Facts
  <2>2. s \notin ids
    BY <2>1 DEF Goes, InProgress, IN_PROGRESS
  <2>3. StaysExpected(s)
    BY <2>1, <2>2 DEF Dropped, StaysExpected
  <2> QED
    BY <1>2, <1>3, <1>4, <2>3, Stays_Driver, Stays_Frames DEF OnAbortProblem
<1>5. ASSUME NEW x \in Subs, OnTermination(x) PROVE Driver(s)'
  <2>1. PICK ids \in SUBSET {x} : Dropped(ids)
    BY <1>1, <1>5, abort_Facts DEF OnTermination
  <2>2. CASE x = s /\ submission_map[s] = None
    <3>1. aborts'[s] = "refused"
      BY <1>1, <1>5, <2>2 DEF OnTermination, BaseInv, OwnTypes
    <3> QED
      BY <3>1 DEF Driver
  <2>3. CASE x # s \/ submission_map[s] # None
    <3>1. s \notin ids
      BY <2>1, <2>3 DEF Dropped
    <3>2. StaysExpected(s)
      BY <2>1, <3>1 DEF Dropped, StaysExpected
    <3>3. StaysElse(s)
      BY <1>1, <1>2, <1>5, <2>3 DEF OnTermination, StaysElse, BaseInv, OwnTypes
    <3> QED
      BY <1>3, <3>2, <3>3, Stays_Driver
  <2> QED
    BY <2>2, <2>3
<1> QED
  BY <1>4, <1>5

\* A dispatch hands the run to the judge, leaves it in the queue, or ends it: the bridge refuses
\* only runs that are over or replaced.
LEMMA Offer_Driver ==
  ASSUME DriveInv, NoUpdate, NEW s \in Subs, Goes(s), Driver(s), InProgress(s)',
         NEW h \in Conns, NEW x \in Subs, NEW out \in Outcomes, working[h] = None,
         Offered(h, x, out, row[x].dispatch_id), Submit(h, x, out)
  PROVE  Driver(s)'
<1>1. BaseInv /\ OrderInv /\ JLTypeOK /\ OwnTypes
  BY DEF DriveInv, OrderInv, BaseInv, JLInv
<1>2. UNCHANGED <<handoffs, aborts, after, booting>>
  BY DEF Submit, Sent, webVars
<1>3. StaysAsked(s) /\ StaysReturned(s) /\ StaysElse(s)
  BY <1>2, Stays_Frames
<1>4. CASE x # s
  <2>1. StaysExpected(s)
    BY <1>1, <1>4 DEF StaysExpected, Offered, JLTypeOK
  <2>2. StaysJudged(s)
    <3> SUFFICES ASSUME NEW g \in Conns, working[g] = s
                 PROVE  /\ working'[g] = s /\ run_id'[g] = run_id[g]
                        /\ submission_map[s] = g => submission_map'[s] = g
                        /\ conn[g] = "left" => conn'[g] = "left"
      BY DEF StaysJudged
    <3>1. g # h
      BY NoneFacts
    <3> QED
      BY <1>1, <1>4, <3>1 DEF Offered, JLTypeOK
  <2> QED
    BY <1>3, <2>1, <2>2, Stays_Driver
<1>5. CASE x = s
  <2>1. Waits(s) /\ \A g \in Conns : ~Judged(g, s) /\ ~Returned(g, s)
    BY <1>1, <1>5, OneDriver DEF Offered, Goes
  <2>2. CASE Expected(s)
    <3>1. out # "invalid"
      <4> SUFFICES ASSUME out = "invalid" PROVE FALSE
        OBVIOUS
      <4>1. ~Refused(s)
        BY <2>2 DEF Refused, Expected, Goes, DriveInv, Locked
      <4>2. row' = [row EXCEPT ![s].status = "IE"] /\ row[s] \in Row
        BY <1>1, <1>5, <4>1 DEF Submit, Answer, OwnTypes
      <4>3. row'[s] = [row[s] EXCEPT !.status = "IE"]
        BY <1>1, <4>2 DEF OwnTypes
      <4>4. row'[s].status = "IE"
        BY <4>2, <4>3 DEF Row
      <4> QED
        BY <4>4 DEF InProgress, IN_PROGRESS
    <3>2. CASE out = "ok"
      <4>1. working'[h] = s /\ run_id'[h] = row[s].dispatch_id /\ submission_map'[s] = h
        BY <1>1, <1>5, <3>2 DEF Offered, JLTypeOK
      <4> QED
        BY <4>1 DEF Driver, Judged, Goes
    <3>3. CASE out \in {"deferred", "unready", "failed"}
      <4>1. Waits(s)' /\ dispatch_ids' = dispatch_ids
        BY <1>5, <2>1, <3>3 DEF Offered
      <4> QED
        BY <2>2, <4>1 DEF Driver, Expected, Goes
    <3> QED
      BY <3>1, <3>2, <3>3 DEF Outcomes
  <2>3. CASE Asked(s) \/ s \in booting \/ aborts[s] = "refused"
    BY <1>3, <2>3, Stays_Parts DEF Driver, StaysElse
  <2> QED
    BY <2>1, <2>2, <2>3 DEF Driver
<1> QED
  BY <1>4, <1>5

-----------------------------------------------------------------------------
(* Packets, callbacks and connections. *)
LEMMA Requeued_Driver ==
  ASSUME DriveInv, Orderly, NEW s \in Subs, InProgress(s)', row'[s].dispatch_id # None,
         NEW h \in Conns, NEW op \in {"defer", "discard"}, NEW tok, Requeued(h, op, tok), Retryable(h), h \in Remote,
         conn[h] \in {"up", "shut"}, after[h] = None, Quiet, UNCHANGED <<handoffs, aborts, booting>>
  PROVE  Driver(s)'
<1>1. BaseInv /\ OrderInv /\ WebInv /\ GivenOnce(s) /\ OwnTypes
  BY DEF DriveInv, OrderInv, AllGivenOnce, BaseInv
<1>1a. NoUpdate
  BY DEF Orderly
<1>2. /\ row' = [row EXCEPT ![working[h]] = [status |-> "QU", dispatch_id |-> tok]] /\ working[h] \in Subs
      /\ after' = [after EXCEPT ![h] = [op |-> op, sub |-> working[h], tok |-> tok]]
      /\ tok \in Tokens
  BY <1>1, NextToken DEF Requeued, BaseInv
<1>3. CASE working[h] # s
  <2>1. row'[s] = row[s]
    BY <1>1, <1>2, <1>3 DEF OwnTypes
  <2>2. Goes(s) /\ Driver(s)
    BY <2>1 DEF Goes, InProgress, DriveInv, AllDriven
  <2>3. StaysReturned(s)
    BY <1>1, <1>2 DEF StaysReturned, PutBack, OwnTypes
  <2> QED
    BY <2>2, <2>3, Quiet_Driver, Stays_Frames
<1>4. CASE working[h] = s
  <2>1. /\ row[s].dispatch_id = run_id[h] /\ InProgress(s) /\ row[s].dispatch_id \in Tokens
        /\ row[s].dispatch_id # None
    <3>1. run_id[h] \in issued[s] /\ issued[s] \subseteq Tokens
      BY <1>1, <1>1a, <1>4, NoneFacts DEF BaseInv, OwnTypes, TokensIssued, HandlerTokens
    <3> QED
      BY <1>4, <3>1, NoneFacts DEF Retryable, InProgress, IN_PROGRESS
  <2>2. Given(s, row[s].dispatch_id)
    BY <1>4, <2>1 DEF Given, Started
  <2>3. ~Asked(s) /\ ~Waits(s) /\ \A k \in Conns : ~Returned(k, s)
    BY <1>1, <1>1a, <2>1, <2>2, OneDriver
  <2>4. s \notin booting
    BY <1>1 DEF WebInv, NobodyServed
  <2>5. aborts[s] # "refused"
    BY <1>1 DEF Orderly, WebInv, AbortsIdle
  <2>6. PICK k \in Conns : Judged(k, s)
    BY <2>1, <2>3, <2>4, <2>5 DEF DriveInv, AllDriven, Driver, Expected
  <2>7. k = h
    <3>1. Started(k, s, row[s].dispatch_id) /\ Started(h, s, row[s].dispatch_id)
      BY <1>4, <2>1, <2>6 DEF Judged, Started
    <3> QED
      BY <1>1, <2>1, <3>1 DEF GivenOnce
  <2>8. submission_map[s] = h
    BY <2>6, <2>7 DEF Judged
  <2>9. row'[s].dispatch_id = tok
    BY <1>1, <1>2, <1>4 DEF OwnTypes
  <2>10. [op |-> op, sub |-> s, tok |-> tok] # None
    BY <1>2, NoCallbackAssumption DEF Callback
  <2>11. PutBack(h)' /\ after'[h].sub = s /\ after'[h].tok = tok
    BY <1>1, <1>2, <1>4, <2>10 DEF PutBack, OwnTypes
  <2>12. working'[h] = s /\ submission_map'[s] = h
    BY <1>4, <2>8 DEF Quiet
  <2> QED
    BY <2>9, <2>11, <2>12 DEF Driver, Returned
<1> QED
  BY <1>3, <1>4

LEMMA HandlePacket_Driver ==
  ASSUME DriveInv, Orderly, NEW s \in Subs, InProgress(s)', row'[s].dispatch_id # None,
         issued'[s] = issued[s] => Goes(s) /\ Driver(s),
         NEW h \in Conns, HandlePacket(h)
  PROVE  Driver(s)'
<1> DEFINE p == Head(pipe[h])
<1>1. BaseInv
  BY DEF DriveInv, OrderInv
<1>2. UNCHANGED <<packetJl, handoffs, aborts, booting>> /\ conn[h] \in {"up", "shut"} /\ after[h] = None
  BY DEF HandlePacket, Reading, webVars
<1> HIDE DEF p
<1>3. CASE Plain(h, p)
  <2>1. Quiet
    <3>1. problems' \in [Conns -> SUBSET Subs]
      BY <1>1, <1>3 DEF Plain, BaseInv, JLInv, JLTypeOK
    <3> QED
      BY <1>1, <3>1, <1>2, Problems_Facts DEF BaseInv, packetJl
  <2>2. \A g \in Conns : after'[g] = after[g] \/ g = h
    BY <1>1, <1>3 DEF Plain, Called, BaseInv, OwnTypes
  <2>3. StaysReturned(s)
    BY <1>2, <2>2 DEF StaysReturned, PutBack
  <2>4. Goes(s) /\ Driver(s)
    BY <1>3 DEF Plain
  <2> QED
    BY <1>2, <2>1, <2>3, <2>4, Quiet_Driver, Stays_Frames
<1>4. ASSUME NEW tok, Requeued(h, "defer", tok), Retryable(h), remote_run[h], UNCHANGED preparing PROVE Driver(s)'
  <2>1. h \in Remote /\ UNCHANGED remote_run
    BY <1>1, <1>4 DEF BaseInv, RemoteOnly, HandlePacket
  <2>2. Quiet
    BY <1>1, <1>2, <1>4, <2>1, Requeued_Parts
  <2> QED
    BY <1>2, <1>4, <2>1, <2>2, Requeued_Driver
<1> QED
  BY <1>1, <1>3, <1>4, HandlePacket_Facts DEF p

LEMMA Release_Driver ==
  ASSUME DriveInv, NEW s \in Subs, Goes(s), Driver(s), NEW h \in Conns, Release(h) \/ AbortWorker(h)
  PROVE  Driver(s)'
<1>1. BaseInv /\ OwnTypes /\ JLTypeOK
  BY DEF DriveInv, OrderInv, BaseInv, JLInv
<1>2. /\ UNCHANGED <<handoffs, aborts, booting>> /\ after' = [after EXCEPT ![h] = None]
      /\ after[h].op \in {"release", "abort"}
  BY DEF Release, AbortWorker, webVars
<1>3. StaysReturned(s) /\ StaysAsked(s) /\ StaysElse(s) /\ ~PutBack(h)
  BY <1>1, <1>2, Stays_Frames DEF StaysReturned, PutBack, OwnTypes
<1>4. CASE Quiet
  BY <1>3, <1>4, Quiet_Driver
<1>5. CASE ~Quiet
  <2> DEFINE x == after[h].sub
  <2>1. Release(h) /\ working[h] = x
    BY <1>1, <1>5, Same_Facts DEF Release, AbortWorker, BaseInv
  <2>2. x \in Subs /\ on_judge_free(h, x)
    BY <1>1, <2>1 DEF Release, OwnTypes, Callback
  <2>3. run_id' = run_id /\ conn' = conn /\ Freed(h, x) /\ Holds(h, x)
    BY <1>1, <1>5, <2>2, on_judge_free_Facts DEF BaseInv
  <2>4. ~Current(x, run_id[h])
    BY <2>1 DEF Release, DriveInv, ReleaseOver
  <2> HIDE DEF x
  <2>5. ~Judged(h, s)
    BY <2>1, <2>4 DEF Judged, Current, Goes
  <2>6. \A g \in Conns : g # h /\ submission_map[s] = g => submission_map'[s] = g
    BY <1>1, <2>2, <2>3 DEF Freed, Holds, JLTypeOK
  <2>7. \A g \in Conns : g # h => working'[g] = working[g]
    BY <1>1, <2>3 DEF Freed, JLTypeOK
  <2>8. Expected(s) => Expected(s)'
    BY <1>1, <2>2, <2>3 DEF Expected, Freed, JLTypeOK, Goes
  <2>9. \A g \in Conns : Judged(g, s) => Judged(g, s)'
    BY <2>3, <2>5, <2>6, <2>7 DEF Judged, Goes
  <2>10. \A g \in Conns : Returned(g, s) => Returned(g, s)'
    BY <1>3, <2>6, <2>7 DEF Returned, StaysReturned, Goes
  <2> QED
    BY <1>3, <2>8, <2>9, <2>10, Stays_Parts DEF Driver, StaysElse
<1> QED
  BY <1>4, <1>5

\* The callback puts the run back: nobody asked for it, has it or lets it wait.
LEMMA Defer_Driver ==
  ASSUME DriveInv, NoUpdate, NEW s \in Subs, Goes(s), Driver(s), NEW h \in Conns, Defer(h)
  PROVE  Driver(s)'
<1> DEFINE x == after[h].sub
           tok == after[h].tok
<1>1. BaseInv /\ OrderInv /\ OwnTypes /\ JLTypeOK
  BY DEF DriveInv, OrderInv, BaseInv, JLInv
<1>2. PutBack(h) /\ x \in Subs /\ tok \in Tokens
  <2>1. PutBack(h) /\ after[h] \in Callback
    BY <1>1 DEF Defer, PutBack, OwnTypes
  <2>2. x \in Subs /\ tok \in issued[x]
    BY <1>1, <2>1 DEF BaseInv, TokensIssued, BackTokens, Callback
  <2> QED
    BY <1>1, <2>1, <2>2 DEF OwnTypes
<1>3. run_id' = run_id /\ conn' = conn /\ IF Holds(h, x) THEN PutBackAs(h, x, tok) ELSE Quiet
  BY <1>1, <1>2, defer_Facts DEF Defer, BaseInv, DriveInv, JLMap
<1>4. UNCHANGED <<handoffs, aborts, booting>> /\ after' = [after EXCEPT ![h] = None]
  BY DEF Defer, webVars
<1>5. StaysAsked(s) /\ StaysElse(s)
  BY <1>4, Stays_Frames
<1>6. \A g \in Conns : g # h /\ PutBack(g) => PutBack(g)' /\ after'[g] = after[g]
  BY <1>1, <1>4 DEF PutBack, OwnTypes
<1>7. CASE x = s
  <2>1. /\ tok = row[s].dispatch_id /\ ~Asked(s) /\ ~Waits(s) /\ \A g \in Conns : ~Judged(g, s)
        /\ \A g \in Conns : PutBack(g) /\ after[g].sub = s => g = h
    BY <1>1, <1>2, <1>7, OneDriver DEF Goes
  <2>2. CASE Returned(h, s)
    <3>1. PutBackAs(h, s, tok)
      BY <1>3, <1>7, <2>2 DEF Returned, Holds
    <3>2. Waits(s)' /\ dispatch_ids'[s] = tok
      BY <1>1, <2>1, <3>1 DEF PutBackAs, JLTypeOK
    <3> QED
      BY <2>1, <3>2 DEF Driver, Expected, Goes
  <2>3. CASE s \in booting \/ aborts[s] = "refused"
    BY <1>5, <2>3 DEF Driver, StaysElse
  <2> QED
    BY <2>1, <2>2, <2>3 DEF Driver, Expected, Returned
<1>8. CASE x # s
  <2>1. StaysReturned(s)
    BY <1>6, <1>8 DEF StaysReturned
  <2>2. CASE Quiet
    BY <1>5, <2>1, <2>2, Quiet_Driver
  <2>3. CASE Holds(h, x) /\ PutBackAs(h, x, tok)
    <3>1. StaysExpected(s)
      BY <1>1, <1>2, <1>8, <2>3 DEF StaysExpected, PutBackAs, JLTypeOK
    <3>2. StaysJudged(s)
      BY <1>1, <1>2, <1>3, <1>8, <2>3 DEF StaysJudged, PutBackAs, Holds, JLTypeOK
    <3> QED
      BY <1>5, <2>1, <3>1, <3>2, Stays_Driver
  <2> QED
    BY <1>3, <2>2, <2>3
<1> QED
  BY <1>7, <1>8

LEMMA Disconnect_Driver ==
  ASSUME DriveInv, NEW s \in Subs, Goes(s), Driver(s), InProgress(s)', NEW h \in Conns,
         DisconnectDiscard(h) \/ DisconnectRemove(h) \/ DisconnectFail(h)
  PROVE  Driver(s)'
<1>1. BaseInv /\ OwnTypes /\ JLTypeOK
  BY DEF DriveInv, OrderInv, BaseInv, JLInv
<1>2. UNCHANGED <<handoffs, aborts, booting>>
  BY DEF DisconnectDiscard, DisconnectRemove, DisconnectFail, webVars
<1>3. StaysAsked(s) /\ StaysElse(s)
  BY <1>2, Stays_Frames
<1>4. CASE DisconnectDiscard(h)
  <2>1. Quiet
    BY <1>1, <1>4, QuietMethods DEF DisconnectDiscard, BaseInv
  <2>2. /\ after[h] \in Callback /\ after[h].op = "discard"
        /\ after' = [after EXCEPT ![h] = [after[h] EXCEPT !.op = "leave"]]
    BY <1>1, <1>4 DEF DisconnectDiscard, OwnTypes
  <2>3. LET c == [after[h] EXCEPT !.op = "leave"] IN
        c \in Callback /\ c.op = "leave" /\ c.sub = after[h].sub /\ c.tok = after[h].tok
    BY <2>2 DEF Callback
  <2>4. StaysReturned(s)
    BY <1>1, <2>2, <2>3, NoCallbackAssumption DEF StaysReturned, PutBack, OwnTypes
  <2> QED
    BY <1>3, <2>1, <2>4, Quiet_Driver
<1>5. CASE DisconnectRemove(h)
  <2>1. Removed(h) /\ after' = after /\ after[h] = None
    BY <1>1, <1>5, remove_Facts DEF DisconnectRemove, BaseInv, runVars
  <2>2. StaysExpected(s) /\ StaysReturned(s)
    BY <2>1, Stays_Frames DEF Removed, StaysExpected
  <2>3. \A g \in Conns : g # h /\ submission_map[s] = g => submission_map'[s] = g
    BY <1>1, <2>1 DEF Removed, JLTypeOK
  <2>4. \A g \in Conns : Judged(g, s) => Judged(g, s)'
    BY <1>1, <2>1, <2>3 DEF Judged, Removed, Goes, JLTypeOK
  <2>5. \A g \in Conns : Returned(g, s) => Returned(g, s)'
    BY <2>1, <2>2, <2>3 DEF Returned, PutBack, StaysReturned, Removed, Goes
  <2> QED
    BY <1>3, <2>2, <2>4, <2>5, Stays_Parts DEF Driver, StaysElse
<1>6. CASE DisconnectFail(h)
  <2>1. Forgotten(h) /\ after' = after
    BY <1>1, <1>6, DisconnectFail_Facts DEF DisconnectFail
  <2>2. ~Judged(h, s)
    <3> SUFFICES ASSUME Judged(h, s) PROVE FALSE
      OBVIOUS
    <3>1. working[h] = s /\ s # None /\ Current(s, run_id[h])
      BY NoneFacts DEF Judged, Current, Goes
    <3>2. row' = [row EXCEPT ![s].status = "IE"]
      BY <1>6, <3>1 DEF DisconnectFail
    <3>3. row'[s] = [row[s] EXCEPT !.status = "IE"] /\ row[s] \in Row
      BY <1>1, <3>2, SetStatus DEF OwnTypes
    <3>4. row'[s].status = "IE"
      BY <3>3 DEF Row
    <3> QED
      BY <3>4 DEF InProgress, IN_PROGRESS
  <2>3. ~PutBack(h)
    BY <1>1, <2>1 DEF PutBack, BaseInv, RemoteOnly, Forgotten
  <2>4. StaysExpected(s) /\ StaysReturned(s)
    BY <2>1, Stays_Frames DEF Forgotten, StaysExpected
  <2>5. \A g \in Conns : Judged(g, s) => Judged(g, s)'
    BY <1>1, <2>1, <2>2 DEF Judged, Forgotten, Goes, JLTypeOK
  <2>6. \A g \in Conns : Returned(g, s) => Returned(g, s)'
    BY <1>1, <2>1, <2>3, <2>4 DEF Returned, StaysReturned, Forgotten, Goes, JLTypeOK
  <2> QED
    BY <1>3, <2>4, <2>5, <2>6, Stays_Parts DEF Driver, StaysElse
<1> QED
  BY <1>4, <1>5, <1>6

-----------------------------------------------------------------------------
(* Every step. *)
LEMMA Next_Driver ==
  ASSUME DriveInv, Orderly, [Next]_vars
  PROVE  AllDriven'
<1> SUFFICES ASSUME NEW s \in Subs, InProgress(s)', row'[s].dispatch_id # None PROVE Driver(s)'
  BY DEF AllDriven
<1>1. BaseInv
  BY DEF DriveInv, OrderInv
<1>2. issued'[s] = issued[s] => Goes(s) /\ Driver(s)
  BY Goes_Facts
<1>3. ASSUME NEW x \in Subs,
             JudgeSubmission(x) \/ AbortRequested(x) \/ AbortWritten(x) \/ OnTermination(x) \/ BootMark(x)
      PROVE  Driver(s)'
  <2>1. JudgeSubmission(x) \/ issued' = issued
    BY <1>3 DEF AbortRequested, AbortWritten, OnTermination, BootMark, dbVars
  <2> QED
    BY <1>2, <1>3, <2>1, JudgeSubmission_Driver, Rows_Driver, Terminate_Driver
<1>4. ASSUME NEW m \in handoffs, SendSubmission(m) \/ SendFails(m) \/ SendAnswered(m) \/ OnSubmission(m)
      PROVE  Driver(s)'
  <2>1. issued' = issued
    BY <1>4 DEF SendSubmission, SendFails, SendAnswered, OnSubmission, dbVars
  <2> QED
    BY <1>2, <1>4, <2>1, Send_Driver, OnSubmission_Driver
<1>5. ASSUME Unlock \/ Apply \/ OnAbortProblem \/ SyncRemoteData \/ Crash PROVE Driver(s)'
  <2>1. issued' = issued
    BY <1>5 DEF Unlock, Apply, OnAbortProblem, SyncRemoteData, Crash, dbVars
  <2>2. CASE Crash
    BY <2>2 DEF Crash, dbVars, InProgress, Driver
  <2> QED
    BY <1>2, <1>5, <2>1, <2>2, Rows_Driver, Threads_Driver, Terminate_Driver
<1>6. CASE Schedule
  <2>1. CASE Quiet /\ UNCHANGED OwnVars
    BY <1>2, <2>1, Quiet_Driver, Stays_Frames DEF OwnVars, dbVars, webVars, runVars
  <2>2. ASSUME NEW h \in Conns, NEW x \in Subs, NEW out \in Outcomes, working[h] = None,
               Offered(h, x, out, row[x].dispatch_id), Submit(h, x, out)
        PROVE  Driver(s)'
    <3>1. issued' = issued
      BY <2>2 DEF Submit, Sent
    <3> QED
      BY <1>2, <2>2, <3>1, Offer_Driver DEF Orderly
  <2> QED
    BY <1>1, <1>6, <2>1, <2>2, Schedule_Facts DEF DriveInv
<1>7. ASSUME NEW h \in Conns,
             \/ Handshake(h) \/ Connected(h) \/ Lost(h) \/ SupportedProblems(h)
             \/ OnRetryQueued(h) \/ RetryWindowEnds(h)
      PROVE  Driver(s)'
  <2>1. issued' = issued
    BY <1>7 DEF Handshake, Connected, Lost, SupportedProblems, OnRetryQueued, RetryWindowEnds, dbVars
  <2> QED
    BY <1>2, <1>7, <2>1, Threads_Driver
<1>8. ASSUME NEW h \in Conns,
             \/ HandlePacket(h) \/ Release(h) \/ AbortWorker(h) \/ Defer(h)
             \/ DisconnectDiscard(h) \/ DisconnectRemove(h) \/ DisconnectFail(h)
      PROVE  Driver(s)'
  <2>1. HandlePacket(h) \/ issued' = issued
    BY <1>8 DEF Release, AbortWorker, Defer, DisconnectDiscard, DisconnectRemove, DisconnectFail, dbVars
  <2> QED
    BY <1>2, <1>8, <2>1, HandlePacket_Driver, Release_Driver, Defer_Driver, Disconnect_Driver DEF Orderly
<1>9. ASSUME NEW h \in Conns, DisconnectRetry(h) PROVE Driver(s)'
  <2>1. /\ conn[h] = "shut" /\ after[h] = None /\ h \in Remote /\ Retryable(h)
        /\ UNCHANGED <<packetJl, preparing, remote_run, handoffs, aborts, booting>>
    BY <1>1, <1>9, DisconnectRetry_Facts DEF webVars
  <2>2. PICK tok : Requeued(h, "discard", tok)
    BY <1>1, <1>9, DisconnectRetry_Facts
  <2>3. Quiet
    BY <1>1, <2>1, <2>2, Requeued_Parts
  <2> QED
    BY <2>1, <2>2, <2>3, Requeued_Driver
<1>10. ASSUME NEW h \in Conns, NEW j \in jobs[h],
              WorkerAcks(h, j) \/ WorkerPrepares(h, j) \/ WorkerBegins(h, j) \/ WorkerEnds(h, j)
       PROVE  Driver(s)'
  <2>1. PICK p, rest : WorkerStep(h, j, p, rest)
    BY <1>1, <1>10, Worker_Facts DEF BaseInv
  <2>2. issued' = issued
    BY <2>1 DEF WorkerStep, dbVars
  <2> QED
    BY <1>2, <2>1, <2>2, Threads_Driver
<1>11. CASE UNCHANGED vars
  BY <1>2, <1>11, Threads_Driver DEF vars, dbVars
<1> QED
  BY <1>3, <1>4, <1>5, <1>6, <1>7, <1>8, <1>9, <1>10, <1>11 DEF Next

\* Only requests and retries start a run; only unlocks and their end change the lock.
LEMMA Next_Started ==
  ASSUME BaseInv, [Next]_vars
  PROVE  \/ issued' = issued /\ (is_locked' = is_locked \/ Unlock \/ Apply)
         \/ is_locked' = is_locked /\ \E x \in Subs : JudgeSubmission(x)
         \/ /\ is_locked' = is_locked
            /\ \E h \in Conns : Retryable(h) /\ \E op, tok : Requeued(h, op, tok)
<1>1. CASE UNCHANGED dbVars
  BY <1>1 DEF dbVars
<1>2. ASSUME NEW x \in Subs,
             JudgeSubmission(x) \/ AbortRequested(x) \/ AbortWritten(x) \/ OnTermination(x) \/ BootMark(x)
      PROVE  \/ issued' = issued /\ is_locked' = is_locked
             \/ is_locked' = is_locked /\ \E y \in Subs : JudgeSubmission(y)
  <2>1. CASE JudgeSubmission(x)
    <3>1. is_locked' = is_locked
      BY <2>1 DEF JudgeSubmission
    <3> QED
      BY <2>1, <3>1
  <2> QED
    BY <1>2, <2>1 DEF AbortRequested, AbortWritten, OnTermination, BootMark, dbVars
<1>3. ASSUME NEW m \in handoffs, SendSubmission(m) \/ SendFails(m) \/ SendAnswered(m) \/ OnSubmission(m)
      PROVE  issued' = issued /\ is_locked' = is_locked
  BY <1>3 DEF SendSubmission, SendFails, SendAnswered, OnSubmission, dbVars
<1>4. ASSUME Unlock \/ Apply \/ OnAbortProblem \/ SyncRemoteData \/ Crash
      PROVE  issued' = issued /\ (is_locked' = is_locked \/ Unlock \/ Apply)
  BY <1>4 DEF Unlock, Apply, OnAbortProblem, SyncRemoteData, Crash, dbVars
<1>5. CASE Schedule
  BY <1>1, <1>5, Schedule_Facts DEF OwnVars, Submit, Sent
<1>6. ASSUME NEW h \in Conns,
             \/ Handshake(h) \/ Connected(h) \/ Lost(h) \/ SupportedProblems(h)
             \/ OnRetryQueued(h) \/ RetryWindowEnds(h)
             \/ Release(h) \/ AbortWorker(h) \/ Defer(h)
             \/ DisconnectDiscard(h) \/ DisconnectRemove(h) \/ DisconnectFail(h)
      PROVE  issued' = issued /\ is_locked' = is_locked
  BY <1>6 DEF Handshake, Connected, Lost, SupportedProblems, OnRetryQueued, RetryWindowEnds, Release, AbortWorker,
     Defer, DisconnectDiscard, DisconnectRemove, DisconnectFail, dbVars
<1>7. ASSUME NEW h \in Conns, HandlePacket(h)
      PROVE  /\ is_locked' = is_locked
             /\ issued' = issued \/ (Retryable(h) /\ \E op, tok : Requeued(h, op, tok))
  <2>1. is_locked' = is_locked
    BY <1>7 DEF HandlePacket
  <2>2. issued' = issued \/ (Retryable(h) /\ \E tok : Requeued(h, "defer", tok))
    BY <1>7, HandlePacket_Facts DEF Plain
  <2> QED
    BY <2>1, <2>2
<1>8. ASSUME NEW h \in Conns, DisconnectRetry(h)
      PROVE  is_locked' = is_locked /\ Retryable(h) /\ \E op, tok : Requeued(h, op, tok)
  <2>1. is_locked' = is_locked /\ Retryable(h) /\ \E tok : Requeued(h, "discard", tok)
    BY <1>8, DisconnectRetry_Facts
  <2> QED
    BY <2>1
<1>9. ASSUME NEW h \in Conns, NEW j \in jobs[h],
             WorkerAcks(h, j) \/ WorkerPrepares(h, j) \/ WorkerBegins(h, j) \/ WorkerEnds(h, j)
      PROVE  issued' = issued /\ is_locked' = is_locked
  BY <1>9, Worker_Facts DEF BaseInv, WorkerStep, dbVars
<1> QED
  BY <1>1, <1>2, <1>3, <1>4, <1>5, <1>6, <1>7, <1>8, <1>9 DEF Next, vars

\* Tests that are being edited stay without a run in progress.
LEMMA Next_Locked ==
  ASSUME BaseInv, Locked, [Next]_vars
  PROVE  Locked'
<1> SUFFICES ASSUME ~is_locked', NEW s \in Subs, InProgress(s)' PROVE FALSE
  BY DEF Locked
<1>1. OwnTypes
  BY DEF BaseInv
<1>2. ASSUME ~is_locked, issued'[s] = issued[s] PROVE FALSE
  <2>1. InProgress(s)
    BY <1>2, Next_RowStep, NotRenewed, Ongoing
  <2> QED
    BY <1>2, <2>1 DEF Locked
<1>3. CASE Unlock
  <2>1. ~is_locked \/ row' = [x \in Subs |-> IF InProgress(x) THEN [row[x] EXCEPT !.status = "AB"] ELSE row[x]]
    BY <1>3 DEF Unlock
  <2>2. CASE ~is_locked
    BY <1>2, <1>3, <2>2 DEF Unlock
  <2>3. CASE row'[s] = IF InProgress(s) THEN [row[s] EXCEPT !.status = "AB"] ELSE row[s]
    <3>1. [row[s] EXCEPT !.status = "AB"].status = "AB"
      BY <1>1 DEF OwnTypes, Row
    <3> QED
      BY <2>3, <3>1 DEF InProgress, IN_PROGRESS
  <2> QED
    BY <2>1, <2>2, <2>3
<1>4. CASE Apply
  BY <1>4 DEF Apply
<1>5. CASE issued' = issued /\ is_locked' = is_locked
  BY <1>2, <1>5
<1>6. ASSUME is_locked' = is_locked, NEW x \in Subs, JudgeSubmission(x) PROVE FALSE
  BY <1>6 DEF JudgeSubmission
<1>7. ASSUME is_locked' = is_locked, NEW h \in Conns, Retryable(h), NEW op, NEW tok, Requeued(h, op, tok) PROVE FALSE
  <2>1. InProgress(working[h]) /\ working[h] \in Subs
    BY <1>7 DEF Requeued, Retryable, InProgress, IN_PROGRESS
  <2> QED
    BY <1>7, <2>1 DEF Locked
<1> QED
  BY <1>3, <1>4, <1>5, <1>6, <1>7, Next_Started

-----------------------------------------------------------------------------
(* A handler is freed of a run that is over, and a run that is over stays so. *)
GoesOn(s, t) == row'[s].status \in IN_PROGRESS /\ row'[s].dispatch_id = t

LEMMA Over_Stays ==
  ASSUME BaseInv, [Next]_vars, NEW s \in Subs, NEW t \in issued[s], ~Current(s, t)
  PROVE  ~GoesOn(s, t)
<1> SUFFICES ASSUME InProgress(s)', row'[s].dispatch_id = t PROVE FALSE
  BY DEF GoesOn, InProgress
<1>1. CASE Renewed(s)
  <2>1. PICK tok \in Fresh(s) : row'[s] = [status |-> "QU", dispatch_id |-> tok]
    BY <1>1 DEF Renewed
  <2>2. t = tok
    BY <2>1
  <2> QED
    BY <2>2, NextToken DEF BaseInv
<1>2. CASE ~Renewed(s)
  BY <1>2, Next_RowStep, Ongoing DEF Current
<1> QED
  BY <1>1, <1>2

\* The packet that ends a run, or comes after it, has the handler freed.
LEMMA HandlePacket_Release ==
  ASSUME BaseInv, NoUpdate, NEW h \in Conns, HandlePacket(h), after'[h] # None, after'[h].op = "release"
  PROVE  /\ after'[h].sub = working[h] /\ working[h] \in Subs
         /\ ~GoesOn(working[h], run_id[h])
<1> DEFINE p == Head(pipe[h])
<1>1. OwnTypes /\ after[h] = None
  BY DEF BaseInv, HandlePacket, Reading
<1>2. p \in Elems(pipe[h]) /\ p \in Packet
  BY PipeHead DEF HandlePacket, BaseInv
<1>3. \/ UNCHANGED packetVars
      \/ CurrentRun(h, p) /\ Handled(h, p)
      \/ ~CurrentRun(h, p) /\ Stale(h, p)
  BY DEF HandlePacket
<1> HIDE DEF p
<1>4. after' # after
  BY <1>1
<1>5. CASE CurrentRun(h, p) /\ Handled(h, p)
  <2>1. working[h] = p.sub /\ p.sub \in Subs
    BY <1>2, <1>5, CurrentRun_Facts
  <2>2. CASE OnRunEnd(h, p)
    <3>1. after'[h].sub = p.sub
      BY <1>1, <2>2 DEF OnRunEnd, Then, OwnTypes
    <3>2. row'[p.sub] = [row[p.sub] EXCEPT !.status = p.status] /\ row[p.sub] \in Row
      BY <1>1, <2>1, <2>2 DEF OnRunEnd, OwnTypes
    <3>3. row'[p.sub].status \in FINAL
      BY <1>2, <3>2 DEF Packet, Row
    <3> QED
      BY <2>1, <3>1, <3>3 DEF GoesOn, IN_PROGRESS, FINAL
  <2>3. CASE OnUnavailable(h, p)
    <3>1. PICK tok : Requeued(h, "defer", tok)
      BY <1>4, <2>1, <2>3, Requeue_Facts DEF OnUnavailable
    <3>2. after'[h].op = "defer"
      BY <1>1, <3>1 DEF Requeued, OwnTypes
    <3> QED
      BY <3>2
  <2>4. CASE OnAcknowledged(h, p) \/ OnPrepared(h, p) \/ OnGradingBegin(h, p)
    BY <1>4, <2>4 DEF OnAcknowledged, OnPrepared, OnGradingBegin
  <2> QED
    BY <1>5, <2>2, <2>3, <2>4 DEF Handled
<1>6. CASE ~CurrentRun(h, p) /\ Stale(h, p)
  <2>1. /\ row' = row /\ working[h] = p.sub /\ (p.did # None => p.did = run_id[h])
        /\ after' = [after EXCEPT ![h] = [op |-> "release", sub |-> p.sub, tok |-> None]]
    <3>1. CASE Terminal(p) /\ working[h] = p.sub /\ (p.did # None => p.did = run_id[h])
      BY <1>6, <3>1 DEF Stale, Then
    <3>2. CASE ~(Terminal(p) /\ working[h] = p.sub /\ (p.did # None => p.did = run_id[h]))
      <4>1. after' = [after EXCEPT ![h] = [op |-> "abort", sub |-> p.sub, tok |-> None]]
        BY <1>4, <1>6, <3>2 DEF Stale, Then
      <4>2. after'[h].op = "abort"
        BY <1>1, <4>1 DEF OwnTypes
      <4> QED
        BY <4>2
    <3> QED
      BY <3>1, <3>2
  <2>2. after'[h].sub = p.sub /\ p.sub \in Subs
    BY <1>1, <1>2, <2>1 DEF OwnTypes, Packet
  <2>3. row[p.sub].dispatch_id = run_id[h] => row[p.sub].dispatch_id # None
    <3>1. run_id[h] \in issued[working[h]]
      BY <2>1, <2>2, NoneFacts DEF BaseInv, TokensIssued, HandlerTokens
    <3>2. run_id[h] \in Tokens
      BY <1>1, <2>1, <2>2, <3>1 DEF OwnTypes
    <3> QED
      BY <3>2, NoneFacts
  <2>4. ~Current(p.sub, run_id[h])
    BY <1>6, <2>1, <2>3 DEF CurrentRun, Current
  <2> QED
    BY <2>1, <2>2, <2>4 DEF Current, GoesOn, InProgress
<1> QED
  BY <1>3, <1>4, <1>5, <1>6 DEF packetVars

\* A callback stays with its run until it is called.
Settled(h) == /\ after'[h] = after[h] /\ working'[h] = working[h] /\ run_id'[h] = run_id[h]
Cleared(h) == after'[h] # None => after'[h].op # "release"

LEMMA Next_Settled ==
  ASSUME BaseInv, JLMap, ReleaseOver, [Next]_vars, NEW g \in Conns
  PROVE  Settled(g) \/ Cleared(g) \/ HandlePacket(g)
<1>1. OwnTypes /\ JLInv /\ JLTypeOK
  BY DEF BaseInv, JLInv
<1>2. UNCHANGED <<working, run_id, after>> => Settled(g)
  BY DEF Settled
<1>3. Quiet /\ UNCHANGED after => Settled(g)
  BY <1>2 DEF Quiet
<1>4. UNCHANGED <<jlVars, after>> => Settled(g)
  BY <1>2 DEF jlVars, handlerVars
<1>5. ASSUME NEW h \in Conns, after' = [after EXCEPT ![h] = None],
             \A k \in Conns : k # h => working'[k] = working[k] /\ run_id'[k] = run_id[k]
      PROVE  Settled(g) \/ Cleared(g)
  BY <1>1, <1>5 DEF Settled, Cleared, OwnTypes
<1>6. ASSUME NEW x \in Subs,
             JudgeSubmission(x) \/ AbortRequested(x) \/ AbortWritten(x) \/ OnTermination(x) \/ BootMark(x)
      PROVE  Settled(g)
  <2>1. CASE OnTermination(x)
    BY <1>1, <1>2, <2>1, abort_Facts DEF OnTermination, runVars
  <2> QED
    BY <1>4, <1>6, <2>1 DEF JudgeSubmission, AbortRequested, AbortWritten, BootMark, runVars
<1>7. ASSUME NEW m \in handoffs, SendSubmission(m) \/ SendFails(m) \/ SendAnswered(m) \/ OnSubmission(m)
      PROVE  Settled(g)
  <2>1. CASE OnSubmission(m)
    <3>1. m.req \in Request /\ m.tok \in Tokens
      BY <1>1 DEF OwnTypes, Handoff
    <3> QED
      BY <1>1, <1>2, <2>1, <3>1, judge_Facts DEF OnSubmission, runVars
  <2> QED
    BY <1>4, <1>7, <2>1 DEF SendSubmission, SendFails, SendAnswered, runVars
<1>8. ASSUME Unlock \/ Apply \/ OnAbortProblem \/ SyncRemoteData \/ Crash PROVE Settled(g) \/ Cleared(g)
  <2>1. CASE Unlock \/ Apply
    BY <1>4, <2>1 DEF Unlock, Apply, runVars
  <2>2. CASE OnAbortProblem
    BY <1>2, <2>2 DEF OnAbortProblem, handlerVars, runVars
  <2>3. CASE SyncRemoteData
    BY <1>1, <1>3, <2>3, Quiet_Facts DEF OwnVars, runVars
  <2>4. CASE Crash
    BY <2>4 DEF Crash, Cleared
  <2> QED
    BY <1>8, <2>1, <2>2, <2>3, <2>4
<1>9. CASE Schedule
  <2>1. CASE Quiet /\ UNCHANGED OwnVars
    BY <1>3, <2>1 DEF OwnVars, runVars
  <2>2. ASSUME NEW h \in Conns, NEW x \in Subs, NEW out \in Outcomes, working[h] = None,
               Offered(h, x, out, row[x].dispatch_id), Submit(h, x, out)
        PROVE  Settled(g) \/ Cleared(g)
    <3>1. after' = after /\ working[h] = None
      BY <2>2 DEF Submit, Sent
    <3>2. CASE g = h
      <4>1. ~(after[h] # None /\ after[h].op = "release")
        BY <1>1, <3>1, NoneFacts DEF ReleaseOver, OwnTypes, Callback
      <4> QED
        BY <3>1, <3>2, <4>1 DEF Cleared
    <3>3. CASE g # h
      BY <1>1, <2>2, <3>1, <3>3 DEF Offered, Settled, JLTypeOK
    <3> QED
      BY <3>2, <3>3
  <2> QED
    BY <1>9, <2>1, <2>2, Schedule_Facts
<1>10. ASSUME NEW h \in Conns, Handshake(h) \/ Connected(h) \/ Lost(h) \/ SupportedProblems(h) PROVE Settled(g)
  BY <1>1, <1>3, <1>10, Quiet_Facts DEF OwnVars, runVars
<1>11. ASSUME NEW h \in Conns, OnRetryQueued(h) \/ RetryWindowEnds(h) PROVE Settled(g)
  BY <1>1, <1>3, <1>11, Timers_Facts
<1>12. ASSUME NEW h \in Conns, HandlePacket(h) PROVE Settled(g) \/ HandlePacket(g)
  <2>1. UNCHANGED <<working, run_id>>
    BY <1>12 DEF HandlePacket, packetJl
  <2>2. ASSUME g # h PROVE after'[g] = after[g]
    <3>1. CASE Plain(h, Head(pipe[h]))
      BY <1>1, <2>2, <3>1 DEF Plain, Called, OwnTypes
    <3>2. CASE \E tok : Requeued(h, "defer", tok)
      BY <1>1, <2>2, <3>2 DEF Requeued, OwnTypes
    <3> QED
      BY <1>12, <3>1, <3>2, HandlePacket_Facts
  <2> QED
    BY <1>12, <2>1, <2>2 DEF Settled
<1>13. ASSUME NEW h \in Conns, Release(h) \/ AbortWorker(h) \/ Defer(h) PROVE Settled(g) \/ Cleared(g)
  <2>1. after' = [after EXCEPT ![h] = None] /\ after[h] # None
    BY <1>13 DEF Release, AbortWorker, Defer
  <2>2. after[h].sub \in Subs
    BY <1>1, <2>1 DEF OwnTypes, Callback
  <2>3. CASE UNCHANGED jlVars
    BY <1>5, <2>1, <2>3 DEF jlVars, handlerVars
  <2>4. CASE on_judge_free(h, after[h].sub)
    <3>1. run_id' = run_id /\ (Freed(h, after[h].sub) \/ Quiet)
      BY <1>1, <2>2, <2>4, on_judge_free_Facts
    <3> QED
      BY <1>1, <1>5, <2>1, <3>1 DEF Freed, Quiet, JLTypeOK
  <2>5. CASE Defer(h)
    <3>1. after[h].tok \in Tokens
      BY <1>1, <2>1, <2>2, <2>5 DEF Defer, PutBack, BaseInv, TokensIssued, BackTokens, OwnTypes
    <3>2. run_id' = run_id /\ (PutBackAs(h, after[h].sub, after[h].tok) \/ Quiet)
      BY <1>1, <2>2, <2>5, <3>1, defer_Facts DEF Defer, JLMap
    <3> QED
      BY <1>1, <1>5, <2>1, <3>2 DEF PutBackAs, Quiet, JLTypeOK
  <2> QED
    BY <1>13, <2>3, <2>4, <2>5 DEF Release, AbortWorker
<1>14. ASSUME NEW h \in Conns, DisconnectRetry(h) PROVE Settled(g) \/ Cleared(g)
  <2>1. UNCHANGED <<working, run_id>> /\ \E tok : Requeued(h, "discard", tok)
    BY <1>14, DisconnectRetry_Facts DEF packetJl
  <2> QED
    BY <1>1, <2>1 DEF Requeued, Settled, Cleared, OwnTypes
<1>15. ASSUME NEW h \in Conns, DisconnectDiscard(h) PROVE Settled(g) \/ Cleared(g)
  <2>1. UNCHANGED <<working, run_id>>
    BY <1>1, <1>15, QuietMethods DEF DisconnectDiscard, Quiet
  <2>2. after[h] \in Callback /\ after' = [after EXCEPT ![h] = [after[h] EXCEPT !.op = "leave"]]
    BY <1>1, <1>15 DEF DisconnectDiscard, OwnTypes
  <2>3. [after[h] EXCEPT !.op = "leave"].op = "leave"
    BY <2>2 DEF Callback
  <2> QED
    BY <1>1, <2>1, <2>2, <2>3 DEF Settled, Cleared, OwnTypes
<1>16. ASSUME NEW h \in Conns, DisconnectRemove(h) PROVE Settled(g)
  BY <1>1, <1>2, <1>16, remove_Facts DEF DisconnectRemove, Removed, runVars
<1>17. ASSUME NEW h \in Conns, DisconnectFail(h) PROVE Settled(g) \/ Cleared(g)
  <2>1. Forgotten(h) /\ after' = after
    BY <1>1, <1>17, DisconnectFail_Facts DEF DisconnectFail
  <2>2. after[h] = None
    BY <2>1 DEF Forgotten, BaseInv, RemoteOnly
  <2> QED
    BY <1>1, <2>1, <2>2 DEF Forgotten, Settled, Cleared, JLTypeOK
<1>18. ASSUME NEW h \in Conns, NEW j \in jobs[h],
              WorkerAcks(h, j) \/ WorkerPrepares(h, j) \/ WorkerBegins(h, j) \/ WorkerEnds(h, j)
       PROVE  Settled(g)
  BY <1>1, <1>4, <1>18, Worker_Facts DEF WorkerStep, runVars
<1> QED
  BY <1>4, <1>6, <1>7, <1>8, <1>9, <1>10, <1>11, <1>12, <1>13, <1>14, <1>15, <1>16, <1>17, <1>18 DEF Next, vars, runVars

LEMMA Next_ReleaseOver ==
  ASSUME BaseInv, NoUpdate, JLMap, ReleaseOver, [Next]_vars
  PROVE  ReleaseOver'
<1> SUFFICES ASSUME NEW h \in Conns, after'[h] # None, after'[h].op = "release"
             PROVE  after'[h].sub = working'[h] /\ ~GoesOn(working'[h], run_id'[h])
  BY DEF ReleaseOver, Current, GoesOn, InProgress
<1>1. CASE Settled(h)
  <2>1. after[h].sub = working[h] /\ ~Current(working[h], run_id[h]) /\ working[h] \in Subs
    BY <1>1 DEF Settled, ReleaseOver, BaseInv, OwnTypes, Callback
  <2>2. run_id[h] \in issued[working[h]]
    BY <2>1, NoneFacts DEF BaseInv, TokensIssued, HandlerTokens
  <2>3. ~GoesOn(working[h], run_id[h])
    BY <2>1, <2>2, Over_Stays
  <2> QED
    BY <1>1, <2>1, <2>3 DEF Settled
<1>2. CASE HandlePacket(h)
  <2>1. UNCHANGED <<working, run_id>>
    BY <1>2 DEF HandlePacket, packetJl
  <2> QED
    BY <1>2, <2>1, HandlePacket_Release
<1> QED
  BY <1>1, <1>2, Next_Settled DEF Cleared

-----------------------------------------------------------------------------
LEMMA Init_DriveInv == Init => DriveInv
<1> SUFFICES ASSUME Init PROVE DriveInv
  OBVIOUS
<1>1. OrderInv
  BY Init_BaseInv, Init_GivenOnce, JLInit_JLMap DEF Init, OrderInv
<1>2. JLMap
  BY JLInit_JLMap DEF Init
<1>3. Locked /\ ReleaseOver /\ AllDriven
  BY DEF Init, Locked, ReleaseOver, AllDriven
<1> QED
  BY <1>1, <1>2, <1>3 DEF DriveInv

LEMMA Driver_Driven ==
  ASSUME NEW s \in Subs, Driver(s)
  PROVE  Driven(s)
<1>1. Expected(s) => Driven(s)
  BY QueuedHasId DEF Expected, Waits, Driven
<1>2. ASSUME NEW h \in Conns, Judged(h, s) \/ Returned(h, s) PROVE Driven(s)
  BY <1>2 DEF Judged, Returned, PutBack, Driven
<1> QED
  BY <1>1, <1>2 DEF Driver, Asked, Driven

\* No run is forgotten: whatever requests, refusals, lost judges, retries, unlocks and restarts do,
\* a row in progress has somebody who will finish it or hand it on.  For sites whose judges do not
\* announce problems while they run, whose requests are not overtaken, and that use remote judges
\* only where nobody aborts or unlocks: the README gives the runs outside these hypotheses.
THEOREM NoRunIsForgotten ==
  ASSUME Orderly
  PROVE  Spec => []NoRunForgotten
<1>0. NoUpdate
  BY DEF Orderly
<1>1. Init => DriveInv
  BY Init_DriveInv
<1>2. DriveInv /\ [Next]_vars => DriveInv'
  <2> SUFFICES ASSUME DriveInv, [Next]_vars PROVE DriveInv'
    OBVIOUS
  <2>1. OrderInv /\ BaseInv /\ JLMap /\ Locked /\ ReleaseOver
    BY DEF DriveInv, OrderInv
  <2>2. OrderInv'
    BY <1>0, <2>1, Next_BaseInv, Next_WebInv, Next_JLMap, Next_GivenOnce DEF OrderInv
  <2>3. JLMap' /\ Locked' /\ ReleaseOver'
    BY <1>0, <2>1, Next_JLMap, Next_Locked, Next_ReleaseOver
  <2>4. AllDriven'
    BY Next_Driver
  <2> QED
    BY <2>2, <2>3, <2>4 DEF DriveInv
<1>3. DriveInv => NoRunForgotten
  <2> SUFFICES ASSUME DriveInv, NEW s \in Subs, InProgress(s) PROVE Driven(s)
    BY DEF NoRunForgotten
  <2>1. CASE row[s].dispatch_id = None
    BY <2>1 DEF Driven
  <2>2. CASE row[s].dispatch_id # None
    BY <2>2, Driver_Driven DEF DriveInv, AllDriven
  <2> QED
    BY <2>1, <2>2
<1> QED
  BY <1>1, <1>2, <1>3, PTL DEF Spec

-----------------------------------------------------------------------------
(* Judge slots, when nothing is rejudged and no transaction fails: a submission that waits or is
   asked for is worked on by nobody, its run is new to every worker, and the handler of a connected
   judge hears of the run it works on.  *)
Once == "rejudge" \notin Env /\ "fault" \notin Env

\* What the worker of h has, or sent, of the run its handler works on.
RunJobs(h) == {j \in jobs[h] : j.sub = working[h] /\ j.tok = run_id[h]}
RunPackets(h) == {p \in Elems(pipe[h]) : p.sub = working[h] /\ p.job = run_id[h]}
\* The worker has yet to prepare the test data of the run, or has just failed to.
Unprepared(h) ==
  \/ \E j \in RunJobs(h) : j.stage \in {"sent", "acked"}
  \/ \E p \in RunPackets(h) : p.kind = "unavailable"

\* A worker has a run once and ends it once; only remote judges miss test data.
JobsOnce(h) ==
  /\ \A i, j \in jobs[h] : i.sub = j.sub /\ i.tok = j.tok => i = j
  /\ \A j \in jobs[h] : \A p \in Elems(pipe[h]) : Terminal(p) => p.sub # j.sub \/ p.job # j.tok
  /\ \A p \in Elems(pipe[h]) : p.kind = "unavailable" => h \in Remote
Drained(h) == conn[h] \in {"off", "left"} => pipe[h] = <<>>
BackOwn(h) == PutBack(h) => working[h] = after[h].sub
\* _remote_run and _remote_preparing are set for as long as the data of the run is prepared.
Preparing(h) ==
  h \in Remote => /\ remote_run[h]
                  /\ Unprepared(h) => preparing[h] /\ \A p \in RunPackets(h) : p.kind \notin {"prepared", "begin"}
NotBegun(h) == h \in Remote /\ Unprepared(h) => row[working[h]] # [status |-> "G", dispatch_id |-> run_id[h]]
Held(h) ==
  \/ RunJobs(h) # {}
  \/ \E p \in RunPackets(h) : Terminal(p)
  \/ after[h] # None /\ after[h].op # "abort" /\ after[h].sub = working[h]
Busy(h) == Live(h) /\ working[h] # None
SlotOf(h) ==
  Busy(h) => /\ submission_map[working[h]] = h
             /\ Preparing(h) /\ NotBegun(h)
             /\ conn[h] # "shut" => Held(h)
HandlerInv(h) == JobsOnce(h) /\ Drained(h) /\ BackOwn(h) /\ SlotOf(h)

\* A web thread may still have the bridge judge s.
Pending(s) == \E m \in handoffs : m.req.id = s /\ m.at # "done"
Unworked(s) == \A h \in Conns : Live(h) => working[h] # s
Awaiting(s) == Waits(s) \/ Pending(s) \/ \E h \in Conns : PutBack(h) /\ working[h] = s
Untouched(s) == row[s].status # "G" /\ \A h \in Conns : ~Trace(h, s, row[s].dispatch_id)
SubInv(s) == (Waits(s) \/ Pending(s) => Unworked(s)) /\ (Awaiting(s) => Untouched(s))
AskedOnce ==
  \A m \in handoffs : m.at # "done" =>
    ~Waits(m.req.id) /\ \A k \in handoffs : k.at # "done" /\ k.req.id = m.req.id => k = m
HeldInv == (\A h \in Conns : HandlerInv(h)) /\ (\A s \in Subs : SubInv(s)) /\ AskedOnce
SlotInv == VerdictInv /\ HeldInv

-----------------------------------------------------------------------------
LEMMA HeadTailElems ==
  ASSUME NEW S, NEW q \in Seq(S), q # <<>>
  PROVE  Elems(q) = Elems(Tail(q)) \cup {Head(q)}
<1>1. /\ Len(Tail(q)) = Len(q) - 1
      /\ \A i \in 1 .. Len(Tail(q)) : Tail(q)[i] = q[i + 1]
  BY HeadTailProperties
<1>2. Len(q) \in Nat \ {0} /\ Head(q) = q[1] /\ Head(q) \in Elems(q) /\ Elems(Tail(q)) \subseteq Elems(q)
  BY EmptySeq, LenProperties, TailElems
<1>3. ASSUME NEW i \in 1 .. Len(q), i # 1 PROVE q[i] \in Elems(Tail(q))
  <2>1. i - 1 \in 1 .. Len(Tail(q)) /\ (i - 1) + 1 = i
    BY <1>1, <1>2, <1>3
  <2>2. Tail(q)[i - 1] = q[(i - 1) + 1]
    BY <1>1, <2>1
  <2>3. Tail(q)[i - 1] = q[i]
    BY <2>1, <2>2
  <2> QED
    BY <2>1, <2>3 DEF Elems
<1>4. \A e \in Elems(q) : e \in Elems(Tail(q)) \cup {Head(q)}
  BY <1>2, <1>3 DEF Elems
<1> QED
  BY <1>2, <1>4

\* The slot of a handler nothing happened to.
Stays(h) ==
  /\ jobs'[h] = jobs[h] \/ jobs'[h] = Terminated(h)
  /\ pipe'[h] = pipe[h] /\ working'[h] = working[h] /\ run_id'[h] = run_id[h] /\ after'[h] = after[h]
  /\ preparing'[h] = preparing[h] /\ remote_run'[h] = remote_run[h]
  /\ \/ conn'[h] = conn[h]
     \/ conn[h] = "off" /\ conn'[h] = "new"
     \/ conn[h] \in {"new", "up"} /\ conn'[h] \in {"up", "shut"}

LEMMA SameJobs ==
  ASSUME OwnTypes, NEW h \in Conns, jobs'[h] = jobs[h] \/ jobs'[h] = Terminated(h)
  PROVE  /\ \A j \in jobs'[h] : \E k \in jobs[h] : j.sub = k.sub /\ j.tok = k.tok /\ j.stage = k.stage
         /\ \A k \in jobs[h] : \E j \in jobs'[h] : j.sub = k.sub /\ j.tok = k.tok /\ j.stage = k.stage
         /\ (\A i, j \in jobs[h] : i.sub = j.sub /\ i.tok = j.tok => i = j)
              => \A i, j \in jobs'[h] : i.sub = j.sub /\ i.tok = j.tok => i = j
<1>1. CASE jobs'[h] = jobs[h]
  BY <1>1
<1>2. CASE jobs'[h] = Terminated(h)
  <2> DEFINE T(j) == [j EXCEPT !.kill = @ \/ (j.sub = working[h] /\ j.tok = run_id[h])]
  <2>1. /\ \A j \in Terminated(h) : \E k \in jobs[h] : j = T(k)
        /\ \A k \in jobs[h] : T(k) \in Terminated(h)
    BY DEF Terminated
  <2>2. \A j \in jobs[h] : T(j).sub = j.sub /\ T(j).tok = j.tok
    BY DEF OwnTypes, Job
  <2> HIDE DEF T
  <2>3. (\A i, j \in jobs[h] : i.sub = j.sub /\ i.tok = j.tok => i = j)
          => \A i, j \in Terminated(h) : i.sub = j.sub /\ i.tok = j.tok => i = j
    BY <2>1, <2>2
  <2> QED
    BY <1>2, <2>3, Terminated_Facts
<1> QED
  BY <1>1, <1>2

LEMMA SameRun ==
  ASSUME OwnTypes, NEW h \in Conns, jobs'[h] = jobs[h] \/ jobs'[h] = Terminated(h),
         pipe'[h] = pipe[h], working'[h] = working[h], run_id'[h] = run_id[h]
  PROVE  /\ RunPackets(h)' = RunPackets(h)
         /\ RunJobs(h)' = {} <=> RunJobs(h) = {}
         /\ Unprepared(h)' <=> Unprepared(h)
         /\ JobsOnce(h) => JobsOnce(h)'
<1>1. /\ \A j \in jobs'[h] : \E k \in jobs[h] : j.sub = k.sub /\ j.tok = k.tok /\ j.stage = k.stage
      /\ \A k \in jobs[h] : \E j \in jobs'[h] : j.sub = k.sub /\ j.tok = k.tok /\ j.stage = k.stage
      /\ (\A i, j \in jobs[h] : i.sub = j.sub /\ i.tok = j.tok => i = j)
           => \A i, j \in jobs'[h] : i.sub = j.sub /\ i.tok = j.tok => i = j
  BY SameJobs
<1>2. RunPackets(h)' = RunPackets(h)
  BY DEF RunPackets
<1>3. RunJobs(h)' = {} <=> RunJobs(h) = {}
  BY <1>1 DEF RunJobs
<1>4. Unprepared(h)' <=> Unprepared(h)
  <2>1. (\E j \in RunJobs(h)' : j.stage \in {"sent", "acked"}) <=> \E j \in RunJobs(h) : j.stage \in {"sent", "acked"}
    BY <1>1 DEF RunJobs
  <2> QED
    BY <1>2, <2>1 DEF Unprepared
<1>5. JobsOnce(h) => JobsOnce(h)'
  BY <1>1 DEF JobsOnce
<1> QED
  BY <1>2, <1>3, <1>4, <1>5

\* No packet begins the grading of a run that waits or that its worker has yet to prepare.
LEMMA NotBegun_Kept ==
  ASSUME BaseInv, NoUpdate, SoleRuns, \A g \in Conns : HandlerInv(g), NEW h \in Conns, Busy(h), NotBegun(h),
         RowStep(working[h]), working[h] \in Subs, Unprepared(h), h \in Remote
  PROVE  row'[working[h]] # [status |-> "G", dispatch_id |-> run_id[h]]
<1> DEFINE s == working[h]
           t == run_id[h]
<1>1. t \in issued[s] /\ t \in Tokens /\ row[s] \in Row
  <2>1. s \in Subs /\ s # None
    BY NoneFacts
  <2> QED
    BY <2>1 DEF BaseInv, TokensIssued, HandlerTokens, OwnTypes
<1>2. row[s] # [status |-> "G", dispatch_id |-> t]
  BY DEF NotBegun
<1>3. CASE Same(s)
  BY <1>2, <1>3 DEF Same
<1>4. CASE Renewed(s)
  BY <1>4 DEF Renewed
<1>5. CASE Failed(s)
  <2>1. \E st \in {"AB", "IE"} : row'[s] = [row[s] EXCEPT !.status = st]
    BY <1>5 DEF Failed, Marked
  <2> QED
    BY <1>1, <2>1 DEF Row
<1>6. CASE Advanced(s)
  <2>1. PICK g \in Conns : (Said(g, s, "ack") /\ Marked(s, "P")) \/ (Said(g, s, "begin") /\ Marked(s, "G"))
    BY <1>6 DEF Advanced
  <2>2. CASE Marked(s, "P")
    BY <1>1, <2>2 DEF Marked, Row
  <2>3. CASE Said(g, s, "begin") /\ Marked(s, "G")
    <3> DEFINE p == Head(pipe[g])
    <3>1. p.kind = "begin" /\ p.sub = s /\ CurrentRun(g, p) /\ pipe[g] # <<>>
      BY <2>3 DEF Said
    <3>2. p \in Elems(pipe[g])
      BY <3>1, TailElems DEF BaseInv, OwnTypes
    <3>3. working[g] = s
      BY <3>1, <3>2, CurrentRun_Facts
    <3>4. Live(g)
      BY <3>1 DEF HandlerInv, Drained, Live, LiveStates, BaseInv, JLInv, JLTypeOK, ConnStates
    <3>5. g = h
      BY <3>3, <3>4, NoneFacts DEF HandlerInv, SlotOf, Busy
    <3>6. run_id[g] = row[s].dispatch_id /\ p.job = row[s].dispatch_id
      BY <2>3, <3>1, <3>2, SaidRun, CurrentRun_Facts DEF RunsTold, NoUpdate
    <3>7. p \in RunPackets(h)
      BY <3>1, <3>2, <3>5, <3>6 DEF RunPackets
    <3> QED
      BY <3>1, <3>7 DEF HandlerInv, SlotOf, Preparing
  <2> QED
    BY <2>1, <2>2, <2>3
<1>7. CASE Ended(s)
  <2>1. PICK g \in Conns : /\ Said(g, s, "end") /\ row'[s] = [row[s] EXCEPT !.status = Head(pipe[g]).status]
    BY <1>7 DEF Ended
  <2>2. Head(pipe[g]) \in Packet
    BY <2>1, TailElems DEF Said, BaseInv, OwnTypes
  <2> QED
    BY <1>1, <2>1, <2>2 DEF Packet, Row, FINAL
<1> QED
  BY <1>3, <1>4, <1>5, <1>6, <1>7 DEF RowStep

LEMMA Stays_HandlerInv ==
  ASSUME BaseInv, NoUpdate, SoleRuns, JLMap, \A g \in Conns : HandlerInv(g), NEW h \in Conns, Stays(h),
         \A s \in Subs : RowStep(s),
         Busy(h) => submission_map'[working[h]] = submission_map[working[h]]
  PROVE  HandlerInv(h)'
<1>1. OwnTypes /\ HandlerInv(h)
  BY DEF BaseInv
<1>2. /\ RunPackets(h)' = RunPackets(h)
      /\ RunJobs(h)' = {} <=> RunJobs(h) = {}
      /\ Unprepared(h)' <=> Unprepared(h)
      /\ JobsOnce(h)'
  BY <1>1, SameRun DEF Stays, HandlerInv
<1>3. Drained(h)'
  BY <1>1 DEF Stays, HandlerInv, Drained
<1>4. BackOwn(h)'
  BY <1>1 DEF Stays, HandlerInv, BackOwn, PutBack
<1>5. Busy(h)' => Busy(h) /\ (conn'[h] # "shut" => conn[h] # "shut")
  BY DEF Stays, Busy, Live, LiveStates, JLMap, OffIdle
<1>6. ASSUME Busy(h)' PROVE /\ submission_map'[working'[h]] = h /\ Preparing(h)' /\ NotBegun(h)'
                            /\ conn'[h] # "shut" => Held(h)'
  <2>1. working[h] \in Subs /\ working'[h] = working[h] /\ run_id'[h] = run_id[h]
    BY <1>5, <1>6 DEF Busy, BaseInv, JLInv, JLTypeOK, Stays
  <2>2. submission_map[working[h]] = h /\ Preparing(h) /\ NotBegun(h) /\ (conn[h] # "shut" => Held(h))
    BY <1>1, <1>5, <1>6 DEF HandlerInv, SlotOf
  <2>3. Preparing(h)'
    BY <1>2, <2>2 DEF Preparing, Stays
  <2>4. NotBegun(h)'
    BY <1>2, <1>5, <1>6, <2>1, <2>2, NotBegun_Kept DEF NotBegun
  <2>5. Held(h) => Held(h)'
    BY <1>2 DEF Held, Stays
  <2> QED
    BY <1>5, <1>6, <2>1, <2>2, <2>3, <2>4, <2>5
<1> QED
  BY <1>2, <1>3, <1>4, <1>6 DEF HandlerInv, SlotOf

-----------------------------------------------------------------------------
(* The submissions that wait. *)

TraceKept(s) == \A h \in Conns : \A t : Trace(h, s, t)' => Trace(h, s, t)

LEMMA TraceLess ==
  ASSUME JobsKept, PipesKept, NEW s
  PROVE  TraceKept(s)
  BY DEF JobsKept, PipesKept, TraceKept, Trace

\* A run that waits is new to every worker; so is one that replaces it.
LEMMA Untouched_Kept ==
  ASSUME BaseInv, NoUpdate, SoleRuns, NEW s \in Subs, SubInv(s), RowStep(s),
         Awaiting(s) \/ Renewed(s), TraceKept(s)
  PROVE  Untouched(s)'
<1>1. OwnTypes /\ row[s] \in Row
  BY DEF BaseInv, OwnTypes
<1>2. \A h \in Conns : \A t : Trace(h, s, t) => t \in issued[s]
  BY DEF Trace, BaseInv, TokensIssued, WorkerTokens
<1>3. CASE Renewed(s)
  <2>1. PICK tok \in Fresh(s) : row'[s] = [status |-> "QU", dispatch_id |-> tok]
    BY <1>3 DEF Renewed
  <2>2. tok \in Tokens /\ tok \notin issued[s]
    BY <1>1, NextToken
  <2>3. \A h \in Conns : ~Trace(h, s, tok)'
    BY <1>2, <2>2 DEF TraceKept
  <2> QED
    BY <2>1, <2>3 DEF Untouched, Trace
<1>4. CASE ~Renewed(s)
  <2>1. Awaiting(s) /\ Untouched(s)
    BY <1>4 DEF SubInv
  <2>2. \A g \in Conns : \A kind : ~Said(g, s, kind)
    <3> SUFFICES ASSUME NEW g \in Conns, NEW kind, Said(g, s, kind) PROVE FALSE
      OBVIOUS
    <3> DEFINE p == Head(pipe[g])
    <3>1. p \in Elems(pipe[g]) /\ p.sub = s
      BY TailElems DEF Said, BaseInv, OwnTypes
    <3>2. p.job = row[s].dispatch_id
      BY SaidRun DEF RunsTold, NoUpdate
    <3> QED
      BY <2>1, <3>1, <3>2 DEF Untouched, Trace
  <2>3. Same(s) \/ Failed(s)
    BY <1>4, <2>2 DEF RowStep, Advanced, Ended
  <2>4. row'[s].dispatch_id = row[s].dispatch_id /\ row'[s].status # "G"
    BY <1>1, <2>1, <2>3 DEF Same, Failed, Marked, Row, Untouched
  <2>5. PICK t : t = row[s].dispatch_id
    OBVIOUS
  <2>6. \A h \in Conns : ~Trace(h, s, t)'
    BY <2>1, <2>5 DEF Untouched, TraceKept
  <2> QED
    BY <2>4, <2>5, <2>6 DEF Untouched, Trace
<1> QED
  BY <1>3, <1>4

\* Nobody takes up work on s.
LEMMA Unworked_Kept ==
  ASSUME JLMap, NEW s \in Subs, Unworked(s),
         \A h \in Conns : /\ working'[h] = s => working[h] = s
                          /\ Live(h)' => Live(h) \/ conn[h] = "off"
  PROVE  Unworked(s)'
  BY NoneFacts DEF Unworked, JLMap, OffIdle

\* Web threads hand runs over, give up or are answered; none begins.
AskedLess ==
  \/ handoffs' = handoffs
  \/ \E m \in handoffs : \/ handoffs' = handoffs \ {m}
                         \/ m.at # "done" /\ \E at : handoffs' = (handoffs \ {m}) \cup {[m EXCEPT !.at = at]}

LEMMA AskedLess_Facts ==
  ASSUME OwnTypes, AskedLess
  PROVE  /\ \A m \in handoffs' : m.at # "done" => \E k \in handoffs : k.at # "done" /\ k.req.id = m.req.id
         /\ AskedOnce => \A m, k \in handoffs' : m.at # "done" /\ k.at # "done" /\ k.req.id = m.req.id => k = m
<1>1. CASE handoffs' = handoffs
  BY <1>1 DEF AskedOnce
<1>2. ASSUME NEW m \in handoffs, handoffs' = handoffs \ {m}
      PROVE  /\ \A x \in handoffs' : x.at # "done" => \E k \in handoffs : k.at # "done" /\ k.req.id = x.req.id
             /\ AskedOnce => \A x, k \in handoffs' : x.at # "done" /\ k.at # "done" /\ k.req.id = x.req.id => k = x
  BY <1>2 DEF AskedOnce
<1>3. ASSUME NEW m \in handoffs, NEW at, m.at # "done", handoffs' = (handoffs \ {m}) \cup {[m EXCEPT !.at = at]}
      PROVE  /\ \A x \in handoffs' : x.at # "done" => \E k \in handoffs : k.at # "done" /\ k.req.id = x.req.id
             /\ AskedOnce => \A x, k \in handoffs' : x.at # "done" /\ k.at # "done" /\ k.req.id = x.req.id => k = x
  <2>1. PICK n : n = [m EXCEPT !.at = at]
    OBVIOUS
  <2>2. n.req = m.req
    BY <2>1 DEF OwnTypes, Handoff
  <2>3. \A x \in handoffs' : x = n \/ (x \in handoffs /\ x # m)
    BY <1>3, <2>1
  <2>4. \A x \in handoffs' : x.at # "done" => \E k \in handoffs : k.at # "done" /\ k.req.id = x.req.id
    BY <1>3, <2>2, <2>3
  <2>5. ASSUME AskedOnce, NEW x \in handoffs', NEW k \in handoffs', x.at # "done", k.at # "done", k.req.id = x.req.id
        PROVE  k = x
    BY <1>3, <2>2, <2>3, <2>5 DEF AskedOnce
  <2> QED
    BY <2>4, <2>5
<1> QED
  BY <1>1, <1>2, <1>3 DEF AskedLess

LEMMA AskedLess_Pending ==
  ASSUME OwnTypes, AskedLess, NEW s, Pending(s)'
  PROVE  Pending(s)
  BY AskedLess_Facts DEF Pending

\* A step of the website, or of a thread that only wakes the scheduler.
Calm ==
  /\ Quiet \/ ((\E ids : Dropped(ids)) /\ UNCHANGED <<submission_map, working, run_id, conn>>)
  /\ \A h \in Conns : jobs'[h] = jobs[h] \/ jobs'[h] = Terminated(h)
  /\ UNCHANGED <<pipe, after, preparing, remote_run>>

LEMMA Calm_Stays ==
  ASSUME Calm
  PROVE  submission_map' = submission_map /\ \A h \in Conns : Stays(h)
  BY DEF Calm, Stays, Quiet, ConnStep

LEMMA Calm_Sub ==
  ASSUME BaseInv, JLMap, Calm, NEW s \in Subs
  PROVE  /\ TraceKept(s)
         /\ Waits(s)' => Waits(s)
         /\ Unworked(s) => Unworked(s)'
         /\ (\E h \in Conns : PutBack(h) /\ working[h] = s)' => \E h \in Conns : PutBack(h) /\ working[h] = s
<1>1. \A h \in Conns : Stays(h)
  BY Calm_Stays
<1>2. Unworked(s) => Unworked(s)'
  BY <1>1, Unworked_Kept DEF Stays, Live, LiveStates
<1>3. TraceKept(s)
  <2>1. \A h \in Conns : \A j \in jobs'[h] : \E k \in jobs[h] : j.sub = k.sub /\ j.tok = k.tok
    BY SameJobs DEF Calm, BaseInv
  <2> QED
    BY <2>1 DEF TraceKept, Trace, Calm
<1>4. Waits(s)' => Waits(s)
  BY DEF Calm, Quiet, Dropped
<1>5. (\E h \in Conns : PutBack(h) /\ working[h] = s)' => \E h \in Conns : PutBack(h) /\ working[h] = s
  BY <1>1 DEF Stays, PutBack
<1> QED
  BY <1>2, <1>3, <1>4, <1>5

LEMMA SubInv_Kept ==
  ASSUME BaseInv, NoUpdate, SoleRuns, NEW s \in Subs, SubInv(s), RowStep(s), TraceKept(s),
         Waits(s)' => Waits(s), Pending(s)' => Pending(s), Unworked(s) => Unworked(s)',
         Renewed(s) \/ ((\E h \in Conns : PutBack(h) /\ working[h] = s)' => \E h \in Conns : PutBack(h) /\ working[h] = s)
  PROVE  SubInv(s)'
<1>1. Awaiting(s)' => Awaiting(s) \/ Renewed(s)
  BY DEF Awaiting
<1>2. Awaiting(s)' => Untouched(s)'
  BY <1>1, Untouched_Kept
<1> QED
  BY <1>2 DEF SubInv

QueueLess == \A s \in Subs : Waits(s)' => Waits(s)
LEMMA AskedOnce_Kept ==
  ASSUME OwnTypes, AskedOnce, AskedLess, QueueLess
  PROVE  AskedOnce'
<1>1. /\ \A m \in handoffs' : m.at # "done" => \E k \in handoffs : k.at # "done" /\ k.req.id = m.req.id
      /\ \A m, k \in handoffs' : m.at # "done" /\ k.at # "done" /\ k.req.id = m.req.id => k = m
  BY AskedLess_Facts
<1>2. ASSUME NEW m \in handoffs', m.at # "done" PROVE ~Waits(m.req.id)'
  <2>1. PICK s \in Subs : s = m.req.id /\ ~Waits(s)
    BY <1>1, <1>2 DEF OwnTypes, Handoff, Request, AskedOnce
  <2>2. ~Waits(s)'
    BY <2>1 DEF QueueLess
  <2> QED
    BY <2>1, <2>2 DEF Waits
<1> QED
  BY <1>1, <1>2 DEF AskedOnce, Waits

LEMMA Calm_HeldInv ==
  ASSUME BaseInv, NoUpdate, SoleRuns, JLMap, HeldInv, Calm, AskedLess, \A s \in Subs : RowStep(s)
  PROVE  HeldInv'
<1>1. OwnTypes /\ submission_map' = submission_map /\ \A h \in Conns : Stays(h)
  BY Calm_Stays DEF BaseInv
<1>2. ASSUME NEW h \in Conns PROVE HandlerInv(h)'
  BY <1>1, Stays_HandlerInv DEF HeldInv
<1>3. ASSUME NEW s \in Subs PROVE SubInv(s)'
  <2>1. SubInv(s) /\ (Pending(s)' => Pending(s))
    BY <1>1, AskedLess_Pending DEF HeldInv
  <2> QED
    BY <2>1, Calm_Sub, SubInv_Kept
<1>4. AskedOnce'
  BY <1>1, Calm_Sub, AskedOnce_Kept DEF QueueLess, HeldInv
<1> QED
  BY <1>2, <1>3, <1>4 DEF HeldInv

\* A submission is judged once: nothing is known of it before.
LEMMA JudgeSubmission_HeldInv ==
  ASSUME BaseInv, Once, NoUpdate, SoleRuns, JLMap, HeldInv, NEW s \in Subs, JudgeSubmission(s),
         \A x \in Subs : RowStep(x)
  PROVE  HeldInv'
<1>1. OwnTypes /\ row[s].dispatch_id = None /\ issued[s] = {}
  BY DEF BaseInv, TokensIssued, RowTokens, JudgeSubmission, Once
<1>2. Calm
  BY Same_Facts DEF JudgeSubmission, BaseInv, Calm, workerVars, runVars
<1> DEFINE q == [id |-> s, prio |-> IF row[s].status = "QU" THEN 1 ELSE REJUDGE_PRIORITY, judge_id |-> None, banned |-> {}]
<1>3. PICK tok \in Fresh(s) :
        /\ row' = [row EXCEPT ![s] = [status |-> "QU", dispatch_id |-> tok]]
        /\ issued' = [issued EXCEPT ![s] = @ \cup {tok}] /\ by' = by
        /\ handoffs' = handoffs \cup {[req |-> q, tok |-> tok, at |-> "web"]}
  BY DEF JudgeSubmission
<1>3a. q.id = s
  OBVIOUS
<1> HIDE DEF q
<1>4. Renewed(s)
  BY <1>1, <1>3 DEF Renewed, OwnTypes
<1>5. ~Waits(s) /\ Unworked(s) /\ \A m \in handoffs : m.req.id # s
  BY <1>1, NoneFacts DEF BaseInv, TokensIssued, ListTokens, HandlerTokens, HandoffTokens, Unworked
<1>6. submission_map' = submission_map /\ \A h \in Conns : Stays(h)
  BY <1>2, Calm_Stays
<1>7. ASSUME NEW h \in Conns PROVE HandlerInv(h)'
  BY <1>6, Stays_HandlerInv DEF HeldInv
<1>8. SubInv(s)'
  <2>1. Awaiting(s)' => Untouched(s)'
    BY <1>2, <1>4, Calm_Sub, Untouched_Kept DEF HeldInv
  <2>2. Unworked(s)'
    BY <1>2, <1>5, Calm_Sub
  <2> QED
    BY <2>1, <2>2 DEF SubInv
<1>9. ASSUME NEW x \in Subs, x # s PROVE SubInv(x)'
  <2>1. Pending(x)' => Pending(x)
    BY <1>3, <1>3a, <1>9 DEF Pending
  <2> QED
    BY <1>2, <2>1, Calm_Sub, SubInv_Kept DEF HeldInv
<1>10. AskedOnce'
  <2>1. ASSUME NEW m \in handoffs', m.at # "done" PROVE ~Waits(m.req.id)'
    <3>1. PICK x \in Subs : x = m.req.id /\ ~Waits(x)
      BY <1>1, <1>3, <1>3a, <1>5, <2>1 DEF OwnTypes, Handoff, Request, AskedOnce, HeldInv
    <3>2. ~Waits(x)'
      BY <1>2, <3>1, Calm_Sub
    <3> QED
      BY <3>1, <3>2 DEF Waits
  <2>2. \A m, k \in handoffs' : m.at # "done" /\ k.at # "done" /\ k.req.id = m.req.id => k = m
    <3>1. \A m, k \in handoffs : m.at # "done" /\ k.at # "done" /\ k.req.id = m.req.id => k = m
      BY DEF HeldInv, AskedOnce
    <3> QED
      BY <1>3, <1>3a, <1>5, <3>1
  <2> QED
    BY <2>1, <2>2 DEF AskedOnce, Waits
<1>11. \A x \in Subs : SubInv(x)'
  BY <1>8, <1>9
<1> QED
  BY <1>7, <1>10, <1>11 DEF HeldInv

\* The bridge takes a request: it is gone, and the submission waits if nobody works on it.
LEMMA OnSubmission_HeldInv ==
  ASSUME BaseInv, NoUpdate, SoleRuns, JLMap, HeldInv, NEW m \in handoffs, OnSubmission(m),
         \A x \in Subs : RowStep(x)
  PROVE  HeldInv'
<1> DEFINE s == m.req.id
<1>1. OwnTypes /\ m.req \in Request /\ s \in Subs /\ m.tok \in Tokens /\ m.at # "done" /\ Pending(s)
  BY DEF BaseInv, OwnTypes, Handoff, Request, OnSubmission, Pending
<1>2. /\ Known(s, m.tok) \/ BeingJudged(s, m.tok) \/ Accepted(s, m.tok)
      /\ submission_map' = submission_map /\ working' = working /\ run_id' = run_id /\ conn' = conn
  BY <1>1, judge_Facts DEF OnSubmission, BaseInv
<1>3. UNCHANGED <<dbVars, workerVars, runVars>>
  BY DEF OnSubmission
<1>4. \A k \in handoffs' : k.at # "done" => k \in handoffs /\ k # m
  <2>1. [m EXCEPT !.at = "done"].at = "done"
    BY <1>1 DEF OwnTypes, Handoff
  <2> QED
    BY <2>1 DEF OnSubmission
<1>5. \A k \in handoffs' : k.at # "done" => k.req.id # s /\ ~Waits(k.req.id)
  BY <1>1, <1>4 DEF HeldInv, AskedOnce
<1>6. ASSUME NEW h \in Conns PROVE HandlerInv(h)'
  <2>1. Stays(h)
    BY <1>2, <1>3 DEF Stays, workerVars, runVars
  <2> QED
    BY <1>2, <2>1, Stays_HandlerInv DEF HeldInv
<1>7. ASSUME NEW x \in Subs PROVE SubInv(x)' /\ (x # s => (Waits(x)' => Waits(x)))
  <2>1. Waits(x)' => Waits(x) \/ x = s
    BY <1>2 DEF Known, BeingJudged, Accepted
  <2>2. Pending(x)' => Pending(x)
    BY <1>4 DEF Pending
  <2>3. Unworked(x)' <=> Unworked(x)
    BY <1>2 DEF Unworked, Live
  <2>4. Awaiting(x)' => Awaiting(x)
    BY <1>1, <1>2, <1>3, <2>1, <2>2 DEF Awaiting, PutBack, runVars
  <2>5. TraceKept(x)
    BY <1>3 DEF TraceKept, Trace, workerVars
  <2>6. SubInv(x) /\ RowStep(x)
    BY DEF HeldInv
  <2>7. Awaiting(x)' => Untouched(x)'
    BY <2>4, <2>5, <2>6, Untouched_Kept
  <2> QED
    BY <1>1, <2>1, <2>2, <2>3, <2>6, <2>7 DEF SubInv
<1>8. AskedOnce'
  <2>1. ASSUME NEW k \in handoffs', k.at # "done" PROVE ~Waits(k.req.id)'
    <3>1. PICK x \in Subs : x = k.req.id /\ ~Waits(x) /\ x # s
      BY <1>1, <1>4, <1>5, <2>1 DEF OwnTypes, Handoff, Request
    <3>2. ~Waits(x)'
      BY <1>7, <3>1
    <3> QED
      BY <3>1, <3>2 DEF Waits
  <2> QED
    BY <1>4, <2>1 DEF AskedOnce, HeldInv, Waits
<1>9. \A x \in Subs : SubInv(x)'
  BY <1>7
<1> QED
  BY <1>6, <1>8, <1>9 DEF HeldInv

-----------------------------------------------------------------------------
(* Dispatch and the workers. *)

\* The handler that is given the run of s starts it afresh.
LEMMA Offer_Slot ==
  ASSUME BaseInv, JLMap, HeldInv, NEW g \in Conns, NEW s \in Subs, Offered(g, s, "ok", row[s].dispatch_id),
         Submit(g, s, "ok"), Live(g), working[g] = None
  PROVE  HandlerInv(g)'
<1> DEFINE t == row[s].dispatch_id
           n == Sending(s)
<1>1. OwnTypes /\ HandlerInv(g) /\ Untouched(s) /\ after[g] \in Callback \cup {None}
  BY DEF BaseInv, OwnTypes, HeldInv, SubInv, Awaiting, Offered
<1>2. /\ working'[g] = s /\ run_id'[g] = t /\ submission_map'[s] = g /\ conn' = conn
      /\ jobs'[g] = jobs[g] \cup {n} /\ pipe' = pipe /\ after' = after /\ row' = row
      /\ preparing'[g] = (g \in Remote) /\ remote_run'[g] = (g \in Remote)
  <2>1. "ok" # "failed" /\ "ok" # "invalid"
    OBVIOUS
  <2> QED
    BY DEF Offered, Submit, Sent, Answer, Sending, BaseInv, OwnTypes, JLInv, JLTypeOK
<1>3. n.sub = s /\ n.tok = t /\ n.stage = "sent"
  BY DEF Sending
<1>4. /\ \A j \in jobs[g] : ~(j.sub = s /\ j.tok = t)
      /\ \A p \in Elems(pipe[g]) : ~(p.sub = s /\ p.job = t)
  BY <1>1 DEF Untouched, Trace
<1> HIDE DEF n, t
<1>5. JobsOnce(g)'
  <2>1. \A i, j \in jobs[g] : i.sub = j.sub /\ i.tok = j.tok => i = j
    BY <1>1 DEF HandlerInv, JobsOnce
  <2>2. \A i, j \in jobs'[g] : i.sub = j.sub /\ i.tok = j.tok => i = j
    BY <1>2, <1>3, <1>4, <2>1
  <2>3. \A j \in jobs'[g] : \A p \in Elems(pipe[g]) : Terminal(p) => p.sub # j.sub \/ p.job # j.tok
    BY <1>1, <1>2, <1>3, <1>4 DEF HandlerInv, JobsOnce
  <2> QED
    BY <1>1, <1>2, <2>2, <2>3 DEF HandlerInv, JobsOnce
<1>6. Drained(g)'
  BY <1>1, <1>2 DEF HandlerInv, Drained
<1>7. ~PutBack(g)'
  BY <1>1, <1>2, NoneFacts DEF HandlerInv, BackOwn, PutBack, Callback
<1>8. RunPackets(g)' = {}
  BY <1>2, <1>4 DEF RunPackets
<1>9. n \in RunJobs(g)'
  BY <1>2, <1>3 DEF RunJobs
<1>10. Preparing(g)'
  BY <1>2, <1>8 DEF Preparing
<1>11. NotBegun(g)'
  <2>1. row'[s].status # "G"
    BY <1>1, <1>2 DEF Untouched
  <2> QED
    BY <1>2, <2>1 DEF NotBegun
<1>12. Held(g)'
  BY <1>9 DEF Held
<1> QED
  BY <1>2, <1>5, <1>6, <1>7, <1>10, <1>11, <1>12 DEF HandlerInv, BackOwn, SlotOf

\* A handler without work.
LEMMA IdleSlot ==
  ASSUME NEW h \in Conns, JobsOnce(h), Drained(h), BackOwn(h), ~Busy(h)
  PROVE  HandlerInv(h)
  BY DEF HandlerInv, SlotOf

LEMMA Offer_HeldInv ==
  ASSUME BaseInv, NoUpdate, SoleRuns, JLMap, HeldInv, NEW g \in Conns, NEW s \in Subs, NEW out \in Outcomes,
         Offered(g, s, out, row[s].dispatch_id), Submit(g, s, out), Live(g), working[g] = None,
         \A x \in Subs : RowStep(x)
  PROVE  HeldInv'
<1>1. OwnTypes /\ JLTypeOK /\ Waits(s) /\ SubInv(s) /\ Unworked(s)
  BY DEF BaseInv, JLInv, HeldInv, SubInv, Offered
<1>2. /\ handoffs' = handoffs /\ pipe' = pipe /\ after' = after
      /\ \A h \in Conns : jobs'[h] = jobs[h] \/ (h = g /\ out = "ok" /\ jobs'[h] = jobs[h] \cup {Sending(s)})
      /\ \A h \in Conns : h # g => preparing'[h] = preparing[h] /\ remote_run'[h] = remote_run[h]
  BY <1>1 DEF Submit, Sent, Sending, webVars, OwnTypes
<1>3. /\ \A h \in Conns : h # g => working'[h] = working[h] /\ run_id'[h] = run_id[h]
      /\ out # "ok" => working'[g] = None
      /\ out = "ok" => working'[g] = s
      /\ \A h \in Conns : h # g => conn'[h] = conn[h]
      /\ conn'[g] \in LiveStates
      /\ \A x \in Subs : x # s => submission_map'[x] = submission_map[x]
  <2>1. Shut(g) \in LiveStates /\ conn[g] \in LiveStates
    BY <1>1, ShutFacts DEF Live
  <2> QED
    BY <1>1, <2>1 DEF Offered, JLTypeOK
<1>4. ASSUME NEW h \in Conns, h # g PROVE HandlerInv(h)'
  <2>1. Stays(h)
    BY <1>2, <1>3, <1>4 DEF Stays
  <2>2. Busy(h) => submission_map'[working[h]] = submission_map[working[h]]
    BY <1>1, <1>3 DEF Busy, Unworked, JLTypeOK
  <2> QED
    BY <2>1, <2>2, Stays_HandlerInv DEF HeldInv
<1>5. HandlerInv(g)'
  <2>1. CASE out = "ok"
    BY <2>1, Offer_Slot
  <2>2. CASE out # "ok"
    <3>1. /\ jobs'[g] = jobs[g] /\ pipe'[g] = pipe[g] /\ working'[g] = None
          /\ working'[g] = working[g] /\ HandlerInv(g)
      BY <1>2, <1>3, <2>2 DEF HeldInv
    <3>2. JobsOnce(g)'
      BY <3>1 DEF HandlerInv, JobsOnce
    <3>3. Drained(g)'
      BY <1>3 DEF Drained, LiveStates
    <3>4. BackOwn(g)' /\ ~Busy(g)'
      BY <1>2, <3>1 DEF HandlerInv, BackOwn, PutBack, Busy
    <3> QED
      BY <3>2, <3>3, <3>4 DEF HandlerInv, SlotOf
  <2> QED
    BY <2>1, <2>2
<1>6. ~Pending(s)
  BY <1>1 DEF Pending, HeldInv, AskedOnce
<1>7. ASSUME NEW x \in Subs PROVE SubInv(x)'
  <2>1. /\ SubInv(x) /\ (Pending(x)' <=> Pending(x))
        /\ Waits(x)' => Waits(x) /\ (x = s => out # "ok")
    BY <1>2 DEF HeldInv, Pending, Offered
  <2>2. (\E h \in Conns : PutBack(h) /\ working[h] = x)' => \E h \in Conns : PutBack(h) /\ working[h] = x
    <3>1. ~PutBack(g)
      BY <1>1, NoneFacts DEF HeldInv, HandlerInv, BackOwn, PutBack, OwnTypes, Callback
    <3> QED
      BY <1>2, <1>3, <3>1 DEF PutBack
  <2>3. CASE x = s /\ out = "ok"
    <3>1. ~(\E h \in Conns : PutBack(h) /\ working[h] = s)
      BY <1>1 DEF Unworked, PutBack, Live, LiveStates, BaseInv, RemoteOnly
    <3>2. ~Waits(s)' /\ ~Pending(s)'
      BY <1>6, <2>1, <2>3
    <3>3. ~Awaiting(s)'
      BY <2>2, <2>3, <3>1, <3>2 DEF Awaiting
    <3> QED
      BY <2>3, <3>2, <3>3 DEF SubInv
  <2>4. CASE ~(x = s /\ out = "ok")
    <3>1. TraceKept(x)
      BY <1>2, <2>4 DEF TraceKept, Trace, Sending
    <3>2. Unworked(x) => Unworked(x)'
      BY <1>3, <2>4, NoneFacts DEF Unworked, Live
    <3> QED
      BY <2>1, <2>2, <3>1, <3>2, SubInv_Kept
  <2> QED
    BY <2>3, <2>4
<1>8. AskedOnce'
  <2>1. QueueLess
    BY DEF QueueLess, Offered
  <2> QED
    BY <1>1, <1>2, <2>1, AskedOnce_Kept DEF AskedLess, HeldInv
<1> QED
  BY <1>4, <1>5, <1>7, <1>8 DEF HeldInv

\* A worker goes on with a job, or ends it.
LEMMA Worker_Slot ==
  ASSUME BaseInv, JLMap, NoUpdate, SoleRuns, HeldInv, NEW g \in Conns, NEW j \in jobs[g], NEW p, NEW rest,
         WorkerStep(g, j, p, rest)
  PROVE  HandlerInv(g)'
<1>1. OwnTypes /\ HandlerInv(g) /\ jobs[g] \in SUBSET Job /\ pipe[g] \in Seq(Packet)
  BY DEF BaseInv, OwnTypes, HeldInv
<1>2. /\ jobs'[g] = (jobs[g] \ {j}) \cup rest /\ pipe'[g] = Append(pipe[g], p)
      /\ p \in Packet /\ p.sub = j.sub /\ p.job = j.tok
      /\ \A k \in rest : k \in Job /\ k.sub = j.sub /\ k.tok = j.tok /\ k.stage # "sent"
      /\ \A k, l \in rest : k = l
      /\ Terminal(p) <=> rest = {}
      /\ p.kind = "ack" <=> j.stage = "sent"
      /\ p.kind = "unavailable" => g \in Remote /\ j.stage = "acked"
      /\ p.kind \in {"prepared", "begin"} => \A k \in rest : k.stage # "acked"
      /\ conn[g] \in {"new", "up"}
  BY <1>1 DEF WorkerStep, OwnTypes
<1>3. UNCHANGED <<working, run_id, conn, submission_map, after, preparing, remote_run, row>>
  BY DEF WorkerStep, jlVars, listVars, handlerVars, dbVars, runVars
<1>4. Elems(pipe'[g]) = Elems(pipe[g]) \cup {p}
  BY <1>1, <1>2, AppendElems
<1>5. /\ \A i, k \in jobs[g] : i.sub = k.sub /\ i.tok = k.tok => i = k
      /\ \A k \in jobs[g] : \A e \in Elems(pipe[g]) : Terminal(e) => e.sub # k.sub \/ e.job # k.tok
      /\ \A e \in Elems(pipe[g]) : e.kind = "unavailable" => g \in Remote
  BY <1>1 DEF HandlerInv, JobsOnce
<1>6. JobsOnce(g)'
  <2>1. \A i, k \in jobs'[g] : i.sub = k.sub /\ i.tok = k.tok => i = k
    BY <1>2, <1>5
  <2>2. \A k \in jobs'[g] : \A e \in Elems(pipe[g]) : Terminal(e) => e.sub # k.sub \/ e.job # k.tok
    BY <1>2, <1>5
  <2>3. \A k \in jobs'[g] : Terminal(p) => p.sub # k.sub \/ p.job # k.tok
    BY <1>2, <1>5
  <2> QED
    BY <1>2, <1>4, <1>5, <2>1, <2>2, <2>3 DEF JobsOnce
<1>7. Drained(g)' /\ BackOwn(g)'
  BY <1>1, <1>2, <1>3 DEF HandlerInv, Drained, BackOwn, PutBack
<1>8. ASSUME Busy(g)' PROVE Preparing(g)' /\ NotBegun(g)' /\ Held(g)' /\ submission_map'[working'[g]] = g
  <2>1. Busy(g) /\ submission_map[working[g]] = g /\ Preparing(g) /\ NotBegun(g) /\ Held(g)
    BY <1>1, <1>2, <1>3, <1>8 DEF Busy, Live, HandlerInv, SlotOf
  <2> DEFINE own == j.sub = working[g] /\ j.tok = run_id[g]
  <2>2. CASE ~own
    <3>1. RunJobs(g)' = RunJobs(g)
      BY <1>2, <1>3, <2>2 DEF RunJobs
    <3>2. RunPackets(g)' = RunPackets(g)
      BY <1>2, <1>3, <1>4, <2>2 DEF RunPackets
    <3>3. Unprepared(g)' <=> Unprepared(g)
      BY <3>1, <3>2 DEF Unprepared
    <3> QED
      BY <1>3, <2>1, <3>1, <3>2, <3>3 DEF Preparing, NotBegun, Held
  <2>3. CASE own
    <3>1. RunJobs(g) = {j} /\ RunJobs(g)' = rest
      BY <1>2, <1>3, <1>5, <2>3 DEF RunJobs
    <3>2. RunPackets(g)' = RunPackets(g) \cup {p}
      BY <1>2, <1>3, <1>4, <2>3 DEF RunPackets
    <3>3. \A e \in RunPackets(g) : ~Terminal(e)
      BY <1>5, <2>3 DEF RunPackets
    <3>4. Held(g)'
      BY <1>2, <3>1, <3>2 DEF Held
    <3>5. ASSUME Unprepared(g)' PROVE Unprepared(g) /\ p.kind \notin {"prepared", "begin"}
      <4>1. CASE \E k \in rest : k.stage \in {"sent", "acked"}
        <5>1. p.kind \notin {"prepared", "begin"} /\ ~Terminal(p)
          BY <1>2, <4>1
        <5>2. p.kind = "ack"
          BY <1>2, <5>1 DEF Packet, Kinds, Terminal
        <5> QED
          BY <1>2, <3>1, <5>1, <5>2 DEF Unprepared
      <4>2. CASE \E e \in RunPackets(g) \cup {p} : e.kind = "unavailable"
        <5>1. p.kind = "unavailable"
          BY <3>3, <4>2 DEF Terminal
        <5> QED
          BY <1>2, <3>1, <5>1 DEF Unprepared
      <4> QED
        BY <3>1, <3>2, <3>5, <4>1, <4>2 DEF Unprepared
    <3>6. Preparing(g)'
      BY <1>3, <2>1, <3>2, <3>5 DEF Preparing
    <3>7. NotBegun(g)'
      BY <1>3, <2>1, <3>5 DEF NotBegun
    <3> QED
      BY <1>3, <2>1, <3>4, <3>6, <3>7
  <2> QED
    BY <2>2, <2>3
<1> QED
  BY <1>6, <1>7, <1>8 DEF HandlerInv, SlotOf

LEMMA Worker_HeldInv ==
  ASSUME BaseInv, JLMap, NoUpdate, SoleRuns, HeldInv, NEW g \in Conns, NEW j \in jobs[g], NEW p, NEW rest,
         WorkerStep(g, j, p, rest), \A x \in Subs : RowStep(x)
  PROVE  HeldInv'
<1>1. OwnTypes /\ Quiet /\ UNCHANGED <<handoffs, after, preparing, remote_run>>
  BY Same_Facts DEF BaseInv, WorkerStep, webVars, runVars
<1>2. /\ \A h \in Conns : h # g => jobs'[h] = jobs[h] /\ pipe'[h] = pipe[h]
      /\ jobs'[g] = (jobs[g] \ {j}) \cup rest /\ pipe'[g] = Append(pipe[g], p)
      /\ p \in Packet /\ p.sub = j.sub /\ p.job = j.tok
      /\ \A k \in rest : k.sub = j.sub /\ k.tok = j.tok
  BY <1>1 DEF WorkerStep, OwnTypes
<1>3. ASSUME NEW h \in Conns PROVE HandlerInv(h)'
  <2>1. CASE h = g
    BY <2>1, Worker_Slot
  <2>2. CASE h # g
    <3>1. Stays(h)
      BY <1>1, <1>2, <2>2 DEF Stays, Quiet, ConnStep
    <3> QED
      BY <1>1, <3>1, Stays_HandlerInv DEF Quiet, HeldInv
  <2> QED
    BY <2>1, <2>2
<1>4. ASSUME NEW x \in Subs PROVE SubInv(x)'
  <2>1. TraceKept(x)
    <3>1. Elems(pipe'[g]) = Elems(pipe[g]) \cup {p}
      BY <1>1, <1>2, AppendElems DEF OwnTypes
    <3>2. ASSUME NEW h \in Conns, NEW t, Trace(h, x, t)' PROVE Trace(h, x, t)
      BY <1>2, <3>1, <3>2 DEF Trace
    <3> QED
      BY <3>2 DEF TraceKept
  <2>2. Unworked(x) => Unworked(x)'
    BY <1>1, Unworked_Kept DEF Quiet, ConnStep, Live, LiveStates
  <2>3. (Waits(x)' => Waits(x)) /\ (Pending(x)' => Pending(x))
    BY <1>1 DEF Quiet, Pending
  <2>4. (\E h \in Conns : PutBack(h) /\ working[h] = x)' => \E h \in Conns : PutBack(h) /\ working[h] = x
    BY <1>1 DEF Quiet, PutBack
  <2> QED
    BY <2>1, <2>2, <2>3, <2>4, SubInv_Kept DEF HeldInv
<1>5. AskedOnce'
  BY <1>1, AskedOnce_Kept DEF AskedLess, QueueLess, Quiet, HeldInv
<1> QED
  BY <1>3, <1>4, <1>5 DEF HeldInv

-----------------------------------------------------------------------------
(* The packets and the callbacks of a handler g. *)

\* What happens to g leaves the slots of the other handlers alone.
LEMMA Others_HandlerInv ==
  ASSUME BaseInv, NoUpdate, SoleRuns, JLMap, HeldInv, NEW g \in Conns,
         \A h \in Conns : h # g => Stays(h),
         \A x \in Subs : submission_map'[x] = submission_map[x] \/ submission_map[x] = g,
         \A x \in Subs : RowStep(x)
  PROVE  \A h \in Conns : h # g => HandlerInv(h)'
<1> SUFFICES ASSUME NEW h \in Conns, h # g PROVE HandlerInv(h)'
  OBVIOUS
<1>1. Busy(h) => submission_map'[working[h]] = submission_map[working[h]]
  BY DEF HeldInv, HandlerInv, SlotOf, Busy, BaseInv, JLInv, JLTypeOK
<1> QED
  BY <1>1, Stays_HandlerInv DEF HeldInv

\* The last packet of a run makes its handler free the slot.
LEMMA LastPacket ==
  ASSUME BaseInv, Once, NEW g \in Conns, HandlerInv(g), HandlePacket(g), Busy(g),
         Head(pipe[g]) \in RunPackets(g), Terminal(Head(pipe[g]))
  PROVE  after'[g] # None /\ after'[g].op # "abort" /\ after'[g].sub = working[g]
<1> DEFINE p == Head(pipe[g])
<1>1. p \in Elems(pipe[g]) /\ p.sub = working[g] /\ p.job = run_id[g]
  BY DEF RunPackets
<1>2. p.did = IF g \in Echo THEN run_id[g] ELSE None
  BY <1>1 DEF BaseInv, EchoTrue
<1>3. ~Ignored(g, p)
  BY <1>2, RemoteAssumption, EchoAssumption DEF Ignored, BaseInv, RemoteOnly
<1>4. Preparing(g) /\ NotBegun(g) /\ (p.kind = "unavailable" => g \in Remote)
  BY <1>1 DEF HandlerInv, SlotOf, JobsOnce
<1>5. working[g] \in Subs /\ working[g] # None /\ after \in [Conns -> Callback \cup {None}]
  BY DEF Busy, BaseInv, JLInv, JLTypeOK, OwnTypes
<1>6. \A op \in {"release", "defer"} : \A tok :
        LET c == [op |-> op, sub |-> working[g], tok |-> tok] IN
        tok \in Tokens \cup {None} => c # None /\ c.op # "abort" /\ c.sub = working[g]
  BY <1>5, NoCallbackAssumption DEF Callback
<1>7. CASE CurrentRun(g, p) /\ Handled(g, p)
  <2>1. InProgress(working[g]) /\ row[working[g]].dispatch_id = run_id[g] /\ row[working[g]] \in Row
    BY <1>1, <1>5, <1>7, CurrentRun_Facts DEF BaseInv, OwnTypes
  <2>2. CASE p.kind = "end"
    BY <1>1, <1>5, <1>6, <1>7, <2>2 DEF Handled, OnAcknowledged, OnPrepared, OnGradingBegin, OnRunEnd, OnUnavailable, Then
  <2>3. CASE p.kind = "unavailable"
    <3>1. g \in Remote /\ Unprepared(g)
      BY <1>4, <2>3 DEF Unprepared
    <3>2. remote_run[g] /\ preparing[g] /\ row[working[g]] # [status |-> "G", dispatch_id |-> run_id[g]]
      BY <1>4, <3>1 DEF Preparing, NotBegun
    <3>3. row[working[g]].status # "G"
      BY <2>1, <3>2 DEF Row
    <3>4. Retryable(g)
      BY <2>1, <3>2, <3>3 DEF Retryable, InProgress, IN_PROGRESS
    <3>5. OnUnavailable(g, p)
      BY <1>7, <2>3 DEF Handled, OnAcknowledged, OnPrepared, OnGradingBegin, OnRunEnd
    <3>6. \E tok : Requeued(g, "defer", tok)
      BY <1>5, <3>2, <3>4, <3>5, Requeue_Facts DEF OnUnavailable
    <3>7. PICK tok : Requeued(g, "defer", tok)
      BY <3>6
    <3>8. tok \in Tokens
      BY <3>7 DEF Requeued, Fresh
    <3> QED
      BY <1>5, <1>6, <3>7, <3>8 DEF Requeued
  <2> QED
    BY <2>2, <2>3 DEF Terminal
<1>8. CASE Stale(g, p)
  BY <1>1, <1>2, <1>5, <1>6, <1>8 DEF Stale, Then
<1> QED
  BY <1>3, <1>7, <1>8 DEF HandlePacket, Once

LEMMA HandlePacket_Slot ==
  ASSUME BaseInv, Once, NoUpdate, SoleRuns, JLMap, HeldInv, NEW g \in Conns, HandlePacket(g),
         \A x \in Subs : RowStep(x)
  PROVE  HandlerInv(g)'
<1> DEFINE p == Head(pipe[g])
<1>1. /\ OwnTypes /\ HandlerInv(g) /\ after[g] = None /\ conn[g] \in {"up", "shut"}
      /\ pipe[g] # <<>> /\ pipe[g] \in Seq(Packet) /\ pipe'[g] = Tail(pipe[g])
      /\ UNCHANGED <<jobs, submission_map, working, run_id, conn, remote_run>>
  BY DEF HandlePacket, Reading, packetJl, listVars, BaseInv, OwnTypes, HeldInv
<1>2. p \in Elems(pipe[g]) /\ Elems(pipe[g]) = Elems(pipe'[g]) \cup {p}
  BY <1>1, HeadTailElems, TailElems
<1>3. JobsOnce(g)' /\ Drained(g)'
  BY <1>1, <1>2 DEF HandlerInv, JobsOnce, Drained
<1>4. BackOwn(g)'
  <2>1. CASE Plain(g, p)
    BY <1>1, <2>1 DEF Plain, Called, BackOwn, PutBack, OwnTypes
  <2>2. ASSUME NEW tok, Requeued(g, "defer", tok) PROVE BackOwn(g)'
    BY <1>1, <2>2 DEF Requeued, BackOwn, OwnTypes
  <2> QED
    BY <2>1, <2>2, HandlePacket_Facts
<1>5. /\ RunJobs(g)' = RunJobs(g)
      /\ RunPackets(g)' \subseteq RunPackets(g) /\ RunPackets(g) \subseteq RunPackets(g)' \cup {p}
  BY <1>1, <1>2 DEF RunJobs, RunPackets
<1>6. Unprepared(g)' => Unprepared(g)
  BY <1>5 DEF Unprepared
<1>7. ASSUME Busy(g)' PROVE /\ submission_map'[working'[g]] = g /\ Preparing(g)' /\ NotBegun(g)'
                            /\ conn'[g] # "shut" => Held(g)'
  <2>1. /\ Busy(g) /\ submission_map[working[g]] = g /\ Preparing(g) /\ NotBegun(g)
        /\ conn[g] # "shut" => Held(g)
        /\ working[g] \in Subs
    BY <1>1, <1>7 DEF Busy, Live, HandlerInv, SlotOf, BaseInv, JLInv, JLTypeOK
  <2>2. NotBegun(g)'
    BY <1>1, <1>6, <2>1, NotBegun_Kept DEF NotBegun, HeldInv
  <2>3. Preparing(g)'
    <3> SUFFICES ASSUME g \in Remote, Unprepared(g)' PROVE preparing'[g]
      BY <1>1, <1>5, <1>6, <2>1 DEF Preparing
    <3>1. preparing[g] /\ \A e \in RunPackets(g) : e.kind \notin {"prepared", "begin"}
      BY <1>6, <2>1 DEF Preparing
    <3>2. preparing' = preparing \/ (p.kind = "prepared" /\ CurrentRun(g, p))
      BY DEF HandlePacket, packetVars, Handled, OnAcknowledged, OnPrepared, OnGradingBegin, OnRunEnd, OnUnavailable, Stale
    <3>3. p.kind = "prepared" /\ CurrentRun(g, p) => p \in RunPackets(g)
      BY <1>2, CurrentRun_Facts, RemoteAssumption, EchoAssumption DEF RunPackets
    <3> QED
      BY <3>1, <3>2, <3>3
  <2>4. conn'[g] # "shut" => Held(g)'
    <3> SUFFICES ASSUME conn[g] # "shut" PROVE Held(g)'
      BY <1>1
    <3>1. Held(g)
      BY <2>1
    <3>2. CASE RunJobs(g) # {}
      BY <1>5, <3>2 DEF Held
    <3>3. ASSUME NEW e \in RunPackets(g), Terminal(e) PROVE Held(g)'
      <4>1. CASE e = p
        BY <1>1, <2>1, <3>3, <4>1, LastPacket DEF Held
      <4>2. CASE e # p
        BY <1>5, <3>3, <4>2 DEF Held
      <4> QED
        BY <4>1, <4>2
    <3> QED
      BY <1>1, <3>1, <3>2, <3>3 DEF Held
  <2> QED
    BY <1>1, <2>1, <2>2, <2>3, <2>4
<1> QED
  BY <1>3, <1>4, <1>7 DEF HandlerInv, SlotOf

\* A run that goes back to the queue is a new one.
LEMMA Requeued_Renewed ==
  ASSUME OwnTypes, NEW g \in Conns, NEW op, NEW tok, Requeued(g, op, tok), Retryable(g), by' = by
  PROVE  Renewed(working[g])
  BY DEF Requeued, Renewed, OwnTypes

LEMMA HandlePacket_HeldInv ==
  ASSUME BaseInv, Once, NoUpdate, SoleRuns, JLMap, HeldInv, NEW g \in Conns, HandlePacket(g),
         \A x \in Subs : RowStep(x)
  PROVE  HeldInv'
<1> DEFINE p == Head(pipe[g])
<1>1. /\ OwnTypes /\ UNCHANGED <<jobs, listVars, working, run_id, conn, remote_run, handoffs, lockVars>>
      /\ pipe[g] # <<>> /\ pipe' = [pipe EXCEPT ![g] = Tail(@)]
  BY DEF HandlePacket, packetJl, webVars, BaseInv
<1>2. PipesKept /\ JobsKept
  BY <1>1, PipeHead DEF JobsKept
<1>3. \A h \in Conns : h # g => after'[h] = after[h] /\ preparing'[h] = preparing[h]
  <2>1. CASE Plain(g, p)
    <3>1. \A h \in Conns : h # g => after'[h] = after[h]
      BY <2>1 DEF Plain, Called, BaseInv, OwnTypes
    <3>2. \A h \in Conns : h # g => preparing'[h] = preparing[h]
      BY <2>1 DEF Plain, BaseInv, OwnTypes
    <3> QED
      BY <3>1, <3>2
  <2>2. ASSUME NEW tok, Requeued(g, "defer", tok), preparing' = preparing
        PROVE  \A h \in Conns : h # g => after'[h] = after[h] /\ preparing'[h] = preparing[h]
    BY <2>2 DEF Requeued, BaseInv, OwnTypes
  <2> QED
    BY <2>1, <2>2, HandlePacket_Facts
<1>4. PutBack(g)' => Renewed(working[g])
  <2>1. CASE Plain(g, p)
    BY <2>1, NoneFacts DEF Plain, Called, PutBack, BaseInv, OwnTypes, HandlePacket, Reading
  <2>2. ASSUME NEW tok, Requeued(g, "defer", tok), Retryable(g), by' = by PROVE Renewed(working[g])
    BY <1>1, <2>2, Requeued_Renewed
  <2> QED
    BY <2>1, <2>2, HandlePacket_Facts
<1>5. \A h \in Conns : h # g => HandlerInv(h)'
  <2>1. \A h \in Conns : h # g => Stays(h)
    BY <1>1, <1>3 DEF Stays, OwnTypes
  <2> QED
    BY <1>1, <2>1, Others_HandlerInv DEF listVars
<1>6. ASSUME NEW x \in Subs PROVE SubInv(x)'
  <2>1. TraceKept(x) /\ SubInv(x) /\ RowStep(x)
    BY <1>2, TraceLess DEF HeldInv
  <2>2. (Waits(x)' => Waits(x)) /\ (Pending(x)' => Pending(x)) /\ (Unworked(x) => Unworked(x)')
    BY <1>1 DEF Waits, Pending, Unworked, Live, listVars, lockVars, workVars
  <2>3. Renewed(x) \/ ((\E h \in Conns : PutBack(h) /\ working[h] = x)' => \E h \in Conns : PutBack(h) /\ working[h] = x)
    BY <1>1, <1>3, <1>4 DEF PutBack
  <2> QED
    BY <2>1, <2>2, <2>3, SubInv_Kept
<1>7. AskedOnce'
  BY <1>1, AskedOnce_Kept DEF AskedLess, QueueLess, HeldInv, Waits, listVars, lockVars, workVars
<1>8. HandlerInv(g)'
  BY HandlePacket_Slot
<1> QED
  BY <1>5, <1>6, <1>7, <1>8 DEF HeldInv

\* A callback that does not concern the run its handler works on.
LEMMA Done_Slot ==
  ASSUME BaseInv, NoUpdate, SoleRuns, JLMap, HeldInv, NEW g \in Conns,
         jobs'[g] = jobs[g] \/ jobs'[g] = Terminated(g), pipe'[g] = pipe[g], after'[g] = None,
         after[g].op = "abort" \/ after[g].sub # working[g],
         UNCHANGED <<submission_map, working, run_id, conn, preparing, remote_run>>,
         \A x \in Subs : RowStep(x)
  PROVE  HandlerInv(g)'
<1>1. OwnTypes /\ HandlerInv(g)
  BY DEF BaseInv, HeldInv
<1>2. /\ RunPackets(g)' = RunPackets(g)
      /\ RunJobs(g)' = {} <=> RunJobs(g) = {}
      /\ Unprepared(g)' <=> Unprepared(g)
      /\ JobsOnce(g)'
  BY <1>1, SameRun DEF HandlerInv
<1>3. Drained(g)' /\ BackOwn(g)'
  BY <1>1 DEF HandlerInv, Drained, BackOwn, PutBack
<1>4. ASSUME Busy(g) PROVE submission_map[working[g]] = g /\ Preparing(g)' /\ NotBegun(g)' /\ (conn[g] # "shut" => Held(g)')
  <2>1. /\ submission_map[working[g]] = g /\ Preparing(g) /\ NotBegun(g) /\ (conn[g] # "shut" => Held(g))
        /\ working[g] \in Subs
    BY <1>1, <1>4 DEF HandlerInv, SlotOf, Busy, BaseInv, JLInv, JLTypeOK
  <2>2. Preparing(g)'
    BY <1>2, <2>1 DEF Preparing
  <2>3. NotBegun(g)'
    BY <1>2, <1>4, <2>1, NotBegun_Kept DEF NotBegun, HeldInv
  <2>4. Held(g) => Held(g)'
    BY <1>2 DEF Held
  <2> QED
    BY <2>1, <2>2, <2>3, <2>4
<1> QED
  BY <1>2, <1>3, <1>4 DEF HandlerInv, SlotOf, Busy, Live

\* Only a run that is put back comes to wait.
Returns(g, s) == \A x \in Subs : Waits(x)' => Waits(x) \/ (x = s /\ PutBack(g))

\* A handler drops its run.
LEMMA Leaves_HeldInv ==
  ASSUME BaseInv, NoUpdate, SoleRuns, JLMap, HeldInv, NEW g \in Conns, NEW s \in Subs,
         working[g] = s, Live(g), Returns(g, s),
         submission_map' = [submission_map EXCEPT ![s] = None], working' = [working EXCEPT ![g] = None],
         after' = [after EXCEPT ![g] = None],
         UNCHANGED <<run_id, conn, jobs, pipe, handoffs>>,
         \A h \in Conns : h # g => preparing'[h] = preparing[h] /\ remote_run'[h] = remote_run[h],
         \A x \in Subs : RowStep(x)
  PROVE  HeldInv'
<1>1. OwnTypes /\ JLTypeOK /\ HandlerInv(g) /\ Busy(g) /\ submission_map[s] = g
  BY NoneFacts DEF BaseInv, JLInv, HeldInv, HandlerInv, SlotOf, Busy
<1>2. /\ \A h \in Conns : after'[h] = IF h = g THEN None ELSE after[h]
      /\ \A h \in Conns : working'[h] = IF h = g THEN None ELSE working[h]
      /\ \A x \in Subs : x # s => submission_map'[x] = submission_map[x]
  BY <1>1 DEF JLTypeOK, OwnTypes
<1>3. \A h \in Conns : h # g => HandlerInv(h)'
  <2>1. \A h \in Conns : h # g => Stays(h)
    BY <1>2 DEF Stays
  <2> QED
    BY <1>1, <1>2, <2>1, Others_HandlerInv
<1>4. HandlerInv(g)'
  <2>1. JobsOnce(g)' /\ Drained(g)'
    BY <1>1 DEF HandlerInv, JobsOnce, Drained
  <2>2. BackOwn(g)' /\ ~Busy(g)'
    BY <1>2 DEF BackOwn, PutBack, Busy
  <2> QED
    BY <2>1, <2>2 DEF HandlerInv, SlotOf
<1>5. \A h \in Conns : h # g /\ Live(h) => working[h] # s
  BY <1>1, NoneFacts DEF HeldInv, HandlerInv, SlotOf, Busy
<1>6. ~Pending(s)
  BY <1>1 DEF HeldInv, SubInv, Unworked
<1>7. ASSUME NEW x \in Subs PROVE SubInv(x)' /\ (x # s => (Waits(x)' => Waits(x)))
  <2>1. /\ SubInv(x) /\ RowStep(x) /\ (Pending(x)' => Pending(x)) /\ TraceKept(x)
        /\ Waits(x)' => Waits(x) \/ (x = s /\ PutBack(g))
    BY DEF HeldInv, Pending, TraceKept, Trace, Returns
  <2>2. (\E h \in Conns : PutBack(h) /\ working[h] = x)' => \E h \in Conns : PutBack(h) /\ working[h] = x
    BY <1>2 DEF PutBack
  <2>3. Unworked(x) => Unworked(x)'
    BY <1>2, NoneFacts DEF Unworked, Live
  <2>4. Unworked(s)'
    BY <1>2, <1>5, NoneFacts DEF Unworked, Live
  <2>5. Awaiting(x)' => Awaiting(x)
    BY <2>1, <2>2 DEF Awaiting
  <2>6. Awaiting(x)' => Untouched(x)'
    BY <2>1, <2>5, Untouched_Kept
  <2> QED
    BY <2>1, <2>3, <2>4, <2>6 DEF SubInv
<1>8. AskedOnce'
  <2>1. ASSUME NEW m \in handoffs, m.at # "done" PROVE ~Waits(m.req.id)'
    <3>1. PICK x \in Subs : x = m.req.id /\ ~Waits(x) /\ x # s
      BY <1>1, <1>6, <2>1 DEF OwnTypes, Handoff, Request, AskedOnce, HeldInv, Pending
    <3>2. ~Waits(x)'
      BY <1>7, <3>1
    <3> QED
      BY <3>1, <3>2 DEF Waits
  <2> QED
    BY <2>1 DEF AskedOnce, HeldInv, Waits
<1>9. \A x \in Subs : SubInv(x)'
  BY <1>7
<1> QED
  BY <1>3, <1>4, <1>8, <1>9 DEF HeldInv

\* Something happens to g that neither gives it a run nor takes it one.
LEMMA Keeps_HeldInv ==
  ASSUME BaseInv, NoUpdate, SoleRuns, JLMap, HeldInv, NEW g \in Conns, HandlerInv(g)',
         Quiet, JobsKept, PipesKept, handoffs' = handoffs,
         \A h \in Conns : h # g => Stays(h), PutBack(g)' => PutBack(g) \/ Renewed(working[g]),
         \A x \in Subs : RowStep(x)
  PROVE  HeldInv'
<1>1. \A h \in Conns : h # g => HandlerInv(h)'
  BY Others_HandlerInv DEF Quiet
<1>2. ASSUME NEW x \in Subs PROVE SubInv(x)'
  <2>1. TraceKept(x) /\ SubInv(x) /\ RowStep(x)
    BY TraceLess DEF HeldInv
  <2>2. (Waits(x)' => Waits(x)) /\ (Pending(x)' => Pending(x))
    BY DEF Quiet, Pending
  <2>3. Unworked(x) => Unworked(x)'
    BY Unworked_Kept DEF Quiet, ConnStep, Live, LiveStates
  <2>4. Renewed(x) \/ ((\E h \in Conns : PutBack(h) /\ working[h] = x)' => \E h \in Conns : PutBack(h) /\ working[h] = x)
    BY DEF Stays, Quiet, PutBack
  <2> QED
    BY <2>1, <2>2, <2>3, <2>4, SubInv_Kept
<1>3. AskedOnce'
  BY AskedOnce_Kept DEF AskedLess, QueueLess, HeldInv, Quiet, BaseInv
<1> QED
  BY <1>1, <1>2, <1>3 DEF HeldInv

LEMMA Release_HeldInv ==
  ASSUME BaseInv, NoUpdate, SoleRuns, JLMap, HeldInv, NEW g \in Conns, Release(g),
         \A x \in Subs : RowStep(x)
  PROVE  HeldInv'
<1> DEFINE s == after[g].sub
<1>1. /\ OwnTypes /\ s \in Subs /\ after[g] # None /\ conn[g] \in {"up", "shut"}
      /\ after' = [after EXCEPT ![g] = None] /\ UNCHANGED <<dbVars, webVars, workerVars>>
      /\ after[g].op = "release"
  BY DEF Release, BaseInv, OwnTypes, Callback, RemoteOnly
<1>2. CASE working[g] = s
  <2>1. Live(g) /\ Holds(g, s)
    BY <1>1, <1>2, NoneFacts DEF Live, LiveStates, HeldInv, HandlerInv, SlotOf, Busy, Holds
  <2>2. run_id' = run_id /\ conn' = conn /\ Freed(g, s)
    BY <1>1, <1>2, <2>1, on_judge_free_Facts DEF Release, BaseInv
  <2>3. \A h \in Conns : h # g => preparing'[h] = preparing[h] /\ remote_run'[h] = remote_run[h]
    BY <1>1, <1>2 DEF Release, OwnTypes
  <2>4. Returns(g, s)
    BY <2>2 DEF Returns, Freed
  <2> HIDE DEF s
  <2> QED
    BY <1>1, <1>2, <2>1, <2>2, <2>3, <2>4, Leaves_HeldInv DEF Freed, webVars, workerVars
<1>3. CASE working[g] # s
  <2>1. Quiet /\ UNCHANGED <<jlVars, preparing, remote_run>>
    BY <1>3, Same_Facts DEF Release, BaseInv
  <2>2. HandlerInv(g)'
    BY <1>1, <1>3, <2>1, Done_Slot DEF jlVars, listVars, handlerVars, workerVars, OwnTypes
  <2>3. \A h \in Conns : h # g => Stays(h)
    BY <1>1, <2>1 DEF Stays, jlVars, handlerVars, workerVars, OwnTypes
  <2>4. ~PutBack(g)'
    BY <1>1 DEF PutBack, OwnTypes
  <2> QED
    BY <1>1, <2>1, <2>2, <2>3, <2>4, Keeps_HeldInv DEF JobsKept, PipesKept, webVars, workerVars
<1> QED
  BY <1>2, <1>3

LEMMA AbortWorker_HeldInv ==
  ASSUME BaseInv, NoUpdate, SoleRuns, JLMap, HeldInv, NEW g \in Conns, AbortWorker(g),
         \A x \in Subs : RowStep(x)
  PROVE  HeldInv'
<1>1. /\ OwnTypes /\ Quiet /\ UNCHANGED <<jlVars, handoffs, pipe, preparing, remote_run>>
      /\ after[g].op = "abort" /\ after' = [after EXCEPT ![g] = None]
      /\ jobs' = [jobs EXCEPT ![g] = Terminated(g)]
  BY Same_Facts DEF AbortWorker, webVars, BaseInv
<1>2. HandlerInv(g)'
  BY <1>1, Done_Slot DEF jlVars, listVars, handlerVars, OwnTypes
<1>3. \A h \in Conns : h # g => Stays(h)
  BY <1>1 DEF Stays, jlVars, handlerVars, OwnTypes
<1>4. ~PutBack(g)' /\ PipesKept
  BY <1>1 DEF PutBack, OwnTypes, PipesKept
<1>5. JobsKept
  <2>1. \A h \in Conns : jobs'[h] = jobs[h] \/ jobs'[h] = Terminated(h)
    BY <1>1 DEF OwnTypes
  <2> QED
    BY <1>1, <2>1, Terminated_Facts DEF JobsKept
<1> QED
  BY <1>1, <1>2, <1>3, <1>4, <1>5, Keeps_HeldInv

LEMMA Defer_HeldInv ==
  ASSUME BaseInv, NoUpdate, SoleRuns, JLMap, HeldInv, NEW g \in Conns, Defer(g),
         \A x \in Subs : RowStep(x)
  PROVE  HeldInv'
<1> DEFINE s == after[g].sub
           tok == after[g].tok
<1>1. /\ OwnTypes /\ s \in Subs /\ PutBack(g) /\ conn[g] \in {"up", "shut"}
      /\ after' = [after EXCEPT ![g] = None] /\ UNCHANGED <<dbVars, webVars, workerVars>>
      /\ tok \in issued[s]
  BY DEF Defer, PutBack, BaseInv, OwnTypes, Callback, RemoteOnly, TokensIssued, BackTokens
<1>2. working[g] = s /\ Live(g) /\ Holds(g, s) /\ tok \in Tokens
  BY <1>1, NoneFacts DEF Live, LiveStates, HeldInv, HandlerInv, BackOwn, SlotOf, Busy, Holds, OwnTypes
<1>3. run_id' = run_id /\ conn' = conn /\ PutBackAs(g, s, tok)
  BY <1>1, <1>2, defer_Facts DEF Defer, BaseInv, JLMap
<1>4. \A h \in Conns : h # g => preparing'[h] = preparing[h] /\ remote_run'[h] = remote_run[h]
  BY <1>1 DEF Defer, OwnTypes
<1>5. Returns(g, s)
  BY <1>1, <1>3 DEF Returns, PutBackAs
<1> HIDE DEF s, tok
<1> QED
  BY <1>1, <1>2, <1>3, <1>4, <1>5, Leaves_HeldInv DEF PutBackAs, webVars, workerVars

-----------------------------------------------------------------------------
(* The end of a connection and of the process. *)
LEMMA DisconnectRetry_HeldInv ==
  ASSUME BaseInv, NoUpdate, SoleRuns, JLMap, HeldInv, NEW g \in Conns, DisconnectRetry(g),
         \A x \in Subs : RowStep(x)
  PROVE  HeldInv'
<1>1. PICK tok : Requeued(g, "discard", tok)
  BY DisconnectRetry_Facts
<1>2. /\ OwnTypes /\ conn[g] = "shut" /\ after[g] = None /\ g \in Remote /\ Retryable(g)
      /\ pipe' = [pipe EXCEPT ![g] = <<>>]
      /\ UNCHANGED <<packetJl, by, webVars, jobs, preparing, remote_run>>
  BY DisconnectRetry_Facts DEF BaseInv
<1>3. UNCHANGED <<listVars, conn, working, run_id, lockVars, handoffs>>
  BY <1>2 DEF packetJl, webVars
<1>4. Quiet /\ JobsKept /\ PipesKept
  <2>1. problems' \in [Conns -> SUBSET Subs]
    BY <1>1 DEF Requeued, BaseInv, JLInv, JLTypeOK
  <2>2. Quiet
    BY <1>2, <2>1, Problems_Facts DEF BaseInv, packetJl
  <2> QED
    BY <1>2, <2>2, EmptyPipe DEF JobsKept
<1>5. Renewed(working[g])
  BY <1>1, <1>2, Requeued_Renewed
<1>6. pipe'[g] = <<>> /\ \A h \in Conns : h # g => pipe'[h] = pipe[h] /\ after'[h] = after[h]
  BY <1>1, <1>2 DEF Requeued, OwnTypes
<1>7. \A h \in Conns : h # g => Stays(h)
  BY <1>2, <1>3, <1>6 DEF Stays
<1>8. HandlerInv(g)'
  <2>1. /\ HandlerInv(g) /\ working[g] \in Subs /\ RunPackets(g)' = {} /\ RunJobs(g)' = RunJobs(g)
    BY <1>1, <1>2, <1>3, <1>6, NoElems DEF HeldInv, RunPackets, RunJobs, Requeued
  <2>2. Unprepared(g)' => Unprepared(g)
    BY <2>1 DEF Unprepared
  <2>3. JobsOnce(g)' /\ Drained(g)'
    BY <1>2, <1>6, <2>1, NoElems DEF HandlerInv, JobsOnce, Drained
  <2>4. BackOwn(g)'
    BY <1>1, <1>2, <1>3 DEF BackOwn, Requeued, OwnTypes
  <2>5. Busy(g) => submission_map[working[g]] = g /\ Preparing(g) /\ NotBegun(g)
    BY <2>1 DEF HandlerInv, SlotOf
  <2>6. Busy(g)' => submission_map'[working'[g]] = g /\ Preparing(g)'
    BY <1>2, <1>3, <2>1, <2>2, <2>5 DEF Busy, Live, Preparing, listVars
  <2>7. NotBegun(g)'
    BY <1>3, <1>5 DEF NotBegun, Renewed
  <2> QED
    BY <1>2, <1>3, <2>3, <2>4, <2>6, <2>7 DEF HandlerInv, SlotOf
<1> QED
  BY <1>3, <1>4, <1>5, <1>7, <1>8, Keeps_HeldInv

LEMMA DisconnectDiscard_HeldInv ==
  ASSUME BaseInv, NoUpdate, SoleRuns, JLMap, HeldInv, NEW g \in Conns, DisconnectDiscard(g),
         \A x \in Subs : RowStep(x)
  PROVE  HeldInv'
<1>1. /\ OwnTypes /\ Quiet /\ after[g] \in Callback /\ after[g].op = "discard" /\ conn[g] = "shut"
      /\ after' = [after EXCEPT ![g].op = "leave"]
      /\ UNCHANGED <<dbVars, webVars, workerVars, preparing, remote_run, handlerVars, submission_map>>
  BY QuietMethods DEF DisconnectDiscard, BaseInv, OwnTypes, discard
<1>2. UNCHANGED <<row, jobs, pipe, handoffs, conn, working, run_id>>
  BY <1>1 DEF dbVars, workerVars, webVars, handlerVars
<1>3. PutBack(g) /\ after'[g].sub = after[g].sub /\ \A h \in Conns : h # g => after'[h] = after[h]
  BY <1>1, NoCallbackAssumption DEF PutBack, OwnTypes, Callback
<1>4. HandlerInv(g)'
  <2>1. HandlerInv(g)
    BY DEF HeldInv
  <2>2. JobsOnce(g)' /\ Drained(g)' /\ BackOwn(g)'
    BY <1>2, <1>3, <2>1 DEF HandlerInv, JobsOnce, Drained, BackOwn
  <2>3. Busy(g)' => submission_map'[working'[g]] = g /\ Preparing(g)' /\ NotBegun(g)'
    BY <1>1, <1>2, <2>1 DEF HandlerInv, SlotOf, Busy, Live, Preparing, NotBegun, Unprepared, RunJobs, RunPackets
  <2> QED
    BY <1>1, <1>2, <2>2, <2>3 DEF HandlerInv, SlotOf
<1>5. \A h \in Conns : h # g => Stays(h)
  BY <1>1, <1>2, <1>3 DEF Stays
<1>6. JobsKept /\ PipesKept
  BY <1>2 DEF JobsKept, PipesKept
<1> QED
  BY <1>1, <1>2, <1>3, <1>4, <1>5, <1>6, Keeps_HeldInv

\* The connection is over: its handler has no slot any more.
LEMMA Leaves_List ==
  ASSUME BaseInv, NoUpdate, SoleRuns, JLMap, HeldInv, NEW g \in Conns,
         conn'[g] \in {"off", "left"}, conn[g] \notin {"off"}, pipe'[g] = <<>>, after'[g] = None, jobs'[g] \subseteq jobs[g],
         \A h \in Conns : h # g => Stays(h) /\ jobs'[h] = jobs[h],
         \A h \in Conns : working'[h] \in {working[h], None}, handoffs' = handoffs,
         \A x \in Subs : Waits(x)' <=> Waits(x),
         \A x \in Subs : submission_map'[x] = submission_map[x] \/ submission_map[x] = g,
         \A x \in Subs : RowStep(x)
  PROVE  HeldInv'
<1>1. OwnTypes
  BY DEF BaseInv
<1>2. \A h \in Conns : h # g => HandlerInv(h)'
  BY Others_HandlerInv
<1>3. HandlerInv(g)'
  <2>1. JobsOnce(g)
    BY DEF HeldInv, HandlerInv
  <2>2. JobsOnce(g)' /\ Drained(g)' /\ BackOwn(g)' /\ ~Busy(g)'
    BY <2>1, NoElems DEF JobsOnce, Drained, BackOwn, PutBack, Busy, Live, LiveStates
  <2> QED
    BY <2>2 DEF HandlerInv, SlotOf
<1>4. JobsKept /\ PipesKept
  <2>1. \A h \in Conns : pipe'[h] = pipe[h] \/ pipe'[h] = <<>>
    BY DEF Stays
  <2> QED
    BY <2>1, NoElems DEF JobsKept, PipesKept
<1>5. ASSUME NEW x \in Subs PROVE SubInv(x)' /\ (Waits(x)' => Waits(x))
  <2>1. TraceKept(x) /\ SubInv(x) /\ RowStep(x)
    BY <1>4, TraceLess DEF HeldInv
  <2>2. (Waits(x)' => Waits(x)) /\ (Pending(x)' => Pending(x))
    BY DEF Pending
  <2>3. Unworked(x) => Unworked(x)'
    <3>1. \A h \in Conns : Live(h)' => Live(h) \/ conn[h] = "off"
      BY DEF Live, LiveStates, Stays
    <3> QED
      BY <3>1, NoneFacts, Unworked_Kept
  <2>4. (\E h \in Conns : PutBack(h) /\ working[h] = x)' => \E h \in Conns : PutBack(h) /\ working[h] = x
    BY DEF Stays, PutBack
  <2> QED
    BY <2>1, <2>2, <2>3, <2>4, SubInv_Kept
<1>6. AskedOnce'
  BY <1>1, <1>5, AskedOnce_Kept DEF AskedLess, QueueLess, HeldInv
<1>7. \A x \in Subs : SubInv(x)'
  BY <1>5
<1> QED
  BY <1>2, <1>3, <1>6, <1>7 DEF HeldInv

LEMMA DisconnectRemove_HeldInv ==
  ASSUME BaseInv, NoUpdate, SoleRuns, JLMap, HeldInv, NEW g \in Conns, DisconnectRemove(g),
         \A x \in Subs : RowStep(x)
  PROVE  HeldInv'
<1>1. OwnTypes /\ JLTypeOK /\ Removed(g)
  BY remove_Facts DEF DisconnectRemove, BaseInv, JLInv
<1>2. /\ after[g] = None /\ UNCHANGED <<handoffs, jobs, after, preparing, remote_run>>
      /\ pipe' = [pipe EXCEPT ![g] = <<>>]
  BY DEF DisconnectRemove, webVars, runVars
<1>3. \A h \in Conns : h # g => Stays(h)
  BY <1>1, <1>2 DEF Stays, Removed, OwnTypes, JLTypeOK
<1>4. /\ conn'[g] = "left" /\ conn[g] = "shut" /\ pipe'[g] = <<>>
      /\ \A x \in Subs : Waits(x)' <=> Waits(x)
      /\ \A x \in Subs : submission_map'[x] = submission_map[x] \/ submission_map[x] = g
      /\ \A h \in Conns : working'[h] = working[h]
  BY <1>1, <1>2 DEF Removed, OwnTypes, JLTypeOK
<1> QED
  BY <1>2, <1>3, <1>4, Leaves_List

LEMMA DisconnectFail_HeldInv ==
  ASSUME BaseInv, NoUpdate, SoleRuns, JLMap, HeldInv, NEW g \in Conns, DisconnectFail(g),
         \A x \in Subs : RowStep(x)
  PROVE  HeldInv'
<1>1. OwnTypes /\ JLTypeOK /\ Forgotten(g)
  BY DisconnectFail_Facts DEF BaseInv, JLInv
<1>2. /\ UNCHANGED <<handoffs, pipe, after>> /\ jobs' = [jobs EXCEPT ![g] = {}]
      /\ preparing' = [preparing EXCEPT ![g] = FALSE] /\ remote_run' = [remote_run EXCEPT ![g] = FALSE]
  BY DEF DisconnectFail, webVars
<1>3. conn[g] = "left" /\ after[g] = None /\ pipe[g] = <<>>
  BY <1>1 DEF Forgotten, BaseInv, RemoteOnly, HeldInv, HandlerInv, Drained
<1>4. \A h \in Conns : h # g => Stays(h) /\ jobs'[h] = jobs[h]
  BY <1>1, <1>2 DEF Stays, Forgotten, OwnTypes, JLTypeOK
<1>5. /\ conn'[g] \in {"off", "left"} /\ jobs'[g] = {}
      /\ \A x \in Subs : Waits(x)' <=> Waits(x)
      /\ submission_map' = submission_map
      /\ \A h \in Conns : working'[h] \in {working[h], None}
  BY <1>1, <1>2 DEF Forgotten, OwnTypes, JLTypeOK
<1> QED
  BY <1>2, <1>3, <1>4, <1>5, Leaves_List

\* A new process knows of no run; requests the website gave up on are lost with the old one.
LEMMA Crash_HeldInv ==
  ASSUME BaseInv, NoUpdate, SoleRuns, JLMap, HeldInv, Crash, \A x \in Subs : RowStep(x)
  PROVE  HeldInv'
<1>1. /\ \A x \in Subs : ~Waits(x)'
      /\ \A h \in Conns : conn'[h] = "off" /\ working'[h] = None
  BY JLRestart_Facts DEF Crash
<1>2. /\ \A h \in Conns : jobs'[h] = {} /\ pipe'[h] = <<>> /\ after'[h] = None
      /\ handoffs' \subseteq handoffs /\ OwnTypes
  BY DEF Crash, BaseInv
<1>3. ASSUME NEW h \in Conns PROVE HandlerInv(h)'
  <2>1. JobsOnce(h)' /\ Drained(h)' /\ BackOwn(h)' /\ ~Busy(h)'
    BY <1>1, <1>2, NoElems DEF JobsOnce, Drained, BackOwn, PutBack, Busy
  <2> QED
    BY <2>1 DEF HandlerInv, SlotOf
<1>4. ASSUME NEW x \in Subs PROVE SubInv(x)' /\ (Waits(x)' => Waits(x))
  <2>1. TraceKept(x) /\ SubInv(x) /\ RowStep(x)
    BY <1>2, NoElems DEF TraceKept, Trace, HeldInv
  <2>2. (Waits(x)' => Waits(x)) /\ (Pending(x)' => Pending(x))
    BY <1>1, <1>2 DEF Pending
  <2>3. Unworked(x) => Unworked(x)'
    BY <1>1, NoneFacts DEF Unworked
  <2>4. ~(\E h \in Conns : PutBack(h) /\ working[h] = x)'
    BY <1>2 DEF PutBack
  <2> QED
    BY <2>1, <2>2, <2>3, <2>4, SubInv_Kept
<1>5. AskedOnce'
  <2>1. ASSUME NEW m \in handoffs', m.at # "done" PROVE ~Waits(m.req.id)'
    <3>1. PICK x \in Subs : x = m.req.id
      BY <1>2, <2>1 DEF OwnTypes, Handoff, Request
    <3>2. ~Waits(x)'
      BY <1>1
    <3> QED
      BY <3>1, <3>2 DEF Waits
  <2> QED
    BY <1>2, <2>1 DEF AskedOnce, HeldInv, Waits
<1>6. \A x \in Subs : SubInv(x)'
  BY <1>4
<1> QED
  BY <1>3, <1>5, <1>6 DEF HeldInv

-----------------------------------------------------------------------------
LEMMA Web_HeldInv ==
  ASSUME BaseInv, NoUpdate, SoleRuns, JLMap, HeldInv,
         \/ \E s \in Subs : AbortRequested(s) \/ AbortWritten(s) \/ OnTermination(s) \/ BootMark(s)
         \/ \E m \in handoffs : SendSubmission(m) \/ SendFails(m) \/ SendAnswered(m)
         \/ Unlock \/ Apply \/ OnAbortProblem,
         \A x \in Subs : RowStep(x)
  PROVE  HeldInv'
<1>1. ASSUME UNCHANGED <<jlVars, workerVars, runVars>> PROVE Calm
  BY <1>1, Same_Facts DEF BaseInv, Calm, workerVars, runVars
<1>2. ASSUME NEW s \in Subs, AbortRequested(s) \/ AbortWritten(s) \/ BootMark(s) PROVE Calm /\ AskedLess
  BY <1>1, <1>2 DEF AbortRequested, AbortWritten, BootMark, AskedLess, webVars
<1>3. ASSUME NEW m \in handoffs, SendSubmission(m) \/ SendFails(m) \/ SendAnswered(m) PROVE Calm /\ AskedLess
  <2>1. Calm
    BY <1>1, <1>3 DEF SendSubmission, SendFails, SendAnswered
  <2>2. AskedLess
    BY <1>3 DEF SendSubmission, SendFails, SendAnswered, AskedLess
  <2> QED
    BY <2>1, <2>2
<1>4. ASSUME Unlock \/ Apply PROVE Calm /\ AskedLess
  BY <1>1, <1>4 DEF Unlock, Apply, AskedLess, webVars
<1>5. ASSUME NEW s \in Subs, OnTermination(s) PROVE Calm /\ AskedLess
  <2>1. /\ \E ids : Dropped(ids)
        /\ UNCHANGED <<submission_map, working, run_id, conn>>
    BY <1>5, abort_Facts DEF OnTermination, BaseInv
  <2>2. \A h \in Conns : jobs'[h] = jobs[h] \/ jobs'[h] = Terminated(h)
    BY <1>5 DEF OnTermination, BaseInv, OwnTypes
  <2> QED
    BY <1>5, <2>1, <2>2 DEF OnTermination, Calm, AskedLess, runVars
<1>6. ASSUME OnAbortProblem PROVE Calm /\ AskedLess
  <2>1. /\ \E ids : Dropped(ids)
        /\ UNCHANGED <<submission_map, working, run_id, conn>>
        /\ \A h \in Conns : jobs'[h] = jobs[h] \/ jobs'[h] = Terminated(h)
    BY <1>6, OnAbortProblem_Facts DEF BaseInv
  <2> QED
    BY <1>6, <2>1 DEF OnAbortProblem, Calm, AskedLess, runVars
<1> QED
  BY <1>2, <1>3, <1>4, <1>5, <1>6, Calm_HeldInv

LEMMA Next_HeldInv ==
  ASSUME BaseInv, Once, NoUpdate, SoleRuns, JLMap, HeldInv, [Next]_vars
  PROVE  HeldInv'
<1>1. \A x \in Subs : RowStep(x)
  BY Next_RowStep
<1>2. ASSUME Quiet, UNCHANGED <<workerVars, after, preparing, remote_run, handoffs>> PROVE HeldInv'
  BY <1>1, <1>2, Calm_HeldInv DEF Calm, AskedLess, workerVars
<1>3. ASSUME NEW s \in Subs,
             JudgeSubmission(s) \/ AbortRequested(s) \/ AbortWritten(s) \/ OnTermination(s) \/ BootMark(s)
      PROVE  HeldInv'
  BY <1>1, <1>3, Web_HeldInv, JudgeSubmission_HeldInv
<1>4. ASSUME NEW m \in handoffs, SendSubmission(m) \/ SendFails(m) \/ SendAnswered(m) \/ OnSubmission(m)
      PROVE  HeldInv'
  BY <1>1, <1>4, Web_HeldInv, OnSubmission_HeldInv
<1>5. ASSUME Unlock \/ Apply \/ OnAbortProblem \/ Crash PROVE HeldInv'
  BY <1>1, <1>5, Web_HeldInv, Crash_HeldInv
<1>6. CASE Schedule
  <2>1. ASSUME NEW g \in Conns, NEW s \in Subs, NEW out \in Outcomes, Offered(g, s, out, row[s].dispatch_id),
               Submit(g, s, out), JLMap => Live(g) /\ working[g] = None
        PROVE  HeldInv'
    BY <1>1, <2>1, Offer_HeldInv
  <2> QED
    BY <1>2, <1>6, <2>1, Schedule_Facts DEF OwnVars, webVars, runVars
<1>7. ASSUME SyncRemoteData \/ \E g \in Conns : Handshake(g) \/ Connected(g) \/ Lost(g) \/ SupportedProblems(g)
      PROVE  HeldInv'
  BY <1>2, <1>7, Quiet_Facts DEF OwnVars, webVars, runVars
<1>8. ASSUME NEW g \in Conns, OnRetryQueued(g) \/ RetryWindowEnds(g) PROVE HeldInv'
  BY <1>2, <1>8, Timers_Facts DEF webVars
<1>9. ASSUME NEW g \in Conns,
             \/ HandlePacket(g) \/ Release(g) \/ AbortWorker(g) \/ Defer(g)
             \/ DisconnectRetry(g) \/ DisconnectDiscard(g) \/ DisconnectRemove(g) \/ DisconnectFail(g)
      PROVE  HeldInv'
  BY <1>1, <1>9, HandlePacket_HeldInv, Release_HeldInv, AbortWorker_HeldInv, Defer_HeldInv, DisconnectRetry_HeldInv,
     DisconnectDiscard_HeldInv, DisconnectRemove_HeldInv, DisconnectFail_HeldInv
<1>10. ASSUME NEW g \in Conns, NEW j \in jobs[g],
              WorkerAcks(g, j) \/ WorkerPrepares(g, j) \/ WorkerBegins(g, j) \/ WorkerEnds(g, j)
       PROVE  HeldInv'
  <2>1. PICK p, rest : WorkerStep(g, j, p, rest)
    BY <1>10, Worker_Facts DEF BaseInv
  <2> QED
    BY <1>1, <2>1, Worker_HeldInv
<1>11. CASE UNCHANGED vars
  BY <1>2, <1>11, Same_Facts DEF vars, BaseInv, webVars, runVars
<1> QED
  BY <1>3, <1>4, <1>5, <1>6, <1>7, <1>8, <1>9, <1>10, <1>11 DEF Next

LEMMA Init_HeldInv == Init => HeldInv
<1> SUFFICES ASSUME Init PROVE HeldInv
  OBVIOUS
<1>1. \A h \in Conns : /\ jobs[h] = {} /\ pipe[h] = <<>> /\ after[h] = None /\ working[h] = None
  BY DEF Init, JLInit
<1>2. ASSUME NEW h \in Conns PROVE HandlerInv(h)
  BY <1>1, NoElems DEF HandlerInv, JobsOnce, Drained, BackOwn, PutBack, SlotOf, Busy
<1>3. ASSUME NEW s \in Subs PROVE SubInv(s)
  <2>1. ~Waits(s)
    BY DEF Init, JLInit, Waits, HasId
  <2> QED
    BY <1>1, <2>1, NoneFacts DEF Init, SubInv, Awaiting, Pending, PutBack
<1>4. AskedOnce
  BY DEF Init, AskedOnce
<1> QED
  BY <1>2, <1>3, <1>4 DEF HeldInv

LEMMA Held_SlotHeldByRun ==
  ASSUME HeldInv
  PROVE  SlotHeldByRun
<1> SUFFICES ASSUME NEW h \in Conns, working[h] # None, conn[h] \in {"new", "up"}
             PROVE  \/ \E j \in jobs[h] : j.sub = working[h] /\ j.tok = run_id[h]
                    \/ \E i \in 1 .. Len(pipe[h]) : Terminal(pipe[h][i]) /\ pipe[h][i].sub = working[h]
                    \/ after[h] # None
  BY DEF SlotHeldByRun
<1>1. Held(h)
  BY DEF HeldInv, HandlerInv, SlotOf, Busy, Live, LiveStates
<1> QED
  BY <1>1 DEF Held, RunJobs, RunPackets, Elems

\* docs/test-data-lock.md:14, the judge slot is released when a run ends: the slot of a connected
\* judge is only held while the worker has the run it was given, its last packet is on the way or
\* the callback that frees the slot is due.  A submission is judged once here and no transaction
\* fails.  A rejudge can leave a slot to a run that is over (the run bridge_slot_leak shows it), and so can
\* the transaction of a last packet that is rolled back.
THEOREM SlotsAreHeldByRuns ==
  ASSUME NoUpdate, Once
  PROVE  Spec => []SlotHeldByRun
<1>1. RunsTold
  BY DEF RunsTold, NoUpdate
<1>2. Init => SlotInv
  BY Init_VerdictInv, Init_HeldInv DEF SlotInv
<1>3. ASSUME SlotInv, [Next]_vars PROVE SlotInv'
  BY <1>1, <1>3, Next_VerdictInv, Next_HeldInv DEF SlotInv, VerdictInv
<1>4. SlotInv => SlotHeldByRun
  BY Held_SlotHeldByRun DEF SlotInv
<1> QED
  BY <1>2, <1>3, <1>4, PTL DEF Spec
=============================================================================
