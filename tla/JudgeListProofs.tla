--------------------------- MODULE JudgeListProofs ---------------------------
(***************************************************************************)
(* What every method of JudgeList preserves, whoever calls it: the types,  *)
(* the uniqueness of the queue, and the request a working handler keeps.   *)
(* Scheduler and Bridge both use these lemmas.                             *)
(***************************************************************************)
EXTENDS JudgeList, SequenceTheorems, TLAPS

-----------------------------------------------------------------------------
(* The queue, a function from priorities to sequences of requests: what linking and unlinking
   a node does to its type, to the submissions that are queued and to their uniqueness. *)

LEMMA RemoveAtProperties ==
  ASSUME NEW S, NEW s \in Seq(S), NEW i \in 1 .. Len(s)
  PROVE  /\ RemoveAt(s, i) \in Seq(S)
         /\ Len(RemoveAt(s, i)) = Len(s) - 1
         /\ \A j \in 1 .. Len(s) - 1 : RemoveAt(s, i)[j] = IF j < i THEN s[j] ELSE s[j + 1]
<1> DEFINE a == SubSeq(s, 1, i - 1)
           b == SubSeq(s, i + 1, Len(s))
<1>1. Len(s) \in Nat /\ i \in Nat /\ \A j \in 1 .. Len(s) : s[j] \in S
  BY LenProperties, ElementOfSeq
<1>2. a \in Seq(S) /\ Len(a) = i - 1 /\ \A j \in 1 .. i - 1 : a[j] = s[j]
  BY <1>1, SubSeqProperties
<1>3. b \in Seq(S) /\ Len(b) = Len(s) - i /\ \A j \in 1 .. Len(s) - i : b[j] = s[i + j]
  BY <1>1, SubSeqProperties
<1>4. RemoveAt(s, i) = a \o b
  BY DEF RemoveAt
<1> HIDE DEF a, b
<1>5. /\ a \o b \in Seq(S)
      /\ Len(a \o b) = Len(a) + Len(b)
      /\ \A j \in 1 .. Len(a) + Len(b) : (a \o b)[j] = IF j <= Len(a) THEN a[j] ELSE b[j - Len(a)]
  BY <1>2, <1>3, ConcatProperties
<1>6. Len(a \o b) = Len(s) - 1
  BY <1>1, <1>2, <1>3, <1>5
<1>7. ASSUME NEW j \in 1 .. Len(s) - 1
      PROVE  (a \o b)[j] = IF j < i THEN s[j] ELSE s[j + 1]
  <2>1. (a \o b)[j] = IF j <= i - 1 THEN a[j] ELSE b[j - (i - 1)]
    BY <1>1, <1>2, <1>3, <1>5
  <2>2. CASE j < i
    BY <2>1, <2>2, <1>1, <1>2
  <2>3. CASE ~(j < i)
    <3>1. j - (i - 1) \in 1 .. Len(s) - i /\ i + (j - (i - 1)) = j + 1
      BY <2>3, <1>1
    <3>2. b[j - (i - 1)] = s[j + 1]
      BY <3>1, <1>3
    <3> QED
      BY <2>1, <2>3, <3>2, <1>1
  <2> QED
    BY <2>2, <2>3
<1> QED
  BY <1>4, <1>5, <1>6, <1>7

(***************************************************************************)
(* The definitions of JudgeList for an arbitrary queue, by indices.        *)
(***************************************************************************)
Queues == [Priorities -> Seq(Request)]
HasId(q, id) == \E p \in Priorities : \E i \in 1 .. Len(q[p]) : q[p][i].id = id
UniqueIds(q) ==
  \A p1, p2 \in Priorities : \A i \in 1 .. Len(q[p1]), j \in 1 .. Len(q[p2]) :
    q[p1][i].id = q[p2][j].id => p1 = p2 /\ i = j
NodesOf(q) == UNION {{p} \X (1 .. Len(q[p])) : p \in Priorities}

LEMMA NodesByIndex ==
  ASSUME NEW q, NEW n
  PROVE  n \in NodesOf(q) <=> \E p \in Priorities : \E i \in 1 .. Len(q[p]) : n = <<p, i>>
  BY DEF NodesOf

LEMMA QueuedByIndex ==
  ASSUME NEW q, NEW id
  PROVE  (\E n \in NodesOf(q) : q[n[1]][n[2]].id = id) <=> HasId(q, id)
<1>1. ASSUME NEW n \in NodesOf(q), q[n[1]][n[2]].id = id
      PROVE  HasId(q, id)
  BY <1>1, NodesByIndex DEF HasId
<1>2. ASSUME NEW p \in Priorities, NEW i \in 1 .. Len(q[p]), q[p][i].id = id
      PROVE  \E n \in NodesOf(q) : q[n[1]][n[2]].id = id
  <2>1. <<p, i>> \in NodesOf(q)
    BY NodesByIndex
  <2> QED
    BY <1>2, <2>1
<1> QED
  BY <1>1, <1>2 DEF HasId

LEMMA UniqueByIndex ==
  ASSUME NEW q
  PROVE  (\A m, n \in NodesOf(q) : q[m[1]][m[2]].id = q[n[1]][n[2]].id => m = n) <=> UniqueIds(q)
<1>1. ASSUME UniqueIds(q), NEW m \in NodesOf(q), NEW n \in NodesOf(q), q[m[1]][m[2]].id = q[n[1]][n[2]].id
      PROVE  m = n
  BY <1>1, NodesByIndex DEF UniqueIds
<1>2. ASSUME \A m, n \in NodesOf(q) : q[m[1]][m[2]].id = q[n[1]][n[2]].id => m = n,
             NEW p1 \in Priorities, NEW p2 \in Priorities,
             NEW i \in 1 .. Len(q[p1]), NEW j \in 1 .. Len(q[p2]), q[p1][i].id = q[p2][j].id
      PROVE  p1 = p2 /\ i = j
  <2>1. <<p1, i>> \in NodesOf(q) /\ <<p2, j>> \in NodesOf(q)
    BY NodesByIndex
  <2> QED
    BY <1>2, <2>1
<1> QED
  BY <1>1, <1>2 DEF UniqueIds

\* Linking a request keeps the queue's type and adds exactly its submission;
\* no submission is queued twice afterwards if it was not queued before.
LEMMA LinkFacts ==
  ASSUME NEW q \in Queues, NEW r \in Request
  PROVE  /\ Link(q, r) \in Queues
         /\ \A id : HasId(Link(q, r), id) <=> HasId(q, id) \/ id = r.id
         /\ UniqueIds(q) /\ ~HasId(q, r.id) => UniqueIds(Link(q, r))
<1> DEFINE l == Link(q, r)
           k == Len(q[r.prio])
<1>1. r.prio \in Priorities /\ \A p \in Priorities : q[p] \in Seq(Request) /\ Len(q[p]) \in Nat
  BY LenProperties DEF Queues, Request, Priorities
<1>2. /\ Append(q[r.prio], r) \in Seq(Request)
      /\ Len(Append(q[r.prio], r)) = k + 1
      /\ \A i \in 1 .. k : Append(q[r.prio], r)[i] = q[r.prio][i]
      /\ Append(q[r.prio], r)[k + 1] = r
  BY <1>1, AppendProperties
<1>3. l = [q EXCEPT ![r.prio] = Append(q[r.prio], r)]
  BY DEF Link
<1>4. l \in Queues
  BY <1>1, <1>2, <1>3 DEF Queues
<1>5. /\ l[r.prio] = Append(q[r.prio], r)
      /\ \A p \in Priorities \ {r.prio} : l[p] = q[p]
  BY <1>1, <1>3 DEF Queues
<1> HIDE DEF l
\* Every place of l is a place of q or the new last place of r.prio.
<1>6. ASSUME NEW p \in Priorities, NEW i \in 1 .. Len(l[p])
      PROVE  \/ i \in 1 .. Len(q[p]) /\ l[p][i] = q[p][i]
             \/ p = r.prio /\ i = k + 1 /\ l[p][i] = r
  <2>1. CASE p # r.prio
    BY <2>1, <1>5
  <2>2. CASE p = r.prio
    <3>1. Len(l[p]) = k + 1 /\ k \in Nat
      BY <2>2, <1>1, <1>2, <1>5
    <3>2. i \in 1 .. k \/ i = k + 1
      BY <3>1
    <3>3. CASE i \in 1 .. k
      BY <3>3, <2>2, <1>2, <1>5
    <3>4. CASE i = k + 1
      BY <3>4, <2>2, <1>2, <1>5
    <3> QED
      BY <3>2, <3>3, <3>4
  <2> QED
    BY <2>1, <2>2
<1>7. ASSUME NEW p \in Priorities, NEW i \in 1 .. Len(q[p])
      PROVE  i \in 1 .. Len(l[p]) /\ l[p][i] = q[p][i]
  <2>1. CASE p # r.prio
    BY <2>1, <1>5
  <2>2. CASE p = r.prio
    <3>1. i \in 1 .. k /\ i \in 1 .. k + 1 /\ Len(l[p]) = k + 1
      BY <2>2, <1>1, <1>2, <1>5
    <3> QED
      BY <2>2, <3>1, <1>2, <1>5
  <2> QED
    BY <2>1, <2>2
<1>8. k + 1 \in 1 .. Len(l[r.prio]) /\ l[r.prio][k + 1] = r
  BY <1>1, <1>2, <1>5
<1>9. ASSUME NEW id
      PROVE  HasId(l, id) <=> HasId(q, id) \/ id = r.id
  <2>1. HasId(l, id) => HasId(q, id) \/ id = r.id
    BY <1>6 DEF HasId
  <2>2. HasId(q, id) => HasId(l, id)
    BY <1>7 DEF HasId
  <2>3. HasId(l, r.id)
    BY <1>1, <1>8 DEF HasId
  <2> QED
    BY <2>1, <2>2, <2>3
<1>10. ASSUME UniqueIds(q), ~HasId(q, r.id)
       PROVE  UniqueIds(l)
  <2> SUFFICES ASSUME NEW p1 \in Priorities, NEW p2 \in Priorities,
                      NEW i \in 1 .. Len(l[p1]), NEW j \in 1 .. Len(l[p2]), l[p1][i].id = l[p2][j].id
               PROVE  p1 = p2 /\ i = j
    BY DEF UniqueIds
  <2> DEFINE Old(p, x) == x \in 1 .. Len(q[p]) /\ l[p][x] = q[p][x]
             LastIndex(p, x) == p = r.prio /\ x = k + 1 /\ l[p][x] = r
  <2>1. (Old(p1, i) \/ LastIndex(p1, i)) /\ (Old(p2, j) \/ LastIndex(p2, j))
    BY <1>6
  <2>2. CASE Old(p1, i) /\ Old(p2, j)
    BY <2>2, <1>10 DEF UniqueIds
  <2>3. CASE LastIndex(p1, i) /\ LastIndex(p2, j)
    BY <2>3
  <2>4. CASE Old(p1, i) /\ LastIndex(p2, j)
    BY <2>4, <1>10 DEF HasId
  <2>5. CASE LastIndex(p1, i) /\ Old(p2, j)
    BY <2>5, <1>10 DEF HasId
  <2> QED
    BY <2>1, <2>2, <2>3, <2>4, <2>5
<1> QED
  BY <1>4, <1>9, <1>10 DEF l

\* Unlinking a node keeps the queue's type, never queues anything and never
\* makes a submission queued twice; its own submission is queued no more.
LEMMA UnlinkFacts ==
  ASSUME NEW q \in Queues, NEW p \in Priorities, NEW i \in 1 .. Len(q[p])
  PROVE  LET u == [q EXCEPT ![p] = RemoveAt(q[p], i)] IN
         /\ u \in Queues
         /\ \A id : HasId(u, id) => HasId(q, id)
         /\ \A id : HasId(q, id) => HasId(u, id) \/ id = q[p][i].id
         /\ UniqueIds(q) => UniqueIds(u) /\ ~HasId(u, q[p][i].id)
<1> DEFINE u == [q EXCEPT ![p] = RemoveAt(q[p], i)]
           Back(o, x) == IF o = p /\ x >= i THEN x + 1 ELSE x
<1>1. \A o \in Priorities : q[o] \in Seq(Request) /\ Len(q[o]) \in Nat
  BY LenProperties DEF Queues
<1>2. /\ RemoveAt(q[p], i) \in Seq(Request)
      /\ Len(RemoveAt(q[p], i)) = Len(q[p]) - 1
      /\ \A j \in 1 .. Len(q[p]) - 1 : RemoveAt(q[p], i)[j] = IF j < i THEN q[p][j] ELSE q[p][j + 1]
  BY <1>1, RemoveAtProperties
<1>3. u \in Queues
  BY <1>1, <1>2 DEF Queues
<1>4. u[p] = RemoveAt(q[p], i) /\ \A o \in Priorities \ {p} : u[o] = q[o]
  BY DEF Queues
<1> HIDE DEF u
\* Back leads every place of u to the place of q it came from.
<1>5. ASSUME NEW o \in Priorities, NEW x \in 1 .. Len(u[o])
      PROVE  Back(o, x) \in 1 .. Len(q[o]) /\ u[o][x] = q[o][Back(o, x)] /\ ~(o = p /\ Back(o, x) = i)
  <2>1. CASE o # p
    BY <2>1, <1>4
  <2>2. CASE o = p
    <3>1. Len(u[o]) = Len(q[p]) - 1 /\ Len(q[p]) \in Nat /\ x \in 1 .. Len(q[p]) - 1
      BY <2>2, <1>1, <1>2, <1>4
    <3>2. u[o][x] = IF x < i THEN q[p][x] ELSE q[p][x + 1]
      BY <2>2, <3>1, <1>2, <1>4
    <3>3. CASE x < i
      BY <2>2, <3>1, <3>2, <3>3
    <3>4. CASE ~(x < i)
      BY <2>2, <3>1, <3>2, <3>4
    <3> QED
      BY <3>3, <3>4
  <2> QED
    BY <2>1, <2>2
<1>6. ASSUME NEW o \in Priorities, NEW x \in 1 .. Len(u[o]), NEW y \in 1 .. Len(u[o]), Back(o, x) = Back(o, y)
      PROVE  x = y
  BY <1>6
<1> HIDE DEF Back
<1>7. ASSUME NEW id, HasId(u, id)
      PROVE  HasId(q, id)
  BY <1>5, <1>7 DEF HasId
<1>8. ASSUME UniqueIds(q)
      PROVE  UniqueIds(u) /\ ~HasId(u, q[p][i].id)
  <2>1. ASSUME NEW o1 \in Priorities, NEW o2 \in Priorities,
               NEW x \in 1 .. Len(u[o1]), NEW y \in 1 .. Len(u[o2]), u[o1][x].id = u[o2][y].id
        PROVE  o1 = o2 /\ x = y
    <3>1. /\ Back(o1, x) \in 1 .. Len(q[o1]) /\ Back(o2, y) \in 1 .. Len(q[o2])
          /\ q[o1][Back(o1, x)].id = q[o2][Back(o2, y)].id
      BY <2>1, <1>5
    <3>2. o1 = o2 /\ Back(o1, x) = Back(o2, y)
      BY <3>1, <1>8 DEF UniqueIds
    <3> QED
      BY <3>2, <1>6
  <2>2. ASSUME NEW o \in Priorities, NEW x \in 1 .. Len(u[o]), u[o][x].id = q[p][i].id
        PROVE  FALSE
    <3>1. Back(o, x) \in 1 .. Len(q[o]) /\ q[o][Back(o, x)].id = q[p][i].id /\ ~(o = p /\ Back(o, x) = i)
      BY <2>2, <1>5
    <3> QED
      BY <3>1, <1>8 DEF UniqueIds
  <2> QED
    BY <2>1, <2>2 DEF UniqueIds, HasId
\* Every other place of q is still one of u.
<1>9. ASSUME NEW o \in Priorities, NEW x \in 1 .. Len(q[o]), ~(o = p /\ x = i)
      PROVE  \E y \in 1 .. Len(u[o]) : u[o][y] = q[o][x]
  <2>1. CASE o # p
    BY <2>1, <1>4
  <2>2. CASE o = p /\ x < i
    <3>1. x \in 1 .. Len(q[p]) - 1
      BY <2>2, <1>1
    <3>2. u[p][x] = q[p][x] /\ x \in 1 .. Len(u[p])
      <4>1. RemoveAt(q[p], i)[x] = q[p][x] /\ Len(RemoveAt(q[p], i)) = Len(q[p]) - 1
        BY <2>2, <3>1, <1>2
      <4> QED
        BY <4>1, <3>1, <1>4
    <3> QED
      BY <2>2, <3>2
  <2>3. CASE o = p /\ x > i
    <3>1. x - 1 \in 1 .. Len(q[p]) - 1 /\ ~(x - 1 < i) /\ (x - 1) + 1 = x
      BY <2>3, <1>1
    <3>2. u[p][x - 1] = q[p][x] /\ x - 1 \in 1 .. Len(u[p])
      <4>1. RemoveAt(q[p], i)[x - 1] = q[p][(x - 1) + 1] /\ Len(RemoveAt(q[p], i)) = Len(q[p]) - 1
        BY <3>1, <1>2
      <4> QED
        BY <4>1, <3>1, <1>4
    <3> QED
      BY <2>3, <3>2
  <2> QED
    BY <2>1, <2>2, <2>3, <1>1, <1>9
<1>10. ASSUME NEW id, HasId(q, id)
       PROVE  HasId(u, id) \/ id = q[p][i].id
  BY <1>9, <1>10 DEF HasId
<1> QED
  BY <1>3, <1>7, <1>8, <1>10 DEF u

(***************************************************************************)
(* The same for the queue of a state.                                      *)
(***************************************************************************)
LEMMA NodeFacts ==
  ASSUME queue \in Queues, NEW n \in Nodes
  PROVE  /\ n[1] \in Priorities /\ n[2] \in 1 .. Len(queue[n[1]]) /\ n = <<n[1], n[2]>>
         /\ At(n) \in Request
<1>0. PICK p \in Priorities : \E i \in 1 .. Len(queue[p]) : n = <<p, i>>
  BY NodesByIndex DEF Nodes, NodesOf
<1>1. PICK i \in 1 .. Len(queue[p]) : n = <<p, i>>
  BY <1>0
<1>2. queue[p] \in Seq(Request) /\ queue[p][i] \in Request
  BY ElementOfSeq DEF Queues
<1> QED
  BY <1>1, <1>2 DEF At

LEMMA UnlinkNode ==
  ASSUME queue \in Queues, NEW n \in Nodes
  PROVE  /\ Unlink(n) \in Queues
         /\ \A id : HasId(Unlink(n), id) => HasId(queue, id)
         /\ \A id : HasId(queue, id) => HasId(Unlink(n), id) \/ id = At(n).id
         /\ UniqueIds(queue) => UniqueIds(Unlink(n)) /\ ~HasId(Unlink(n), At(n).id)
<1>1. n[1] \in Priorities /\ n[2] \in 1 .. Len(queue[n[1]])
  BY NodeFacts
<1> DEFINE u == [queue EXCEPT ![n[1]] = RemoveAt(queue[n[1]], n[2])]
<1>2. /\ u \in Queues
      /\ \A id : HasId(u, id) => HasId(queue, id)
      /\ \A id : HasId(queue, id) => HasId(u, id) \/ id = queue[n[1]][n[2]].id
      /\ UniqueIds(queue) => UniqueIds(u) /\ ~HasId(u, queue[n[1]][n[2]].id)
  <2> HIDE DEF u
  <2> QED
    BY <1>1, UnlinkFacts DEF u
<1>3. Unlink(n) = u /\ At(n) = queue[n[1]][n[2]]
  BY DEF Unlink, At
<1> HIDE DEF u
<1> QED
  BY <1>2, <1>3

LEMMA QueuedHasId ==
  ASSUME NEW id
  PROVE  Queued(id) <=> HasId(queue, id)
  BY QueuedByIndex DEF Queued, Nodes, NodesOf, At

LEMMA UnlinkIdFacts ==
  ASSUME queue \in Queues, NEW id
  PROVE  /\ UnlinkId(id) \in Queues
         /\ \A x : HasId(UnlinkId(id), x) => HasId(queue, x)
         /\ \A x : HasId(queue, x) => HasId(UnlinkId(id), x) \/ x = id
         /\ UniqueIds(queue) => UniqueIds(UnlinkId(id)) /\ ~HasId(UnlinkId(id), id)
<1>1. CASE Queued(id)
  <2>1. NodeOf(id) \in Nodes /\ At(NodeOf(id)).id = id
    BY <1>1 DEF Queued, NodeOf
  <2> QED
    BY <1>1, <2>1, UnlinkNode DEF UnlinkId
<1>2. CASE ~Queued(id)
  BY <1>2, QueuedHasId DEF UnlinkId
<1> QED
  BY <1>1, <1>2

-----------------------------------------------------------------------------
(* The methods. *)
JLUnique == UniqueIds(queue) /\ (pend # None => ~HasId(queue, pend.id))
\* A handler that works has been offered a request: defer() finds one to judge again.
RetryKept == \A h \in Conns : working[h] # None => retry_request[h] # None
JLInv == JLTypeOK /\ JLUnique /\ RetryKept

LEMMA KeptType ==
  ASSUME NEW t \in Conns \cup {None}, KeptBy(t)
  PROVE  owner' \in Conns \cup {None}
  BY DEF KeptBy

LEMMA StartType == Start \in Priorities \X (Nat \ {0})
  BY DEF Start, Priorities

LEMMA ShutType ==
  ASSUME NEW c \in Conns, JLTypeOK
  PROVE  Shut(c) \in ConnStates
  BY DEF JLTypeOK, Shut, ConnStates

LEMMA JLInit_JLInv == JLInit => JLInv
<1> SUFFICES ASSUME JLInit PROVE JLInv
  OBVIOUS
<1>1. JLTypeOK
  BY StartType DEF JLInit, JLTypeOK, ConnStates
<1>2. \A id : ~HasId(queue, id)
  BY DEF JLInit, HasId
<1>3. UniqueIds(queue)
  BY DEF JLInit, UniqueIds
<1>4. pend = None /\ RetryKept
  BY DEF JLInit, RetryKept
<1> QED
  BY <1>1, <1>3, <1>4 DEF JLInv, JLUnique

\* The actions that touch neither the queue nor the request being placed.
LEMMA SameQueue ==
  ASSUME JLUnique, UNCHANGED <<queue, pend>>
  PROVE  JLUnique'
  BY DEF JLUnique, UniqueIds, HasId

LEMMA OfferNothing_JLInv == JLInv /\ OfferNothing => JLInv'
<1> SUFFICES ASSUME JLInv, OfferNothing PROVE JLInv'
  OBVIOUS
<1>1. JLTypeOK'
  BY StartType, KeptType DEF JLInv, JLTypeOK, OfferNothing, listVars, handlerVars
<1>2. JLUnique' /\ RetryKept'
  BY SameQueue DEF JLInv, RetryKept, OfferNothing, listVars, handlerVars
<1> QED
  BY <1>1, <1>2 DEF JLInv

LEMMA NextCandidate_JLInv ==
  ASSUME JLInv, NEW h \in Conns, NextCandidate(h)
  PROVE  JLInv'
<1>1. JLTypeOK'
  BY StartType, KeptType DEF JLInv, JLTypeOK, NextCandidate, listVars, handlerVars
<1>2. JLUnique' /\ RetryKept'
  BY SameQueue DEF JLInv, RetryKept, NextCandidate, listVars, handlerVars
<1> QED
  BY <1>1, <1>2 DEF JLInv

LEMMA QueueNew_JLInv == JLInv /\ QueueNew => JLInv'
<1> SUFFICES ASSUME JLInv, QueueNew PROVE JLInv'
  OBVIOUS
<1>1. pend \in Request /\ queue \in Queues /\ queue' = Link(queue, pend) /\ pend' = None
  BY DEF JLInv, JLTypeOK, QueueNew, Queues
<1>2. JLTypeOK'
  <2>1. queue' \in Queues
    BY <1>1, LinkFacts
  <2> QED
    BY <2>1, KeptType DEF JLInv, JLTypeOK, QueueNew, handlerVars, Queues
<1>3. JLUnique'
  BY <1>1, LinkFacts DEF JLInv, JLUnique, QueueNew
<1>4. RetryKept'
  BY DEF JLInv, RetryKept, QueueNew, handlerVars
<1> QED
  BY <1>2, <1>3, <1>4 DEF JLInv

\* A run that starts keeps the types and the request of its handler.
LEMMA AssignFacts ==
  ASSUME JLTypeOK, RetryKept, NEW h \in Conns, NEW r \in Request, NEW tok \in Tokens \cup {None}, Assign(h, r, tok)
  PROVE  /\ submission_map' \in [Subs -> Conns \cup {None}]
         /\ working' \in [Conns -> Subs \cup {None}]
         /\ run_id' \in [Conns -> Tokens \cup {None}]
         /\ retry_request' \in [Conns -> Request \cup {None}]
         /\ RetryKept'
<1>1. r # None /\ r.id \in Subs
  BY NoneAssumption DEF Request
<1>2. /\ submission_map' \in [Subs -> Conns \cup {None}]
      /\ working' \in [Conns -> Subs \cup {None}]
      /\ run_id' \in [Conns -> Tokens \cup {None}]
      /\ retry_request' \in [Conns -> Request \cup {None}]
  BY <1>1 DEF JLTypeOK, Assign
<1>3. RetryKept'
  BY <1>1 DEF JLTypeOK, Assign, RetryKept
<1> QED
  BY <1>2, <1>3

LEMMA RefuseFacts ==
  ASSUME JLTypeOK, RetryKept, NEW h \in Conns, NEW r \in Request, NEW out, NEW tok \in Tokens \cup {None},
         Refuse(h, r, out, tok)
  PROVE  /\ submission_map' \in [Subs -> Conns \cup {None}]
         /\ working' \in [Conns -> Subs \cup {None}]
         /\ run_id' \in [Conns -> Tokens \cup {None}]
         /\ retry_request' \in [Conns -> Request \cup {None}]
         /\ RetryKept'
<1>1. r # None
  BY NoneAssumption
<1>2. /\ submission_map' \in [Subs -> Conns \cup {None}]
      /\ working' \in [Conns -> Subs \cup {None}]
      /\ run_id' \in [Conns -> Tokens \cup {None}]
      /\ retry_request' \in [Conns -> Request \cup {None}]
  BY DEF JLTypeOK, Refuse
<1>3. RetryKept'
  BY <1>1 DEF JLTypeOK, Refuse, RetryKept
<1> QED
  BY <1>2, <1>3

LEMMA DropFailedFacts ==
  ASSUME JLTypeOK, NEW h \in Conns, DropFailed(h)
  PROVE  judges' \in SUBSET Conns /\ conn' \in [Conns -> ConnStates]
  BY ShutType DEF JLTypeOK, DropFailed

LEMMA OfferNode_JLInv ==
  ASSUME JLInv, NEW n \in Nodes, NEW out, NEW tok \in Tokens \cup {None}, OfferNode(n, out, tok)
  PROVE  JLInv'
<1> DEFINE r == At(n)
<1>1. /\ queue \in Queues /\ r \in Request /\ r.id \in Subs /\ scan \in Conns
      /\ n[1] \in Priorities /\ n[2] \in Nat /\ n[2] + 1 \in Nat \ {0}
  <2>1. queue \in Queues /\ scan \in Conns
    BY DEF JLInv, JLTypeOK, Queues, OfferNode
  <2>2. n[1] \in Priorities /\ n[2] \in Nat /\ r \in Request
    BY <2>1, NodeFacts
  <2> QED
    BY <2>1, <2>2 DEF Request
<1> DEFINE Facts(q) == q \in Queues /\ (JLUnique => UniqueIds(q) /\ (pend # None => ~HasId(q, pend.id)))
<1>2. Facts(queue) /\ Facts(Unlink(n))
  BY <1>1, UnlinkNode DEF JLUnique
<1>3. queue' \in {queue, Unlink(n)} /\ pend' = pend
  BY DEF OfferNode
<1>4. queue' \in Queues /\ JLUnique'
  <2>1. Facts(queue')
    BY <1>2, <1>3
  <2> QED
    BY <2>1, <1>3 DEF JLInv, JLUnique
<1>5. owner' \in Conns \cup {None}
  BY KeptType DEF JLInv, JLTypeOK, OfferNode
<1> HIDE DEF r
<1>6. CASE Assign(scan, r, tok) /\ judges' = judges /\ dispatch_ids' = dispatch_ids /\ conn' = conn
            /\ todo' = todo /\ scan' = None /\ cur' = Start
  <2>1. RetryKept'
    BY <1>1, <1>6, AssignFacts DEF JLInv
  <2>2. JLTypeOK'
    BY <1>1, <1>4, <1>5, <1>6, AssignFacts, StartType DEF JLInv, JLTypeOK, OfferNode, Queues
  <2> QED
    BY <2>1, <2>2, <1>4 DEF JLInv
<1>7. CASE Refuse(scan, r, out, tok) /\ judges' = judges /\ dispatch_ids' = dispatch_ids /\ conn' = conn
            /\ todo' = todo /\ scan' = scan /\ cur' = <<n[1], n[2] + 1>>
  <2>1. RetryKept'
    BY <1>1, <1>7, RefuseFacts DEF JLInv
  <2>2. JLTypeOK'
    BY <1>1, <1>4, <1>5, <1>7, RefuseFacts DEF JLInv, JLTypeOK, OfferNode, Queues
  <2> QED
    BY <2>1, <2>2, <1>4 DEF JLInv
<1>8. CASE Refuse(scan, r, out, tok) /\ judges' = judges /\ dispatch_ids' = [dispatch_ids EXCEPT ![r.id] = None] /\ conn' = conn
            /\ todo' = todo /\ scan' = scan /\ cur' = Start
  <2>1. RetryKept'
    BY <1>1, <1>8, RefuseFacts DEF JLInv
  <2>2. JLTypeOK'
    BY <1>1, <1>4, <1>5, <1>8, RefuseFacts, StartType DEF JLInv, JLTypeOK, OfferNode, Queues
  <2> QED
    BY <2>1, <2>2, <1>4 DEF JLInv
<1>9. CASE Refuse(scan, r, out, tok) /\ DropFailed(scan) /\ dispatch_ids' = dispatch_ids
            /\ todo' = todo \cup judges' /\ scan' = None /\ cur' = Start
  <2>1. RetryKept'
    BY <1>1, <1>9, RefuseFacts DEF JLInv
  <2>2. JLTypeOK'
    BY <1>1, <1>4, <1>5, <1>9, RefuseFacts, DropFailedFacts, StartType DEF JLInv, JLTypeOK, OfferNode, Queues
  <2> QED
    BY <2>1, <2>2, <1>4 DEF JLInv
<1> QED
  BY <1>6, <1>7, <1>8, <1>9 DEF OfferNode, r

\* What an admitted request does to the queue, whatever map and ids it goes by.
LEMMA AdmitFacts ==
  ASSUME queue \in Queues, UniqueIds(queue), pend = None, NEW r \in Request, NEW tok \in Tokens,
         NEW map, NEW ids \in [Subs -> Tokens \cup {None}], Admit(r, tok, map, ids)
  PROVE  /\ queue' \in Queues /\ JLUnique'
         /\ pend' \in {None, r}
         /\ dispatch_ids' \in [Subs -> Tokens \cup {None}]
<1>1. r.id \in Subs /\ r # None
  BY NoneAssumption DEF Request
<1> DEFINE u == UnlinkId(r.id)
<1>2. u \in Queues /\ UniqueIds(u) /\ ~HasId(u, r.id)
  BY UnlinkIdFacts
<1> HIDE DEF u
<1>3. Link(u, r) \in Queues /\ UniqueIds(Link(u, r))
  BY <1>2, LinkFacts
<1>4. CASE queue' = queue /\ dispatch_ids' = ids /\ pend' = pend
  BY <1>4 DEF JLUnique
<1>5. CASE queue' = u /\ dispatch_ids' = ids /\ pend' = pend
  BY <1>5, <1>2 DEF JLUnique
<1>6. CASE queue' = Link(u, r) /\ dispatch_ids' = [ids EXCEPT ![r.id] = tok] /\ pend' = pend
  BY <1>6, <1>1, <1>3 DEF JLUnique
<1>7. CASE queue' = u /\ dispatch_ids' = [ids EXCEPT ![r.id] = tok] /\ pend' = r
  BY <1>7, <1>1, <1>2 DEF JLUnique
<1> QED
  BY <1>4, <1>5, <1>6, <1>7 DEF Admit, u

LEMMA judge_JLInv ==
  ASSUME JLInv, NEW r \in Request, NEW tok \in Tokens, judge(r, tok)
  PROVE  JLInv'
<1>1. /\ queue' \in Queues /\ JLUnique' /\ pend' \in Request \cup {None}
      /\ dispatch_ids' \in [Subs -> Tokens \cup {None}]
  BY AdmitFacts DEF JLInv, JLUnique, JLTypeOK, Queues, judge, LockFree
<1>2. JLTypeOK'
  BY <1>1, KeptType DEF JLInv, JLTypeOK, judge, handlerVars, Queues
<1>3. RetryKept'
  BY DEF JLInv, RetryKept, judge, handlerVars
<1> QED
  BY <1>1, <1>2, <1>3 DEF JLInv

LEMMA DispatchNew_JLInv ==
  ASSUME JLInv, NEW h \in Conns, NEW out, NEW tok \in Tokens \cup {None}, DispatchNew(h, out, tok)
  PROVE  JLInv'
<1>1. /\ queue \in Queues /\ pend \in Request /\ pend.id \in Subs
      /\ UniqueIds(queue) /\ ~HasId(queue, pend.id)
  BY DEF JLInv, JLTypeOK, JLUnique, Queues, DispatchNew, Request
<1>2. Link(queue, pend) \in Queues /\ UniqueIds(Link(queue, pend))
  BY <1>1, LinkFacts
<1>3. queue' \in Queues /\ pend' \in Request \cup {None} /\ JLUnique'
  <2>1. CASE queue' = queue /\ pend' \in {None, pend}
    BY <2>1, <1>1 DEF JLUnique
  <2>2. CASE queue' = Link(queue, pend) /\ pend' = None
    BY <2>2, <1>2 DEF JLUnique
  <2> QED
    BY <2>1, <2>2 DEF DispatchNew
<1>4. owner' \in Conns \cup {None}
  BY KeptType DEF JLInv, JLTypeOK, DispatchNew
<1>5. CASE Assign(h, pend, tok) /\ judges' = judges /\ dispatch_ids' = dispatch_ids /\ conn' = conn /\ todo' = todo
  <2>1. RetryKept'
    BY <1>1, <1>5, AssignFacts DEF JLInv
  <2>2. JLTypeOK'
    BY <1>1, <1>3, <1>4, <1>5, AssignFacts DEF JLInv, JLTypeOK, DispatchNew, Queues
  <2> QED
    BY <2>1, <2>2, <1>3 DEF JLInv
<1>6. CASE /\ Refuse(h, pend, out, tok)
           /\ \/ judges' = judges /\ conn' = conn
              \/ DropFailed(h)
           /\ dispatch_ids' \in {dispatch_ids, [dispatch_ids EXCEPT ![pend.id] = None]}
           /\ todo' \in {todo, judges \ {h}}
  <2>1. RetryKept'
    BY <1>1, <1>6, RefuseFacts DEF JLInv
  <2>2. judges' \in SUBSET Conns /\ conn' \in [Conns -> ConnStates]
    BY <1>6, DropFailedFacts DEF JLInv, JLTypeOK
  <2>3. dispatch_ids' \in [Subs -> Tokens \cup {None}] /\ todo' \in SUBSET Conns
    BY <1>1, <1>6 DEF JLInv, JLTypeOK
  <2>4. JLTypeOK'
    BY <1>1, <1>3, <1>4, <1>6, <2>2, <2>3, RefuseFacts DEF JLInv, JLTypeOK, DispatchNew, Queues
  <2> QED
    BY <2>1, <2>4, <1>3 DEF JLInv
<1> QED
  BY <1>5, <1>6 DEF DispatchNew

LEMMA register_JLInv ==
  ASSUME JLInv, NEW h \in Conns, NEW ps \in SUBSET Subs, register(h, ps)
  PROVE  JLInv'
<1>1. conn' \in [Conns -> ConnStates]
  BY ShutType DEF JLInv, JLTypeOK, register, ConnStates
<1>2. JLTypeOK'
  BY <1>1, StartType, KeptType DEF JLInv, JLTypeOK, register, OfferTo
<1>3. JLUnique' /\ RetryKept'
  BY SameQueue DEF JLInv, RetryKept, register, OfferTo
<1> QED
  BY <1>2, <1>3 DEF JLInv

LEMMA connected_JLInv ==
  ASSUME JLInv, NEW h \in Conns, NEW d \in BOOLEAN, connected(h, d)
  PROVE  JLInv'
<1>1. JLTypeOK'
  BY DEF JLInv, JLTypeOK, connected, listVars, lockVars, workVars, ConnStates
<1>2. JLUnique' /\ RetryKept'
  BY SameQueue DEF JLInv, RetryKept, connected, listVars, lockVars, workVars
<1> QED
  BY <1>1, <1>2 DEF JLInv

LEMMA ConnectionLost_JLInv ==
  ASSUME JLInv, NEW h \in Conns, ConnectionLost(h)
  PROVE  JLInv'
<1>1. JLTypeOK'
  BY DEF JLInv, JLTypeOK, ConnectionLost, listVars, lockVars, workVars, ConnStates
<1>2. JLUnique' /\ RetryKept'
  BY SameQueue DEF JLInv, RetryKept, ConnectionLost, listVars, lockVars, workVars
<1> QED
  BY <1>1, <1>2 DEF JLInv

LEMMA disconnect_JLInv ==
  ASSUME JLInv, NEW n, disconnect(n)
  PROVE  JLInv'
<1>1. conn' \in [Conns -> ConnStates]
  BY ShutType DEF JLInv, JLTypeOK, disconnect
<1>2. JLTypeOK'
  BY <1>1 DEF JLInv, JLTypeOK, disconnect, listVars, lockVars, workVars
<1>3. JLUnique' /\ RetryKept'
  BY SameQueue DEF JLInv, RetryKept, disconnect, listVars, lockVars, workVars
<1> QED
  BY <1>2, <1>3 DEF JLInv

LEMMA on_supported_problems_JLInv ==
  ASSUME JLInv, NEW h \in Conns, NEW ps \in SUBSET Subs, on_supported_problems(h, ps)
  PROVE  JLInv'
<1>1. JLTypeOK'
  BY DEF JLInv, JLTypeOK, on_supported_problems, listVars, lockVars, workVars
<1>2. JLUnique' /\ RetryKept'
  BY SameQueue DEF JLInv, RetryKept, on_supported_problems, listVars, lockVars, workVars
<1> QED
  BY <1>1, <1>2 DEF JLInv

LEMMA update_problems_JLInv ==
  ASSUME JLInv, NEW h \in Conns, update_problems(h)
  PROVE  JLInv'
<1>1. JLTypeOK'
  BY StartType, KeptType DEF JLInv, JLTypeOK, update_problems, OfferTo, listVars
<1>2. JLUnique' /\ RetryKept'
  BY SameQueue DEF JLInv, RetryKept, update_problems, OfferTo, listVars
<1> QED
  BY <1>1, <1>2 DEF JLInv

LEMMA retry_queued_JLInv == JLInv /\ retry_queued => JLInv'
<1> SUFFICES ASSUME JLInv, retry_queued PROVE JLInv'
  OBVIOUS
<1>1. JLTypeOK'
  BY KeptType DEF JLInv, JLTypeOK, retry_queued, listVars, handlerVars
<1>2. JLUnique' /\ RetryKept'
  BY SameQueue DEF JLInv, RetryKept, retry_queued, listVars, handlerVars
<1> QED
  BY <1>1, <1>2 DEF JLInv

LEMMA update_disable_judge_JLInv ==
  ASSUME JLInv, NEW n, NEW d \in BOOLEAN, update_disable_judge(n, d)
  PROVE  JLInv'
<1>1. JLTypeOK'
  BY KeptType DEF JLInv, JLTypeOK, update_disable_judge, listVars
<1>2. JLUnique' /\ RetryKept'
  BY SameQueue DEF JLInv, RetryKept, update_disable_judge, listVars
<1> QED
  BY <1>1, <1>2 DEF JLInv

LEMMA remove_JLInv ==
  ASSUME JLInv, NEW h \in Conns, remove(h)
  PROVE  JLInv'
<1>1. scan' \in Conns \cup {None} /\ cur' \in Priorities \X (Nat \ {0}) /\ todo' \in SUBSET Conns /\ pend' = pend
  <2>1. CASE \E c \in judges' : judges' = {c} /\ working[c] = None
    <3>1. (CHOOSE c \in judges' : TRUE) \in Conns
      BY <2>1 DEF JLInv, JLTypeOK, remove
    <3> QED
      BY <2>1, <3>1, StartType DEF JLInv, JLTypeOK, remove, OfferTo
  <2>2. CASE ~\E c \in judges' : judges' = {c} /\ working[c] = None
    BY <2>2 DEF JLInv, JLTypeOK, remove, workVars
  <2> QED
    BY <2>1, <2>2
<1>2. submission_map' \in [Subs -> Conns \cup {None}]
  BY DEF JLInv, JLTypeOK, remove
<1>3. JLTypeOK'
  BY <1>1, <1>2, KeptType DEF JLInv, JLTypeOK, remove, ConnStates
<1>4. JLUnique' /\ RetryKept'
  BY <1>1, SameQueue DEF JLInv, RetryKept, remove
<1> QED
  BY <1>3, <1>4 DEF JLInv

LEMMA Forget_JLInv ==
  ASSUME JLInv, NEW h \in Conns, Forget(h)
  PROVE  JLInv'
<1>1. JLTypeOK'
  BY DEF JLInv, JLTypeOK, Forget, listVars, lockVars, workVars, ConnStates
<1>2. JLUnique' /\ RetryKept'
  BY SameQueue DEF JLInv, JLTypeOK, RetryKept, Forget, listVars, lockVars, workVars
<1> QED
  BY <1>1, <1>2 DEF JLInv

LEMMA on_judge_free_JLInv ==
  ASSUME JLInv, NEW h \in Conns, NEW s \in Subs, on_judge_free(h, s)
  PROVE  JLInv'
<1>1. JLTypeOK'
  BY StartType, KeptType DEF JLInv, JLTypeOK, on_judge_free, OfferTo, workVars
<1>2. JLUnique'
  BY SameQueue DEF JLInv, on_judge_free, OfferTo, workVars
<1>3. RetryKept'
  BY DEF JLInv, JLTypeOK, RetryKept, on_judge_free
<1> QED
  BY <1>1, <1>2, <1>3 DEF JLInv

LEMMA discard_JLInv ==
  ASSUME JLInv, NEW h \in Conns, discard(h)
  PROVE  JLInv'
<1>1. JLTypeOK'
  BY DEF JLInv, JLTypeOK, discard, handlerVars, lockVars, workVars
<1>2. JLUnique' /\ RetryKept'
  BY SameQueue DEF JLInv, RetryKept, discard, handlerVars, lockVars, workVars
<1> QED
  BY <1>1, <1>2 DEF JLInv

LEMMA defer_JLInv ==
  ASSUME JLInv, NEW h \in Conns, NEW s \in Subs, NEW tok \in Tokens, defer(h, s, tok)
  PROVE  JLInv'
<1>1. queue \in Queues /\ UniqueIds(queue) /\ pend = None
  BY DEF JLInv, JLTypeOK, JLUnique, Queues, defer, LockFree
<1>2. /\ queue' \in Queues /\ JLUnique' /\ pend' \in Request \cup {None}
      /\ dispatch_ids' \in [Subs -> Tokens \cup {None}]
  <2> DEFINE map == [submission_map EXCEPT ![s] = None]
             ids == [dispatch_ids EXCEPT ![s] = None]
  <2>1. ids \in [Subs -> Tokens \cup {None}] /\ dispatch_ids \in [Subs -> Tokens \cup {None}]
    BY DEF JLInv, JLTypeOK
  <2>2. CASE queue' = queue /\ pend' = pend /\ dispatch_ids' \in {ids, dispatch_ids}
    BY <2>1, <2>2, <1>1 DEF JLUnique
  <2>3. CASE Holds(h, s) /\ Admit(retry_request[h], tok, map, ids)
    <3>1. retry_request[h] \in Request
      BY <2>3, NoneAssumption DEF JLInv, JLTypeOK, RetryKept, Holds
    <3> HIDE DEF map, ids
    <3> QED
      BY <2>1, <2>3, <3>1, <1>1, AdmitFacts
  <2> QED
    BY <2>2, <2>3 DEF defer
<1>3. JLTypeOK'
  BY <1>2, KeptType DEF JLInv, JLTypeOK, defer, Queues
<1>4. RetryKept'
  BY DEF JLInv, JLTypeOK, RetryKept, defer
<1> QED
  BY <1>2, <1>3, <1>4 DEF JLInv

LEMMA abort_JLInv ==
  ASSUME JLInv, NEW s \in Subs, abort(s)
  PROVE  JLInv'
<1>1. queue \in Queues
  BY DEF JLInv, JLTypeOK, Queues
<1>2. /\ UnlinkId(s) \in Queues /\ UniqueIds(UnlinkId(s))
      /\ pend # None => ~HasId(UnlinkId(s), pend.id)
  BY <1>1, UnlinkIdFacts DEF JLInv, JLUnique
<1>3. queue' \in {queue, UnlinkId(s)} /\ pend' = pend
  BY DEF abort, lockVars, workVars
<1>4. JLTypeOK'
  BY <1>1, <1>2, <1>3 DEF JLInv, JLTypeOK, abort, handlerVars, lockVars, workVars, Queues
<1>5. JLUnique'
  BY <1>2, <1>3 DEF JLInv, JLUnique
<1>6. RetryKept'
  BY DEF JLInv, RetryKept, abort, handlerVars
<1> QED
  BY <1>4, <1>5, <1>6 DEF JLInv

(***************************************************************************)
(* submission_map and _working.  A judge is looked for work for only while *)
(* it is idle, which the race of on_supported_problems breaks: the lemmas  *)
(* need `checked' to be empty.                                             *)
(***************************************************************************)
LiveStates == {"new", "up", "shut"}
Live(h) == conn[h] \in LiveStates
MapEntries == \A s \in Subs, h \in Conns : submission_map[s] = h => working[h] = s
ScanIdle == scan # None => Live(scan) /\ working[scan] = None
ListLive == \A h \in judges \cup todo : Live(h)
OffIdle == \A h \in Conns : conn[h] = "off" => working[h] = None
GoneUnmapped == \A h \in Conns, s \in Subs : conn[h] \in {"off", "left"} => submission_map[s] # h
OneCall == pend = None \/ scan = None
\* defer() judges _retry_request again: it is the request of the running submission.
RetrySame == \A h \in Conns : working[h] # None => retry_request[h] # None /\ retry_request[h].id = working[h]
JLMap == MapEntries /\ checked = {} /\ ScanIdle /\ OneCall /\ ListLive /\ OffIdle /\ GoneUnmapped /\ RetrySame

LEMMA NoneFacts ==
  None \notin Conns /\ None \notin Subs /\ None \notin Tokens /\ None \notin Request
  BY NoneAssumption

LEMMA JLInit_JLMap == JLInit => JLMap
  BY NoneFacts DEF JLInit, JLMap, RetrySame, OneCall, MapEntries, ScanIdle, ListLive, OffIdle, GoneUnmapped, Live, LiveStates

\* Shutting sockets down neither brings a handler back nor takes one away.
LEMMA ShutFacts ==
  ASSUME NEW c \in Conns, JLTypeOK
  PROVE  /\ Shut(c) \in LiveStates <=> conn[c] \in LiveStates
         /\ Shut(c) = "off" <=> conn[c] = "off"
         /\ Shut(c) = "left" <=> conn[c] = "left"
  BY DEF JLTypeOK, Shut, LiveStates, ConnStates

SameLife ==
  \A c \in Conns :
    /\ conn'[c] \in LiveStates <=> conn[c] \in LiveStates
    /\ conn'[c] \in {"off", "left"} => conn'[c] = conn[c]

\* A judge that was idle and live takes a run; only live judges stay listed.
LEMMA Assign_JLMap ==
  ASSUME JLTypeOK, JLMap, NEW h \in Conns, NEW r \in Request, NEW tok, Assign(h, r, tok),
         Live(h), working[h] = None,
         judges' = judges, checked' = checked, conn' = conn, todo' = todo, scan' = None
  PROVE  JLMap'
<1>1. r.id \in Subs
  BY DEF Request
<1>2. /\ \A s \in Subs : submission_map'[s] = IF s = r.id THEN h ELSE submission_map[s]
      /\ \A c \in Conns : working'[c] = IF c = h THEN r.id ELSE working[c]
  BY <1>1 DEF JLTypeOK, Assign
<1>3. MapEntries'
  BY <1>1, <1>2, NoneFacts DEF JLMap, MapEntries
<1>4. ScanIdle' /\ OneCall' /\ ListLive' /\ checked' = {}
  BY DEF JLMap, ScanIdle, OneCall, ListLive, Live, LiveStates
<1>5. OffIdle' /\ GoneUnmapped'
  BY <1>1, <1>2 DEF JLMap, OffIdle, GoneUnmapped, Live, LiveStates
<1>6. RetrySame'
  BY <1>1, <1>2, NoneFacts DEF JLTypeOK, JLMap, RetrySame, Assign
<1> QED
  BY <1>3, <1>4, <1>5, <1>6 DEF JLMap

\* Entries of the map are dropped, handlers do not change and only live
\* judges are listed, offered work or looked for work for.
LEMMA Fewer_JLMap ==
  ASSUME JLTypeOK, JLMap, SameLife,
         \A s \in Subs : submission_map'[s] \in {submission_map[s], None},
         working' = working, checked' = checked,
         \A c \in Conns : working[c] # None => retry_request'[c] = retry_request[c],
         judges' \cup todo' \subseteq judges \cup todo,
         pend' = None \/ scan' = None,
         scan' # None => scan' \in Conns /\ conn'[scan'] \in LiveStates /\ working[scan'] = None
  PROVE  JLMap'
<1>1. MapEntries' /\ GoneUnmapped'
  <2>1. \A s \in Subs, h \in Conns : submission_map'[s] = h => submission_map[s] = h
    BY NoneFacts
  <2> QED
    BY <2>1 DEF JLMap, MapEntries, GoneUnmapped, SameLife
<1>2. ScanIdle' /\ OneCall' /\ checked' = {}
  BY DEF JLMap, ScanIdle, OneCall, Live
<1>3. ListLive'
  <2>1. \A h \in judges \cup todo : h \in Conns /\ conn[h] \in LiveStates
    BY DEF JLMap, ListLive, Live, JLTypeOK
  <2> QED
    BY <2>1 DEF ListLive, Live, SameLife
<1>4. OffIdle' /\ RetrySame'
  BY DEF JLMap, OffIdle, RetrySame, SameLife
<1> QED
  BY <1>1, <1>2, <1>3, <1>4 DEF JLMap

LEMMA OfferNothing_JLMap == JLInv /\ JLMap /\ OfferNothing => JLMap'
  BY Fewer_JLMap DEF OfferNothing, JLInv, JLTypeOK, SameLife, Live, LiveStates, listVars, handlerVars

LEMMA NextCandidate_JLMap ==
  ASSUME JLInv, JLMap, NEW h \in Conns, NextCandidate(h)
  PROVE  JLMap'
<1>1. h \in todo /\ Live(h) /\ scan = None
  BY DEF NextCandidate, JLMap, ListLive
<1> QED
  BY <1>1, Fewer_JLMap DEF NextCandidate, JLInv, JLTypeOK, SameLife, Live, LiveStates, listVars, handlerVars

LEMMA QueueNew_JLMap == JLInv /\ JLMap /\ QueueNew => JLMap'
<1> SUFFICES ASSUME JLInv, JLMap, QueueNew PROVE JLMap'
  OBVIOUS
<1>1. scan' # None => scan' \in Conns /\ Live(scan) /\ working[scan] = None
  BY DEF QueueNew, JLInv, JLTypeOK, JLMap, ScanIdle
<1> QED
  BY <1>1, Fewer_JLMap DEF QueueNew, JLInv, JLTypeOK, SameLife, Live, LiveStates, handlerVars

\* A refused or failed offer to h, which stays in the list or leaves it.
LEMMA Refuse_JLMap ==
  ASSUME JLInv, JLMap, NEW h \in Conns, working[h] = None, NEW r \in Request, NEW out, NEW tok,
         Refuse(h, r, out, tok), checked' = checked,
         (judges' = judges /\ conn' = conn) \/ DropFailed(h),
         todo' \subseteq judges \cup todo, scan' \in {scan, None}, pend' \in {pend, None}
  PROVE  JLMap'
<1>1. JLTypeOK
  BY DEF JLInv
<1>2. SameLife /\ judges' \subseteq judges
  BY <1>1, ShutFacts DEF SameLife, Live, LiveStates, DropFailed, JLTypeOK
<1>3. \A s \in Subs : submission_map'[s] \in {submission_map[s], None}
  BY <1>1 DEF Refuse, JLTypeOK
<1>4. scan' # None => scan' \in Conns /\ conn'[scan'] \in LiveStates /\ working[scan'] = None
  BY <1>1, <1>2 DEF JLMap, ScanIdle, Live, SameLife, JLTypeOK
<1>5. pend' = None \/ scan' = None
  BY DEF JLMap, OneCall
<1>6. working' = working /\ \A c \in Conns : working[c] # None => retry_request'[c] = retry_request[c]
  BY <1>1 DEF Refuse, JLTypeOK
<1> QED
  BY <1>1, <1>2, <1>3, <1>4, <1>5, <1>6, Fewer_JLMap

LEMMA OfferNode_JLMap ==
  ASSUME JLInv, JLMap, NEW n \in Nodes, NEW out, NEW tok, OfferNode(n, out, tok)
  PROVE  JLMap'
<1> DEFINE r == At(n)
<1>1. /\ r \in Request /\ scan \in Conns /\ Live(scan) /\ working[scan] = None
      /\ checked' = checked /\ pend' = pend
  <2>1. queue \in Queues /\ scan \in Conns
    BY DEF JLInv, JLTypeOK, Queues, OfferNode
  <2> QED
    BY <2>1, NodeFacts DEF JLMap, ScanIdle, OfferNode
<1> HIDE DEF r
<1>2. CASE Assign(scan, r, tok) /\ judges' = judges /\ conn' = conn /\ todo' = todo /\ scan' = None
  BY <1>1, <1>2, Assign_JLMap DEF JLInv
<1>3. CASE /\ Refuse(scan, r, out, tok)
           /\ judges' = judges /\ conn' = conn /\ todo' = todo /\ scan' = scan
  BY <1>1, <1>3, Refuse_JLMap
<1>4. CASE Refuse(scan, r, out, tok) /\ DropFailed(scan) /\ todo' = todo \cup judges' /\ scan' = None
  <2>1. todo' \subseteq judges \cup todo
    BY <1>4 DEF DropFailed
  <2> QED
    BY <1>1, <1>4, <2>1, Refuse_JLMap
<1> QED
  BY <1>2, <1>3, <1>4 DEF OfferNode, r

LEMMA judge_JLMap ==
  ASSUME JLInv, JLMap, NEW r, NEW tok, judge(r, tok)
  PROVE  JLMap'
  BY Fewer_JLMap DEF judge, LockFree, JLInv, JLTypeOK, SameLife, Live, LiveStates, handlerVars

LEMMA DispatchNew_JLMap ==
  ASSUME JLInv, JLMap, NEW h \in Conns, NEW out, NEW tok, DispatchNew(h, out, tok)
  PROVE  JLMap'
<1>1. /\ pend \in Request /\ Live(h) /\ working[h] = None
      /\ checked' = checked /\ scan' = None /\ scan = None /\ pend' \in {pend, None}
  BY DEF DispatchNew, OneCall, Available, Candidates, JLInv, JLTypeOK, JLMap, ListLive
<1>2. CASE Assign(h, pend, tok) /\ judges' = judges /\ conn' = conn /\ todo' = todo
  BY <1>1, <1>2, Assign_JLMap DEF JLInv
<1>3. CASE /\ Refuse(h, pend, out, tok)
           /\ (judges' = judges /\ conn' = conn) \/ DropFailed(h)
           /\ todo' \in {todo, judges \ {h}}
  <2>1. todo' \subseteq judges \cup todo
    BY <1>3
  <2> QED
    BY <1>1, <1>3, <2>1, Refuse_JLMap
<1> QED
  BY <1>2, <1>3 DEF DispatchNew

LEMMA register_JLMap ==
  ASSUME JLInv, JLMap, NEW h \in Conns, NEW ps, register(h, ps)
  PROVE  JLMap'
<1>1. JLTypeOK
  BY DEF JLInv
<1>2. /\ conn'[h] = "new" /\ working[h] = None
      /\ \A c \in Conns \ {h} : conn'[c] \in {conn[c], Shut(c)}
  BY DEF register, JLMap, OffIdle
<1>3. \A c \in Conns : Live(c) => (Live(c))'
  BY <1>1, <1>2, ShutFacts DEF Live, LiveStates
<1>4. \A c \in Conns : conn'[c] \in {"off", "left"} => conn'[c] = conn[c]
  BY <1>1, <1>2, ShutFacts
<1>5. MapEntries' /\ GoneUnmapped' /\ OffIdle' /\ RetrySame' /\ checked' = {}
  BY <1>4 DEF JLMap, MapEntries, GoneUnmapped, OffIdle, RetrySame, register
<1>6. ScanIdle' /\ OneCall'
  BY <1>2 DEF ScanIdle, OneCall, LockFree, register, OfferTo, Live, LiveStates
<1>7. ListLive'
  BY <1>1, <1>2, <1>3 DEF JLMap, ListLive, register, OfferTo, Live, LiveStates, JLTypeOK
<1> QED
  BY <1>5, <1>6, <1>7 DEF JLMap

LEMMA connected_JLMap ==
  ASSUME JLInv, JLMap, NEW h \in Conns, NEW d, connected(h, d)
  PROVE  JLMap'
<1>1. SameLife
  BY DEF connected, SameLife, Live, LiveStates, JLInv, JLTypeOK
<1>2. scan' # None => scan' \in Conns /\ conn'[scan'] \in LiveStates /\ working[scan'] = None
  BY <1>1 DEF connected, JLMap, ScanIdle, Live, JLInv, JLTypeOK, SameLife, lockVars, workVars
<1> QED
  BY <1>1, <1>2, Fewer_JLMap DEF connected, JLMap, OneCall, JLInv, JLTypeOK, listVars, lockVars, workVars

LEMMA ConnectionLost_JLMap ==
  ASSUME JLInv, JLMap, NEW h \in Conns, ConnectionLost(h)
  PROVE  JLMap'
<1>1. SameLife
  BY DEF ConnectionLost, SameLife, Live, LiveStates, JLInv, JLTypeOK
<1>2. scan' # None => scan' \in Conns /\ conn'[scan'] \in LiveStates /\ working[scan'] = None
  BY <1>1 DEF ConnectionLost, JLMap, ScanIdle, Live, JLInv, JLTypeOK, SameLife, lockVars, workVars
<1> QED
  BY <1>1, <1>2, Fewer_JLMap DEF ConnectionLost, JLMap, OneCall, JLInv, JLTypeOK, listVars, lockVars, workVars

LEMMA disconnect_JLMap ==
  ASSUME JLInv, JLMap, NEW n, disconnect(n)
  PROVE  JLMap'
<1>1. SameLife
  BY ShutFacts DEF disconnect, SameLife, Live, LiveStates, JLInv
<1>2. scan' = None
  BY DEF disconnect, LockFree, lockVars, workVars
<1> QED
  BY <1>1, <1>2, Fewer_JLMap DEF disconnect, JLInv, JLTypeOK, listVars, lockVars, workVars

LEMMA retry_queued_JLMap == JLInv /\ JLMap /\ retry_queued => JLMap'
  BY Fewer_JLMap DEF retry_queued, LockFree, JLInv, JLTypeOK, SameLife, Live, LiveStates, listVars, handlerVars

LEMMA update_disable_judge_JLMap ==
  ASSUME JLInv, JLMap, NEW n, NEW d, update_disable_judge(n, d)
  PROVE  JLMap'
<1>1. todo' \subseteq judges /\ scan' = None
  BY DEF update_disable_judge, LockFree
<1> QED
  BY <1>1, Fewer_JLMap DEF update_disable_judge, JLInv, JLTypeOK, SameLife, Live, LiveStates, listVars

\* on_disconnect takes the handler out of the list and its run out of the map.
LEMMA remove_JLMap ==
  ASSUME JLInv, JLMap, NEW h \in Conns, remove(h)
  PROVE  JLMap'
<1>1. JLTypeOK
  BY DEF JLInv
<1>2. /\ \A c \in Conns : conn'[c] = IF c = h THEN "left" ELSE conn[c]
      /\ working' = working /\ checked' = {}
  BY <1>1 DEF remove, JLTypeOK, JLMap
<1>3. /\ \A s \in Subs : submission_map'[s] \in {submission_map[s], None} /\ submission_map'[s] # h
      /\ MapEntries'
  <2>1. \A s \in Subs : submission_map[s] = h => working[h] = s
    BY DEF JLMap, MapEntries
  <2>2. \A s \in Subs : submission_map'[s] \in {submission_map[s], None} /\ submission_map'[s] # h
    BY <1>1, <2>1, NoneFacts DEF remove, JLTypeOK
  <2> QED
    BY <1>2, <2>2, NoneFacts DEF JLMap, MapEntries
<1>4. GoneUnmapped'
  BY <1>2, <1>3, NoneFacts DEF JLMap, GoneUnmapped
<1>5. OffIdle' /\ RetrySame'
  BY <1>2 DEF JLMap, OffIdle, RetrySame, remove
<1>6. judges' = judges \ {h} /\ \A c \in judges' : Live(c) /\ (Live(c))'
  BY <1>1, <1>2 DEF remove, JLMap, ListLive, Live, LiveStates, JLTypeOK
<1>8. OneCall'
  BY DEF OneCall, LockFree, remove, OfferTo, workVars
<1>7. ScanIdle' /\ ListLive'
  <2>1. CASE \E c \in judges' : judges' = {c} /\ working[c] = None
    <3>1. PICK c \in judges' : judges' = {c} /\ working[c] = None
      BY <2>1
    <3>2. (CHOOSE x \in judges' : TRUE) = c
      BY <3>1
    <3>3. scan' = c /\ todo' = {}
      BY <2>1, <3>2 DEF remove, OfferTo, LockFree
    <3> QED
      BY <1>2, <1>6, <3>1, <3>3 DEF ScanIdle, ListLive
  <2>2. CASE ~\E c \in judges' : judges' = {c} /\ working[c] = None
    <3>1. scan' = None /\ todo' = {}
      BY <2>2 DEF remove, LockFree, workVars
    <3> QED
      BY <1>6, <3>1 DEF ScanIdle, ListLive
  <2> QED
    BY <2>1, <2>2
<1> QED
  BY <1>2, <1>3, <1>4, <1>5, <1>7, <1>8 DEF JLMap

LEMMA Forget_JLMap ==
  ASSUME JLInv, JLMap, NEW h \in Conns, Forget(h)
  PROVE  JLMap'
<1>1. JLTypeOK
  BY DEF JLInv
<1>2. /\ conn[h] = "left" /\ ~Live(h) /\ ~Mapped(h)
      /\ \A c \in Conns : /\ conn'[c] = IF c = h THEN "off" ELSE conn[c]
                          /\ working'[c] = IF c = h THEN None ELSE working[c]
                          /\ retry_request'[c] = IF c = h THEN None ELSE retry_request[c]
      /\ UNCHANGED <<submission_map, judges, todo, scan, pend, checked>>
  <2>1. conn[h] = "left" /\ ~Live(h) /\ ~Mapped(h)
    BY DEF Forget, Live, LiveStates, Mapped, JLMap, GoneUnmapped
  <2> QED
    BY <1>1, <2>1 DEF Forget, JLTypeOK, listVars, lockVars, workVars
<1>3. MapEntries' /\ GoneUnmapped'
  BY <1>2 DEF JLMap, MapEntries, GoneUnmapped
<1>4. OffIdle' /\ RetrySame' /\ checked' = {}
  BY <1>2 DEF JLMap, OffIdle, RetrySame
<1>5. ListLive'
  BY <1>1, <1>2 DEF JLMap, ListLive, Live, LiveStates, JLTypeOK
<1>6. ScanIdle' /\ OneCall'
  BY <1>1, <1>2 DEF JLMap, OneCall, ScanIdle, Live, LiveStates, JLTypeOK
<1> QED
  BY <1>3, <1>4, <1>5, <1>6 DEF JLMap

\* The release of a run leaves no entry behind that names the idle handler.
LEMMA Released ==
  ASSUME JLTypeOK, JLMap, NEW h \in Conns, NEW s \in Subs, Holds(h, s),
         submission_map' = [submission_map EXCEPT ![s] = None],
         working' = [working EXCEPT ![h] = None], conn' = conn, retry_request' = retry_request
  PROVE  MapEntries' /\ OffIdle' /\ GoneUnmapped' /\ RetrySame'
<1>1. /\ \A x \in Subs : submission_map'[x] = IF x = s THEN None ELSE submission_map[x]
      /\ \A c \in Conns : working'[c] = IF c = h THEN None ELSE working[c]
  BY DEF JLTypeOK
<1>2. \A x \in Subs : submission_map[x] = h => x = s
  BY DEF JLMap, MapEntries, Holds
<1>3. MapEntries'
  BY <1>1, <1>2, NoneFacts DEF JLMap, MapEntries
<1>4. OffIdle' /\ GoneUnmapped' /\ RetrySame'
  BY <1>1, NoneFacts DEF JLMap, OffIdle, GoneUnmapped, RetrySame
<1> QED
  BY <1>3, <1>4

LEMMA on_judge_free_JLMap ==
  ASSUME JLInv, JLMap, NEW h \in Conns, NEW s \in Subs, Live(h), on_judge_free(h, s)
  PROVE  JLMap'
<1>1. /\ JLTypeOK /\ conn' = conn /\ checked' = {} /\ judges' = judges /\ todo' = {}
      /\ ListLive' /\ OneCall'
  BY DEF OneCall, JLInv, on_judge_free, OfferTo, workVars, LockFree, JLMap, ListLive, Live, LiveStates
<1>2. CASE Holds(h, s)
  <2>1. MapEntries' /\ OffIdle' /\ GoneUnmapped' /\ RetrySame'
    BY <1>1, <1>2, Released DEF on_judge_free
  <2>2. ScanIdle'
    BY <1>1, <1>2 DEF on_judge_free, OfferTo, ScanIdle, Live, LiveStates, JLTypeOK
  <2> QED
    BY <1>1, <2>1, <2>2 DEF JLMap
<1>3. CASE ~Holds(h, s)
  BY <1>1, <1>3, Fewer_JLMap DEF on_judge_free, LockFree, workVars, SameLife, Live, LiveStates, JLTypeOK
<1> QED
  BY <1>2, <1>3

LEMMA discard_JLMap ==
  ASSUME JLInv, JLMap, NEW h \in Conns, discard(h)
  PROVE  JLMap'
  BY Fewer_JLMap DEF discard, LockFree, JLInv, JLTypeOK, SameLife, Live, LiveStates, handlerVars, lockVars, workVars

LEMMA defer_JLMap ==
  ASSUME JLInv, JLMap, NEW h \in Conns, NEW s \in Subs, NEW tok, defer(h, s, tok)
  PROVE  JLMap'
<1>1. /\ JLTypeOK /\ conn' = conn /\ checked' = {} /\ judges' = judges /\ todo' = {} /\ scan' = None
      /\ ListLive' /\ ScanIdle' /\ OneCall'
  BY DEF OneCall, JLInv, defer, LockFree, JLMap, ListLive, ScanIdle, Live, LiveStates
<1>2. CASE Holds(h, s)
  <2>1. MapEntries' /\ OffIdle' /\ GoneUnmapped' /\ RetrySame'
    BY <1>1, <1>2, Released DEF defer
  <2> QED
    BY <1>1, <2>1 DEF JLMap
<1>3. CASE ~Holds(h, s)
  BY <1>1, <1>3, Fewer_JLMap DEF defer, LockFree, SameLife, Live, LiveStates, JLTypeOK
<1> QED
  BY <1>2, <1>3

LEMMA abort_JLMap ==
  ASSUME JLInv, JLMap, NEW s, abort(s)
  PROVE  JLMap'
  BY Fewer_JLMap DEF abort, LockFree, JLInv, JLTypeOK, SameLife, Live, LiveStates, handlerVars, lockVars, workVars
=============================================================================
