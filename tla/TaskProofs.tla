----------------------------- MODULE TaskProofs -----------------------------
(* Theorems about the Celery tasks of the external judge, of invocations and of *)
(* the conservative ranking (ExternalJudge, Invocations, Conservative), for      *)
(* every number of runs, items, tokens, workers, rows, builds and generations.   *)
EXTENDS ExternalJudge, Invocations, Conservative, SetLemmas, TLAPS

-----------------------------------------------------------------------------
(* External judge.                                                             *)
ExtInv == ExternalTypeOK /\ ResultOfCurrentRow

LEMMA SetError_ExtInv ==
  ASSUME ExtInv, NEW pk \in 1..ExternalRuns, SetError(pk)
  PROVE  /\ extStatus' \in ExtActive \cup ExtFinal /\ extBy' \in 0..ExternalRuns
         /\ extStatus' = "D" => extStatus = "D" /\ extBy' = extBy
  BY ExternalAssumption DEF ExtInv, ExternalTypeOK, SetError, ExtActive, ExtFinal

LEMMA ExternalInit_ExtInv == ExternalInit => ExtInv
  BY ExternalAssumption
  DEF ExternalInit, ExtInv, ExternalTypeOK, ResultOfCurrentRow, ExtActive, ExtFinal, NoRow, ExtTask

LEMMA ExternalNext_ExtInv == ExtInv /\ [ExternalNext]_externalVars => ExtInv'
<1> SUFFICES ASSUME ExtInv, [ExternalNext]_externalVars PROVE ExtInv'
  OBVIOUS
<1> USE ExternalAssumption DEF ExtInv, ExternalTypeOK, ResultOfCurrentRow
<1>1. ASSUME NEW t \in extTasks, Schedule(t) PROVE ExtInv'
  <2>1. t.pk \in 1..ExternalRuns
    OBVIOUS
  <2>2. CASE SetError(t.pk) /\ Becomes(t, {}) /\ UNCHANGED extRow
    BY <1>1, <2>1, <2>2, SetError_ExtInv DEF Schedule, Becomes
  <2>3. CASE /\ extRow' = [NoRow EXCEPT !.pk = t.pk]
             /\ \/ extStatus' = "P" /\ extBy' = extBy /\ Becomes(t, {ExtTask("submit", t.pk)})
                \/ extStatus' = "IE" /\ extBy' = t.pk /\ Becomes(t, {})
    <3>1. extRow' = [pk |-> t.pk, sent |-> FALSE, ended |-> FALSE, attempts |-> 0]
      BY <2>3 DEF NoRow
    <3>2. extRow' \in [pk : 0..ExternalRuns, sent : BOOLEAN, ended : BOOLEAN, attempts : 0..MaxPollAttempts]
      BY <2>1, <3>1
    <3>3. ExternalTypeOK'
      BY <1>1, <2>1, <2>3, <3>2 DEF Schedule, Becomes, ExtTask, ExtActive, ExtFinal
    <3> QED
      BY <2>3, <3>3
  <2> QED
    BY <1>1, <2>2, <2>3 DEF Schedule
<1>2. ASSUME NEW t \in extTasks, SubmitStarts(t) PROVE ExtInv'
  <2>1. t.pk \in 1..ExternalRuns
    OBVIOUS
  <2>2. CASE SetError(t.pk) /\ Becomes(t, {})
    BY <1>2, <2>1, <2>2, SetError_ExtInv DEF SubmitStarts, Becomes
  <2>3. CASE ~(SetError(t.pk) /\ Becomes(t, {}))
    BY <1>2, <2>1, <2>3 DEF SubmitStarts, Becomes, ExtTask, ExtActive
  <2> QED
    BY <2>2, <2>3
<1>3. ASSUME NEW t \in extTasks, SubmitAnswered(t) PROVE ExtInv'
  <2>1. t.pk \in 1..ExternalRuns
    OBVIOUS
  <2>2. CASE SetError(t.pk) /\ Becomes(t, {}) /\ UNCHANGED extRow
    BY <1>3, <2>1, <2>2, SetError_ExtInv DEF SubmitAnswered, Becomes
  <2>3. CASE /\ extRow' = [extRow EXCEPT !.sent = TRUE, !.attempts = 0]
             /\ Becomes(t, {ExtTask("poll", t.pk)}) /\ UNCHANGED <<extStatus, extBy>>
    <3>1. extRow' = [pk |-> extRow.pk, sent |-> TRUE, ended |-> extRow.ended, attempts |-> 0]
      BY <2>3
    <3>2. extIssued' = extIssued
      BY <1>3 DEF SubmitAnswered
    <3>3. extRow' \in [pk : 0..ExternalRuns, sent : BOOLEAN, ended : BOOLEAN, attempts : 0..MaxPollAttempts]
      BY <3>1
    <3>4. ExternalTypeOK'
      BY <2>1, <2>3, <3>2, <3>3 DEF Becomes, ExtTask
    <3> QED
      BY <2>3, <3>1, <3>4
  <2>4. CASE Becomes(t, {}) /\ UNCHANGED <<extStatus, extBy, extRow>>
    BY <1>3, <2>4 DEF SubmitAnswered, Becomes
  <2> QED
    BY <1>3, <2>2, <2>3, <2>4 DEF SubmitAnswered
<1>4. ASSUME NEW t \in extTasks, PollStarts(t) PROVE ExtInv'
  <2>1. t.pk \in 1..ExternalRuns
    OBVIOUS
  <2>2. CASE SetError(t.pk) /\ extRow' = [extRow EXCEPT !.ended = TRUE] /\ Becomes(t, {})
    BY <1>4, <2>1, <2>2, SetError_ExtInv DEF PollStarts, Becomes
  <2>3. CASE PollAllowed /\ extRow' = Counted /\ Becomes(t, {ExtTask("polling", t.pk)}) /\ UNCHANGED <<extStatus, extBy>>
    BY <1>4, <2>1, <2>3 DEF PollStarts, Becomes, ExtTask, PollAllowed, Counted
  <2>4. CASE Becomes(t, {}) /\ UNCHANGED <<extStatus, extBy, extRow>>
    BY <1>4, <2>4 DEF PollStarts, Becomes
  <2> QED
    BY <1>4, <2>2, <2>3, <2>4 DEF PollStarts
<1>5. ASSUME NEW t \in extTasks, PollAnswered(t) PROVE ExtInv'
  <2>1. t.pk \in 1..ExternalRuns
    OBVIOUS
  <2>2. CASE SetError(t.pk) /\ extRow' = [extRow EXCEPT !.ended = @ \/ extRow.pk = t.pk] /\ Becomes(t, {})
    BY <1>5, <2>1, <2>2, SetError_ExtInv DEF PollAnswered, Becomes
  <2>3. CASE UNCHANGED <<extStatus, extBy, extRow>>
    BY <1>5, <2>1, <2>3 DEF PollAnswered, Becomes, ExtTask
  <2> QED
    BY <1>5, <2>2, <2>3 DEF PollAnswered
<1>6. ASSUME NEW t \in extTasks, Finalize(t) PROVE ExtInv'
  BY <1>6 DEF Finalize, Becomes, ExtTask, RowOf, ExtActive, ExtFinal
<1>7. CASE ExternalAbort
  BY <1>7 DEF ExternalAbort, ExtActive, ExtFinal
<1>8. CASE ExternalRejudge
  BY <1>8 DEF ExternalRejudge, ExtActive, ExtFinal, ExtTask
<1>9. CASE UNCHANGED externalVars
  BY <1>9 DEF externalVars
<1> QED
  BY <1>1, <1>2, <1>3, <1>4, <1>5, <1>6, <1>7, <1>8, <1>9 DEF ExternalNext, ExternalTasks, ExternalTask

\* However slow the answers of the remote site are and however often the
\* submission is aborted and judged again (external_judge.py, finalize_external_submission):
\* a stored result is that of the external row in the database.
THEOREM ResultIsOfCurrentRow == ExternalSpec => []ResultOfCurrentRow
<1>1. ExtInv => ResultOfCurrentRow
  BY DEF ExtInv
<1> QED
  BY <1>1, ExternalInit_ExtInv, ExternalNext_ExtInv, PTL DEF ExternalSpec

-----------------------------------------------------------------------------
(* Invocations.                                                                *)
ItemRecord == [state : {"absent", "pending", "sent", "error"}, status : {"QU", "P", "D", "IE"}, token : Nat]
WorkerRecord ==
  [step : {"idle", "items", "handoff", "retried"}, todo : SUBSET InvItems, item : InvItems \cup {NoItem}, token : Nat]
RetryStates == {"none", "scheduled", "refused"}
Sending == {"handoff", "retried"}

\* That run of item i is at the bridge, or a worker is about to hand it over.
Reaches(bridge, hands, i, token) ==
  \/ <<i, token>> \in bridge
  \/ \E w \in InvWorkers : hands[w].step \in Sending /\ hands[w].item = i /\ hands[w].token = token
OnWay(r, retry, bridge, hands, i) == Reaches(bridge, hands, i, r.token) \/ (r.status = "QU" /\ retry # "none")
\* A row that must be on its way: its item is marked as sent or, since judge() leaves
\* such a row alone while it ensures the data, it has a token.
Unsettled(r) == r.status \in {"QU", "P"} /\ (r.state = "sent" \/ (ensure # "off" /\ r.token # 0))

InvTyped ==
  /\ items \in [InvItems -> ItemRecord] /\ invMessages \in {0, 1} /\ workers \in [InvWorkers -> WorkerRecord]
  /\ atBridge \subseteq InvItems \X Nat /\ retries \in [InvItems -> RetryStates]
Settings == ensure \in {"off", "restore", "remote"} /\ died \in BOOLEAN
\* A row is claimed with P only while the readiness of the data is ensured.
ClaimsHaveTokens == \A i \in InvItems : items[i].status = "P" => ensure # "off" /\ items[i].token # 0
InHand == \A w \in InvWorkers : workers[w].step \in Sending => workers[w].item \in InvItems
OnlyRestoresRetry == \A i \in InvItems : retries[i] # "none" => ensure = "restore"
UnsettledOnWay ==
  \A i \in InvItems : Unsettled(items[i]) => died \/ OnWay(items[i], retries[i], atBridge, workers, i)
InvInv == InvTyped /\ Settings /\ ClaimsHaveTokens /\ InHand /\ OnlyRestoresRetry /\ UnsettledOnWay

LEMMA InvInv_SentRunIsOnItsWay == InvInv => SentRunIsOnItsWay
<1> SUFFICES ASSUME InvInv, NEW i \in InvItems, items[i].state = "sent", items[i].status \in {"QU", "P"}
    PROVE  died \/ OnWay(items[i], retries[i], atBridge, workers, i)
  BY DEF SentRunIsOnItsWay, OnWay, Reaches, Sending
<1> QED
  BY DEF InvInv, UnsettledOnWay, Unsettled

LEMMA ItemFields ==
  ASSUME NEW r \in ItemRecord
  PROVE  r.state \in {"absent", "pending", "sent", "error"} /\ r.status \in {"QU", "P", "D", "IE"} /\ r.token \in Nat
  BY DEF ItemRecord

LEMMA ItemMade ==
  ASSUME NEW state \in {"absent", "pending", "sent", "error"}, NEW status \in {"QU", "P", "D", "IE"}, NEW token \in Nat
  PROVE  [state |-> state, status |-> status, token |-> token] \in ItemRecord
  BY DEF ItemRecord

LEMMA Idle ==
  IdleWorker \in WorkerRecord /\ IdleWorker.step = "idle" /\ IdleWorker.item = NoItem /\ IdleWorker.token = 0
  BY DEF IdleWorker, WorkerRecord

\* What worker w does next: it sends nothing, or it sends run `token` of item i.
LEMMA NowIdle ==
  ASSUME InvInv, NEW w \in InvWorkers, NEW new \in WorkerRecord, workers' = [workers EXCEPT ![w] = new],
         new.step \notin Sending
  PROVE  /\ workers' \in [InvWorkers -> WorkerRecord] /\ InHand' /\ workers'[w] = new
         /\ \A v \in InvWorkers \ {w} : workers'[v] = workers[v]
  BY DEF InvInv, InvTyped, InHand

LEMMA NowSends ==
  ASSUME InvInv, NEW w \in InvWorkers, NEW i \in InvItems, NEW token, NEW new \in WorkerRecord,
         workers' = [workers EXCEPT ![w] = new], new.step \in Sending, new.item = i, new.token = token
  PROVE  /\ workers' \in [InvWorkers -> WorkerRecord] /\ InHand' /\ Reaches(atBridge', workers', i, token)
         /\ \A v \in InvWorkers \ {w} : workers'[v] = workers[v]
<1>1. workers' \in [InvWorkers -> WorkerRecord] /\ workers'[w] = new /\ \A v \in InvWorkers \ {w} : workers'[v] = workers[v]
  BY DEF InvInv, InvTyped
<1> QED
  BY <1>1 DEF InvInv, InHand, Reaches

LEMMA GoesOn_Workers ==
  ASSUME InvInv, NEW w \in InvWorkers, NEW i, GoesOn(w, i)
  PROVE  /\ workers' \in [InvWorkers -> WorkerRecord] /\ InHand' /\ workers'[w].step = "items"
         /\ \A v \in InvWorkers \ {w} : workers'[v] = workers[v]
<1>1. workers[w].todo \ {i} \subseteq InvItems
  BY DEF InvInv, InvTyped, WorkerRecord
<1> DEFINE new == [step |-> "items", todo |-> workers[w].todo \ {i}, item |-> NoItem, token |-> 0]
<1>2. new \in WorkerRecord /\ new.step = "items"
  BY <1>1 DEF WorkerRecord
<1>3. workers' = [workers EXCEPT ![w] = new]
  BY DEF GoesOn, AtItems
<1>4. new.step \notin Sending
  BY <1>2 DEF Sending
<1> HIDE DEF new
<1> QED
  BY <1>2, <1>3, <1>4, NowIdle

LEMMA HandsOver_Workers ==
  ASSUME InvInv, NEW w \in InvWorkers, NEW i \in InvItems, NEW token \in Nat, HandsOver(w, i, token)
  PROVE  /\ workers' \in [InvWorkers -> WorkerRecord] /\ InHand' /\ Reaches(atBridge', workers', i, token)
         /\ \A v \in InvWorkers \ {w} : workers'[v] = workers[v]
<1>1. workers[w].todo \ {i} \subseteq InvItems
  BY DEF InvInv, InvTyped, WorkerRecord
<1> DEFINE new == [step |-> "handoff", todo |-> workers[w].todo \ {i}, item |-> i, token |-> token]
<1>2. new \in WorkerRecord /\ new.step \in Sending /\ new.item = i /\ new.token = token
  BY <1>1 DEF WorkerRecord, Sending
<1>3. workers' = [workers EXCEPT ![w] = new]
  BY DEF HandsOver
<1> HIDE DEF new
<1> QED
  BY <1>2, <1>3, NowSends

LEMMA SetItem_Record ==
  ASSUME InvInv, NEW i \in InvItems, NEW state \in {"absent", "pending", "sent", "error"},
         NEW status \in {"QU", "P", "D", "IE"}, NEW token \in Nat, SetItem(i, state, status, token)
  PROVE  /\ items' \in [InvItems -> ItemRecord] /\ \A k \in InvItems \ {i} : items'[k] = items[k]
         /\ items'[i].state = state /\ items'[i].status = status /\ items'[i].token = token
<1> DEFINE r == [state |-> state, status |-> status, token |-> token]
<1>1. r \in ItemRecord /\ r.state = state /\ r.status = status /\ r.token = token
  BY ItemMade
<1>2. items' = [items EXCEPT ![i] = r]
  BY DEF SetItem
<1> HIDE DEF r
<1> QED
  BY <1>1, <1>2 DEF InvInv, InvTyped

LEMMA RetryOf_Record ==
  ASSUME InvInv, NEW i \in InvItems, NEW state \in RetryStates, RetryOf(i, state)
  PROVE  /\ retries' \in [InvItems -> RetryStates] /\ retries'[i] = state
         /\ \A k \in InvItems \ {i} : retries'[k] = retries[k]
  BY DEF RetryOf, InvInv, InvTyped

\* A step that changes one item, its retry and one worker keeps the invariant when what
\* it makes of this item is on its way as it should be, and no other handoff is lost.
LEMMA OneItem ==
  ASSUME InvInv, NEW i \in InvItems, NEW w \in InvWorkers,
         items' \in [InvItems -> ItemRecord], \A k \in InvItems \ {i} : items'[k] = items[k],
         retries' \in [InvItems -> RetryStates], \A k \in InvItems \ {i} : retries'[k] = retries[k],
         workers' \in [InvWorkers -> WorkerRecord], InHand', \A v \in InvWorkers \ {w} : workers'[v] = workers[v],
         workers[w].step \in Sending => workers[w].item = i,
         atBridge \subseteq atBridge', atBridge' \subseteq InvItems \X Nat, UNCHANGED <<invMessages, ensure>>,
         died' \in BOOLEAN, died => died',
         items'[i].status = "P" => ensure # "off" /\ items'[i].token # 0,
         retries'[i] # "none" => ensure = "restore",
         Unsettled(items'[i]) => died' \/ OnWay(items'[i], retries'[i], atBridge', workers', i)
  PROVE  InvInv'
<1>1. InvTyped' /\ Settings'
  BY DEF InvInv, InvTyped, Settings
<1>2. ClaimsHaveTokens' /\ OnlyRestoresRetry'
  BY DEF InvInv, ClaimsHaveTokens, OnlyRestoresRetry
<1>3. ASSUME NEW k \in InvItems, Unsettled(items'[k])
      PROVE  died' \/ OnWay(items'[k], retries'[k], atBridge', workers', k)
  <2>1. CASE k = i
    BY <1>3, <2>1
  <2>2. CASE k # i
    <3>1. items'[k] = items[k] /\ retries'[k] = retries[k]
      BY <2>2
    <3>2. died \/ OnWay(items[k], retries[k], atBridge, workers, k)
      BY <1>3, <3>1 DEF InvInv, UnsettledOnWay
    <3>3. ASSUME NEW v \in InvWorkers, workers[v].step \in Sending, workers[v].item = k
          PROVE  workers'[v] = workers[v]
      BY <2>2, <3>3
    <3> QED
      BY <3>1, <3>2, <3>3 DEF OnWay, Reaches
  <2> QED
    BY <2>1, <2>2
<1>4. UnsettledOnWay'
  <2>1. ASSUME NEW k \in InvItems, Unsettled(items[k])'
        PROVE  (died \/ OnWay(items[k], retries[k], atBridge, workers, k))'
    <3>1. Unsettled(items'[k])
      BY <2>1 DEF Unsettled
    <3> QED
      BY <1>3, <3>1
  <2> QED
    BY <2>1 DEF UnsettledOnWay
<1> QED
  BY <1>1, <1>2, <1>4 DEF InvInv

LEMMA InvInit_InvInv ==
  ASSUME "both" \notin EnsureReady
  PROVE  InvInit => InvInv
<1> SUFFICES ASSUME InvInit PROVE InvInv
  OBVIOUS
<1>1. NewItem \in ItemRecord /\ NewItem.state = "absent" /\ NewItem.status = "QU" /\ NewItem.token = 0
  BY DEF NewItem, ItemRecord
<1>2. /\ \A i \in InvItems : items[i] = NewItem /\ retries[i] = "none"
      /\ \A w \in InvWorkers : workers[w] = IdleWorker
      /\ items \in [InvItems -> ItemRecord] /\ workers \in [InvWorkers -> WorkerRecord]
      /\ retries \in [InvItems -> RetryStates]
  BY <1>1, Idle DEF InvInit, RetryStates
<1>3. InvTyped /\ Settings
  BY <1>2, InvocationAssumption DEF InvInit, InvTyped, Settings
<1>4. ClaimsHaveTokens /\ InHand /\ OnlyRestoresRetry /\ UnsettledOnWay
  BY <1>1, <1>2, Idle DEF ClaimsHaveTokens, InHand, OnlyRestoresRetry, UnsettledOnWay, Unsettled, Sending
<1> QED
  BY <1>3, <1>4 DEF InvInv

\* What judge() made of an item that was queued or had failed.
LEMMA JudgesItem_InvInv ==
  ASSUME InvInv, NEW w \in InvWorkers, NEW i \in workers[w].todo, workers[w].step = "items",
         items[i].status \in {"QU", "IE"}, JudgesItem(w, i), UNCHANGED <<invMessages, atBridge, ensure>>
  PROVE  InvInv'
<1>1. /\ i \in InvItems /\ items[i].token \in Nat /\ NewToken(i) \in Nat /\ NewToken(i) # 0
      /\ atBridge \subseteq InvItems \X Nat /\ died \in BOOLEAN /\ workers[w].step \notin Sending
      /\ retries[i] \in RetryStates
  <2>1. i \in InvItems /\ items[i] \in ItemRecord
    BY DEF InvInv, InvTyped, WorkerRecord
  <2>2. items[i].token \in Nat
    BY <2>1, ItemFields
  <2> QED
    BY <2>1, <2>2 DEF InvInv, InvTyped, Settings, NewToken, Sending
<1>2. CASE /\ UNCHANGED died /\ \E s \in NewStatus(i) : SetItem(i, "sent", s, NewToken(i))
           /\ HandsOver(w, i, NewToken(i)) /\ RetryOf(i, IF retries[i] = "refused" THEN "none" ELSE retries[i])
  <2>1. PICK s \in NewStatus(i) : SetItem(i, "sent", s, NewToken(i))
    BY <1>2
  <2>2. s \in {"QU", "P"} /\ (s = "P" => ensure # "off")
    BY <2>1 DEF NewStatus
  <2>3. /\ items' \in [InvItems -> ItemRecord] /\ \A k \in InvItems \ {i} : items'[k] = items[k]
        /\ items'[i].status = s /\ items'[i].token = NewToken(i)
    BY <1>1, <2>1, <2>2, SetItem_Record
  <2>4. /\ workers' \in [InvWorkers -> WorkerRecord] /\ InHand' /\ Reaches(atBridge', workers', i, NewToken(i))
        /\ \A v \in InvWorkers \ {w} : workers'[v] = workers[v]
    BY <1>1, <1>2, HandsOver_Workers
  <2> DEFINE retry == IF retries[i] = "refused" THEN "none" ELSE retries[i]
  <2>5. retry \in RetryStates /\ (retry # "none" => ensure = "restore") /\ RetryOf(i, retry)
    BY <1>1, <1>2 DEF InvInv, OnlyRestoresRetry, RetryStates
  <2> HIDE DEF retry
  <2>6. /\ retries' \in [InvItems -> RetryStates] /\ retries'[i] = retry
        /\ \A k \in InvItems \ {i} : retries'[k] = retries[k]
    BY <1>1, <2>5, RetryOf_Record
  <2>7. OnWay(items'[i], retries'[i], atBridge', workers', i)
    BY <2>3, <2>4 DEF OnWay
  <2> QED
    BY <1>1, <1>2, <2>2, <2>3, <2>4, <2>5, <2>6, <2>7, OneItem
<1>3. CASE LeftAlone(i) /\ SetItem(i, "sent", "QU", items[i].token) /\ SendsAgain(w, i) /\ UNCHANGED <<retries, died>>
  <2>1. /\ items' \in [InvItems -> ItemRecord] /\ \A k \in InvItems \ {i} : items'[k] = items[k]
        /\ items'[i].status = "QU" /\ items'[i].token = items[i].token
    BY <1>1, <1>3, SetItem_Record
  <2>2. items[i].status = "QU" /\ items[i].token # 0
    BY <1>3 DEF LeftAlone, Reserved
  <2>3. retries' \in [InvItems -> RetryStates] /\ (retries'[i] # "none" => ensure = "restore")
    BY <1>1, <1>3 DEF InvInv, InvTyped, OnlyRestoresRetry
  <2>4. CASE HandsOver(w, i, items[i].token)
    <3>1. /\ workers' \in [InvWorkers -> WorkerRecord] /\ InHand' /\ Reaches(atBridge', workers', i, items[i].token)
          /\ \A v \in InvWorkers \ {w} : workers'[v] = workers[v]
      BY <1>1, <2>4, HandsOver_Workers
    <3>2. OnWay(items'[i], retries'[i], atBridge', workers', i)
      BY <2>1, <3>1 DEF OnWay
    <3> QED
      BY <1>1, <1>3, <2>1, <2>3, <3>1, <3>2, OneItem
  <2>5. CASE ensure # "off" /\ GoesOn(w, i)
    <3>1. /\ workers' \in [InvWorkers -> WorkerRecord] /\ InHand' /\ \A v \in InvWorkers \ {w} : workers'[v] = workers[v]
      BY <2>5, GoesOn_Workers
    <3>2. died \/ OnWay(items[i], retries[i], atBridge, workers, i)
      BY <1>1, <2>2, <2>5 DEF InvInv, UnsettledOnWay, Unsettled
    <3>3. died' \/ OnWay(items'[i], retries'[i], atBridge', workers', i)
      BY <1>1, <1>3, <2>1, <2>2, <3>1, <3>2 DEF OnWay, Reaches
    <3> QED
      BY <1>1, <1>3, <2>1, <2>3, <3>1, <3>3, OneItem
  <2> QED
    BY <1>3, <2>4, <2>5 DEF SendsAgain
<1>4. CASE /\ MayDefer /\ SetItem(i, "sent", "QU", items[i].token)
           /\ \E r \in {"scheduled", retries[i]} \ {"none"} : RetryOf(i, r)
           /\ SendsAgain(w, i) /\ UNCHANGED died
  <2>1. /\ items' \in [InvItems -> ItemRecord] /\ \A k \in InvItems \ {i} : items'[k] = items[k]
        /\ items'[i].status = "QU"
    BY <1>1, <1>4, SetItem_Record
  <2>2. PICK r \in {"scheduled", retries[i]} \ {"none"} : RetryOf(i, r)
    BY <1>4
  <2>3. r \in RetryStates /\ r # "none"
    BY <1>1, <2>2 DEF RetryStates
  <2>4. /\ retries' \in [InvItems -> RetryStates] /\ retries'[i] = r
        /\ \A k \in InvItems \ {i} : retries'[k] = retries[k]
    BY <1>1, <2>2, <2>3, RetryOf_Record
  <2>5. /\ workers' \in [InvWorkers -> WorkerRecord] /\ InHand' /\ \A v \in InvWorkers \ {w} : workers'[v] = workers[v]
    BY <1>1, <1>4, GoesOn_Workers, HandsOver_Workers DEF SendsAgain
  <2>6. ensure = "restore"
    BY <1>4 DEF MayDefer, InvInv, Settings
  <2>7. OnWay(items'[i], retries'[i], atBridge', workers', i)
    BY <2>1, <2>3, <2>4 DEF OnWay
  <2> QED
    BY <1>1, <1>4, <2>1, <2>4, <2>5, <2>6, <2>7, OneItem
<1>5. CASE /\ MayDefer /\ SetItem(i, "sent", "QU", items[i].token)
           /\ workers' = [workers EXCEPT ![w] = IdleWorker] /\ died' = TRUE /\ UNCHANGED retries
  <2>1. /\ items' \in [InvItems -> ItemRecord] /\ \A k \in InvItems \ {i} : items'[k] = items[k]
        /\ items'[i].status = "QU"
    BY <1>1, <1>5, SetItem_Record
  <2>2. IdleWorker.step \notin Sending
    BY Idle DEF Sending
  <2>3. /\ workers' \in [InvWorkers -> WorkerRecord] /\ InHand' /\ \A v \in InvWorkers \ {w} : workers'[v] = workers[v]
    BY <1>5, <2>2, Idle, NowIdle
  <2>4. retries' \in [InvItems -> RetryStates] /\ (retries'[i] # "none" => ensure = "restore")
    BY <1>1, <1>5 DEF InvInv, InvTyped, OnlyRestoresRetry
  <2> QED
    BY <1>1, <1>5, <2>1, <2>3, <2>4, OneItem
<1>6. CASE /\ \E s \in {items[i].status, "IE"} : SetItem(i, "error", s, items[i].token)
           /\ GoesOn(w, i) /\ UNCHANGED <<retries, died>>
  <2>1. PICK s \in {items[i].status, "IE"} : SetItem(i, "error", s, items[i].token)
    BY <1>6
  <2>2. /\ items' \in [InvItems -> ItemRecord] /\ \A k \in InvItems \ {i} : items'[k] = items[k]
        /\ items'[i].status = s /\ items'[i].token = items[i].token /\ items'[i].state = "error"
    BY <1>1, <2>1, SetItem_Record
  <2>3. /\ workers' \in [InvWorkers -> WorkerRecord] /\ InHand' /\ \A v \in InvWorkers \ {w} : workers'[v] = workers[v]
    BY <1>6, GoesOn_Workers
  <2>4. retries' \in [InvItems -> RetryStates] /\ (retries'[i] # "none" => ensure = "restore")
    BY <1>1, <1>6 DEF InvInv, InvTyped, OnlyRestoresRetry
  <2>5. ASSUME Unsettled(items'[i])
        PROVE  died' \/ OnWay(items'[i], retries'[i], atBridge', workers', i)
    <3>1. s = items[i].status /\ Unsettled(items[i])
      BY <2>1, <2>2, <2>5 DEF Unsettled
    <3>2. died \/ OnWay(items[i], retries[i], atBridge, workers, i)
      BY <1>1, <3>1 DEF InvInv, UnsettledOnWay
    <3> QED
      BY <1>1, <1>6, <2>2, <2>3, <3>1, <3>2 DEF OnWay, Reaches
  <2>6. items'[i].status # "P"
    BY <2>1, <2>2
  <2> QED
    BY <1>1, <1>6, <2>2, <2>3, <2>4, <2>5, <2>6, OneItem
<1> QED
  BY <1>2, <1>3, <1>4, <1>5, <1>6 DEF JudgesItem

\* A step that writes the row of item i as it was, in another state, and no worker that
\* sends a run moves.
LEMMA SameRow ==
  ASSUME InvInv, NEW i \in InvItems, NEW w \in InvWorkers, workers[w].step \notin Sending,
         items' \in [InvItems -> ItemRecord], \A k \in InvItems \ {i} : items'[k] = items[k],
         items'[i].status = items[i].status, items'[i].token = items[i].token,
         Unsettled(items'[i]) => Unsettled(items[i]),
         workers' \in [InvWorkers -> WorkerRecord], InHand', \A v \in InvWorkers \ {w} : workers'[v] = workers[v],
         UNCHANGED <<invMessages, atBridge, ensure, retries, died>>
  PROVE  InvInv'
<1>1. /\ atBridge \subseteq InvItems \X Nat /\ retries \in [InvItems -> RetryStates] /\ died \in BOOLEAN
      /\ items[i].status = "P" => ensure # "off" /\ items[i].token # 0
      /\ retries[i] # "none" => ensure = "restore"
  BY DEF InvInv, InvTyped, Settings, ClaimsHaveTokens, OnlyRestoresRetry
<1>2. ASSUME Unsettled(items'[i])
      PROVE  died' \/ OnWay(items'[i], retries'[i], atBridge', workers', i)
  <2>1. died \/ OnWay(items[i], retries[i], atBridge, workers, i)
    BY <1>2 DEF InvInv, UnsettledOnWay
  <2> QED
    BY <2>1 DEF OnWay, Reaches
<1>3. /\ atBridge \subseteq atBridge' /\ atBridge' \subseteq InvItems \X Nat /\ retries' \in [InvItems -> RetryStates]
      /\ (died => died') /\ died' \in BOOLEAN
      /\ items'[i].status = "P" => ensure # "off" /\ items'[i].token # 0
      /\ retries'[i] # "none" => ensure = "restore"
      /\ \A k \in InvItems \ {i} : retries'[k] = retries[k]
  BY <1>1
<1> QED
  BY <1>2, <1>3, OneItem

LEMMA DispatchItem_InvInv ==
  ASSUME InvInv, NEW w \in InvWorkers, DispatchItem(w)
  PROVE  InvInv'
<1>1. PICK i \in workers[w].todo :
       \/ ~StillPendingItem(i) /\ GoesOn(w, i) /\ UNCHANGED <<items, retries, died>>
       \/ /\ StillPendingItem(i) /\ items[i].status \notin {"QU", "IE"}
          /\ SetItem(i, "sent", items[i].status, items[i].token) /\ GoesOn(w, i) /\ UNCHANGED <<retries, died>>
       \/ StillPendingItem(i) /\ items[i].status \in {"QU", "IE"} /\ JudgesItem(w, i)
  BY DEF DispatchItem
<1>2. UNCHANGED <<invMessages, atBridge, ensure>> /\ workers[w].step = "items" /\ workers[w].step \notin Sending
  BY DEF DispatchItem, Sending
<1>3. i \in InvItems /\ items \in [InvItems -> ItemRecord] /\ items[i] \in ItemRecord
  BY DEF InvInv, InvTyped, WorkerRecord
<1>4. CASE GoesOn(w, i) /\ UNCHANGED <<items, retries, died>>
  <2>1. /\ workers' \in [InvWorkers -> WorkerRecord] /\ InHand' /\ \A v \in InvWorkers \ {w} : workers'[v] = workers[v]
    BY <1>4, GoesOn_Workers
  <2> QED
    BY <1>2, <1>3, <1>4, <2>1, SameRow
<1>5. CASE /\ items[i].status \notin {"QU", "IE"} /\ SetItem(i, "sent", items[i].status, items[i].token)
           /\ GoesOn(w, i) /\ UNCHANGED <<retries, died>>
  <2>1. /\ workers' \in [InvWorkers -> WorkerRecord] /\ InHand' /\ \A v \in InvWorkers \ {w} : workers'[v] = workers[v]
    BY <1>5, GoesOn_Workers
  <2>2. items[i].status \in {"QU", "P", "D", "IE"} /\ items[i].token \in Nat
    BY <1>3, ItemFields
  <2>3. /\ items' \in [InvItems -> ItemRecord] /\ \A k \in InvItems \ {i} : items'[k] = items[k]
        /\ items'[i].status = items[i].status /\ items'[i].token = items[i].token
    BY <1>3, <1>5, <2>2, SetItem_Record
  <2>4. Unsettled(items'[i]) => Unsettled(items[i])
    BY <1>3, <1>5, <2>3 DEF Unsettled, InvInv, ClaimsHaveTokens
  <2> QED
    BY <1>2, <1>3, <1>5, <2>1, <2>3, <2>4, SameRow
<1> QED
  BY <1>1, <1>2, <1>4, <1>5, JudgesItem_InvInv

LEMMA RetryRuns_InvInv ==
  ASSUME InvInv, NEW w \in InvWorkers, RetryRuns(w)
  PROVE  InvInv'
<1>1. PICK i \in InvItems :
       /\ retries[i] = "scheduled"
       /\ \/ RetryOf(i, "refused") /\ UNCHANGED <<items, workers>>
          \/ /\ \E state \in {"none", "scheduled"} : RetryOf(i, state)
             /\ \/ items[i].status # "QU" /\ UNCHANGED <<items, workers>>
                \/ /\ items[i].status = "QU" /\ NewToken(i) <= InvTokens[i]
                   /\ \E s \in NewStatus(i) : SetItem(i, items[i].state, s, NewToken(i))
                   /\ workers' = [workers EXCEPT ![w] = [step |-> "retried", todo |-> {}, item |-> i, token |-> NewToken(i)]]
                \/ LeftAlone(i) /\ UNCHANGED <<items, workers>>
                \/ /\ items[i].status = "QU"
                   /\ SetItem(i, items[i].state, "IE", items[i].token) /\ UNCHANGED workers
  BY DEF RetryRuns
<1>2. /\ UNCHANGED <<invMessages, atBridge, ensure, died>> /\ workers[w].step \notin Sending /\ ensure = "restore"
      /\ atBridge \subseteq InvItems \X Nat /\ died \in BOOLEAN
      /\ items \in [InvItems -> ItemRecord] /\ items[i] \in ItemRecord /\ workers \in [InvWorkers -> WorkerRecord]
  BY <1>1, Idle DEF RetryRuns, InvInv, InvTyped, Settings, OnlyRestoresRetry, Sending
<1>3. items[i].state \in {"absent", "pending", "sent", "error"} /\ items[i].token \in Nat
  BY <1>2, ItemFields
<1>4. PICK state \in RetryStates : RetryOf(i, state) /\ (state = "refused" => UNCHANGED <<items, workers>>)
  BY <1>1 DEF RetryStates
<1>5. /\ retries' \in [InvItems -> RetryStates] /\ retries'[i] = state
      /\ \A k \in InvItems \ {i} : retries'[k] = retries[k]
  BY <1>4, RetryOf_Record
<1>6. InHand
  BY DEF InvInv
<1>7. CASE UNCHANGED <<items, workers>> /\ (state = "refused" \/ items[i].status # "QU")
  <2>1. ASSUME Unsettled(items'[i])
        PROVE  died' \/ OnWay(items'[i], retries'[i], atBridge', workers', i)
    <3>1. Unsettled(items[i])
      BY <1>2, <1>7, <2>1 DEF Unsettled
    <3>2. died \/ OnWay(items[i], retries[i], atBridge, workers, i)
      BY <3>1 DEF InvInv, UnsettledOnWay
    <3> QED
      BY <1>2, <1>5, <1>7, <3>2 DEF OnWay, Reaches
  <2>2. InHand'
    BY <1>6, <1>7 DEF InHand
  <2>3. items'[i].status = "P" => ensure # "off" /\ items'[i].token # 0
    BY <1>7 DEF InvInv, ClaimsHaveTokens
  <2> QED
    BY <1>2, <1>5, <1>7, <2>1, <2>2, <2>3, OneItem
<1>8. CASE /\ \E s \in NewStatus(i) : SetItem(i, items[i].state, s, NewToken(i))
           /\ workers' = [workers EXCEPT ![w] = [step |-> "retried", todo |-> {}, item |-> i, token |-> NewToken(i)]]
  <2>1. PICK s \in NewStatus(i) : SetItem(i, items[i].state, s, NewToken(i))
    BY <1>8
  <2>2. s \in {"QU", "P"} /\ NewToken(i) \in Nat /\ NewToken(i) # 0
    BY <1>3, <2>1 DEF NewStatus, NewToken
  <2>3. /\ items' \in [InvItems -> ItemRecord] /\ \A k \in InvItems \ {i} : items'[k] = items[k]
        /\ items'[i].status = s /\ items'[i].token = NewToken(i)
    BY <1>3, <2>1, <2>2, SetItem_Record
  <2> DEFINE new == [step |-> "retried", todo |-> {}, item |-> i, token |-> NewToken(i)]
  <2>4. new \in WorkerRecord /\ new.step \in Sending /\ new.item = i /\ new.token = NewToken(i)
    BY <2>2 DEF WorkerRecord, Sending
  <2>5. workers' = [workers EXCEPT ![w] = new]
    BY <1>8
  <2> HIDE DEF new
  <2>6. /\ workers' \in [InvWorkers -> WorkerRecord] /\ InHand' /\ Reaches(atBridge', workers', i, NewToken(i))
        /\ \A v \in InvWorkers \ {w} : workers'[v] = workers[v]
    BY <2>4, <2>5, NowSends
  <2>7. OnWay(items'[i], retries'[i], atBridge', workers', i)
    BY <2>3, <2>6 DEF OnWay
  <2> QED
    BY <1>2, <1>5, <2>2, <2>3, <2>6, <2>7, OneItem
<1>9. CASE SetItem(i, items[i].state, "IE", items[i].token) /\ UNCHANGED workers
  <2>1. /\ items' \in [InvItems -> ItemRecord] /\ \A k \in InvItems \ {i} : items'[k] = items[k]
        /\ items'[i].status = "IE"
    BY <1>3, <1>9, SetItem_Record
  <2>2. InHand' /\ ~Unsettled(items'[i])
    BY <1>6, <1>9, <2>1 DEF InHand, Unsettled
  <2> QED
    BY <1>2, <1>5, <1>9, <2>1, <2>2, OneItem
<1>10. ~LeftAlone(i)
  BY <1>2 DEF LeftAlone, Unclaimed
<1> QED
  BY <1>1, <1>4, <1>5, <1>7, <1>8, <1>9, <1>10, RetryOf_Record DEF RetryStates

LEMMA Handoff_InvInv ==
  ASSUME InvInv, NEW w \in InvWorkers, Handoff(w)
  PROVE  InvInv'
<1> DEFINE i == workers[w].item
           token == workers[w].token
<1>1. /\ workers[w].step \in Sending /\ UNCHANGED <<invMessages, retries, ensure, died>>
      /\ workers' = [workers EXCEPT ![w] = IF @.step = "handoff" THEN AtItems(@.todo) ELSE IdleWorker]
      /\ IF items[i].token = token /\ items[i].status \in {"QU", "P"}
         THEN (atBridge' = atBridge \cup {<<i, token>>} /\ UNCHANGED items) \/ (HandoffError(w) /\ UNCHANGED atBridge)
         ELSE UNCHANGED <<items, atBridge>>
  BY DEF Handoff, Sending
<1>2. /\ items \in [InvItems -> ItemRecord] /\ workers[w] \in WorkerRecord /\ atBridge \subseteq InvItems \X Nat
      /\ died \in BOOLEAN /\ retries \in [InvItems -> RetryStates] /\ i \in InvItems /\ items[i] \in ItemRecord
  BY <1>1 DEF InvInv, InvTyped, InHand, Settings
<1>3. token \in Nat /\ items[i].token \in Nat /\ items[i].state \in {"absent", "pending", "sent", "error"}
  BY <1>2, ItemFields DEF WorkerRecord
<1>4. /\ items[i].status = "P" => ensure # "off" /\ items[i].token # 0
      /\ retries[i] # "none" => ensure = "restore"
  BY <1>2 DEF InvInv, ClaimsHaveTokens, OnlyRestoresRetry
<1>5. /\ workers' \in [InvWorkers -> WorkerRecord] /\ InHand' /\ \A v \in InvWorkers \ {w} : workers'[v] = workers[v]
  <2> DEFINE new == IF workers[w].step = "handoff" THEN AtItems(workers[w].todo) ELSE IdleWorker
  <2>1. AtItems(workers[w].todo) \in WorkerRecord /\ AtItems(workers[w].todo).step = "items"
    BY <1>2 DEF AtItems, WorkerRecord
  <2>2. new \in WorkerRecord /\ new.step \notin Sending
    BY <2>1, Idle DEF Sending
  <2>3. workers' = [workers EXCEPT ![w] = new]
    BY <1>1
  <2> HIDE DEF new
  <2> QED
    BY <2>2, <2>3, NowIdle
<1>6. CASE items[i].token = token /\ atBridge' = atBridge \cup {<<i, token>>} /\ UNCHANGED items
  <2>1. atBridge \subseteq atBridge' /\ atBridge' \subseteq InvItems \X Nat
    BY <1>2, <1>3, <1>6
  <2>2. OnWay(items'[i], retries'[i], atBridge', workers', i)
    BY <1>6 DEF OnWay, Reaches
  <2> HIDE DEF i, token
  <2> QED
    BY <1>1, <1>2, <1>4, <1>5, <1>6, <2>1, <2>2, OneItem DEF i
<1>7. CASE HandoffError(w) /\ UNCHANGED atBridge
  <2>1. PICK state \in {"absent", "pending", "sent", "error"} : SetItem(i, state, "IE", items[i].token)
    BY <1>3, <1>7 DEF HandoffError
  <2>2. /\ items' \in [InvItems -> ItemRecord] /\ \A k \in InvItems \ {i} : items'[k] = items[k]
        /\ items'[i].status = "IE"
    BY <1>2, <1>3, <2>1, SetItem_Record
  <2>3. ~Unsettled(items'[i]) /\ items'[i].status # "P"
    BY <2>2 DEF Unsettled
  <2> HIDE DEF i, token
  <2> QED
    BY <1>1, <1>2, <1>4, <1>5, <1>7, <2>2, <2>3, OneItem DEF i
<1>8. CASE ~(items[i].token = token /\ items[i].status \in {"QU", "P"}) /\ UNCHANGED <<items, atBridge>>
  <2>1. ASSUME Unsettled(items'[i])
        PROVE  died' \/ OnWay(items'[i], retries'[i], atBridge', workers', i)
    <3>1. Unsettled(items[i]) /\ items[i].token # token
      BY <1>1, <1>8, <2>1 DEF Unsettled
    <3>2. died \/ OnWay(items[i], retries[i], atBridge, workers, i)
      BY <1>2, <3>1 DEF InvInv, UnsettledOnWay
    <3> QED
      BY <1>1, <1>5, <1>8, <3>1, <3>2 DEF OnWay, Reaches
  <2> HIDE DEF i, token
  <2> QED
    BY <1>1, <1>2, <1>4, <1>5, <1>8, <2>1, OneItem DEF i
<1> QED
  BY <1>1, <1>6, <1>7, <1>8

LEMMA RunEnds_InvInv ==
  ASSUME InvInv, NEW i \in InvItems, RunEnds(i)
  PROVE  InvInv'
<1>1. PICK status \in {"D", "IE"} : SetItem(i, items[i].state, status, items[i].token)
  BY DEF RunEnds
<1>2. UNCHANGED <<invMessages, workers, atBridge, retries, ensure, died>>
  BY DEF RunEnds
<1>3. items[i].state \in {"absent", "pending", "sent", "error"} /\ items[i].token \in Nat
  BY ItemFields DEF InvInv, InvTyped
<1>4. /\ items' \in [InvItems -> ItemRecord] /\ \A k \in InvItems \ {i} : items'[k] = items[k]
      /\ items'[i].status = status
  BY <1>1, <1>3, SetItem_Record
<1>5. InvTyped' /\ Settings' /\ InHand' /\ ClaimsHaveTokens' /\ OnlyRestoresRetry'
  BY <1>1, <1>2, <1>4 DEF InvInv, InvTyped, Settings, InHand, ClaimsHaveTokens, OnlyRestoresRetry
<1>6. UnsettledOnWay'
  <2>1. ASSUME NEW k \in InvItems, Unsettled(items'[k])
        PROVE  died' \/ OnWay(items'[k], retries'[k], atBridge', workers', k)
    <3>1. k # i
      BY <1>1, <1>4, <2>1 DEF Unsettled
    <3> QED
      BY <1>2, <1>4, <2>1, <3>1 DEF InvInv, UnsettledOnWay
  <2>2. \A k \in InvItems : Unsettled(items[k])' => Unsettled(items'[k])
    BY <1>2 DEF Unsettled
  <2> QED
    BY <2>1, <2>2 DEF UnsettledOnWay
<1> QED
  BY <1>5, <1>6 DEF InvInv

\* The steps that leave every row as it is: an item may become pending, and a worker
\* that sends a run goes on doing so unless a process dies.  The deaths are forgotten
\* when everything that is queued is pending again.
LEMMA Others_InvInv ==
  ASSUME InvInv, items' \in [InvItems -> ItemRecord], invMessages' \in {0, 1},
         workers' \in [InvWorkers -> WorkerRecord], UNCHANGED <<atBridge, retries, ensure>>, died' \in BOOLEAN,
         \A i \in InvItems : /\ items'[i].status = items[i].status /\ items'[i].token = items[i].token
                             /\ items'[i].state \in {items[i].state, "pending"},
         \A w \in InvWorkers : workers'[w] = workers[w] \/ workers'[w].step \notin Sending,
         died' \/ \A w \in InvWorkers : workers[w].step \in Sending => workers'[w] = workers[w],
         died /\ ~died' => ensure = "off" /\ \A i \in InvItems : items'[i].status = "QU" => items'[i].state = "pending"
  PROVE  InvInv'
<1>1. InvTyped' /\ Settings' /\ InHand' /\ ClaimsHaveTokens' /\ OnlyRestoresRetry'
  BY DEF InvInv, InvTyped, Settings, InHand, ClaimsHaveTokens, OnlyRestoresRetry
<1>2. ASSUME NEW i \in InvItems, Unsettled(items'[i]), ~died'
      PROVE  OnWay(items'[i], retries'[i], atBridge', workers', i)
  <2>1. Unsettled(items[i])
    BY <1>2 DEF Unsettled
  <2>2. ~died
    BY <1>2 DEF Unsettled, InvInv, ClaimsHaveTokens
  <2>3. OnWay(items[i], retries[i], atBridge, workers, i)
    BY <2>1, <2>2 DEF InvInv, UnsettledOnWay
  <2> QED
    BY <1>2, <2>3 DEF OnWay, Reaches
<1>3. \A i \in InvItems : Unsettled(items[i])' => Unsettled(items'[i])
  BY DEF Unsettled
<1>4. UnsettledOnWay'
  BY <1>2, <1>3 DEF UnsettledOnWay
<1> QED
  BY <1>1, <1>4 DEF InvInv

LEMMA MadePending ==
  ASSUME InvInv, NEW i \in InvItems, items'[i] = [items[i] EXCEPT !.state = "pending"]
  PROVE  /\ items'[i] \in ItemRecord /\ items'[i].status = items[i].status /\ items'[i].token = items[i].token
         /\ items'[i].state = "pending"
<1>1. items[i] \in ItemRecord
  BY DEF InvInv, InvTyped
<1> QED
  BY <1>1 DEF ItemRecord

LEMMA InvNext_InvInv == InvInv /\ [InvNext]_invVars => InvInv'
<1> SUFFICES ASSUME InvInv, [InvNext]_invVars PROVE InvInv'
  OBVIOUS
<1>0. /\ items \in [InvItems -> ItemRecord] /\ invMessages \in {0, 1}
      /\ workers \in [InvWorkers -> WorkerRecord] /\ died \in BOOLEAN
  BY DEF InvInv, InvTyped, Settings
<1>1. CASE CreateInvocation
  <2>1. \A i \in InvItems : items'[i] = [items[i] EXCEPT !.state = "pending"]
    BY <1>1 DEF CreateInvocation
  <2>2. \A i \in InvItems : /\ items'[i] \in ItemRecord /\ items'[i].status = items[i].status
                            /\ items'[i].token = items[i].token /\ items'[i].state = "pending"
    BY <2>1, MadePending
  <2>3. items' \in [InvItems -> ItemRecord]
    BY <1>1, <2>2 DEF CreateInvocation
  <2>4. UNCHANGED <<workers, atBridge, retries, ensure, died>> /\ invMessages' = 1
    BY <1>1 DEF CreateInvocation
  <2> QED
    BY <1>0, <2>2, <2>3, <2>4, Others_InvInv
<1>2. CASE RetryDispatch
  <2>1. /\ items' = [i \in InvItems |-> IF items[i].status \in {"QU", "IE"} THEN [items[i] EXCEPT !.state = "pending"]
                                        ELSE items[i]]
        /\ invMessages' = 1 /\ died' = (died /\ ensure # "off") /\ UNCHANGED <<workers, atBridge, retries, ensure>>
    BY <1>2 DEF RetryDispatch
  <2>2. ASSUME NEW i \in InvItems
        PROVE  /\ items'[i] \in ItemRecord /\ items'[i].status = items[i].status /\ items'[i].token = items[i].token
               /\ items'[i].state \in {items[i].state, "pending"}
               /\ items'[i].status = "QU" => items'[i].state = "pending"
    <3>1. CASE items[i].status \in {"QU", "IE"}
      BY <2>1, <3>1, MadePending
    <3>2. CASE items[i].status \notin {"QU", "IE"}
      BY <1>0, <2>1, <3>2
    <3> QED
      BY <3>1, <3>2
  <2>3. items' \in [InvItems -> ItemRecord]
    BY <2>1, <2>2
  <2>4. died' \in BOOLEAN /\ (died /\ ~died' => ensure = "off")
    BY <1>0, <2>1
  <2> QED
    BY <1>0, <2>1, <2>2, <2>3, <2>4, Others_InvInv
<1>3. ASSUME NEW w \in InvWorkers, TaskStarts(w) PROVE InvInv'
  <2>1. PICK todo \in SUBSET PendingItems :
          workers' = [workers EXCEPT ![w] = AtItems(todo)]
    BY <1>3 DEF TaskStarts
  <2> DEFINE new == [step |-> "items", todo |-> todo, item |-> NoItem, token |-> 0]
  <2>2. new \in WorkerRecord /\ new.step \notin Sending
    BY DEF PendingItems, WorkerRecord, Sending
  <2>3. workers' = [workers EXCEPT ![w] = new]
    BY <2>1 DEF AtItems
  <2>4. workers[w].step \notin Sending /\ invMessages' \in {0, 1} /\ UNCHANGED <<items, atBridge, retries, ensure, died>>
    BY <1>3, Idle DEF TaskStarts, Sending
  <2> HIDE DEF new
  <2>5. /\ workers' \in [InvWorkers -> WorkerRecord] /\ workers'[w] = new
        /\ \A v \in InvWorkers \ {w} : workers'[v] = workers[v]
    BY <1>0, <2>2, <2>3
  <2> QED
    BY <1>0, <2>2, <2>4, <2>5, Others_InvInv
<1>4. ASSUME NEW w \in InvWorkers, DispatchItem(w) PROVE InvInv'
  BY <1>4, DispatchItem_InvInv
<1>5. ASSUME NEW w \in InvWorkers, RetryRuns(w) PROVE InvInv'
  BY <1>5, RetryRuns_InvInv
<1>6. ASSUME NEW w \in InvWorkers, Handoff(w) PROVE InvInv'
  BY <1>6, Handoff_InvInv
<1>7. ASSUME NEW w \in InvWorkers, TaskEnds(w) PROVE InvInv'
  <2>1. workers' = [workers EXCEPT ![w] = IdleWorker] /\ workers[w].step \notin Sending
        /\ UNCHANGED <<items, atBridge, retries, ensure, died>> /\ invMessages' \in {0, 1}
    BY <1>0, <1>7 DEF TaskEnds, Sending
  <2>2. /\ workers' \in [InvWorkers -> WorkerRecord] /\ workers'[w].step \notin Sending
        /\ \A v \in InvWorkers \ {w} : workers'[v] = workers[v]
    BY <1>0, <2>1, Idle DEF Sending
  <2> QED
    BY <1>0, <2>1, <2>2, Others_InvInv
<1>8. ASSUME NEW w \in InvWorkers, WorkerDies(w) PROVE InvInv'
  <2>1. workers' = [workers EXCEPT ![w] = IdleWorker] /\ died' = TRUE
        /\ UNCHANGED <<items, invMessages, atBridge, retries, ensure>>
    BY <1>8 DEF WorkerDies
  <2>2. /\ workers' \in [InvWorkers -> WorkerRecord] /\ workers'[w].step \notin Sending
        /\ \A v \in InvWorkers \ {w} : workers'[v] = workers[v]
    BY <1>0, <2>1, Idle DEF Sending
  <2> QED
    BY <1>0, <2>1, <2>2, Others_InvInv
<1>9. ASSUME NEW i \in InvItems, RunEnds(i) PROVE InvInv'
  BY <1>9, RunEnds_InvInv
<1>10. CASE UNCHANGED invVars
  <2>1. UNCHANGED <<items, invMessages, workers, atBridge, retries, ensure, died>>
    BY <1>10 DEF invVars
  <2> QED
    BY <1>0, <2>1, Others_InvInv
<1> QED
  BY <1>1, <1>2, <1>3, <1>4, <1>5, <1>6, <1>7, <1>8, <1>9, <1>10 DEF InvNext

\* tasks/invocations.py:39-41: whichever messages are delivered twice, whichever
\* hand-over fails, whatever data has to be restored first and however "Retry dispatch"
\* is used, a run that is marked as sent is at the bridge, in the hands of a worker, or
\* queued with a retry, unless a process has died since.  A restore and a remote judge
\* do not mix: see the README.
THEOREM SentRunsAreOnTheirWay ==
  ASSUME "both" \notin EnsureReady
  PROVE  InvSpec => []SentRunIsOnItsWay
  BY InvInv_SentRunIsOnItsWay, InvInit_InvInv, InvNext_InvInv, PTL DEF InvSpec

-----------------------------------------------------------------------------
(* Conservative ranking.                                                       *)
Statuses == Final \cup {"absent", "QU"}
Judged == [status : Statuses, run : Nat]
Score == [gen : Nat, status : {"none", "pending", "valid", "error", "ignored", "failed"}, run : Nat]
Txn == [status : {"none", "QU", "CE", "IE", "AB"}, rev : Nat]
Ranking == [state : {"OFF", "BUILDING", "ON", "FAILED"}, rev : Nat, cursor : Nat, cutoff : Nat]
Build == [step : {"idle", "aborted", "next", "page", "finish"}, rev : Nat, cursor : Nat, cutoff : Nat,
          todo : SUBSET RankedSubs]

RankTypes ==
  /\ ranking \in Ranking /\ judged \in [RankedSubs -> Judged] /\ scores \in [RankedSubs -> Score]
  /\ queueing \in [RankedSubs -> Txn] /\ builds \in [Builders -> Build]

\* What a task works on is a row that exists.
JobsArePresent ==
  /\ \A j \in rankJobs : j.kind \in {"schedule", "enqueue", "refresh"} => j.sub \in Present
  /\ \A b \in Builders : builds[b].todo \subseteq Present
\* A generation is written on a row only after it began, and it is not the first.
GenerationsHaveBegun ==
  /\ ranking.state \in {"BUILDING", "ON"} => ranking.rev > 0
  /\ \A s \in RankedSubs : scores[s].gen <= ranking.rev
\* A transaction that holds a row with a score of the current generation has seen
\* this generation: it will take the score away.
TxnKnowsScore ==
  \A s \in RankedSubs : queueing[s] # NoTxn /\ Active(scores[s].gen) => queueing[s].rev = ranking.rev
TxnIsOfRow == \A s \in RankedSubs : queueing[s] # NoTxn => queueing[s].status # "none" /\ s \in Present
ValidIsCurrent ==
  \A s \in RankedSubs : Active(scores[s].gen) /\ scores[s].status = "valid" =>
    judged[s].status \in {"D", "CE"} /\ scores[s].run = judged[s].run

RankInv ==
  RankTypes /\ JobsArePresent /\ GenerationsHaveBegun /\ TxnKnowsScore /\ TxnIsOfRow /\ ValidIsCurrent

LEMMA ScoreMade ==
  ASSUME NEW gen \in Nat, NEW status \in {"none", "pending", "valid", "error", "ignored", "failed"}, NEW run \in Nat
  PROVE  [gen |-> gen, status |-> status, run |-> run] \in Score
  BY DEF Score

LEMMA CalculatedIsStatus ==
  ASSUME judged \in [RankedSubs -> Judged], NEW s \in Present
  PROVE  /\ Calculated(s) \in {"valid", "pending", "error", "ignored"}
         /\ Calculated(s) = "valid" => judged[s].status \in {"D", "CE"}
<1>1. judged[s].status \in {"D", "CE", "IE", "AB", "QU"}
  BY DEF Present, Judged, Statuses, Final
<1> QED
  BY <1>1 DEF Calculated

LEMMA HighestPkIsNat == HighestPk \in Nat
<1>1. Present \subseteq Nat /\ IsFiniteSet(Present)
  BY RankingAssumption, FS_Subset DEF Present
<1>2. CASE Present = {}
  BY <1>2 DEF HighestPk
<1>3. CASE Present # {}
  <2>1. \E s \in Present : \A r \in Present : r <= s
    <3> HIDE DEF Present
    <3>1. Present \in SUBSET Int
      BY <1>1
    <3> QED
      BY <1>1, <1>3, <3>1, GreatestExists
  <2>2. HighestPk \in Present
    BY <1>3, <2>1 DEF HighestPk
  <2> QED
    BY <1>1, <2>2
<1> QED
  BY <1>2, <1>3

\* A step that writes the score of one row, in no transaction of this row, keeps the
\* invariant if the score is of the current generation and, when valid, of the run the
\* row shows.
LEMMA OneScore ==
  ASSUME RankInv, NEW s \in Present, NEW c \in Score, queueing[s] = NoTxn,
         scores' = [scores EXCEPT ![s] = c], UNCHANGED <<ranking, judged, queueing>>,
         c.gen <= ranking.rev, Active(c.gen) /\ c.status = "valid" => c.run = judged[s].run /\ judged[s].status \in {"D", "CE"},
         builds' \in [Builders -> Build], JobsArePresent'
  PROVE  RankInv'
<1> USE DEF RankInv, RankTypes
<1>1. s \in RankedSubs
  BY DEF Present
<1>2. /\ scores' \in [RankedSubs -> Score] /\ scores'[s] = c
      /\ \A r \in RankedSubs \ {s} : scores'[r] = scores[r]
  BY <1>1
<1>3. RankTypes' /\ Present' = Present /\ \A n : Active(n)' = Active(n)
  BY <1>2 DEF Present, Active
<1>4. GenerationsHaveBegun'
  BY <1>1, <1>2 DEF GenerationsHaveBegun
<1>5. TxnKnowsScore'
  BY <1>1, <1>2 DEF TxnKnowsScore, Active
<1>6. TxnIsOfRow'
  BY <1>3 DEF TxnIsOfRow
<1>7. ValidIsCurrent'
  BY <1>1, <1>2 DEF ValidIsCurrent, Active
<1> QED
  BY <1>3, <1>4, <1>5, <1>6, <1>7

\* refresh_one keeps the invariant.
LEMMA Refreshed_RankInv ==
  ASSUME RankInv, NEW s \in Present, NEW rev, queueing[s] = NoTxn, Refreshed(s, rev),
         UNCHANGED <<ranking, judged, queueing>>, builds' \in [Builders -> Build], JobsArePresent'
  PROVE  RankInv'
<1>1. s \in RankedSubs /\ judged \in [RankedSubs -> Judged] /\ scores \in [RankedSubs -> Score]
  BY DEF RankInv, RankTypes, Present
<1>2. CASE MayPublish(rev)
  <2> DEFINE c == [gen |-> rev, status |-> Calculated(s), run |-> judged[s].run]
  <2>1. judged[s].run \in Nat /\ rev \in Nat
    BY <1>1, <1>2 DEF Judged, MayPublish, Active, RankInv, RankTypes, Ranking
  <2>2. /\ c \in Score /\ c.gen = ranking.rev /\ c.run = judged[s].run
        /\ (c.status = "valid" => judged[s].status \in {"D", "CE"})
    BY <1>1, <1>2, <2>1, CalculatedIsStatus, ScoreMade DEF MayPublish, Active
  <2>3. scores' = [scores EXCEPT ![s] = c]
    BY <1>2 DEF Refreshed
  <2>4. ranking.rev \in Nat
    BY DEF RankInv, RankTypes, Ranking
  <2> HIDE DEF c
  <2>5. c.gen <= ranking.rev
    BY <2>2, <2>4
  <2>6. Active(c.gen) /\ c.status = "valid" => c.run = judged[s].run /\ judged[s].status \in {"D", "CE"}
    BY <2>2
  <2> QED
    BY <2>2, <2>3, <2>5, <2>6, OneScore
<1>3. CASE ~MayPublish(rev)
  <2>1. scores' = scores
    BY <1>3 DEF Refreshed
  <2> QED
    BY <2>1 DEF RankInv, RankTypes, GenerationsHaveBegun, TxnKnowsScore, TxnIsOfRow, ValidIsCurrent, Active, Present
<1> QED
  BY <1>2, <1>3

LEMMA RankInit_RankInv == RankInit => RankInv
<1> SUFFICES ASSUME RankInit PROVE RankInv
  OBVIOUS
<1>1. /\ [status |-> "D", run |-> 1] \in Judged /\ [status |-> "absent", run |-> 0] \in Judged
      /\ [gen |-> 0, status |-> "none", run |-> 0] \in Score /\ NoTxn \in Txn /\ IdleBuild \in Build
      /\ IdleBuild.todo = {}
  BY DEF Judged, Statuses, Final, Score, Txn, NoTxn, IdleBuild, Build
<1>2. ranking \in Ranking /\ ranking.state = "OFF" /\ ranking.rev = 0
  BY DEF RankInit, Ranking
<1>3. RankTypes
  BY <1>1, <1>2 DEF RankInit, RankTypes
<1>4. JobsArePresent /\ TxnIsOfRow /\ TxnKnowsScore
  BY <1>1 DEF RankInit, JobsArePresent, TxnIsOfRow, TxnKnowsScore
<1>5. GenerationsHaveBegun /\ ValidIsCurrent
  BY <1>2 DEF RankInit, GenerationsHaveBegun, ValidIsCurrent, Active
<1> QED
  BY <1>3, <1>4, <1>5 DEF RankInv

\* The steps of the administrator and of the builds that write no score.
LEMMA Ranking_RankInv ==
  ASSUME RankInv, ranking' \in Ranking, UNCHANGED <<judged, scores, queueing>>,
         builds' \in [Builders -> Build], JobsArePresent',
         \/ ranking'.rev = ranking.rev /\ (ranking'.state \in {"BUILDING", "ON"} => ranking.state \in {"BUILDING", "ON"})
         \/ ranking'.rev = ranking.rev + 1
  PROVE  RankInv'
<1> USE DEF RankInv, RankTypes
<1>1. RankTypes'
  OBVIOUS
<1>2. ranking.rev \in Nat /\ ranking'.rev \in Nat /\ \A s \in RankedSubs : scores[s].gen \in Nat
  BY DEF Ranking, Score
<1>3. GenerationsHaveBegun'
  BY <1>2 DEF GenerationsHaveBegun
<1>4. \A s \in RankedSubs : Active(scores[s].gen)' => Active(scores[s].gen) /\ ranking'.rev = ranking.rev
  BY <1>2 DEF GenerationsHaveBegun, Active
<1>5. TxnKnowsScore' /\ ValidIsCurrent' /\ TxnIsOfRow'
  BY <1>4 DEF TxnKnowsScore, ValidIsCurrent, TxnIsOfRow, Present
<1> QED
  BY <1>1, <1>3, <1>5

LEMMA NewRow_RankInv == ASSUME RankInv, NEW s \in RankedSubs, NewRow(s) PROVE RankInv'
<1> USE DEF RankInv, RankTypes
<1>1. judged[s].status = "absent" /\ judged' = [judged EXCEPT ![s].status = "QU"]
      /\ UNCHANGED <<ranking, scores, queueing, rankJobs, builds, busyRows>>
  BY DEF NewRow
<1> DEFINE new == [status |-> "QU", run |-> judged[s].run]
<1>2. new \in Judged /\ new.status = "QU" /\ judged' = [judged EXCEPT ![s] = new]
  <2>1. judged[s] \in Judged
    OBVIOUS
  <2>2. new \in Judged /\ new.status = "QU"
    BY <2>1 DEF Judged, Statuses
  <2>3. [judged[s] EXCEPT !.status = "QU"] = new
    BY <2>1 DEF Judged
  <2> HIDE DEF new
  <2> QED
    BY <1>1, <2>2, <2>3
<1> HIDE DEF new
<1>3. /\ judged' \in [RankedSubs -> Judged] /\ judged'[s].status = "QU"
      /\ \A r \in RankedSubs \ {s} : judged'[r] = judged[r]
  BY <1>2
<1>4. Present \subseteq Present'
  BY <1>3 DEF Present
<1>5. RankTypes' /\ JobsArePresent' /\ GenerationsHaveBegun' /\ TxnKnowsScore' /\ TxnIsOfRow'
  BY <1>1, <1>3, <1>4 DEF JobsArePresent, GenerationsHaveBegun, TxnKnowsScore, TxnIsOfRow, Active
<1>6. ValidIsCurrent'
  BY <1>1, <1>3 DEF ValidIsCurrent, Active
<1> QED
  BY <1>5, <1>6

\* A transaction begins: it sees the generation, if the contest is active.
LEMMA Begin_RankInv ==
  ASSUME RankInv, NEW s \in Present, NEW status \in {"QU", "CE", "IE", "AB"},
         queueing' = [queueing EXCEPT ![s] = [status |-> status, rev |-> RevisionSeen]],
         UNCHANGED <<ranking, judged, scores, rankJobs, builds, busyRows>>
  PROVE  RankInv'
<1> USE DEF RankInv, RankTypes
<1>1. s \in RankedSubs /\ RevisionSeen \in Nat
  BY DEF Present, RevisionSeen, Ranking
<1> DEFINE t == [status |-> status, rev |-> RevisionSeen]
<1>2. t \in Txn /\ t.status = status /\ t.rev = RevisionSeen
  BY <1>1 DEF Txn
<1> HIDE DEF t
<1>3. /\ queueing' \in [RankedSubs -> Txn] /\ queueing'[s] = t
      /\ \A r \in RankedSubs \ {s} : queueing'[r] = queueing[r]
  BY <1>1, <1>2 DEF t
<1>4. RankTypes' /\ JobsArePresent' /\ GenerationsHaveBegun' /\ ValidIsCurrent'
  BY <1>3 DEF JobsArePresent, Present, GenerationsHaveBegun, ValidIsCurrent, Active
<1>5. TxnKnowsScore'
  BY <1>2, <1>3 DEF TxnKnowsScore, Active, RevisionSeen
<1>6. TxnIsOfRow'
  BY <1>2, <1>3 DEF TxnIsOfRow, Present
<1> QED
  BY <1>4, <1>5, <1>6

LEMMA Commit_RankInv == ASSUME RankInv, NEW s \in RankedSubs, Commit(s) PROVE RankInv'
<1> USE DEF RankInv, RankTypes
<1> DEFINE t == queueing[s]
           row == [status |-> t.status, run |-> IF t.status = "QU" THEN judged[s].run + 1 ELSE judged[s].run]
           ignored == [gen |-> t.rev, status |-> "ignored", run |-> judged[s].run]
           pending == [gen |-> t.rev, status |-> "pending", run |-> 0]
<1>1. /\ t # NoTxn /\ queueing' = [queueing EXCEPT ![s] = NoTxn] /\ judged' = [judged EXCEPT ![s] = row]
      /\ scores' = IF t.rev = 0 \/ ~Active(t.rev) THEN scores
                   ELSE IF t.status = "AB" THEN [scores EXCEPT ![s] = ignored] ELSE [scores EXCEPT ![s] = pending]
      /\ rankJobs' = rankJobs \cup IF t.rev = 0 \/ t.status = "AB" THEN {} ELSE {RankJob("enqueue", s, t.rev)}
      /\ UNCHANGED <<ranking, builds, busyRows>>
  BY DEF Commit, Marked
<1>2. t.status \in {"QU", "CE", "IE", "AB"} /\ t.rev \in Nat /\ s \in Present
  BY <1>1 DEF TxnIsOfRow, Txn
<1>3. row \in Judged /\ row.status # "absent"
  <2>1. judged[s].run \in Nat
    BY DEF Judged
  <2> QED
    BY <1>2, <2>1 DEF Judged, Statuses, Final
<1>4. ignored \in Score /\ ignored.status = "ignored" /\ ignored.gen = t.rev
  <2>1. judged[s].run \in Nat
    BY DEF Judged
  <2> QED
    BY <1>2, <2>1 DEF Score
<1>5. pending \in Score /\ pending.status = "pending" /\ pending.gen = t.rev
  BY <1>2 DEF Score
<1>6. NoTxn \in Txn
  BY DEF NoTxn, Txn
<1> HIDE DEF t, row, ignored, pending
<1>7. /\ queueing' \in [RankedSubs -> Txn] /\ queueing'[s] = NoTxn
      /\ \A r \in RankedSubs \ {s} : queueing'[r] = queueing[r]
  BY <1>1, <1>6
<1>8. /\ judged' \in [RankedSubs -> Judged] /\ judged'[s] = row
      /\ \A r \in RankedSubs \ {s} : judged'[r] = judged[r]
  BY <1>1, <1>3
<1>9. /\ scores' \in [RankedSubs -> Score]
      /\ \A r \in RankedSubs \ {s} : scores'[r] = scores[r]
      /\ \/ scores'[s] = scores[s] /\ (t.rev = 0 \/ ~Active(t.rev))
         \/ scores'[s].status # "valid" /\ scores'[s].gen = t.rev /\ Active(t.rev)
  BY <1>1, <1>4, <1>5
<1>10. Present' = Present /\ \A n : Active(n)' = Active(n)
  BY <1>1, <1>2, <1>3, <1>8 DEF Present, Active
<1>11. RankTypes'
  BY <1>1, <1>7, <1>8, <1>9
<1>12. JobsArePresent'
  <2>1. ASSUME NEW j \in rankJobs', j.kind \in {"schedule", "enqueue", "refresh"} PROVE j.sub \in Present'
    <3>1. j \in rankJobs \/ j = RankJob("enqueue", s, t.rev)
      BY <1>1, <2>1
    <3> QED
      BY <1>2, <1>10, <2>1, <3>1 DEF JobsArePresent, RankJob
  <2> QED
    BY <1>1, <1>10, <2>1 DEF JobsArePresent
<1>13. ranking.rev \in Nat /\ \A r \in RankedSubs : scores[r].gen \in Nat
  BY DEF Ranking, Score
<1>14. GenerationsHaveBegun'
  BY <1>1, <1>9, <1>13 DEF GenerationsHaveBegun, Active
<1>15. TxnKnowsScore'
  BY <1>1, <1>7, <1>9 DEF TxnKnowsScore, Active
<1>16. TxnIsOfRow'
  BY <1>7, <1>10 DEF TxnIsOfRow
<1>17. Active(scores[s].gen) => Active(t.rev) /\ t.rev # 0
  BY <1>1, <1>2, <1>13 DEF TxnKnowsScore, GenerationsHaveBegun, Active, t
<1>18. ValidIsCurrent'
  BY <1>1, <1>8, <1>9, <1>17 DEF ValidIsCurrent, Active
<1> QED
  BY <1>11, <1>12, <1>14, <1>15, <1>16, <1>18

LEMMA EndRun_RankInv == ASSUME RankInv, NEW s \in RankedSubs, EndRun(s) PROVE RankInv'
<1> USE DEF RankInv, RankTypes
<1>1. PICK c \in {"D", "AB"} : judged' = [judged EXCEPT ![s].status = c]
  BY DEF EndRun
<1>2. judged[s].status = "QU" /\ rankJobs' = rankJobs \cup {RankJob("schedule", s, 0)}
      /\ UNCHANGED <<ranking, scores, queueing, builds, busyRows>>
  BY DEF EndRun
<1> DEFINE new == [status |-> c, run |-> judged[s].run]
<1>3. new \in Judged /\ new.status = c /\ judged' = [judged EXCEPT ![s] = new]
  <2>1. judged[s] \in Judged
    OBVIOUS
  <2>2. new \in Judged /\ new.status = c
    BY <2>1 DEF Judged, Statuses, Final
  <2>3. [judged[s] EXCEPT !.status = c] = new
    BY <2>1 DEF Judged
  <2> HIDE DEF new
  <2> QED
    BY <1>1, <2>2, <2>3
<1> HIDE DEF new
<1>4. /\ judged' \in [RankedSubs -> Judged] /\ judged'[s] = new
      /\ \A r \in RankedSubs \ {s} : judged'[r] = judged[r]
  BY <1>3
<1>5. Present' = Present /\ s \in Present
  BY <1>2, <1>3, <1>4 DEF Present
<1>6. JobsArePresent'
  <2>1. ASSUME NEW j \in rankJobs', j.kind \in {"schedule", "enqueue", "refresh"} PROVE j.sub \in Present'
    BY <1>2, <1>5, <2>1 DEF JobsArePresent, RankJob
  <2> QED
    BY <1>2, <1>5, <2>1 DEF JobsArePresent
<1>7. RankTypes' /\ GenerationsHaveBegun' /\ TxnKnowsScore' /\ TxnIsOfRow'
  BY <1>2, <1>4, <1>5 DEF GenerationsHaveBegun, TxnKnowsScore, TxnIsOfRow, Active
<1>8. ValidIsCurrent'
  BY <1>2, <1>4 DEF ValidIsCurrent, Active
<1> QED
  BY <1>6, <1>7, <1>8

\* What the tasks of one row leave behind.
LEMMA Replaces_Present ==
  ASSUME RankInv, NEW j \in rankJobs, NEW new,
         \A n \in new : n.kind \in {"schedule", "enqueue", "refresh"} => n.sub \in Present,
         Replaces(j, new), UNCHANGED <<judged, builds>>
  PROVE  JobsArePresent'
  BY DEF RankInv, JobsArePresent, Replaces, Present

\* A row that is marked pending for the generation of the contest.
LEMMA Marked_RankInv ==
  ASSUME RankInv, NEW s \in Present, NEW status \in {"pending", "failed"}, RevisionSeen # 0, queueing[s] = NoTxn,
         scores' = [scores EXCEPT ![s] = [gen |-> RevisionSeen, status |-> status, run |-> 0]],
         UNCHANGED <<ranking, judged, queueing, builds>>, JobsArePresent'
  PROVE  RankInv'
<1> DEFINE c == [gen |-> RevisionSeen, status |-> status, run |-> 0]
<1>1. ranking.rev \in Nat /\ RevisionSeen = ranking.rev
  BY DEF RankInv, RankTypes, Ranking, RevisionSeen
<1>2. c \in Score /\ c.gen = ranking.rev /\ c.status # "valid"
  BY <1>1, ScoreMade
<1>3. scores' = [scores EXCEPT ![s] = c] /\ builds' \in [Builders -> Build]
  BY DEF RankInv, RankTypes
<1> HIDE DEF c
<1>4. c.gen <= ranking.rev
  BY <1>1, <1>2
<1> QED
  BY <1>2, <1>3, <1>4, OneScore

\* A score is marked as failed, or nothing is done.
LEMMA Failed_RankInv ==
  ASSUME RankInv, NEW s \in Present, queueing[s] = NoTxn,
         scores' = scores \/ scores' = [scores EXCEPT ![s].status = "failed"],
         UNCHANGED <<ranking, judged, queueing, builds>>, JobsArePresent'
  PROVE  RankInv'
<1>1. scores[s] \in Score /\ scores \in [RankedSubs -> Score] /\ s \in RankedSubs /\ builds' \in [Builders -> Build]
  BY DEF RankInv, RankTypes, Present
<1>2. CASE scores' = scores
  <2>1. scores' = [scores EXCEPT ![s] = scores[s]]
    BY <1>1, <1>2
  <2>2. scores[s].gen <= ranking.rev
    BY <1>1 DEF RankInv, GenerationsHaveBegun
  <2>3. Active(scores[s].gen) /\ scores[s].status = "valid" =>
          scores[s].run = judged[s].run /\ judged[s].status \in {"D", "CE"}
    BY <1>1 DEF RankInv, ValidIsCurrent
  <2> QED
    BY <1>1, <2>1, <2>2, <2>3, OneScore
<1>3. CASE scores' = [scores EXCEPT ![s].status = "failed"]
  <2> DEFINE c == [gen |-> scores[s].gen, status |-> "failed", run |-> scores[s].run]
  <2>1. c \in Score /\ c.gen = scores[s].gen /\ c.status # "valid" /\ scores' = [scores EXCEPT ![s] = c]
    BY <1>1, <1>3 DEF Score
  <2> HIDE DEF c
  <2>2. c.gen <= ranking.rev
    BY <1>1, <2>1 DEF RankInv, GenerationsHaveBegun
  <2> QED
    BY <1>1, <2>1, <2>2, OneScore
<1> QED
  BY <1>2, <1>3

LEMMA ScheduleScore_RankInv ==
  ASSUME RankInv, NEW j \in rankJobs, ScheduleScore(j)
  PROVE  RankInv'
<1>1. /\ j.kind = "schedule" /\ queueing[j.sub] = NoTxn /\ UNCHANGED <<ranking, judged, queueing, builds, busyRows>>
      /\ IF RevisionSeen = 0 THEN Replaces(j, {}) /\ UNCHANGED scores
         ELSE IF judged[j.sub].status = "AB" THEN Replaces(j, {}) /\ Refreshed(j.sub, RevisionSeen)
         ELSE Replaces(j, {RankJob("enqueue", j.sub, RevisionSeen)}) /\ scores' = Marked(j.sub, RevisionSeen)
  BY DEF ScheduleScore
<1>2. j.sub \in Present /\ RevisionSeen \in Nat /\ builds' \in [Builders -> Build]
  BY <1>1 DEF RankInv, RankTypes, JobsArePresent, Ranking, RevisionSeen
<1>3. CASE Replaces(j, {}) /\ UNCHANGED scores
  <2>1. JobsArePresent'
    BY <1>1, <1>3, Replaces_Present
  <2> QED
    BY <1>1, <1>2, <1>3, <2>1, Failed_RankInv
<1>4. CASE Replaces(j, {}) /\ Refreshed(j.sub, RevisionSeen)
  <2>1. JobsArePresent'
    BY <1>1, <1>4, Replaces_Present
  <2> QED
    BY <1>1, <1>2, <1>4, <2>1, Refreshed_RankInv
<1>5. CASE /\ RevisionSeen # 0 /\ Replaces(j, {RankJob("enqueue", j.sub, RevisionSeen)})
           /\ scores' = Marked(j.sub, RevisionSeen)
  <2>1. JobsArePresent'
    BY <1>1, <1>2, <1>5, Replaces_Present DEF RankJob
  <2>2. scores' = [scores EXCEPT ![j.sub] = [gen |-> RevisionSeen, status |-> "pending", run |-> 0]]
    BY <1>5 DEF Marked
  <2> QED
    BY <1>1, <1>2, <1>5, <2>1, <2>2, Marked_RankInv
<1> QED
  BY <1>1, <1>3, <1>4, <1>5

LEMMA EnqueueScore_RankInv ==
  ASSUME RankInv, NEW j \in rankJobs, EnqueueScore(j)
  PROVE  RankInv'
<1> DEFINE rev == RevisionSeen
           marked == IF rev = j.rev THEN scores ELSE Marked(j.sub, rev)
           failed == IF marked[j.sub].gen = rev /\ marked[j.sub].status = "pending"
                     THEN [marked EXCEPT ![j.sub].status = "failed"] ELSE marked
<1>1. /\ j.kind = "enqueue" /\ queueing[j.sub] = NoTxn /\ UNCHANGED <<ranking, judged, queueing, builds, busyRows>>
      /\ \/ rev = 0 /\ Replaces(j, {}) /\ UNCHANGED scores
         \/ rev # 0 /\ scores' = marked /\ Replaces(j, {RankJob("refresh", j.sub, rev)})
         \/ rev # 0 /\ scores' = failed /\ Replaces(j, {})
  BY DEF EnqueueScore
<1>2. j.sub \in Present /\ j.sub \in RankedSubs /\ scores \in [RankedSubs -> Score] /\ rev \in Nat
  BY <1>1 DEF RankInv, RankTypes, JobsArePresent, Present, Ranking, RevisionSeen
<1>3. JobsArePresent'
  <2>1. CASE Replaces(j, {})
    BY <1>1, <2>1, Replaces_Present
  <2>2. CASE Replaces(j, {RankJob("refresh", j.sub, rev)})
    BY <1>1, <1>2, <2>2, Replaces_Present DEF RankJob
  <2> QED
    BY <1>1, <2>1, <2>2
<1>4. CASE rev # j.rev /\ rev # 0
  <2> DEFINE pending == [gen |-> rev, status |-> "pending", run |-> 0]
  <2>1. marked = [scores EXCEPT ![j.sub] = pending]
    BY <1>4 DEF Marked
  <2>2. pending \in Score
    BY <1>2 DEF Score
  <2>3. [marked EXCEPT ![j.sub].status = "failed"] =
          [scores EXCEPT ![j.sub] = [gen |-> rev, status |-> "failed", run |-> 0]]
    <3>1. marked \in [RankedSubs -> Score] /\ marked[j.sub] = pending
          /\ \A s \in RankedSubs \ {j.sub} : marked[s] = scores[s]
      <4> HIDE DEF pending, marked
      <4> QED
        BY <1>2, <2>1, <2>2
    <3>2. [marked[j.sub] EXCEPT !.status = "failed"] = [gen |-> rev, status |-> "failed", run |-> 0]
      BY <3>1
    <3> HIDE DEF marked, pending
    <3> QED
      BY <1>2, <2>1, <3>1, <3>2
  <2>4. scores' = marked \/ scores' = [marked EXCEPT ![j.sub].status = "failed"]
    BY <1>1, <1>4
  <2>5. \/ scores' = [scores EXCEPT ![j.sub] = [gen |-> rev, status |-> "pending", run |-> 0]]
        \/ scores' = [scores EXCEPT ![j.sub] = [gen |-> rev, status |-> "failed", run |-> 0]]
    BY <2>1, <2>3, <2>4
  <2> QED
    BY <1>1, <1>2, <1>3, <1>4, <2>5, Marked_RankInv
<1>5. CASE rev = j.rev \/ rev = 0
  <2>1. scores' = scores \/ scores' = [scores EXCEPT ![j.sub].status = "failed"]
    BY <1>1, <1>5
  <2> QED
    BY <1>1, <1>2, <1>3, <2>1, Failed_RankInv
<1> QED
  BY <1>4, <1>5

LEMMA RefreshScore_RankInv ==
  ASSUME RankInv, NEW j \in rankJobs, RefreshScore(j)
  PROVE  RankInv'
<1>1. /\ j.kind = "refresh" /\ queueing[j.sub] = NoTxn /\ Replaces(j, {})
      /\ UNCHANGED <<ranking, judged, queueing, builds, busyRows>>
      /\ Refreshed(j.sub, j.rev) \/ scores' = scores \/ scores' = [scores EXCEPT ![j.sub].status = "failed"]
  BY DEF RefreshScore
<1>2. j.sub \in Present /\ builds' \in [Builders -> Build]
  BY <1>1 DEF RankInv, RankTypes, JobsArePresent
<1>3. JobsArePresent'
  BY <1>1, Replaces_Present
<1> QED
  BY <1>1, <1>2, <1>3, Refreshed_RankInv, Failed_RankInv

\* The rows a build works on become fewer, or are listed anew.
LEMMA BuildDoes_RankInv ==
  ASSUME RankInv, NEW b \in Builders, NEW new \in Build, new.todo \subseteq Present, BuildDoes(b, new),
         UNCHANGED judged, rankJobs' \subseteq rankJobs
  PROVE  builds' \in [Builders -> Build] /\ JobsArePresent'
<1>1. builds' \in [Builders -> Build] /\ \A c \in Builders : builds'[c] = builds[c] \/ builds'[c] = new
  BY DEF RankInv, RankTypes, BuildDoes
<1> QED
  BY <1>1 DEF RankInv, JobsArePresent, Present

LEMMA BuildRefreshes_RankInv ==
  ASSUME RankInv, NEW b \in Builders, BuildRefreshes(b)
  PROVE  RankInv'
<1>1. PICK s \in builds[b].todo :
        /\ queueing[s] = NoTxn /\ Refreshed(s, builds[b].rev)
        /\ BuildDoes(b, [Passed(builds[b], s) EXCEPT !.todo = @ \ {s}])
  BY DEF BuildRefreshes
<1>2. UNCHANGED <<ranking, judged, queueing, rankJobs, busyRows>>
  BY DEF BuildRefreshes
<1>3. builds[b] \in Build /\ s \in Present /\ s \in Nat /\ builds[b].todo \subseteq Present
  BY RankingAssumption DEF RankInv, RankTypes, JobsArePresent, Present
<1> DEFINE new == [step |-> builds[b].step, rev |-> builds[b].rev,
                   cursor |-> IF builds[b].step = "page" THEN s ELSE builds[b].cursor,
                   cutoff |-> builds[b].cutoff, todo |-> builds[b].todo \ {s}]
<1>4. new \in Build /\ new.todo \subseteq Present
  BY <1>3 DEF Build
<1>5. BuildDoes(b, new)
  <2> DEFINE passed == [step |-> builds[b].step, rev |-> builds[b].rev,
                        cursor |-> IF builds[b].step = "page" THEN s ELSE builds[b].cursor,
                        cutoff |-> builds[b].cutoff, todo |-> builds[b].todo]
  <2>1. [Passed(builds[b], s) EXCEPT !.todo = @ \ {s}] = new
    <3>1. Passed(builds[b], s) = passed
      BY <1>3 DEF Build, Passed
    <3>2. passed \in Build
      BY <1>3 DEF Build
    <3> QED
      BY <3>1, <3>2 DEF Build
  <2> HIDE DEF new
  <2> QED
    BY <1>1, <2>1
<1> HIDE DEF new
<1>6. builds' \in [Builders -> Build] /\ JobsArePresent'
  BY <1>2, <1>4, <1>5, BuildDoes_RankInv
<1> QED
  BY <1>1, <1>2, <1>3, <1>6, Refreshed_RankInv

LEMMA IdleIsBuild == IdleBuild \in Build /\ IdleBuild.todo = {}
  BY DEF IdleBuild, Build

LEMMA DeliverBuild_RankInv ==
  ASSUME RankInv, NEW b \in Builders, NEW j \in rankJobs, DeliverBuild(b, j)
  PROVE  RankInv'
<1> DEFINE rows == {s \in Present : Aborted(s) /\ ~(scores[s].gen = j.rev /\ scores[s].status = "ignored")}
           new == [step |-> "aborted", rev |-> j.rev, cursor |-> ranking.cursor, cutoff |-> ranking.cutoff, todo |-> rows]
<1>1. /\ BuildDoes(b, IF ranking.state = "BUILDING" /\ ranking.rev = j.rev THEN new ELSE IdleBuild)
      /\ UNCHANGED <<ranking, judged, scores, queueing, busyRows>> /\ rankJobs' \subseteq rankJobs
  BY DEF DeliverBuild
<1>2. ranking \in Ranking /\ ranking.rev \in Nat /\ ranking.cursor \in Nat /\ ranking.cutoff \in Nat
  BY DEF RankInv, RankTypes, Ranking
<1>3. ranking.rev = j.rev => new \in Build /\ new.todo \subseteq Present
  <2>1. rows \in SUBSET RankedSubs /\ rows \subseteq Present
    BY DEF Present
  <2> HIDE DEF rows
  <2> QED
    BY <1>2, <2>1 DEF Build
<1> HIDE DEF new
<1>4. builds' \in [Builders -> Build] /\ JobsArePresent'
  <2>1. CASE ranking.state = "BUILDING" /\ ranking.rev = j.rev
    BY <1>1, <1>3, <2>1, BuildDoes_RankInv
  <2>2. CASE ~(ranking.state = "BUILDING" /\ ranking.rev = j.rev)
    BY <1>1, <2>2, IdleIsBuild, BuildDoes_RankInv
  <2> QED
    BY <2>1, <2>2
<1> QED
  BY <1>1, <1>2, <1>4, Ranking_RankInv

LEMMA BuildLists_RankInv ==
  ASSUME RankInv, NEW b \in Builders, BuildLists(b)
  PROVE  RankInv'
<1> DEFINE ids == FirstRows({s \in Present : builds[b].cursor < s /\ s <= builds[b].cutoff /\ ~Aborted(s)})
           finish == [builds[b] EXCEPT !.step = "finish"]
           page == [step |-> "page", rev |-> builds[b].rev, cursor |-> builds[b].cursor, cutoff |-> builds[b].cutoff,
                    todo |-> ids]
<1>1. /\ UNCHANGED <<ranking, judged, scores, queueing, rankJobs, busyRows>>
      /\ BuildDoes(b, IdleBuild) \/ BuildDoes(b, finish) \/ BuildDoes(b, [builds[b] EXCEPT !.step = "page", !.todo = ids])
  BY DEF BuildLists
<1>2. builds[b] \in Build /\ builds[b].todo \subseteq Present /\ ids \subseteq Present /\ ids \in SUBSET RankedSubs
  BY DEF RankInv, RankTypes, JobsArePresent, FirstRows, Present
<1> HIDE DEF ids
<1>3. finish \in Build /\ finish.todo \subseteq Present
  BY <1>2 DEF Build
<1>4. page \in Build /\ page.todo \subseteq Present
  BY <1>2 DEF Build
<1>5. [builds[b] EXCEPT !.step = "page", !.todo = ids] = page
  <2>1. PICK q \in Build : q = [builds[b] EXCEPT !.step = "page"]
    BY <1>2 DEF Build
  <2>2. [builds[b] EXCEPT !.step = "page", !.todo = ids] = [[builds[b] EXCEPT !.step = "page"] EXCEPT !.todo = ids]
    OBVIOUS
  <2>3. q = [step |-> "page", rev |-> builds[b].rev, cursor |-> builds[b].cursor, cutoff |-> builds[b].cutoff,
             todo |-> builds[b].todo]
    BY <1>2, <2>1 DEF Build
  <2>4. [q EXCEPT !.todo = ids] = page
    BY <2>3
  <2> HIDE DEF page
  <2> QED
    BY <2>1, <2>2, <2>4
<1> HIDE DEF page, finish
<1>6. builds' \in [Builders -> Build] /\ JobsArePresent'
  BY <1>1, <1>3, <1>4, <1>5, IdleIsBuild, BuildDoes_RankInv
<1>7. ranking' \in Ranking
  BY <1>1 DEF RankInv, RankTypes
<1> QED
  BY <1>1, <1>6, <1>7, Ranking_RankInv

LEMMA BuildStores_RankInv ==
  ASSUME RankInv, NEW b \in Builders, BuildStores(b)
  PROVE  RankInv'
<1> DEFINE next == [builds[b] EXCEPT !.step = "next"]
           stored == [ranking EXCEPT !.cursor = builds[b].cursor]
<1>1. BuildDoes(b, next) /\ UNCHANGED <<judged, scores, queueing, rankJobs, busyRows>>
      /\ ranking' = IF CursorAhead(b) THEN stored ELSE ranking
  BY DEF BuildStores
<1>2. builds[b] \in Build /\ builds[b].todo \subseteq Present /\ ranking \in Ranking
  BY DEF RankInv, RankTypes, JobsArePresent
<1>3. next \in Build /\ next.todo \subseteq Present
  BY <1>2 DEF Build
<1>4. stored \in Ranking /\ stored.rev = ranking.rev /\ stored.state = ranking.state
  BY <1>2 DEF Build, Ranking
<1> HIDE DEF next, stored
<1>5. builds' \in [Builders -> Build] /\ JobsArePresent'
  BY <1>1, <1>3, BuildDoes_RankInv
<1> QED
  BY <1>1, <1>2, <1>4, <1>5, Ranking_RankInv

LEMMA BuildEnds_RankInv ==
  ASSUME RankInv, NEW b \in Builders, BuildEnds(b)
  PROVE  RankInv'
<1>1. BuildDoes(b, IdleBuild) /\ UNCHANGED <<judged, scores, queueing, busyRows>> /\ rankJobs' \subseteq rankJobs
  BY DEF BuildEnds
<1>2. PICK state \in {"ON", "FAILED"} :
        ranking' = IF Building(b) THEN [ranking EXCEPT !.state = state, !.cursor = builds[b].cutoff] ELSE ranking
  BY DEF BuildEnds
<1>3. builds[b] \in Build /\ ranking \in Ranking
  BY DEF RankInv, RankTypes
<1> DEFINE new == [state |-> state, rev |-> ranking.rev, cursor |-> builds[b].cutoff, cutoff |-> ranking.cutoff]
<1>4. [ranking EXCEPT !.state = state, !.cursor = builds[b].cutoff] = new
  <2>1. PICK q \in Ranking : q = [ranking EXCEPT !.state = state]
    BY <1>3 DEF Ranking
  <2>2. [ranking EXCEPT !.state = state, !.cursor = builds[b].cutoff]
          = [[ranking EXCEPT !.state = state] EXCEPT !.cursor = builds[b].cutoff]
    OBVIOUS
  <2>3. q = [state |-> state, rev |-> ranking.rev, cursor |-> ranking.cursor, cutoff |-> ranking.cutoff]
    BY <1>3, <2>1 DEF Ranking
  <2>4. [q EXCEPT !.cursor = builds[b].cutoff] = new
    BY <2>3
  <2> HIDE DEF new
  <2> QED
    BY <2>1, <2>2, <2>4
<1>5. new \in Ranking /\ new.rev = ranking.rev
  BY <1>3 DEF Ranking, Build
<1> HIDE DEF new
<1>6. ranking' \in Ranking /\ ranking'.rev = ranking.rev
      /\ (ranking'.state \in {"BUILDING", "ON"} => ranking.state \in {"BUILDING", "ON"})
  BY <1>2, <1>3, <1>4, <1>5 DEF Building
<1>7. builds' \in [Builders -> Build] /\ JobsArePresent'
  BY <1>1, IdleIsBuild, BuildDoes_RankInv
<1> QED
  BY <1>1, <1>6, <1>7, Ranking_RankInv

LEMMA BuildDies_RankInv ==
  ASSUME RankInv, NEW b \in Builders, BuildDies(b)
  PROVE  RankInv'
<1>1. BuildDoes(b, IdleBuild) /\ UNCHANGED <<ranking, judged, scores, queueing, rankJobs, busyRows>>
  BY DEF BuildDies
<1>2. builds' \in [Builders -> Build] /\ JobsArePresent' /\ ranking' \in Ranking
  BY <1>1, IdleIsBuild, BuildDoes_RankInv DEF RankInv, RankTypes
<1> QED
  BY <1>1, <1>2, Ranking_RankInv

LEMMA Administrator_RankInv ==
  ASSUME RankInv, StartBuild \/ StopRanking
  PROVE  RankInv'
<1>1. ranking \in Ranking /\ builds \in [Builders -> Build]
  BY DEF RankInv, RankTypes
<1>2. CASE StartBuild
  <2>1. PICK state \in {"BUILDING", "FAILED"} :
          /\ ranking' = [state |-> state, rev |-> ranking.rev + 1, cursor |-> 0, cutoff |-> HighestPk]
          /\ rankJobs' = IF state = "FAILED" THEN rankJobs ELSE rankJobs \cup {RankJob("build", 0, ranking.rev + 1)}
    BY <1>2 DEF StartBuild
  <2>2. UNCHANGED <<judged, scores, queueing, builds, busyRows>>
    BY <1>2 DEF StartBuild
  <2>3. ranking' \in Ranking /\ ranking'.rev = ranking.rev + 1
    BY <1>1, <2>1, HighestPkIsNat DEF Ranking
  <2>4. JobsArePresent'
    BY <2>1, <2>2 DEF RankInv, JobsArePresent, RankJob, Present
  <2> QED
    BY <1>1, <2>2, <2>3, <2>4, Ranking_RankInv
<1>3. CASE StopRanking
  <2>1. ranking' = [ranking EXCEPT !.state = "OFF", !.rev = @ + 1]
        /\ UNCHANGED <<judged, scores, queueing, rankJobs, builds, busyRows>>
    BY <1>3 DEF StopRanking
  <2>2. [ranking EXCEPT !.state = "OFF", !.rev = @ + 1] =
          [state |-> "OFF", rev |-> ranking.rev + 1, cursor |-> ranking.cursor, cutoff |-> ranking.cutoff]
    <3>1. PICK q \in Ranking : q = [ranking EXCEPT !.state = "OFF"]
      BY <1>1 DEF Ranking
    <3>2. [ranking EXCEPT !.state = "OFF", !.rev = @ + 1] = [[ranking EXCEPT !.state = "OFF"] EXCEPT !.rev = ranking.rev + 1]
      OBVIOUS
    <3>3. q = [state |-> "OFF", rev |-> ranking.rev, cursor |-> ranking.cursor, cutoff |-> ranking.cutoff]
      BY <1>1, <3>1 DEF Ranking
    <3>4. [q EXCEPT !.rev = ranking.rev + 1] =
            [state |-> "OFF", rev |-> ranking.rev + 1, cursor |-> ranking.cursor, cutoff |-> ranking.cutoff]
      BY <3>3
    <3> QED
      BY <3>1, <3>2, <3>4
  <2>3. ranking' \in Ranking /\ ranking'.rev = ranking.rev + 1
    BY <1>1, <2>1, <2>2 DEF Ranking
  <2>4. JobsArePresent'
    BY <2>1 DEF RankInv, JobsArePresent, Present
  <2> QED
    BY <1>1, <2>1, <2>3, <2>4, Ranking_RankInv
<1> QED
  BY <1>2, <1>3

LEMMA RankNext_RankInv == RankInv /\ [RankNext]_rankVars => RankInv'
<1> SUFFICES ASSUME RankInv, [RankNext]_rankVars PROVE RankInv'
  OBVIOUS
<1>1. ASSUME NEW s \in RankedSubs, BeginQueue(s) \/ BeginEnd(s) PROVE RankInv'
  <2>1. s \in Present
    BY <1>1 DEF BeginQueue, BeginEnd, Present
  <2>2. PICK status \in {"QU", "CE", "IE", "AB"} :
          queueing' = [queueing EXCEPT ![s] = [status |-> status, rev |-> RevisionSeen]]
    BY <1>1 DEF BeginQueue, BeginEnd
  <2>3. UNCHANGED <<ranking, judged, scores, rankJobs, builds, busyRows>>
    BY <1>1 DEF BeginQueue, BeginEnd
  <2> QED
    BY <2>1, <2>2, <2>3, Begin_RankInv
<1>2. ASSUME NEW s \in RankedSubs, NewRow(s) \/ Commit(s) \/ EndRun(s) PROVE RankInv'
  BY <1>2, NewRow_RankInv, Commit_RankInv, EndRun_RankInv
<1>3. ASSUME NEW j \in rankJobs, ScheduleScore(j) \/ EnqueueScore(j) \/ RefreshScore(j) PROVE RankInv'
  BY <1>3, ScheduleScore_RankInv, EnqueueScore_RankInv, RefreshScore_RankInv
<1>4. CASE StartBuild \/ StopRanking
  BY <1>4, Administrator_RankInv
<1>5. ASSUME NEW b \in Builders, BuildStep(b) \/ BuildDies(b) PROVE RankInv'
  BY <1>5, BuildRefreshes_RankInv, BuildLists_RankInv, BuildStores_RankInv, BuildEnds_RankInv, BuildDies_RankInv
  DEF BuildStep
<1>6. ASSUME NEW b \in Builders, NEW j \in rankJobs, DeliverBuild(b, j) PROVE RankInv'
  BY <1>6, DeliverBuild_RankInv
<1>7. CASE UNCHANGED rankVars
  BY <1>7 DEF rankVars, RankInv, RankTypes, JobsArePresent, GenerationsHaveBegun, TxnKnowsScore, TxnIsOfRow,
              ValidIsCurrent, Active, Present
<1> QED
  BY <1>1, <1>2, <1>3, <1>4, <1>5, <1>6, <1>7 DEF RankNext

\* docs/conservative-ranking.md:84: whichever generations begin while results are
\* committed, whichever builds are delivered twice or die, a valid score of the current
\* generation is that of the run the submission shows.
THEOREM ScoresAreOfCurrentRuns == RankSpec => []ScoreOfCurrentRun
<1>1. RankInv => ScoreOfCurrentRun
  BY DEF RankInv, ValidIsCurrent, ScoreOfCurrentRun, Present
<1> QED
  BY <1>1, RankInit_RankInv, RankNext_RankInv, PTL DEF RankSpec

-----------------------------------------------------------------------------
(***************************************************************************)
(* The ranking is complete.                                                *)
(***************************************************************************)
InForce == ranking.state \in {"BUILDING", "ON"}
Counts(s) == judged[s].status \in {"D", "CE"}
\* A score of this generation, or a message that will bring one: a refresh of an
\* earlier generation publishes nothing.
Settled(s) == scores[s].gen = ranking.rev /\ scores[s].status \in {"valid", "failed"}
Handled(s) ==
  \E j \in rankJobs :
    j.sub = s /\ (j.kind \in {"schedule", "enqueue"} \/ (j.kind = "refresh" /\ j.rev = ranking.rev))
\* The generation will not lose the row: a compile error that is being committed knows
\* a generation.
Covered(s) ==
  /\ Counts(s) => Settled(s) \/ Handled(s)
  /\ queueing[s].status = "CE" => queueing[s].rev # 0
\* A row with messages of this generation has a score of it; one whose score says that
\* there is no result is to be looked at again when there is one.
RowFits(s) ==
  /\ \A j \in rankJobs :
       j.sub = s /\ j.kind \in {"enqueue", "refresh"} /\ j.rev = ranking.rev => scores[s].gen = ranking.rev
  /\ scores[s].gen = ranking.rev /\ scores[s].status \in {"none", "error", "ignored"} /\ Counts(s) =>
       \E j \in rankJobs : j.sub = s /\ j.kind = "schedule"
\* Messages and transactions are of generations that have begun; a compile error ends a
\* run that goes on.
RevsBegun ==
  /\ \A j \in rankJobs : j.rev \in Nat /\ j.rev <= ranking.rev
  /\ \A s \in RankedSubs : queueing[s].rev <= ranking.rev /\ (queueing[s].status = "CE" => judged[s].status = "QU")
\* What a build has behind it is covered; so is what it skipped on its page.
BuildCovers(build) ==
  /\ build.cutoff = ranking.cutoff
  /\ \A s \in RankedSubs : s <= build.cursor => Covered(s)
  /\ build.step = "page" => \A s \in RankedSubs \ build.todo : (\E t \in build.todo : s < t) => Covered(s)
  /\ build.step = "finish" => \A s \in RankedSubs : Covered(s)
BuildsCover ==
  /\ \A b \in Builders : builds[b].rev <= ranking.rev
  /\ ranking.state = "BUILDING" =>
       /\ \A s \in RankedSubs : ranking.cutoff < s \/ s <= ranking.cursor => Covered(s)
       /\ \A b \in Builders : builds[b].step # "idle" /\ builds[b].rev = ranking.rev => BuildCovers(builds[b])
  /\ ranking.state = "ON" => \A s \in RankedSubs : Covered(s)
RowsFit == InForce => \A s \in RankedSubs : RowFits(s)
CompInv == RankInv /\ RevsBegun /\ RowsFit /\ BuildsCover

\* What the steps on one row have in common.
RowStep(s) ==
  /\ ranking' = ranking
  /\ \A x \in RankedSubs \ {s} : judged'[x] = judged[x] /\ scores'[x] = scores[x] /\ queueing'[x] = queueing[x]
  /\ \A j : j.sub # s => (j \in rankJobs <=> j \in rankJobs')
  /\ \A j \in rankJobs' : j.rev \in Nat /\ j.rev <= ranking.rev
  /\ queueing'[s].rev <= ranking.rev /\ (queueing'[s].status = "CE" => judged'[s].status = "QU")
  /\ InForce => RowFits(s)' /\ (Covered(s) => Covered(s)')

LEMMA RowStep_Keeps ==
  ASSUME CompInv, NEW s \in RankedSubs, RowStep(s)
  PROVE  /\ RevsBegun' /\ RowsFit'
         /\ InForce => \A x \in RankedSubs : Covered(x) => Covered(x)'
<1>1. RevsBegun'
  BY DEF CompInv, RevsBegun, RowStep
<1>2. ASSUME NEW x \in RankedSubs \ {s}, InForce
      PROVE  RowFits(x)' /\ (Covered(x) => Covered(x)')
  <2>1. RowFits(x) /\ \A j : j.sub = x => (j \in rankJobs <=> j \in rankJobs')
    BY <1>2 DEF CompInv, RowsFit, RowStep
  <2>2. judged'[x] = judged[x] /\ scores'[x] = scores[x] /\ queueing'[x] = queueing[x] /\ ranking' = ranking
    BY DEF RowStep
  <2>3. RowFits(x)'
    BY <2>1, <2>2 DEF RowFits, Counts
  <2>4. Covered(x) => Covered(x)'
    BY <2>1, <2>2 DEF Covered, Counts, Settled, Handled
  <2> QED
    BY <2>3, <2>4
<1>3. InForce' <=> InForce
  BY DEF RowStep, InForce
<1> QED
  BY <1>1, <1>2, <1>3 DEF RowStep, RowsFit

LEMMA RowStep_CompInv ==
  ASSUME CompInv, RankInv', NEW s \in RankedSubs, RowStep(s), UNCHANGED builds
  PROVE  CompInv'
<1>1. /\ RevsBegun' /\ RowsFit' /\ ranking' = ranking
      /\ InForce => \A x \in RankedSubs : Covered(x) => Covered(x)'
  BY RowStep_Keeps DEF RowStep
<1>2. \A b \in Builders : InForce /\ BuildCovers(builds[b]) => BuildCovers(builds[b])'
  BY <1>1 DEF BuildCovers
<1>3. BuildsCover'
  BY <1>1, <1>2 DEF CompInv, BuildsCover, InForce
<1> QED
  BY <1>1, <1>3 DEF CompInv

\* The messages of a row after one of them was taken and others were sent.
LEMMA Replaced ==
  ASSUME CompInv, NEW j \in rankJobs, NEW new, Replaces(j, new), \A n \in new : n.sub = j.sub /\ n.rev \in Nat /\ n.rev <= ranking.rev
  PROVE  /\ \A i : i.sub # j.sub => (i \in rankJobs <=> i \in rankJobs')
         /\ \A i \in rankJobs' : i.rev \in Nat /\ i.rev <= ranking.rev
         /\ \A i \in rankJobs' : i \in new \/ (i \in rankJobs /\ i # j)
         /\ \A i \in rankJobs : i = j \/ i \in rankJobs'
         /\ new \subseteq rankJobs'
  BY DEF CompInv, RevsBegun, Replaces

LEMMA RankNat ==
  ASSUME RankInv
  PROVE  /\ ranking.rev \in Nat /\ (InForce => ranking.rev # 0 /\ RevisionSeen = ranking.rev) /\ (~InForce => RevisionSeen = 0)
         /\ RevisionSeen \in Nat /\ RevisionSeen <= ranking.rev
         /\ \A rev : Active(rev) <=> InForce /\ rev = ranking.rev
         /\ \A s \in RankedSubs : s # 0 /\ judged[s] \in Judged /\ scores[s] \in Score /\ queueing[s] \in Txn
         /\ scores \in [RankedSubs -> Score] /\ judged \in [RankedSubs -> Judged] /\ queueing \in [RankedSubs -> Txn]
BY RankingAssumption DEF RankInv, RankTypes, GenerationsHaveBegun, Ranking, InForce, RevisionSeen, Active

LEMMA NewRow_CompInv == ASSUME CompInv, RankInv', NEW s \in RankedSubs, NewRow(s) PROVE CompInv'
<1>1. RankInv /\ RevsBegun /\ RowsFit
  BY DEF CompInv
<1>2. judged[s].status = "absent" /\ judged' = [judged EXCEPT ![s].status = "QU"]
      /\ UNCHANGED <<ranking, scores, queueing, rankJobs, builds, busyRows>>
  BY DEF NewRow
<1>3. judged'[s].status = "QU" /\ \A r \in RankedSubs \ {s} : judged'[r] = judged[r]
  <2>1. judged \in [RankedSubs -> Judged] /\ judged[s] \in Judged
    BY <1>1, RankNat
  <2>2. judged'[s] = [judged[s] EXCEPT !.status = "QU"] /\ \A r \in RankedSubs \ {s} : judged'[r] = judged[r]
    BY <1>2, <2>1
  <2> QED
    BY <2>1, <2>2 DEF Judged
<1>4. queueing[s].status = "none"
  BY <1>1, <1>2 DEF RankInv, TxnIsOfRow, NoTxn, Present
<1>5. InForce => RowFits(s)' /\ (Covered(s) => Covered(s)')
  BY <1>1, <1>2, <1>3, <1>4 DEF RowsFit, RowFits, Covered, Counts
<1>6. RowStep(s)
  BY <1>1, <1>2, <1>3, <1>5 DEF RowStep, RevsBegun
<1> QED
  BY <1>2, <1>6, RowStep_CompInv

LEMMA Begin_CompInv ==
  ASSUME CompInv, RankInv', NEW s \in RankedSubs, BeginQueue(s) \/ BeginEnd(s)
  PROVE  CompInv'
<1>1. RankInv /\ RevsBegun /\ RowsFit
  BY DEF CompInv
<1>2. PICK status : /\ queueing' = [queueing EXCEPT ![s] = [status |-> status, rev |-> RevisionSeen]]
                    /\ status = "CE" => judged[s].status = "QU"
  BY DEF BeginQueue, BeginEnd
<1>3. UNCHANGED <<ranking, judged, scores, rankJobs, builds, busyRows>>
  BY DEF BeginQueue, BeginEnd
<1>4. /\ queueing'[s].rev = RevisionSeen /\ (queueing'[s].status = "CE" => judged[s].status = "QU")
      /\ \A r \in RankedSubs \ {s} : queueing'[r] = queueing[r]
  <2>1. queueing \in [RankedSubs -> Txn]
    BY <1>1, RankNat
  <2> QED
    BY <1>2, <2>1
<1>5. InForce => RowFits(s)' /\ (Covered(s) => Covered(s)')
  <2>1. InForce => RevisionSeen # 0
    BY <1>1, RankNat
  <2> QED
    BY <1>1, <1>3, <1>4, <2>1 DEF RowsFit, RowFits, Covered, Counts, Settled, Handled
<1>6. RowStep(s)
  <2>1. RevisionSeen <= ranking.rev
    BY <1>1, RankNat
  <2> QED
    BY <1>1, <1>3, <1>4, <1>5, <2>1 DEF RowStep, RevsBegun
<1> QED
  BY <1>3, <1>6, RowStep_CompInv

LEMMA Commit_CompInv == ASSUME CompInv, RankInv', NEW s \in RankedSubs, Commit(s) PROVE CompInv'
<1> DEFINE t == queueing[s]
           job == RankJob("enqueue", s, t.rev)
<1>1. RankInv /\ RevsBegun /\ RowsFit
  BY DEF CompInv
<1>2. /\ t # NoTxn /\ queueing' = [queueing EXCEPT ![s] = NoTxn]
      /\ judged' = [judged EXCEPT ![s] = [status |-> t.status, run |-> IF t.status = "QU" THEN @.run + 1 ELSE @.run]]
      /\ scores' = IF t.rev = 0 \/ ~Active(t.rev) THEN scores
                   ELSE IF t.status = "AB" THEN [scores EXCEPT ![s] = [gen |-> t.rev, status |-> "ignored", run |-> judged[s].run]]
                   ELSE Marked(s, t.rev)
      /\ rankJobs' = rankJobs \cup IF t.rev = 0 \/ t.status = "AB" THEN {} ELSE {job}
      /\ UNCHANGED <<ranking, builds, busyRows>>
  BY DEF Commit
<1>3. /\ scores \in [RankedSubs -> Score] /\ judged \in [RankedSubs -> Judged] /\ queueing \in [RankedSubs -> Txn]
      /\ ranking.rev \in Nat /\ (InForce => ranking.rev # 0) /\ \A rev : Active(rev) <=> InForce /\ rev = ranking.rev
  BY <1>1, RankNat
<1>4. /\ t.status \in {"QU", "CE", "IE", "AB"} /\ t.rev \in Nat /\ t.rev <= ranking.rev
      /\ Active(scores[s].gen) => t.rev = ranking.rev
  BY <1>1, <1>2, <1>3 DEF RankInv, TxnIsOfRow, TxnKnowsScore, Txn, RevsBegun
<1>5. job.kind = "enqueue" /\ job.sub = s /\ job.rev = t.rev
  BY DEF RankJob
<1> HIDE DEF t, job
<1>6. judged'[s].status = t.status /\ \A r \in RankedSubs \ {s} : judged'[r] = judged[r]
  BY <1>2, <1>3
<1>7. queueing'[s] = NoTxn /\ \A r \in RankedSubs \ {s} : queueing'[r] = queueing[r]
  BY <1>2, <1>3
<1>8. /\ \A r \in RankedSubs \ {s} : scores'[r] = scores[r]
      /\ Active(t.rev) /\ t.rev # 0 /\ t.status # "AB" => scores'[s].gen = t.rev /\ scores'[s].status = "pending"
      /\ Active(t.rev) /\ t.rev # 0 => scores'[s].gen = t.rev
      /\ ~Active(t.rev) => scores' = scores
  BY <1>2, <1>3 DEF Marked
<1>9. ASSUME InForce PROVE RowFits(s)' /\ (Covered(s) => Covered(s)')
  <2>1. ranking.rev # 0 /\ ranking' = ranking /\ (Active(t.rev) <=> t.rev = ranking.rev) /\ RowFits(s)
    BY <1>1, <1>2, <1>3, <1>9 DEF RowsFit
  <2>2. scores[s].gen = ranking.rev => t.rev = ranking.rev
    BY <1>3, <1>4, <1>9
  <2>3. ASSUME NEW j \in rankJobs', j.sub = s, j.kind \in {"enqueue", "refresh"}, j.rev = ranking.rev
        PROVE  scores'[s].gen = ranking.rev
    <3>1. CASE t.rev = ranking.rev
      BY <1>8, <2>1, <3>1
    <3>2. CASE t.rev # ranking.rev
      <4>1. j \in rankJobs
        BY <1>2, <1>5, <2>3, <3>2
      <4> QED
        BY <1>8, <2>1, <2>3, <3>2, <4>1 DEF RowFits
    <3> QED
      BY <3>1, <3>2
  <2>4. ASSUME scores'[s].gen = ranking.rev, Counts(s)'
        PROVE  scores'[s].status = "pending"
    <3>1. t.status = "CE"
      BY <1>4, <1>6, <2>4 DEF Counts
    <3>2. t.rev = ranking.rev
      BY <1>8, <2>1, <2>2, <2>4
    <3> QED
      BY <1>8, <2>1, <3>1, <3>2
  <2>5. RowFits(s)'
    BY <2>1, <2>3, <2>4 DEF RowFits
  <2>6. ASSUME Covered(s), Counts(s)' PROVE Handled(s)'
    <3>1. t.status = "CE" /\ t.rev # 0
      BY <1>4, <1>6, <2>6 DEF Counts, Covered, t
    <3> QED
      BY <1>2, <1>5, <3>1 DEF Handled
  <2> QED
    BY <1>7, <2>5, <2>6 DEF Covered, NoTxn
<1>10. RowStep(s)
  <2>1. \A j \in rankJobs' : j.rev \in Nat /\ j.rev <= ranking.rev
    BY <1>1, <1>2, <1>4, <1>5 DEF RevsBegun
  <2>2. \A j : j.sub # s => (j \in rankJobs <=> j \in rankJobs')
    BY <1>2, <1>5
  <2> QED
    BY <1>2, <1>3, <1>6, <1>7, <1>8, <1>9, <2>1, <2>2 DEF RowStep, NoTxn
<1> QED
  BY <1>2, <1>10, RowStep_CompInv

LEMMA EndRun_CompInv == ASSUME CompInv, RankInv', NEW s \in RankedSubs, EndRun(s) PROVE CompInv'
<1> DEFINE job == RankJob("schedule", s, 0)
<1>1. RankInv /\ RevsBegun /\ RowsFit
  BY DEF CompInv
<1>2. PICK c \in {"D", "AB"} : judged' = [judged EXCEPT ![s].status = c]
  BY DEF EndRun
<1>3. rankJobs' = rankJobs \cup {job} /\ queueing[s] = NoTxn
      /\ UNCHANGED <<ranking, scores, queueing, builds, busyRows>>
  BY DEF EndRun
<1>4. \A r \in RankedSubs \ {s} : judged'[r] = judged[r]
  <2>1. judged \in [RankedSubs -> Judged]
    BY <1>1, RankNat
  <2> QED
    BY <1>2, <2>1
<1>5. job.kind = "schedule" /\ job.sub = s /\ job.rev = 0
  BY DEF RankJob
<1> HIDE DEF job
<1>6. InForce => RowFits(s)' /\ (Covered(s) => Covered(s)')
  <2>1. InForce => RowFits(s)'
    BY <1>1, <1>3, <1>5 DEF RowsFit, RowFits
  <2>2. Covered(s)'
    BY <1>3, <1>5 DEF Covered, Handled, NoTxn
  <2> QED
    BY <2>1, <2>2
<1>7. RowStep(s)
  <2>1. ranking.rev \in Nat
    BY <1>1, RankNat
  <2>2. \A j \in rankJobs' : j.rev \in Nat /\ j.rev <= ranking.rev
    BY <1>1, <1>3, <1>5, <2>1 DEF RevsBegun
  <2> QED
    BY <1>1, <1>3, <1>4, <1>5, <1>6, <2>2 DEF RowStep, RevsBegun, NoTxn
<1> QED
  BY <1>3, <1>7, RowStep_CompInv

\* A step that takes a message of a row nobody holds: what it writes on the row is of
\* the generation in force.
LEMMA JobStep_CompInv ==
  ASSUME CompInv, RankInv', NEW j \in rankJobs, NEW new, j.sub \in RankedSubs, queueing[j.sub] = NoTxn,
         Replaces(j, new), \A n \in new : n.sub = j.sub /\ n.rev \in Nat /\ n.rev <= ranking.rev,
         UNCHANGED <<ranking, judged, queueing, builds>>,
         \A x \in RankedSubs \ {j.sub} : scores'[x] = scores[x],
         InForce => RowFits(j.sub)' /\ (Covered(j.sub) => ~Counts(j.sub) \/ Settled(j.sub)' \/ Handled(j.sub)')
  PROVE  CompInv'
<1> DEFINE s == j.sub
<1>1. RankInv /\ RevsBegun
  BY DEF CompInv
<1>2. /\ \A i : i.sub # s => (i \in rankJobs <=> i \in rankJobs')
      /\ \A i \in rankJobs' : i.rev \in Nat /\ i.rev <= ranking.rev
  BY Replaced
<1>3. InForce => RowFits(s)' /\ (Covered(s) => Covered(s)')
  BY DEF Covered, Counts, NoTxn
<1> HIDE DEF s
<1>4. RowStep(s)
  BY <1>1, <1>2, <1>3 DEF RowStep, RevsBegun, s
<1> QED
  BY <1>4, RowStep_CompInv DEF s

\* A job of a row: the row exists.
LEMMA JobOfRow ==
  ASSUME CompInv, NEW j \in rankJobs, j.kind \in {"schedule", "enqueue", "refresh"}
  PROVE  j.sub \in Present /\ j.sub \in RankedSubs /\ j.rev \in Nat /\ j.rev <= ranking.rev
  BY DEF CompInv, RankInv, JobsArePresent, Present, RevsBegun

\* The score that refresh_one writes, if it writes one.
LEMMA RefreshedIs ==
  ASSUME RankInv, NEW s \in RankedSubs, NEW rev, Refreshed(s, rev), UNCHANGED <<ranking, judged>>
  PROVE  /\ \A x \in RankedSubs \ {s} : scores'[x] = scores[x]
         /\ InForce /\ rev = ranking.rev => /\ scores'[s].gen = ranking.rev
                                            /\ Counts(s) => scores'[s].status = "valid"
         /\ ~(InForce /\ rev = ranking.rev) => scores' = scores
<1>1. scores \in [RankedSubs -> Score] /\ (MayPublish(rev) <=> InForce /\ rev = ranking.rev)
  BY RankNat DEF MayPublish
<1>2. Counts(s) => Calculated(s) = "valid"
  BY DEF Counts, Calculated
<1> QED
  BY <1>1, <1>2 DEF Refreshed

LEMMA ScheduleScore_CompInv ==
  ASSUME CompInv, RankInv', NEW j \in rankJobs, ScheduleScore(j)
  PROVE  CompInv'
<1> DEFINE s == j.sub
           job == RankJob("enqueue", s, RevisionSeen)
<1>1. RankInv /\ RowsFit
  BY DEF CompInv
<1>2. /\ j.kind = "schedule" /\ queueing[s] = NoTxn /\ UNCHANGED <<ranking, judged, queueing, builds, busyRows>>
      /\ IF RevisionSeen = 0 THEN Replaces(j, {}) /\ UNCHANGED scores
         ELSE IF judged[s].status = "AB" THEN Replaces(j, {}) /\ Refreshed(s, RevisionSeen)
         ELSE Replaces(j, {job}) /\ scores' = Marked(s, RevisionSeen)
  BY DEF ScheduleScore
<1>3. s \in RankedSubs /\ scores \in [RankedSubs -> Score] /\ RevisionSeen \in Nat /\ RevisionSeen <= ranking.rev
      /\ (InForce <=> RevisionSeen # 0) /\ (InForce => RevisionSeen = ranking.rev)
  BY <1>1, <1>2, JobOfRow, RankNat
<1>4. job.kind = "enqueue" /\ job.sub = s /\ job.rev = RevisionSeen
  BY DEF RankJob
<1> HIDE DEF job
<1>5. CASE RevisionSeen = 0
  BY <1>2, <1>3, <1>5, JobStep_CompInv
<1>6. CASE RevisionSeen # 0 /\ judged[s].status = "AB"
  <2>1. /\ \A x \in RankedSubs \ {s} : scores'[x] = scores[x]
        /\ scores'[s].gen = ranking.rev
    BY <1>1, <1>2, <1>3, <1>6, RefreshedIs
  <2>2. RowFits(s)' /\ ~Counts(s)
    BY <1>2, <1>6, <2>1 DEF RowFits, Counts
  <2> QED
    BY <1>2, <1>3, <1>6, <2>1, <2>2, JobStep_CompInv
<1>7. CASE RevisionSeen # 0 /\ judged[s].status # "AB"
  <2>1. scores' = [scores EXCEPT ![s] = [gen |-> RevisionSeen, status |-> "pending", run |-> 0]]
    BY <1>2, <1>7 DEF Marked
  <2>2. /\ \A x \in RankedSubs \ {s} : scores'[x] = scores[x]
        /\ scores'[s].gen = ranking.rev /\ scores'[s].status = "pending"
    BY <1>3, <1>7, <2>1
  <2>3. RowFits(s)'
    BY <1>2, <2>2 DEF RowFits
  <2>4. Handled(s)'
    BY <1>2, <1>4, <1>7 DEF Handled, Replaces
  <2> QED
    BY <1>2, <1>3, <1>4, <1>7, <2>2, <2>3, <2>4, JobStep_CompInv
<1> QED
  BY <1>5, <1>6, <1>7

LEMMA EnqueueScore_CompInv ==
  ASSUME CompInv, RankInv', NEW j \in rankJobs, EnqueueScore(j)
  PROVE  CompInv'
<1> DEFINE s == j.sub
           rev == RevisionSeen
           marked == IF rev = j.rev THEN scores ELSE Marked(s, rev)
           failed == IF marked[s].gen = rev /\ marked[s].status = "pending"
                     THEN [marked EXCEPT ![s].status = "failed"] ELSE marked
           job == RankJob("refresh", s, rev)
<1>1. RankInv /\ RowsFit
  BY DEF CompInv
<1>2. /\ j.kind = "enqueue" /\ queueing[s] = NoTxn /\ UNCHANGED <<ranking, judged, queueing, builds, busyRows>>
      /\ \/ rev = 0 /\ Replaces(j, {}) /\ UNCHANGED scores
         \/ rev # 0 /\ scores' = marked /\ Replaces(j, {job})
         \/ rev # 0 /\ scores' = failed /\ Replaces(j, {})
  BY DEF EnqueueScore
<1>3. s \in RankedSubs /\ scores \in [RankedSubs -> Score] /\ rev \in Nat /\ rev <= ranking.rev
      /\ (InForce <=> rev # 0) /\ (InForce => rev = ranking.rev)
  BY <1>1, <1>2, JobOfRow, RankNat
<1>4. job.kind = "refresh" /\ job.sub = s /\ job.rev = rev
  BY DEF RankJob
<1> HIDE DEF job
<1>5. CASE rev = 0
  BY <1>2, <1>3, <1>5, JobStep_CompInv
<1>6. ASSUME rev # 0
      PROVE  /\ marked \in [RankedSubs -> Score] /\ marked[s].gen = ranking.rev
             /\ \A x \in RankedSubs \ {s} : marked[x] = scores[x]
             /\ marked[s].status = "pending" \/ marked = scores
  <2>1. CASE rev = j.rev
    BY <1>1, <1>2, <1>3, <1>6, <2>1 DEF RowsFit, RowFits
  <2>2. CASE rev # j.rev
    <3> DEFINE c == [gen |-> rev, status |-> "pending", run |-> 0]
    <3>1. marked = [scores EXCEPT ![s] = c]
      BY <2>2 DEF Marked
    <3>2. c \in Score /\ c.gen = rev /\ c.status = "pending"
      BY <1>3 DEF Score
    <3> HIDE DEF c, marked
    <3> QED
      BY <1>3, <1>6, <3>1, <3>2
  <2> QED
    BY <2>1, <2>2
<1> HIDE DEF marked
<1>7. ASSUME rev # 0
      PROVE  /\ scores'[s].gen = ranking.rev /\ \A x \in RankedSubs \ {s} : scores'[x] = scores[x]
             /\ scores'[s].status \in {"pending", "failed"} \/ scores' = scores
             /\ scores' = failed => scores'[s].status # "pending"
  <2>1. /\ [marked EXCEPT ![s].status = "failed"][s].status = "failed"
        /\ [marked EXCEPT ![s].status = "failed"][s].gen = marked[s].gen
        /\ \A x \in RankedSubs \ {s} : [marked EXCEPT ![s].status = "failed"][x] = marked[x]
    <3>1. marked[s] \in Score /\ marked \in [RankedSubs -> Score]
      BY <1>3, <1>6, <1>7
    <3>2. [marked EXCEPT ![s].status = "failed"][s] = [marked[s] EXCEPT !.status = "failed"]
      BY <1>3, <3>1
    <3>3. [marked[s] EXCEPT !.status = "failed"].status = "failed" /\ [marked[s] EXCEPT !.status = "failed"].gen = marked[s].gen
      BY <3>1 DEF Score
    <3> QED
      BY <1>3, <3>1, <3>2, <3>3
  <2>2. CASE scores' = marked
    <3>1. /\ scores'[s].gen = ranking.rev /\ \A x \in RankedSubs \ {s} : scores'[x] = scores[x]
          /\ scores'[s].status \in {"pending", "failed"} \/ scores' = scores
      BY <1>6, <1>7, <2>2
    <3>2. scores' = failed => scores'[s].status # "pending"
      BY <1>3, <1>6, <1>7, <2>1, <2>2
    <3> QED
      BY <3>1, <3>2
  <2>3. CASE scores' = failed /\ failed = [marked EXCEPT ![s].status = "failed"]
    BY <1>6, <1>7, <2>1, <2>3
  <2>4. scores' = failed =>
          (failed = marked /\ marked[s].status # "pending") \/ failed = [marked EXCEPT ![s].status = "failed"]
    BY <1>3, <1>6, <1>7
  <2> QED
    BY <1>2, <1>7, <2>2, <2>3, <2>4
<1>8. ASSUME rev # 0
      PROVE  RowFits(s)'
  <2>1. \A i \in rankJobs : i = j \/ i \in rankJobs'
    BY <1>2, <1>7, <1>8 DEF Replaces
  <2>2. RowFits(s) /\ ranking' = ranking /\ judged' = judged
    BY <1>1, <1>2, <1>3, <1>8 DEF RowsFit
  <2>3. CASE scores'[s].status \in {"pending", "failed"}
    BY <1>7, <1>8, <2>2, <2>3 DEF RowFits
  <2>4. CASE scores' = scores
    <3>1. j.kind # "schedule"
      BY <1>2
    <3> QED
      BY <1>7, <1>8, <2>1, <2>2, <2>4, <3>1 DEF RowFits, Counts
  <2> QED
    BY <1>7, <1>8, <2>3, <2>4
<1>9. CASE rev # 0 /\ scores' = marked /\ Replaces(j, {job})
  <2>1. Handled(s)'
    <3>1. job \in rankJobs'
      BY <1>9 DEF Replaces
    <3>2. ranking' = ranking /\ rev = ranking.rev
      BY <1>2, <1>3, <1>9
    <3> QED
      BY <1>4, <3>1, <3>2 DEF Handled
  <2> QED
    BY <1>2, <1>3, <1>4, <1>7, <1>8, <1>9, <2>1, JobStep_CompInv
<1>10. CASE rev # 0 /\ scores' = failed /\ Replaces(j, {})
  <2>1. Counts(s) => Settled(s)' \/ Handled(s)'
    <3>1. CASE scores'[s].status \in {"valid", "failed"}
      BY <1>2, <1>7, <1>10, <3>1 DEF Settled
    <3>2. CASE scores'[s].status \in {"none", "error", "ignored"}
      <4>1. Counts(s) => \E i \in rankJobs' : i.sub = s /\ i.kind = "schedule"
        BY <1>2, <1>7, <1>8, <1>10, <3>2 DEF RowFits, Counts
      <4> QED
        BY <4>1 DEF Handled
    <3>3. scores'[s].status # "pending" /\ scores'[s] \in Score
      <4>1. scores'[s] \in Score
        BY <1>3 DEF RankInv, RankTypes
      <4> QED
        BY <1>7, <1>10, <4>1
    <3> QED
      BY <3>1, <3>2, <3>3 DEF Score
  <2> QED
    BY <1>2, <1>3, <1>7, <1>8, <1>10, <2>1, JobStep_CompInv
<1> QED
  BY <1>2, <1>5, <1>9, <1>10

LEMMA RefreshScore_CompInv ==
  ASSUME CompInv, RankInv', NEW j \in rankJobs, RefreshScore(j)
  PROVE  CompInv'
<1> DEFINE s == j.sub
           failed == [scores EXCEPT ![s].status = "failed"]
<1>1. RankInv /\ RowsFit
  BY DEF CompInv
<1>2. /\ j.kind = "refresh" /\ queueing[s] = NoTxn /\ Replaces(j, {})
      /\ UNCHANGED <<ranking, judged, queueing, builds, busyRows>>
      /\ \/ Refreshed(s, j.rev)
         \/ scores' = IF scores[s].gen = j.rev /\ scores[s].status = "pending" THEN failed ELSE scores
  BY DEF RefreshScore
<1>3. s \in RankedSubs /\ scores \in [RankedSubs -> Score] /\ scores[s] \in Score
  BY <1>1, <1>2, JobOfRow, RankNat
<1>4. failed[s].status = "failed" /\ failed[s].gen = scores[s].gen /\ \A x \in RankedSubs \ {s} : failed[x] = scores[x]
  <2>1. failed[s] = [scores[s] EXCEPT !.status = "failed"]
    BY <1>3
  <2> QED
    BY <1>3, <2>1 DEF Score
<1> HIDE DEF failed
<1>5. /\ \A x \in RankedSubs \ {s} : scores'[x] = scores[x]
      /\ InForce /\ scores[s].gen = ranking.rev => scores'[s].gen = ranking.rev
      /\ scores' = scores \/ scores'[s].status = "failed" \/ (InForce /\ j.rev = ranking.rev /\ Refreshed(s, j.rev))
  BY <1>1, <1>2, <1>3, <1>4, RefreshedIs
<1>6. \A i \in rankJobs : i = j \/ i \in rankJobs'
  BY <1>2 DEF Replaces
<1>7. ASSUME InForce PROVE RowFits(s)' /\ (Covered(s) => ~Counts(s) \/ Settled(s)' \/ Handled(s)')
  <2>1. RowFits(s) /\ ranking' = ranking /\ judged' = judged /\ rankJobs' \subseteq rankJobs
    BY <1>1, <1>2, <1>3, <1>7 DEF RowsFit, Replaces
  <2>2. ASSUME Counts(s), scores'[s].gen = ranking.rev, scores'[s].status \in {"none", "error", "ignored"}
        PROVE  \E i \in rankJobs' : i.sub = s /\ i.kind = "schedule"
    <3>1. CASE scores' = scores
      <4>1. \E i \in rankJobs : i.sub = s /\ i.kind = "schedule"
        BY <2>1, <2>2, <3>1 DEF RowFits
      <4> QED
        BY <1>2, <1>6, <4>1
    <3>2. CASE InForce /\ j.rev = ranking.rev /\ Refreshed(s, j.rev)
      BY <1>1, <1>2, <1>3, <2>2, <3>2, RefreshedIs
    <3> QED
      BY <1>5, <2>2, <3>1, <3>2
  <2>3. RowFits(s)'
    BY <1>5, <1>7, <2>1, <2>2 DEF RowFits, Counts
  <2>4. ASSUME Covered(s), Counts(s) PROVE Settled(s)' \/ Handled(s)'
    <3>1. CASE j.rev = ranking.rev
      <4>1. scores'[s].gen = ranking.rev
        BY <1>2, <1>5, <1>7, <2>1, <3>1 DEF RowFits
      <4>2. scores'[s].status \in {"none", "error", "ignored"} => Handled(s)'
        BY <2>2, <2>4, <4>1 DEF Handled
      <4>3. scores'[s].status # "pending"
        <5>1. CASE Refreshed(s, j.rev)
          BY <1>1, <1>2, <1>3, <1>7, <2>4, <3>1, <5>1, RefreshedIs
        <5>2. CASE scores' = IF scores[s].gen = j.rev /\ scores[s].status = "pending" THEN failed ELSE scores
          BY <1>2, <1>4, <2>1, <3>1, <5>2 DEF RowFits
        <5> QED
          BY <1>2, <5>1, <5>2
      <4>4. scores'[s].status \in {"none", "pending", "valid", "error", "ignored", "failed"}
        BY <1>3 DEF RankInv, RankTypes, Score
      <4> QED
        BY <2>1, <4>1, <4>2, <4>3, <4>4 DEF Settled
    <3>2. CASE j.rev # ranking.rev
      <4>1. Settled(s) => Settled(s)'
        BY <1>5, <1>7, <2>1, <3>2 DEF Settled
      <4>2. Handled(s) => Handled(s)'
        BY <1>2, <1>6, <2>1, <3>2 DEF Handled
      <4> QED
        BY <2>4, <4>1, <4>2 DEF Covered
    <3> QED
      BY <3>1, <3>2
  <2> QED
    BY <2>3, <2>4
<1> QED
  BY <1>2, <1>3, <1>5, <1>7, JobStep_CompInv

\* A step of a build, or of none, that changes no row and no message of a row.
LEMMA RowsStay ==
  ASSUME CompInv, UNCHANGED <<judged, scores, queueing>>, ranking'.rev = ranking.rev,
         \A j : j.kind # "build" => (j \in rankJobs <=> j \in rankJobs'),
         \A j \in rankJobs' : j.rev \in Nat /\ j.rev <= ranking.rev,
         InForce' => InForce
  PROVE  RevsBegun' /\ RowsFit' /\ \A s : Covered(s) => Covered(s)'
<1>1. RevsBegun'
  BY DEF CompInv, RevsBegun
<1>2. \A s : Handled(s) => Handled(s)'
  BY DEF Handled
<1>3. \A s : Covered(s) => Covered(s)'
  BY <1>2 DEF Covered, Counts, Settled
<1>4. \A s : RowFits(s) => RowFits(s)'
  BY DEF RowFits, Counts
<1> QED
  BY <1>1, <1>3, <1>4 DEF CompInv, RowsFit

\* One build goes on to `new', which covers what a build should.
LEMMA BuildGoesOn ==
  ASSUME CompInv, NEW b \in Builders, NEW new \in Build, BuildDoes(b, new), UNCHANGED ranking,
         \A s \in RankedSubs : InForce /\ Covered(s) => Covered(s)',
         new.rev <= ranking.rev,
         ranking.state = "BUILDING" /\ new.step # "idle" /\ new.rev = ranking.rev => BuildCovers(new)'
  PROVE  BuildsCover'
<1>1. \A c \in Builders : builds'[c] = new \/ builds'[c] = builds[c]
  BY DEF BuildDoes, CompInv, RankInv, RankTypes
<1>2. \A c \in Builders : builds'[c].rev <= ranking.rev
  BY <1>1 DEF CompInv, BuildsCover
<1>3. ASSUME ranking.state = "BUILDING"
      PROVE  /\ \A s \in RankedSubs : ranking.cutoff < s \/ s <= ranking.cursor => Covered(s)'
             /\ \A c \in Builders : builds'[c].step # "idle" /\ builds'[c].rev = ranking.rev => BuildCovers(builds[c])'
  <2>1. \A s \in RankedSubs : Covered(s) => Covered(s)'
    BY <1>3 DEF InForce
  <2>2. \A c \in Builders : BuildCovers(builds[c]) /\ builds'[c] = builds[c] => BuildCovers(builds[c])'
    BY <2>1 DEF BuildCovers
  <2> QED
    BY <1>1, <1>3, <2>1, <2>2 DEF CompInv, BuildsCover
<1>4. ranking.state = "ON" => \A s \in RankedSubs : Covered(s)'
  BY DEF CompInv, BuildsCover, InForce
<1> QED
  BY <1>2, <1>3, <1>4 DEF BuildsCover

LEMMA BuildTypes ==
  ASSUME CompInv, NEW b \in Builders
  PROVE  /\ builds[b] \in Build /\ builds[b].todo \in SUBSET Present /\ Present \subseteq RankedSubs
         /\ builds[b].rev <= ranking.rev /\ ranking \in Ranking /\ ranking.rev \in Nat /\ RankedSubs \subseteq Nat
         /\ builds[b].cursor \in Nat /\ builds[b].cutoff \in Nat /\ builds[b].rev \in Nat
  BY RankingAssumption DEF CompInv, BuildsCover, RankInv, RankTypes, JobsArePresent, Present, Build, Ranking

\* What the build of this generation has behind it.
LEMMA Behind ==
  ASSUME CompInv, NEW b \in Builders, builds[b].step # "idle", builds[b].rev = ranking.rev, ranking.state = "BUILDING"
  PROVE  BuildCovers(builds[b])
  BY DEF CompInv, BuildsCover

LEMMA BuildRefreshes_CompInv ==
  ASSUME CompInv, RankInv', NEW b \in Builders, BuildRefreshes(b)
  PROVE  CompInv'
<1>1. PICK s \in builds[b].todo :
        /\ \A r \in builds[b].todo : s <= r
        /\ queueing[s] = NoTxn /\ Refreshed(s, builds[b].rev)
        /\ BuildDoes(b, [Passed(builds[b], s) EXCEPT !.todo = @ \ {s}])
  BY DEF BuildRefreshes
<1>2. UNCHANGED <<ranking, judged, queueing, rankJobs, busyRows>>
  BY DEF BuildRefreshes
<1>3. builds[b] \in Build /\ s \in RankedSubs /\ s \in Nat /\ builds[b].todo \in SUBSET RankedSubs /\ RankInv
      /\ builds[b].rev <= ranking.rev /\ RankedSubs \subseteq Nat
  BY BuildTypes DEF CompInv
<1> DEFINE made == [step |-> builds[b].step, rev |-> builds[b].rev,
                    cursor |-> IF builds[b].step = "page" THEN s ELSE builds[b].cursor,
                    cutoff |-> builds[b].cutoff, todo |-> builds[b].todo \ {s}]
<1>4. made \in Build
  BY <1>3 DEF Build
<1>5. BuildDoes(b, made)
  <2> DEFINE passed == [step |-> builds[b].step, rev |-> builds[b].rev,
                        cursor |-> IF builds[b].step = "page" THEN s ELSE builds[b].cursor,
                        cutoff |-> builds[b].cutoff, todo |-> builds[b].todo]
  <2>1. [Passed(builds[b], s) EXCEPT !.todo = @ \ {s}] = made
    <3>1. Passed(builds[b], s) = passed
      BY <1>3 DEF Build, Passed
    <3>2. passed \in Build
      BY <1>3 DEF Build
    <3> QED
      BY <3>1, <3>2 DEF Build
  <2> HIDE DEF made
  <2> QED
    BY <1>1, <2>1
<1>6. PICK new \in Build :
        /\ new.step = builds[b].step /\ new.rev = builds[b].rev /\ new.cutoff = builds[b].cutoff
        /\ new.cursor = (IF builds[b].step = "page" THEN s ELSE builds[b].cursor) /\ new.todo = builds[b].todo \ {s}
        /\ BuildDoes(b, new)
  BY <1>4, <1>5
<1> HIDE DEF made
<1>7. /\ \A x \in RankedSubs \ {s} : scores'[x] = scores[x]
      /\ InForce /\ builds[b].rev = ranking.rev => /\ scores'[s].gen = ranking.rev
                                                   /\ Counts(s) => scores'[s].status = "valid"
      /\ ~(InForce /\ builds[b].rev = ranking.rev) => scores' = scores
  BY <1>1, <1>2, <1>3, RefreshedIs
<1>8. ASSUME InForce PROVE RowFits(s)' /\ (Covered(s) => Covered(s)') /\ (builds[b].rev = ranking.rev => Covered(s)')
  <2>1. RowFits(s)
    BY <1>3, <1>8 DEF CompInv, RowsFit
  <2>2. CASE builds[b].rev = ranking.rev
    <3>1. Counts(s)' <=> Counts(s)
      BY <1>2 DEF Counts
    <3> QED
      BY <1>1, <1>2, <1>7, <1>8, <2>2, <3>1 DEF RowFits, Covered, Settled, NoTxn
  <2>3. CASE builds[b].rev # ranking.rev
    BY <1>2, <1>7, <2>1, <2>3 DEF RowFits, Covered, Counts, Settled, Handled
  <2> QED
    BY <2>2, <2>3
<1>9. RowStep(s)
  BY <1>2, <1>3, <1>7, <1>8 DEF RowStep, CompInv, RevsBegun
<1>10. RevsBegun' /\ RowsFit' /\ (InForce => \A x \in RankedSubs : Covered(x) => Covered(x)')
  BY <1>3, <1>9, RowStep_Keeps
<1>11. ASSUME ranking.state = "BUILDING", new.step # "idle", new.rev = ranking.rev
       PROVE  BuildCovers(new)'
  <2>1. BuildCovers(builds[b]) /\ InForce
    BY <1>6, <1>11, Behind DEF InForce
  <2>2. Covered(s)'
    BY <1>6, <1>8, <1>11, <2>1
  <2>3. ASSUME NEW x \in RankedSubs, x <= new.cursor PROVE Covered(x)'
    <3>1. CASE builds[b].step # "page"
      BY <1>6, <1>10, <2>1, <2>3, <3>1 DEF BuildCovers
    <3>2. CASE builds[b].step = "page" /\ x # s
      <4>1. x \in Nat /\ x < s
        BY <1>3, <1>6, <2>3, <3>2
      <4>2. x \notin builds[b].todo
        BY <1>1, <1>3, <4>1
      <4> QED
        BY <1>10, <2>1, <3>2, <4>1, <4>2 DEF BuildCovers
    <3> QED
      BY <2>2, <3>1, <3>2
  <2>4. ASSUME new.step = "page", NEW x \in RankedSubs \ new.todo, NEW t \in new.todo, x < t PROVE Covered(x)'
    <3>1. CASE x = s
      BY <2>2, <3>1
    <3>2. CASE x # s
      BY <1>6, <1>10, <2>1, <2>4, <3>2 DEF BuildCovers
    <3> QED
      BY <3>1, <3>2
  <2>5. new.step = "finish" => \A x \in RankedSubs : Covered(x)'
    BY <1>6, <1>10, <2>1 DEF BuildCovers
  <2>6. new.cutoff = ranking.cutoff
    BY <1>6, <2>1 DEF BuildCovers
  <2> QED
    BY <1>2, <2>3, <2>4, <2>5, <2>6 DEF BuildCovers
<1>12. BuildsCover'
  BY <1>2, <1>3, <1>4, <1>5, <1>6, <1>10, <1>11, BuildGoesOn
<1> QED
  BY <1>10, <1>12 DEF CompInv

\* A row that is absent or was aborted has nothing to be scored.
LEMMA NothingToScore ==
  ASSUME CompInv, NEW s \in RankedSubs, s \notin Present \/ Aborted(s)
  PROVE  Covered(s)
<1>1. judged[s].status \in {"absent", "AB"}
  BY DEF Present, Aborted
<1>2. queueing[s].status # "CE"
  BY <1>1 DEF CompInv, RevsBegun
<1> QED
  BY <1>1, <1>2 DEF Covered, Counts

\* The next page holds, with a row, all that are to be listed before it; there is a
\* next page as long as there is a row to list.
LEMMA PageFacts ==
  ASSUME NEW S \in SUBSET RankedSubs
  PROVE  /\ FirstRows(S) \in SUBSET S
         /\ \A x \in S, t \in FirstRows(S) : x < t => x \in FirstRows(S)
         /\ FirstRows(S) = {} => S = {}
<1> DEFINE Less(t) == {r \in S : r < t}
<1>1. IsFiniteSet(S) /\ S \in SUBSET Nat /\ BuildPage \in Nat \ {0}
  BY RankingAssumption, FS_Subset
<1>2. \A t : IsFiniteSet(Less(t)) /\ Cardinality(Less(t)) \in Nat
  BY <1>1, FS_Subset, FS_CardinalityType
<1>3. ASSUME NEW x \in S, NEW t \in FirstRows(S), x < t
      PROVE  x \in FirstRows(S)
  <2>1. t \in S /\ Cardinality(Less(t)) < BuildPage
    BY DEF FirstRows
  <2>2. Less(x) \in SUBSET Less(t)
    <3>1. x \in Nat /\ t \in Nat /\ S \subseteq Nat
      BY <1>1, <2>1
    <3>2. \A r \in S : r < x => r < t
      <4> HIDE DEF Less
      <4> QED
        BY <1>3, <3>1
    <3> QED
      BY <3>2
  <2>3. Cardinality(Less(x)) <= Cardinality(Less(t))
    <3> HIDE DEF Less
    <3> QED
      BY <1>2, <2>2, FS_Subset
  <2>4. Cardinality(Less(x)) < BuildPage
    <3> HIDE DEF Less
    <3> QED
      BY <1>1, <1>2, <2>1, <2>3
  <2> QED
    BY <2>4 DEF FirstRows
<1>4. ASSUME S # {} PROVE FirstRows(S) # {}
  <2>1. PICK n \in S : \A m \in S : n <= m
    BY <1>1, <1>4, LeastExists
  <2>2. Less(n) = {}
    <3>1. n \in Nat /\ S \subseteq Nat
      BY <1>1, <2>1
    <3>2. \A r \in S : ~(r < n)
      <4> HIDE DEF Less
      <4> QED
        BY <2>1, <3>1
    <3> QED
      BY <3>2
  <2>3. Cardinality(Less(n)) < BuildPage
    <3> HIDE DEF Less
    <3> QED
      BY <1>1, <2>2, FS_EmptySet
  <2> QED
    BY <2>1, <2>3 DEF FirstRows
<1> QED
  BY <1>3, <1>4 DEF FirstRows

\* No row is newer than the highest one.
LEMMA HighestPkIsHighest == \A s \in Present : s <= HighestPk
<1>1. Present \subseteq Nat /\ IsFiniteSet(Present)
  BY RankingAssumption, FS_Subset DEF Present
<1> SUFFICES ASSUME Present # {} PROVE \A s \in Present : s <= HighestPk
  OBVIOUS
<1>2. \E s \in Present : \A r \in Present : r <= s
  <2> HIDE DEF Present
  <2>1. Present \in SUBSET Int
    BY <1>1
  <2> QED
    BY <1>1, <2>1, GreatestExists
<1> QED
  BY <1>2 DEF HighestPk

LEMMA IdleFacts == IdleBuild \in Build /\ IdleBuild.step = "idle" /\ IdleBuild.rev = 0
  BY IdleIsBuild DEF IdleBuild

LEMMA DeliverBuild_CompInv ==
  ASSUME CompInv, RankInv', NEW b \in Builders, NEW j \in rankJobs, DeliverBuild(b, j)
  PROVE  CompInv'
<1> DEFINE rows == {s \in Present : Aborted(s) /\ ~(scores[s].gen = j.rev /\ scores[s].status = "ignored")}
           made == [step |-> "aborted", rev |-> j.rev, cursor |-> ranking.cursor, cutoff |-> ranking.cutoff, todo |-> rows]
<1>1. /\ j.kind = "build"
      /\ BuildDoes(b, IF ranking.state = "BUILDING" /\ ranking.rev = j.rev THEN made ELSE IdleBuild)
      /\ UNCHANGED <<ranking, judged, scores, queueing, busyRows>> /\ (rankJobs' = rankJobs \/ rankJobs' = rankJobs \ {j})
  BY DEF DeliverBuild
<1>2. ranking \in Ranking /\ ranking.rev \in Nat /\ ranking.cursor \in Nat /\ ranking.cutoff \in Nat
      /\ Present \subseteq RankedSubs
  BY BuildTypes DEF Ranking
<1>3. RevsBegun' /\ RowsFit' /\ \A s : Covered(s) => Covered(s)'
  <2>1. \A i \in rankJobs' : i.rev \in Nat /\ i.rev <= ranking.rev
    BY <1>1 DEF CompInv, RevsBegun
  <2> QED
    BY <1>1, <2>1, RowsStay DEF InForce
<1>4. rows \in SUBSET RankedSubs
  BY <1>2
<1> HIDE DEF rows
<1>5. CASE ranking.state = "BUILDING" /\ ranking.rev = j.rev
  <2>1. made \in Build
    BY <1>2, <1>4, <1>5 DEF Build
  <2>2. PICK new \in Build : /\ BuildDoes(b, new) /\ new.step = "aborted" /\ new.rev = ranking.rev
                             /\ new.cursor = ranking.cursor /\ new.cutoff = ranking.cutoff
    BY <1>1, <1>5, <2>1
  <2>3. \A s \in RankedSubs : s <= ranking.cursor => Covered(s)'
    BY <1>3, <1>5 DEF CompInv, BuildsCover
  <2>4. BuildCovers(new)'
    BY <1>1, <2>2, <2>3 DEF BuildCovers
  <2> QED
    BY <1>1, <1>2, <1>3, <2>2, <2>4, BuildGoesOn DEF CompInv
<1>6. CASE ~(ranking.state = "BUILDING" /\ ranking.rev = j.rev)
  BY <1>1, <1>2, <1>3, <1>6, IdleFacts, BuildGoesOn DEF CompInv
<1> QED
  BY <1>5, <1>6

LEMMA BuildLists_CompInv ==
  ASSUME CompInv, RankInv', NEW b \in Builders, BuildLists(b)
  PROVE  CompInv'
<1> DEFINE S == {s \in Present : builds[b].cursor < s /\ s <= builds[b].cutoff /\ ~Aborted(s)}
           ids == FirstRows(S)
           finish == [builds[b] EXCEPT !.step = "finish"]
           page == [step |-> "page", rev |-> builds[b].rev, cursor |-> builds[b].cursor, cutoff |-> builds[b].cutoff,
                    todo |-> ids]
<1>1. /\ UNCHANGED <<ranking, judged, scores, queueing, rankJobs, busyRows>> /\ builds[b].step # "idle"
      /\ \/ BuildDoes(b, IdleBuild)
         \/ Building(b) /\ ids = {} /\ BuildDoes(b, finish)
         \/ Building(b) /\ BuildDoes(b, [builds[b] EXCEPT !.step = "page", !.todo = ids])
  BY DEF BuildLists
<1>2. /\ builds[b] \in Build /\ builds[b].rev <= ranking.rev /\ Present \subseteq RankedSubs /\ S \in SUBSET RankedSubs
      /\ builds[b].cursor \in Nat /\ builds[b].cutoff \in Nat /\ RankedSubs \subseteq Nat
  BY BuildTypes
<1>3. /\ ids \in SUBSET S /\ ids \in SUBSET RankedSubs
      /\ \A x \in S, t \in ids : x < t => x \in ids
      /\ ids = {} => S = {}
  <2> HIDE DEF S
  <2> QED
    BY <1>2, PageFacts
<1> HIDE DEF ids
<1>4. RevsBegun' /\ RowsFit' /\ \A s : Covered(s) => Covered(s)'
  BY <1>1, RowsStay DEF CompInv, RevsBegun, InForce
\* What is neither behind the build nor to be listed is covered anyway.
<1>5. ASSUME Building(b) PROVE BuildCovers(builds[b]) /\ \A s \in RankedSubs \ S : Covered(s)
  <2>1. BuildCovers(builds[b])
    BY <1>1, <1>5, Behind DEF Building
  <2>2. ASSUME NEW s \in RankedSubs \ S PROVE Covered(s)
    <3>1. s \notin Present \/ Aborted(s) \/ s <= builds[b].cursor \/ builds[b].cutoff < s
      BY <1>2, <2>2
    <3>2. CASE s \notin Present \/ Aborted(s)
      BY <3>2, NothingToScore
    <3>3. CASE s <= builds[b].cursor
      BY <2>1, <3>3 DEF BuildCovers
    <3>4. CASE builds[b].cutoff < s
      BY <1>5, <2>1, <3>4 DEF BuildCovers, CompInv, BuildsCover, Building
    <3> QED
      BY <3>1, <3>2, <3>3, <3>4
  <2> QED
    BY <2>1, <2>2
<1>6. CASE BuildDoes(b, IdleBuild)
  <2>1. 0 <= ranking.rev
    BY BuildTypes
  <2> QED
    BY <1>1, <1>4, <1>6, <2>1, IdleFacts, BuildGoesOn DEF CompInv
<1>7. CASE Building(b) /\ ids = {} /\ BuildDoes(b, finish)
  <2>1. finish \in Build /\ finish.step = "finish" /\ finish.rev = builds[b].rev /\ finish.cutoff = builds[b].cutoff
    BY <1>2 DEF Build
  <2>2. PICK new \in Build : BuildDoes(b, new) /\ new.step = "finish" /\ new.rev = builds[b].rev /\ new.cutoff = builds[b].cutoff
    BY <1>7, <2>1
  <2>3. \A s \in RankedSubs : Covered(s)'
    BY <1>3, <1>4, <1>5, <1>7
  <2>4. BuildCovers(new)'
    BY <1>1, <1>5, <1>7, <2>2, <2>3 DEF BuildCovers
  <2> QED
    BY <1>1, <1>2, <1>4, <2>2, <2>4, BuildGoesOn DEF CompInv
<1>8. CASE Building(b) /\ BuildDoes(b, [builds[b] EXCEPT !.step = "page", !.todo = ids])
  <2>1. page \in Build
    BY <1>2, <1>3 DEF Build
  <2>2. [builds[b] EXCEPT !.step = "page", !.todo = ids] = page
    <3>1. PICK q \in Build : q = [builds[b] EXCEPT !.step = "page"]
      BY <1>2 DEF Build
    <3>2. [builds[b] EXCEPT !.step = "page", !.todo = ids] = [[builds[b] EXCEPT !.step = "page"] EXCEPT !.todo = ids]
      OBVIOUS
    <3>3. q = [step |-> "page", rev |-> builds[b].rev, cursor |-> builds[b].cursor, cutoff |-> builds[b].cutoff,
               todo |-> builds[b].todo]
      BY <1>2, <3>1 DEF Build
    <3>4. [q EXCEPT !.todo = ids] = page
      BY <3>3
    <3> HIDE DEF page
    <3> QED
      BY <3>1, <3>2, <3>4
  <2>3. PICK new \in Build : /\ BuildDoes(b, new) /\ new.step = "page" /\ new.rev = builds[b].rev
                             /\ new.cutoff = builds[b].cutoff /\ new.cursor = builds[b].cursor /\ new.todo = ids
    BY <1>8, <2>1, <2>2
  <2>4. \A s \in RankedSubs : s <= new.cursor => Covered(s)'
    BY <1>4, <1>5, <1>8, <2>3 DEF BuildCovers
  <2>5. ASSUME NEW s \in RankedSubs \ new.todo, NEW t \in new.todo, s < t PROVE Covered(s)'
    <3>1. s \notin S
      BY <1>3, <2>3, <2>5
    <3> QED
      BY <1>4, <1>5, <1>8, <3>1
  <2>6. BuildCovers(new)'
    BY <1>1, <1>5, <1>8, <2>3, <2>4, <2>5 DEF BuildCovers
  <2> QED
    BY <1>1, <1>2, <1>4, <2>3, <2>6, BuildGoesOn DEF CompInv
<1> QED
  BY <1>1, <1>6, <1>7, <1>8

\* The build has stored how far it is, or has ended: what is behind it is covered.
LEMMA RankingGoesOn ==
  ASSUME CompInv, NEW b \in Builders, NEW new \in Build, BuildDoes(b, new),
         UNCHANGED <<judged, scores, queueing>>, \A j : j.kind # "build" => (j \in rankJobs <=> j \in rankJobs'),
         rankJobs' \subseteq rankJobs, ranking'.rev = ranking.rev, ranking'.cutoff = ranking.cutoff, ranking.state = "BUILDING",
         ranking'.state = "ON" => \A s \in RankedSubs : Covered(s),
         ranking'.state = "BUILDING" => \A s \in RankedSubs : s <= ranking'.cursor => Covered(s),
         new.rev <= ranking.rev, ranking'.state = "BUILDING" /\ new.step # "idle" /\ new.rev = ranking.rev => BuildCovers(new)
  PROVE  RevsBegun' /\ RowsFit' /\ BuildsCover'
<1>1. RevsBegun' /\ RowsFit' /\ \A s : Covered(s) => Covered(s)'
  <2>1. \A i \in rankJobs' : i.rev \in Nat /\ i.rev <= ranking.rev
    BY DEF CompInv, RevsBegun
  <2> QED
    BY <2>1, RowsStay DEF InForce
<1>2. \A c \in Builders : builds'[c] = new \/ builds'[c] = builds[c]
  BY DEF BuildDoes, CompInv, RankInv, RankTypes
<1>3. \A c \in Builders : builds'[c].rev <= ranking'.rev
  BY <1>2 DEF CompInv, BuildsCover
<1>4. ASSUME ranking'.state = "BUILDING", NEW c \in Builders, builds'[c].step # "idle", builds'[c].rev = ranking'.rev
      PROVE  BuildCovers(builds[c])'
  <2>1. PICK q \in Build : q = builds'[c] /\ BuildCovers(q)
    <3>1. CASE builds'[c] = new
      BY <1>4, <3>1
    <3>2. CASE builds'[c] = builds[c]
      BY <1>4, <3>2, Behind, BuildTypes
    <3> QED
      BY <1>2, <3>1, <3>2
  <2> QED
    BY <1>1, <2>1 DEF BuildCovers
<1>5. ranking'.state = "BUILDING" => \A s \in RankedSubs : ranking'.cutoff < s \/ s <= ranking'.cursor => Covered(s)'
  BY <1>1 DEF CompInv, BuildsCover
<1>6. BuildsCover'
  BY <1>1, <1>3, <1>4, <1>5 DEF BuildsCover
<1> QED
  BY <1>1, <1>6

LEMMA BuildStores_CompInv ==
  ASSUME CompInv, RankInv', NEW b \in Builders, BuildStores(b)
  PROVE  CompInv'
<1> DEFINE next == [builds[b] EXCEPT !.step = "next"]
           stored == [ranking EXCEPT !.cursor = builds[b].cursor]
<1>1. BuildDoes(b, next) /\ UNCHANGED <<judged, scores, queueing, rankJobs, busyRows>> /\ builds[b].step = "page"
      /\ ranking' = IF CursorAhead(b) THEN stored ELSE ranking
  BY DEF BuildStores
<1>2. builds[b] \in Build /\ ranking \in Ranking /\ builds[b].rev <= ranking.rev /\ builds[b].cursor \in Nat
  BY BuildTypes
<1>3. PICK new \in Build : /\ BuildDoes(b, new) /\ new.step = "next" /\ new.rev = builds[b].rev
                           /\ new.cursor = builds[b].cursor /\ new.cutoff = builds[b].cutoff
  <2>1. next \in Build /\ next.step = "next" /\ next.rev = builds[b].rev /\ next.cursor = builds[b].cursor
        /\ next.cutoff = builds[b].cutoff
    BY <1>2 DEF Build
  <2> QED
    BY <1>1, <2>1
<1>4. stored.rev = ranking.rev /\ stored.state = ranking.state /\ stored.cutoff = ranking.cutoff /\ stored.cursor = builds[b].cursor
  BY <1>2 DEF Ranking
<1> HIDE DEF next, stored
<1>5. ranking.state = "BUILDING" /\ builds[b].rev = ranking.rev => BuildCovers(builds[b]) /\ BuildCovers(new)
  <2> SUFFICES ASSUME ranking.state = "BUILDING", builds[b].rev = ranking.rev
               PROVE  BuildCovers(builds[b]) /\ BuildCovers(new)
    OBVIOUS
  <2>1. BuildCovers(builds[b])
    BY <1>1, Behind
  <2> QED
    BY <1>3, <2>1 DEF BuildCovers
<1>6. CASE CursorAhead(b)
  <2>1. ranking.state = "BUILDING" /\ builds[b].rev = ranking.rev /\ ranking' = stored
    BY <1>1, <1>6 DEF CursorAhead, Building
  <2>2. \A s \in RankedSubs : s <= ranking'.cursor => Covered(s)
    BY <1>4, <1>5, <2>1 DEF BuildCovers
  <2> QED
    BY <1>1, <1>2, <1>3, <1>4, <1>5, <2>1, <2>2, RankingGoesOn DEF CompInv
<1>7. CASE ~CursorAhead(b)
  <2>1. ranking' = ranking
    BY <1>1, <1>7
  <2>2. RevsBegun' /\ RowsFit' /\ \A s : Covered(s) => Covered(s)'
    BY <1>1, <2>1, RowsStay DEF CompInv, RevsBegun, InForce
  <2>3. ranking.state = "BUILDING" /\ new.step # "idle" /\ new.rev = ranking.rev => BuildCovers(new)'
    BY <1>3, <1>5, <2>1, <2>2 DEF BuildCovers
  <2> QED
    BY <1>2, <1>3, <2>1, <2>2, <2>3, BuildGoesOn DEF CompInv
<1> QED
  BY <1>6, <1>7

LEMMA BuildEnds_CompInv ==
  ASSUME CompInv, RankInv', NEW b \in Builders, BuildEnds(b)
  PROVE  CompInv'
<1>1. /\ BuildDoes(b, IdleBuild) /\ UNCHANGED <<judged, scores, queueing, busyRows>> /\ builds[b].step = "finish"
      /\ rankJobs' = rankJobs \ {RankJob("build", 0, builds[b].rev)}
  BY DEF BuildEnds
<1>2. PICK state \in {"ON", "FAILED"} :
        ranking' = IF Building(b) THEN [ranking EXCEPT !.state = state, !.cursor = builds[b].cutoff] ELSE ranking
  BY DEF BuildEnds
<1>3. ranking \in Ranking /\ 0 <= ranking.rev /\ rankJobs' \subseteq rankJobs
      /\ \A j : j.kind # "build" => (j \in rankJobs <=> j \in rankJobs')
  BY <1>1, BuildTypes DEF RankJob
<1>4. CASE Building(b)
  <2>1. BuildCovers(builds[b]) /\ ranking.state = "BUILDING"
    BY <1>1, <1>4, Behind DEF Building
  <2>2. ranking'.rev = ranking.rev /\ ranking'.cutoff = ranking.cutoff /\ ranking'.state # "BUILDING"
    BY <1>2, <1>3, <1>4 DEF Ranking
  <2>3. \A s \in RankedSubs : Covered(s)
    BY <1>1, <2>1 DEF BuildCovers
  <2> QED
    BY <1>1, <1>3, <2>1, <2>2, <2>3, IdleFacts, RankingGoesOn DEF CompInv
<1>5. CASE ~Building(b)
  <2>1. ranking' = ranking
    BY <1>2, <1>5
  <2>2. RevsBegun' /\ RowsFit' /\ \A s : Covered(s) => Covered(s)'
    BY <1>1, <1>3, <2>1, RowsStay DEF CompInv, RevsBegun, InForce
  <2> QED
    BY <1>1, <1>3, <2>1, <2>2, IdleFacts, BuildGoesOn DEF CompInv
<1> QED
  BY <1>4, <1>5

LEMMA BuildDies_CompInv ==
  ASSUME CompInv, RankInv', NEW b \in Builders, BuildDies(b)
  PROVE  CompInv'
<1>1. BuildDoes(b, IdleBuild) /\ UNCHANGED <<ranking, judged, scores, queueing, rankJobs, busyRows>>
  BY DEF BuildDies
<1>2. RevsBegun' /\ RowsFit' /\ \A s : Covered(s) => Covered(s)'
  BY <1>1, RowsStay DEF CompInv, RevsBegun, InForce
<1>3. 0 <= ranking.rev
  BY BuildTypes
<1> QED
  BY <1>1, <1>2, <1>3, IdleFacts, BuildGoesOn DEF CompInv

LEMMA Administrator_CompInv ==
  ASSUME CompInv, RankInv', StartBuild \/ StopRanking
  PROVE  CompInv'
<1>1. RankInv /\ RevsBegun /\ RowsFit /\ BuildsCover /\ ranking \in Ranking /\ ranking.rev \in Nat /\ RankedSubs \subseteq Nat \ {0}
  BY RankNat, RankingAssumption DEF CompInv, RankInv, RankTypes
<1>2. UNCHANGED <<judged, scores, queueing, builds, busyRows>>
  BY DEF StartBuild, StopRanking
<1>3. /\ ranking'.rev = ranking.rev + 1
      /\ \A j \in rankJobs' : j \in rankJobs \/ (j.sub = 0 /\ j.rev = ranking.rev + 1)
      /\ rankJobs \subseteq rankJobs'
      /\ ranking'.state = "BUILDING" => ranking'.cursor = 0 /\ ranking'.cutoff = HighestPk
      /\ ranking'.state # "ON"
  <2>1. CASE StartBuild
    <3>1. PICK s \in {"BUILDING", "FAILED"} :
            /\ ranking' = [state |-> s, rev |-> ranking.rev + 1, cursor |-> 0, cutoff |-> HighestPk]
            /\ rankJobs' = IF s = "FAILED" THEN rankJobs ELSE rankJobs \cup {RankJob("build", 0, ranking.rev + 1)}
      BY <2>1 DEF StartBuild
    <3>2. /\ ranking'.rev = ranking.rev + 1 /\ ranking'.state # "ON"
          /\ ranking'.cursor = 0 /\ ranking'.cutoff = HighestPk
      BY <3>1
    <3>3. rankJobs \subseteq rankJobs' /\ \A j \in rankJobs' : j \in rankJobs \/ (j.sub = 0 /\ j.rev = ranking.rev + 1)
      BY <3>1 DEF RankJob
    <3> QED
      BY <3>2, <3>3
  <2>2. CASE StopRanking
    <3> DEFINE off == [state |-> "OFF", rev |-> ranking.rev + 1, cursor |-> ranking.cursor, cutoff |-> ranking.cutoff]
    <3>1. [ranking EXCEPT !.state = "OFF", !.rev = @ + 1] = off
      <4>1. PICK q \in Ranking : q = [ranking EXCEPT !.state = "OFF"]
        BY <1>1 DEF Ranking
      <4>2. [ranking EXCEPT !.state = "OFF", !.rev = @ + 1] = [[ranking EXCEPT !.state = "OFF"] EXCEPT !.rev = ranking.rev + 1]
        OBVIOUS
      <4>3. q = [state |-> "OFF", rev |-> ranking.rev, cursor |-> ranking.cursor, cutoff |-> ranking.cutoff]
        BY <1>1, <4>1 DEF Ranking
      <4>4. [q EXCEPT !.rev = ranking.rev + 1] = off
        BY <4>3
      <4> HIDE DEF off
      <4> QED
        BY <4>1, <4>2, <4>4
    <3>2. off.state = "OFF" /\ off.rev = ranking.rev + 1
      OBVIOUS
    <3> HIDE DEF off
    <3>3. ranking' = off /\ rankJobs' = rankJobs
      BY <2>2, <3>1 DEF StopRanking
    <3> QED
      BY <3>2, <3>3
  <2> QED
    BY <2>1, <2>2
<1>4. ranking' \in Ranking
  BY DEF RankInv, RankTypes
<1>5. RevsBegun'
  <2>1. \A j \in rankJobs' : j.rev \in Nat /\ j.rev <= ranking'.rev
    BY <1>1, <1>3 DEF RevsBegun
  <2>2. \A s \in RankedSubs : queueing[s].rev <= ranking'.rev
    <3>1. \A s \in RankedSubs : queueing[s].rev \in Nat
      BY <1>1, RankNat DEF Txn
    <3> QED
      BY <1>1, <1>3, <3>1 DEF RevsBegun
  <2> QED
    BY <1>1, <1>2, <2>1, <2>2 DEF RevsBegun
\* No score and no message of a row is of the generation that begins.
<1>6. ASSUME NEW s \in RankedSubs
      PROVE  scores[s].gen # ranking'.rev /\ \A j \in rankJobs' : j.sub = s => j.rev # ranking'.rev
  <2>1. scores[s].gen \in Nat /\ scores[s].gen <= ranking.rev
    BY <1>1, RankNat DEF RankInv, GenerationsHaveBegun, Score
  <2>2. \A j \in rankJobs : j.rev # ranking.rev + 1
    BY <1>1 DEF RevsBegun
  <2> QED
    BY <1>1, <1>3, <2>1, <2>2
<1>7. RowsFit'
  BY <1>2, <1>6 DEF RowsFit, RowFits
<1>8. BuildsCover'
  <2>1. \A b \in Builders : builds[b].rev <= ranking'.rev /\ builds[b].rev # ranking'.rev
    <3>1. \A b \in Builders : builds[b].rev \in Nat /\ builds[b].rev <= ranking.rev
      BY <1>1, BuildTypes DEF BuildsCover
    <3> QED
      BY <1>1, <1>3, <3>1
  <2>2. ASSUME ranking'.state = "BUILDING", NEW s \in RankedSubs, ranking'.cutoff < s \/ s <= ranking'.cursor
        PROVE  Covered(s)'
    <3>1. HighestPk < s
      BY <1>1, <1>3, <2>2
    <3>2. s \notin Present
      <4>1. s \in Nat /\ Present \subseteq Nat
        BY <1>1 DEF Present
      <4>2. HighestPk \in Nat
        BY <1>3, <1>4, <2>2 DEF Ranking
      <4> QED
        BY <3>1, <4>1, <4>2, HighestPkIsHighest
    <3>3. ~Counts(s) /\ queueing[s].status # "CE"
      BY <1>1, <3>2 DEF Present, Counts, RevsBegun
    <3> QED
      BY <1>2, <3>3 DEF Covered, Counts
  <2> QED
    BY <1>2, <1>3, <2>1, <2>2 DEF BuildsCover
<1> QED
  BY <1>5, <1>7, <1>8 DEF CompInv

LEMMA RankInit_CompInv == RankInit => CompInv
<1> SUFFICES ASSUME RankInit PROVE CompInv
  OBVIOUS
<1>1. RankInv
  BY RankInit_RankInv
<1>2. ranking.state = "OFF" /\ ranking.rev = 0 /\ rankJobs = {} /\ \A b \in Builders : builds[b] = IdleBuild
  BY DEF RankInit
<1>3. \A s \in RankedSubs : queueing[s].rev = 0 /\ queueing[s].status # "CE"
  BY DEF RankInit, NoTxn
<1>4. \A b \in Builders : builds[b].rev <= ranking.rev
  BY <1>2, IdleFacts
<1> QED
  BY <1>1, <1>2, <1>3, <1>4 DEF CompInv, RevsBegun, RowsFit, BuildsCover, InForce

LEMMA RankNext_CompInv ==
  ASSUME CompInv, [RankNext]_rankVars
  PROVE  CompInv'
<1>1. RankInv'
  BY RankNext_RankInv DEF CompInv
<1>2. CASE UNCHANGED rankVars
  BY <1>1, <1>2 DEF CompInv, RevsBegun, RowsFit, BuildsCover, InForce, RowFits, Covered, Counts, Settled, Handled,
     BuildCovers, rankVars
<1>3. ASSUME NEW s \in RankedSubs, NewRow(s) \/ BeginQueue(s) \/ BeginEnd(s) \/ Commit(s) \/ EndRun(s) PROVE CompInv'
  BY <1>1, <1>3, NewRow_CompInv, Begin_CompInv, Commit_CompInv, EndRun_CompInv
<1>4. ASSUME NEW j \in rankJobs, ScheduleScore(j) \/ EnqueueScore(j) \/ RefreshScore(j) PROVE CompInv'
  BY <1>1, <1>4, ScheduleScore_CompInv, EnqueueScore_CompInv, RefreshScore_CompInv
<1>5. CASE StartBuild \/ StopRanking
  BY <1>1, <1>5, Administrator_CompInv
<1>6. ASSUME NEW b \in Builders, BuildStep(b) \/ BuildDies(b) PROVE CompInv'
  BY <1>1, <1>6, BuildRefreshes_CompInv, BuildLists_CompInv, BuildStores_CompInv, BuildEnds_CompInv, BuildDies_CompInv
     DEF BuildStep
<1>7. ASSUME NEW b \in Builders, NEW j \in rankJobs, DeliverBuild(b, j) PROVE CompInv'
  BY <1>1, <1>7, DeliverBuild_CompInv
<1> QED
  BY <1>2, <1>3, <1>4, <1>5, <1>6, <1>7 DEF RankNext

\* docs/conservative-ranking.md:84, the second half.  Once a generation is ON, every
\* result whose row nobody holds and nothing is under way for has a score of that
\* generation, or a failed delivery is recorded on it: whatever number of generations,
\* of builds delivered twice or dead, of rejudges and of aborts there were, no row was
\* passed over by the build that ended and by the callbacks of the run that ended.
THEOREM RankingCompletes == RankSpec => []RankingIsComplete
<1>1. CompInv => RankingIsComplete
  BY DEF CompInv, BuildsCover, RankingIsComplete, Covered, Counts, Settled, Handled, Quiet, Present
<1>2. RankInit => CompInv
  BY RankInit_CompInv
<1>3. CompInv /\ [RankNext]_rankVars => CompInv'
  BY RankNext_CompInv
<1> QED
  BY <1>1, <1>2, <1>3, PTL DEF RankSpec
=============================================================================
