----------------------------- MODULE Invocations -----------------------------
(* Invocations of a problem's own solutions (utils/invocations.py,             *)
(* tasks/invocations.py, views/invocations.py): a Celery task hands the         *)
(* submissions of an invocation to the judges.  A message may be delivered      *)
(* twice and a worker may die between the claim of a run and its handoff.       *)
EXTENDS Integers, FiniteSets

CONSTANTS
  InvItems,      \* the items of the invocation, one submission each
  NoItem,
  InvTokens,     \* bound: dispatch tokens of each submission
  InvWorkers,    \* runs of dispatch_invocation at the same time
  ItemsPerTask,  \* 25 in the code
  EnsureReady    \* what judge() does about the data: see `ensure`

ASSUME InvocationAssumption ==
  IsFiniteSet(InvItems) /\ NoItem \notin InvItems /\ InvTokens \in [InvItems -> Nat \ {0}]
  /\ ItemsPerTask \in Nat \ {0} /\ EnsureReady \subseteq {"off", "restore", "remote", "both"}

VARIABLES
  items,       \* the items and their submissions
  invMessages, \* messages of dispatch_invocation (bound: one)
  workers,     \* what each run of the task is doing
  atBridge,    \* tokens that the bridge has received, per item
  retries,     \* storage_retry_judge_submission of each item, once its data was missing
  ensure,      \* "off": STORAGE_ENSURE_READY_ENABLED is; otherwise missing data is restored,
               \* left to a remote judge, or now the one and now the other
  died         \* a process has died since the last "Retry dispatch"

invVars == <<items, invMessages, workers, atBridge, retries, ensure, died>>

IdleWorker == [step |-> "idle", todo |-> {}, item |-> NoItem, token |-> 0]
AtItems(todo) == [step |-> "items", todo |-> todo, item |-> NoItem, token |-> 0]
NewItem == [state |-> "absent", status |-> "QU", token |-> 0]

InvInit ==
  /\ items = [i \in InvItems |-> NewItem] /\ invMessages = 0
  /\ workers = [w \in InvWorkers |-> IdleWorker]
  /\ retries = [i \in InvItems |-> "none"]
  /\ atBridge = {} /\ ensure \in EnsureReady /\ died = FALSE

-----------------------------------------------------------------------------
(* The invocation.                                                             *)
PendingItems == {i \in InvItems : items[i].state = "pending"}

\* create_invocation: a second request with the same key returns the first one.
CreateInvocation ==
  /\ \A i \in InvItems : items[i].state = "absent"
  /\ items' = [i \in InvItems |-> [items[i] EXCEPT !.state = "pending"]] /\ invMessages' = 1
  /\ UNCHANGED <<workers, atBridge, retries, ensure, died>>
\* "Retry dispatch": the same submissions, those that are queued or failed.  With
\* the readiness of data ensured a run that died before its handoff stays in P, or
\* is taken for one that is on its way; without, every run that died is sent again.
RetryDispatch ==
  /\ \A i \in InvItems : items[i].state # "absent"
  /\ items' = [i \in InvItems |-> IF items[i].status \in {"QU", "IE"} THEN [items[i] EXCEPT !.state = "pending"]
                                  ELSE items[i]]
  /\ invMessages' = 1 /\ died' = (died /\ ensure # "off")
  /\ UNCHANGED <<workers, atBridge, retries, ensure>>

\* dispatch_invocation lists the pending items once; a message may be delivered
\* again.
TaskStarts(w) ==
  /\ invMessages > 0 /\ workers[w] = IdleWorker
  /\ \E todo \in SUBSET PendingItems :
       /\ Cardinality(todo) = IF Cardinality(PendingItems) < ItemsPerTask THEN Cardinality(PendingItems) ELSE ItemsPerTask
       /\ workers' = [workers EXCEPT ![w] = AtItems(todo)]
  /\ invMessages' \in {0, 1}
  /\ UNCHANGED <<items, atBridge, retries, ensure, died>>

\* The state of the item is read again under the problem lock.
StillPendingItem(i) == items[i].state = "pending"

SetItem(i, state, status, token) == items' = [items EXCEPT ![i] = [state |-> state, status |-> status, token |-> token]]
GoesOn(w, i) == workers' = [workers EXCEPT ![w] = AtItems(workers[w].todo \ {i})]
HandsOver(w, i, token) ==
  workers' = [workers EXCEPT ![w] = [step |-> "handoff", todo |-> @.todo \ {i}, item |-> i, token |-> token]]

\* Submission.judge of a queued or failed submission, under the problem lock.  A run
\* whose data is on this host is claimed with P and always gets a new token.  One that
\* waits for a remote judge, or is sent without any of this, stays QU, and a queued row
\* that has a token is taken for one that is on its way already.
Unclaimed == ensure \in {"off", "remote", "both"}
Reserved(i) == items[i].status = "QU" /\ items[i].token # 0
NewStatus(i) == {s \in {"QU", "P"} : IF s = "P" THEN ensure # "off" ELSE Unclaimed /\ ~Reserved(i)}
NewToken(i) == items[i].token + 1
LeftAlone(i) == Unclaimed /\ Reserved(i)
\* Data that is being restored: the row waits in the queue, with the token it has, for
\* a retry that is scheduled unless one is, or one was refused a few seconds ago.
MayDefer == ensure \in {"restore", "both"}
RetryOf(i, state) == retries' = [retries EXCEPT ![i] = state]

\* The task sends a queued run that kept its token once more, with the readiness of the
\* data ensured only if the data is on this host by now.
SendsAgain(w, i) ==
  \/ items[i].token # 0 /\ HandsOver(w, i, items[i].token)
  \/ ensure # "off" /\ GoesOn(w, i)
JudgesItem(w, i) ==
  \/ /\ NewToken(i) <= InvTokens[i] /\ UNCHANGED died
     /\ \E s \in NewStatus(i) : SetItem(i, "sent", s, NewToken(i))
     /\ HandsOver(w, i, NewToken(i))
     /\ RetryOf(i, IF retries[i] = "refused" THEN "none" ELSE retries[i])
  \/ /\ LeftAlone(i) /\ SetItem(i, "sent", "QU", items[i].token) /\ SendsAgain(w, i) /\ UNCHANGED <<retries, died>>
  \/ /\ MayDefer /\ SetItem(i, "sent", "QU", items[i].token)
     /\ \/ /\ \E r \in {"scheduled", retries[i]} \ {"none"} : RetryOf(i, r)
           /\ SendsAgain(w, i) /\ UNCHANGED died
        \/ \* the worker dies before the callbacks of the commit
           workers' = [workers EXCEPT ![w] = IdleWorker] /\ died' = TRUE /\ UNCHANGED retries
  \/ \* judge() raises, or leaves IE behind
     /\ \E s \in {items[i].status, "IE"} : SetItem(i, "error", s, items[i].token)
     /\ GoesOn(w, i) /\ UNCHANGED <<retries, died>>
DispatchItem(w) ==
  /\ workers[w].step = "items"
  /\ \E i \in workers[w].todo :
       \/ ~StillPendingItem(i) /\ GoesOn(w, i) /\ UNCHANGED <<items, retries, died>>
       \/ /\ StillPendingItem(i) /\ items[i].status \notin {"QU", "IE"}
          /\ SetItem(i, "sent", items[i].status, items[i].token) /\ GoesOn(w, i) /\ UNCHANGED <<retries, died>>
       \/ StillPendingItem(i) /\ items[i].status \in {"QU", "IE"} /\ JudgesItem(w, i)
  /\ UNCHANGED <<invMessages, atBridge, ensure>>

\* storage_retry_judge_submission, which knows nothing of items: refused while the
\* problem is closed to judging, dropped unless the row is queued, and otherwise one
\* more judge() (which may well defer the run again: nothing changes).  The same retry
\* may come twice.
RetryRuns(w) ==
  /\ workers[w] = IdleWorker
  /\ \E i \in InvItems :
       /\ retries[i] = "scheduled"
       /\ \/ RetryOf(i, "refused") /\ UNCHANGED <<items, workers>>
          \/ /\ \E state \in {"none", "scheduled"} : RetryOf(i, state)
             /\ \/ items[i].status # "QU" /\ UNCHANGED <<items, workers>>
                \/ /\ items[i].status = "QU" /\ NewToken(i) <= InvTokens[i]
                   /\ \E s \in NewStatus(i) : SetItem(i, items[i].state, s, NewToken(i))
                   /\ workers' = [workers EXCEPT ![w] = [step |-> "retried", todo |-> {}, item |-> i, token |-> NewToken(i)]]
                \/ LeftAlone(i) /\ UNCHANGED <<items, workers>>
                \/ /\ items[i].status = "QU"
                   /\ SetItem(i, items[i].state, "IE", items[i].token) /\ UNCHANGED workers
  /\ UNCHANGED <<invMessages, atBridge, ensure, died>>

\* Without an answer of the bridge the run becomes IE, and the item of the task an error.
\* BugHandoffError: the error is only logged.
BugHandoffError(w) == UNCHANGED items
HandoffError(w) ==
  LET i == workers[w].item
  IN SetItem(i, IF workers[w].step = "handoff" THEN "error" ELSE items[i].state, "IE", items[i].token)
\* _send_submission, after the commit: only the run of the current token is handed
\* over.
Handoff(w) ==
  LET i == workers[w].item
      run == <<i, workers[w].token>>
  IN /\ workers[w].step \in {"handoff", "retried"}
     /\ workers' = [workers EXCEPT ![w] = IF @.step = "handoff" THEN AtItems(@.todo) ELSE IdleWorker]
     /\ IF items[i].token = workers[w].token /\ items[i].status \in {"QU", "P"}
        THEN \/ atBridge' = atBridge \cup {run} /\ UNCHANGED items
             \/ HandoffError(w) /\ UNCHANGED atBridge
        ELSE UNCHANGED <<items, atBridge>>
     /\ UNCHANGED <<invMessages, retries, ensure, died>>
TaskEnds(w) ==
  /\ workers[w].step = "items" /\ workers[w].todo = {}
  /\ workers' = [workers EXCEPT ![w] = IdleWorker]
  /\ invMessages' = IF PendingItems # {} THEN 1 ELSE invMessages
  /\ UNCHANGED <<items, atBridge, retries, ensure, died>>
WorkerDies(w) ==
  /\ workers[w] # IdleWorker /\ workers' = [workers EXCEPT ![w] = IdleWorker] /\ died' = TRUE
  /\ UNCHANGED <<items, invMessages, atBridge, retries, ensure>>

\* The bridge and the judge: the run of the current token ends.
RunEnds(i) ==
  /\ <<i, items[i].token>> \in atBridge /\ items[i].status \in {"QU", "P"}
  /\ \E status \in {"D", "IE"} : SetItem(i, items[i].state, status, items[i].token)
  /\ UNCHANGED <<invMessages, workers, atBridge, retries, ensure, died>>

InvNext ==
  \/ CreateInvocation \/ RetryDispatch
  \/ \E w \in InvWorkers : TaskStarts(w) \/ DispatchItem(w) \/ RetryRuns(w) \/ Handoff(w) \/ TaskEnds(w) \/ WorkerDies(w)
  \/ \E i \in InvItems : RunEnds(i)
InvSpec == InvInit /\ [][InvNext]_invVars

-----------------------------------------------------------------------------
InvTypeOK ==
  /\ items \in [InvItems -> [state : {"absent", "pending", "sent", "error"}, status : {"QU", "P", "D", "IE"},
                             token : Nat]]
  /\ invMessages \in {0, 1}
  /\ workers \in [InvWorkers -> [step : {"idle", "items", "handoff", "retried"}, todo : SUBSET InvItems,
                                 item : InvItems \cup {NoItem}, token : Nat]]
  /\ atBridge \subseteq InvItems \X Nat /\ retries \in [InvItems -> {"none", "scheduled", "refused"}]

\* tasks/invocations.py:39-41 (recover a committed reservation whose worker died
\* before handoff): a submission marked as sent is at the bridge, on its way there, or
\* queued with a retry to come, unless somebody has died since the last "Retry
\* dispatch" or the retry found the problem closed to judging.
SentRunIsOnItsWay ==
  \A i \in InvItems : items[i].state = "sent" /\ items[i].status \in {"QU", "P"} =>
    \/ died \/ <<i, items[i].token>> \in atBridge
    \/ \E w \in InvWorkers : /\ workers[w].step \in {"handoff", "retried"}
                             /\ workers[w].item = i /\ workers[w].token = items[i].token
    \/ items[i].status = "QU" /\ retries[i] # "none"
=============================================================================
