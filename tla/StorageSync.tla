---------------------------- MODULE StorageSync ----------------------------
(* storage_sync_catalog (tasks/storage.py): Celery workers follow the change   *)
(* feed of the storage service.  A lease in the database lets one worker at a  *)
(* time pull pages and apply them to the local projection; a lease that is not *)
(* renewed runs out and another worker continues from the committed cursor.    *)
EXTENDS Integers

CONSTANTS
  SyncWorkers,      \* runs of the task
  NoWorker,
  CatalogProblems,  \* problems of the catalog
  NoProblem,        \* what a position of the feed without a change for us is about
  FeedLength,       \* bound: positions of the feed
  Feed,             \* Feed[i] is the problem that change i is about
  Overruns          \* may a lease run out after its holder last looked at it?

ASSUME SyncAssumption ==
  /\ NoWorker \notin SyncWorkers /\ Overruns \in BOOLEAN
  /\ FeedLength \in Nat /\ NoProblem \notin CatalogProblems
  /\ Feed \in [1..FeedLength -> CatalogProblems \cup {NoProblem}]

VARIABLES
  lease,       \* the StorageSyncLease row: its owner, and whether it is in force
  syncCursor,  \* StorageSystemStatus.sync_cursor
  projection,  \* the StorageProblemUsage rows: the last change applied to each
  staleRows,   \* the rows with stale = True
  published,   \* number of changes that the service has published so far
  syncTask     \* what each worker is doing

syncVars == <<lease, syncCursor, projection, staleRows, published, syncTask>>

IdleTask == [step |-> "idle", cursor |-> 0, upto |-> 0]
\* What the projection of a problem is after the first n changes.
LastChange(p, n) == CHOOSE k \in 0..n : /\ k # 0 => Feed[k] = p
                                        /\ \A i \in (k + 1)..n : Feed[i] # p

SyncInit ==
  /\ lease = [owner |-> NoWorker, valid |-> FALSE]
  /\ syncCursor = 0 /\ staleRows = {} /\ published = 0
  /\ projection = [p \in CatalogProblems |-> 0]
  /\ syncTask = [w \in SyncWorkers |-> IdleTask]

-----------------------------------------------------------------------------
Holds(w) == lease.owner = w
At(w, step) == syncTask[w].step = step
GoTo(w, step) == syncTask' = [syncTask EXCEPT ![w].step = step]

\* The finally clause: the worker ends, and deletes the lease if it is its own.
EndSync(w) ==
  /\ syncTask' = [syncTask EXCEPT ![w] = IdleTask]
  /\ lease' = IF Holds(w) THEN [owner |-> NoWorker, valid |-> FALSE] ELSE lease

\* _acquire_sync_lease: no lease, or one that ran out.
AcquireLease(w) ==
  /\ At(w, "idle") /\ (lease.owner = NoWorker \/ ~lease.valid)
  /\ lease' = [owner |-> w, valid |-> TRUE] /\ GoTo(w, "read")
  /\ UNCHANGED <<syncCursor, projection, staleRows, published>>

\* The cursor is read once, after the lease was taken.
ReadCursor(w) ==
  /\ At(w, "read")
  /\ syncTask' = [syncTask EXCEPT ![w] = [step |-> "renew", cursor |-> syncCursor, upto |-> syncCursor]]
  /\ UNCHANGED <<lease, syncCursor, projection, staleRows, published>>

\* _renew_sync_lease asks for the owner only: a lease that ran out and that
\* nobody took is in force again.
RenewLease(w) ==
  /\ At(w, "renew")
  /\ IF Holds(w) THEN lease' = [lease EXCEPT !.valid = TRUE] /\ GoTo(w, "fetch") ELSE EndSync(w)
  /\ UNCHANGED <<syncCursor, projection, staleRows, published>>

\* get_sync_changes answers a page, nothing new, or not at all.  A page that moves the
\* cursor and has no change at all, or none to a problem of ours, is a page too.
FetchPage(w) ==
  /\ At(w, "fetch")
  /\ \/ \E n \in (syncTask[w].cursor + 1)..published :
          syncTask' = [syncTask EXCEPT ![w] = [step |-> "apply", cursor |-> @.cursor, upto |-> n]]
        /\ UNCHANGED <<lease, staleRows>>
     \/ syncTask[w].cursor = published /\ GoTo(w, "totals") /\ UNCHANGED <<lease, staleRows>>
     \/ staleRows' = CatalogProblems /\ EndSync(w)               \* storage_mark_stale
     \/ EndSync(w) /\ UNCHANGED staleRows                        \* a page that is not usable yet
  /\ UNCHANGED <<syncCursor, projection, published>>

\* One transaction: assert the lease, apply the page, move the cursor.
\* BugNoAssert: the lease is not looked at again after the fetch.
Applied(from, upto, p) == {i \in (from + 1)..upto : Feed[i] = p}
BugNoAssert(w) == TRUE
AssertLease(w) == Holds(w) /\ lease.valid
ApplyPage(w) ==
  LET t == syncTask[w]
      touched == {p \in CatalogProblems : Applied(t.cursor, t.upto, p) # {}}
  IN /\ At(w, "apply")
     /\ \/ /\ AssertLease(w)
           /\ projection' = [p \in CatalogProblems |->
                IF p \in touched THEN CHOOSE k \in Applied(t.cursor, t.upto, p) :
                                        \A i \in Applied(t.cursor, t.upto, p) : i <= k
                ELSE projection[p]]
           /\ staleRows' = staleRows \ touched
           /\ syncCursor' = t.upto
           /\ \E step \in {"renew", "totals"} :                  \* another page, or the last one
                syncTask' = [syncTask EXCEPT ![w] = [step |-> step, cursor |-> t.upto, upto |-> t.upto]]
           /\ UNCHANGED lease
        \/ ~AssertLease(w) /\ EndSync(w) /\ UNCHANGED <<projection, staleRows, syncCursor>>
     /\ UNCHANGED published

\* _rebuild_organization_usage asks the service about every organization;
\* _update_system_status reads the status row, asks for the volumes and then
\* saves the whole row, the cursor it read included.
ReadStatus(w) ==
  /\ At(w, "totals")
  /\ syncTask' = [syncTask EXCEPT ![w] = [step |-> "save", cursor |-> syncCursor, upto |-> @.upto]]
  /\ UNCHANGED <<lease, syncCursor, projection, staleRows, published>>
SaveStatus(w) ==
  /\ At(w, "save")
  /\ syncCursor' = syncTask[w].cursor /\ EndSync(w)
  /\ UNCHANGED <<projection, staleRows, published>>

-----------------------------------------------------------------------------
\* The service, the clock, and workers that die.
PublishChange ==
  /\ published < FeedLength /\ published' = published + 1
  /\ UNCHANGED <<lease, syncCursor, projection, staleRows, syncTask>>
LeaseRunsOut ==
  /\ lease.valid
  /\ Overruns \/ \A w \in SyncWorkers : Holds(w) => syncTask[w].step \notin {"fetch", "totals", "save"}
  /\ lease' = [lease EXCEPT !.valid = FALSE]
  /\ UNCHANGED <<syncCursor, projection, staleRows, published, syncTask>>
SyncWorkerDies(w) ==
  /\ syncTask[w].step # "idle"
  /\ syncTask' = [syncTask EXCEPT ![w] = IdleTask]
  /\ UNCHANGED <<lease, syncCursor, projection, staleRows, published>>

SyncStep(w) ==
  \/ AcquireLease(w) \/ ReadCursor(w) \/ RenewLease(w) \/ FetchPage(w) \/ ApplyPage(w)
  \/ ReadStatus(w) \/ SaveStatus(w)
SyncNext ==
  \/ \E w \in SyncWorkers : SyncStep(w) \/ SyncWorkerDies(w)
  \/ PublishChange \/ LeaseRunsOut
SyncSpec == SyncInit /\ [][SyncNext]_syncVars

-----------------------------------------------------------------------------
SyncTypeOK ==
  /\ lease \in [owner : SyncWorkers \cup {NoWorker}, valid : BOOLEAN]
  /\ syncCursor \in 0..FeedLength /\ published \in 0..FeedLength
  /\ projection \in [CatalogProblems -> 0..FeedLength]
  /\ staleRows \subseteq CatalogProblems
  /\ syncTask \in [SyncWorkers -> [step : {"idle", "read", "renew", "fetch", "apply", "totals", "save"},
                                   cursor : 0..FeedLength, upto : 0..FeedLength]]

\* The docstring of storage_sync_catalog (tasks/storage.py:50-51): the projection is
\* exactly that of the changes before the cursor, none applied twice or skipped,
\* whoever applied them and whoever died.
ProjectionMatchesCursor == \A p \in CatalogProblems : projection[p] = LastChange(p, syncCursor)

\* tasks/storage.py:50-51 ("Cursor is committed inside the same DB transaction as the
\* projection batch"): nothing else moves it.
CursorMovesWithBatch == [][syncCursor' # syncCursor => \E w \in SyncWorkers : ApplyPage(w)]_syncVars
=============================================================================
