------------------------------ MODULE TestData ------------------------------
(* The test data of one managed problem: the gate is_locked, the dataset in    *)
(* the database, the files on disk, the manifest published for remote judges,  *)
(* the copy at the storage service and the polls that compare the two          *)
(* (views/problem_data.py, utils/test_data_lock.py, utils/problem_data.py,     *)
(* utils/remote_data.py, tasks/remote_data.py).                                *)
(* An edit is one database transaction under the row lock, but its writes to   *)
(* the disk stay when it is rolled back.                                       *)
EXTENDS Integers

CONSTANTS
  DataVersions,  \* bound: number of datasets the author uploads
  EditFaults     \* may an edit fail after it wrote files?

ASSUME DataAssumption == DataVersions \in Nat \ {0} /\ EditFaults \subseteq BOOLEAN

VARIABLES
  isLocked,    \* Problem.is_locked
  dataset,     \* the committed ProblemData and ProblemTestCase rows
  files,       \* the local directory: the archive and the init.yml made for a dataset
  manifest,    \* ProblemDataManifest.sha256 and .ready_sha256: what the digest is of
  snapshot,    \* the storage service's READY snapshot
  poll,        \* check_remote_data: the digest it polls for, and what it does next
  edit,        \* a request that holds the row lock: its step and its dataset
  dataFaults,  \* does this behaviour have edits that fail late?
  newest       \* number of datasets uploaded so far

dataVars == <<isLocked, dataset, files, manifest, snapshot, poll, edit, dataFaults, newest>>

\* Contents of a directory; init = 0: no init.yml.
Content(archive, init) == [archive |-> archive, init |-> init]
NoContent == Content(0, 0)
NoPoll == [step |-> "none", sha |-> NoContent]
NoEdit == [step |-> "none", version |-> 0]
Contents == [archive : 0..DataVersions, init : 0..DataVersions]

DataInit ==
  /\ isLocked = FALSE /\ dataset = 0 /\ files = NoContent /\ snapshot = NoContent
  /\ manifest = [sha |-> NoContent, ready |-> NoContent]
  /\ poll = NoPoll /\ edit = NoEdit /\ newest = 0 /\ dataFaults \in EditFaults

-----------------------------------------------------------------------------
\* unlock_tests; BugKeepReady: the readiness of the manifest is not cleared.
BugKeepReady == manifest
ClearReady == [manifest EXCEPT !.ready = NoContent]
UnlockTests ==
  /\ isLocked /\ edit = NoEdit
  /\ isLocked' = FALSE /\ manifest' = ClearReady
  /\ UNCHANGED <<dataset, files, snapshot, poll, edit, dataFaults, newest>>

\* post: require_editing under the row lock.  An edit of the data uploads a new
\* archive or keeps the rows it finds; a scoring edit touches no file.
MayEdit == ~isLocked /\ edit = NoEdit
BeginEdit ==
  /\ MayEdit
  /\ \/ newest < DataVersions /\ newest' = newest + 1
        /\ edit' = [step |-> "archive", version |-> newest + 1]
     \/ /\ dataset # 0 /\ UNCHANGED newest
        /\ \E step \in {"compile", "publish"} : edit' = [step |-> step, version |-> dataset]
  /\ UNCHANGED <<isLocked, dataset, files, manifest, snapshot, poll, dataFaults>>

\* data.save(): ProblemDataStorage replaces the archive.
SaveArchive ==
  /\ edit.step = "archive"
  /\ files' = [files EXCEPT !.archive = edit.version]
  /\ edit' = [edit EXCEPT !.step = "compile"]
  /\ UNCHANGED <<isLocked, dataset, manifest, snapshot, poll, dataFaults, newest>>

\* ProblemDataCompiler.compile: init.yml, published last, or feedback and none.
CompileData ==
  /\ edit.step = "compile"
  /\ \/ /\ files' = [files EXCEPT !.init = edit.version]
        /\ edit' = [edit EXCEPT !.step = "publish"]
     \/ /\ dataFaults /\ files' = [files EXCEPT !.init = 0] /\ edit' = NoEdit
  /\ UNCHANGED <<isLocked, dataset, manifest, snapshot, poll, dataFaults, newest>>

\* publish_manifest and the gate, with the commit of the edit.
\* BugOldManifest: the manifest is taken before the files were written.
BugOldManifest == [sha |-> snapshot, ready |-> NoContent]
NewManifest == [sha |-> files, ready |-> NoContent]
PublishData ==
  /\ edit.step = "publish" /\ files.init # 0
  /\ isLocked' = TRUE /\ dataset' = edit.version /\ edit' = NoEdit
  /\ manifest' = NewManifest
  /\ UNCHANGED <<files, snapshot, poll, dataFaults, newest>>

\* build_manifest raises without init.yml; other errors come after the writes.
EditFails ==
  /\ edit.step # "none"
  /\ dataFaults \/ (edit.step = "publish" /\ files.init = 0)
  /\ edit' = NoEdit
  /\ UNCHANGED <<isLocked, dataset, files, manifest, snapshot, poll, dataFaults, newest>>

-----------------------------------------------------------------------------
\* The storage service takes a new snapshot of the directory, at any time.
Upload ==
  /\ snapshot # files /\ snapshot' = files
  /\ UNCHANGED <<isLocked, dataset, files, manifest, poll, edit, dataFaults, newest>>

\* sync_remote_data picks the problem and check_remote_data reads the manifest;
\* the pages of the snapshot are compared with it; the result is stored if the
\* manifest is still the same and the problem still locked.
PollReads ==
  /\ poll = NoPoll
  /\ isLocked /\ manifest.sha # NoContent /\ manifest.ready # manifest.sha
  /\ poll' = [step |-> "compare", sha |-> manifest.sha]
  /\ UNCHANGED <<isLocked, dataset, files, manifest, snapshot, edit, dataFaults, newest>>
PollCompares ==
  /\ poll.step = "compare"
  /\ poll' = IF snapshot = poll.sha THEN [poll EXCEPT !.step = "store"] ELSE NoPoll
  /\ UNCHANGED <<isLocked, dataset, files, manifest, snapshot, edit, dataFaults, newest>>
StillPolled == isLocked /\ manifest.sha = poll.sha
PollStores ==
  /\ poll.step = "store" /\ edit = NoEdit
  /\ manifest' = IF StillPolled THEN [manifest EXCEPT !.ready = poll.sha] ELSE manifest
  /\ poll' = NoPoll
  /\ UNCHANGED <<isLocked, dataset, files, snapshot, edit, dataFaults, newest>>

-----------------------------------------------------------------------------
EditStep == SaveArchive \/ CompileData \/ PublishData
PollStep == PollReads \/ PollCompares \/ PollStores
DataNext == UnlockTests \/ BeginEdit \/ EditStep \/ EditFails \/ Upload \/ PollStep
DataSpec == DataInit /\ [][DataNext]_dataVars

-----------------------------------------------------------------------------
DataTypeOK ==
  /\ isLocked \in BOOLEAN /\ dataset \in 0..DataVersions /\ newest \in 0..DataVersions
  /\ files \in Contents /\ snapshot \in Contents
  /\ manifest \in [sha : Contents, ready : Contents]
  /\ poll \in [step : {"none", "compare", "store"}, sha : Contents]
  /\ edit \in [step : {"none", "archive", "compile", "publish"}, version : 0..DataVersions]
  /\ dataFaults \in BOOLEAN

\* While judging is open the manifest describes the files on this host, and they
\* include an init.yml: local and remote judges grade with the same data.
GateOpensOnPublished == isLocked => manifest.sha = files /\ files.init # 0 /\ edit = NoEdit

\* tasks/remote_data.py:38 (a late poll may never acknowledge a newer manifest or
\* an unlocked problem): readiness is that of the current manifest.
ReadyIsCurrent == manifest.ready # NoContent => isLocked /\ manifest.ready = manifest.sha

\* A remote judge that is sent a run finds exactly these files at the storage.  An
\* edit that fails late may change the files for a while without a new digest.
ReadyIsUploaded == manifest.ready # NoContent /\ ~dataFaults => snapshot = manifest.ready

\* What a poll acknowledged is the current manifest, and it is at the storage.
RemoteDataReady == ReadyIsCurrent /\ ReadyIsUploaded
=============================================================================
