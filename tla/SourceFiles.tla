----------------------------- MODULE SourceFiles -----------------------------
(* A source file of a problem's library (upload_sources, update_source and     *)
(* delete_sources of utils/invocations.py, utils/invocation_storage.py): the    *)
(* row names a file on the disk.  The row changes with a commit under the lock   *)
(* of the problem, the disk before and after it, and either side may fail.       *)
EXTENDS Integers

CONSTANT SourcePaths   \* bound: number of file names, each written once

ASSUME SourceAssumption == SourcePaths \in Nat

VARIABLES
  sourcePath,   \* ProblemInvocationSource.path, 0: no row
  sourceDisk,   \* the files in DMOJ_INVOCATION_SOURCE_ROOT
  usedPaths,    \* names that uuid4 has given
  writing       \* the request that holds the lock, or runs its callbacks

sourceVars == <<sourcePath, sourceDisk, usedPaths, writing>>

NoWrite == [step |-> "none", new |-> 0, old |-> 0]

SourceInit == sourcePath = 0 /\ sourceDisk = {} /\ usedPaths = {} /\ writing = NoWrite

\* write_source: the file has a new name.
WriteSource(f) ==
  /\ writing = NoWrite /\ f \notin usedPaths
  /\ sourceDisk' = sourceDisk \cup {f} /\ usedPaths' = usedPaths \cup {f}
  /\ writing' = [step |-> "wrote", new |-> f, old |-> sourcePath]
  /\ UNCHANGED sourcePath
\* The commit; a replaced file is deleted by an on_commit callback.
CommitSource ==
  /\ writing.step = "wrote" /\ sourcePath' = writing.new
  /\ writing' = IF writing.old = 0 THEN NoWrite ELSE [writing EXCEPT !.step = "clean"]
  /\ UNCHANGED <<sourceDisk, usedPaths>>
\* The commit of delete_sources; the post_delete hook deletes the file after it.
DeleteSource ==
  /\ writing = NoWrite /\ sourcePath # 0
  /\ sourcePath' = 0 /\ writing' = [step |-> "clean", new |-> 0, old |-> sourcePath]
  /\ UNCHANGED <<sourceDisk, usedPaths>>

\* BugCleanupError: the error reaches the handler of update_source, which takes
\* the new file away.
BugCleanupError == sourceDisk \ {writing.new}
\* delete_source swallows an error of the disk: the old file stays.
CleanupError == sourceDisk
\* The on_commit callback, inside the try block of the request.
CleanSource ==
  /\ writing.step = "clean" /\ writing' = NoWrite
  /\ \/ sourceDisk' = sourceDisk \ {writing.old}
     \/ sourceDisk' = CleanupError
  /\ UNCHANGED <<sourcePath, usedPaths>>
\* An exception before the commit: the new file is removed and the row kept.
WriteFails ==
  /\ writing.step = "wrote" /\ sourceDisk' = sourceDisk \ {writing.new} /\ writing' = NoWrite
  /\ UNCHANGED <<sourcePath, usedPaths>>
\* The process ends: what was committed stays, files may be left over.
WriterDies ==
  /\ writing # NoWrite /\ writing' = NoWrite
  /\ UNCHANGED <<sourcePath, sourceDisk, usedPaths>>

SourceNext ==
  \/ \E f \in 1..SourcePaths : WriteSource(f)
  \/ CommitSource \/ DeleteSource \/ CleanSource \/ WriteFails \/ WriterDies
SourceSpec == SourceInit /\ [][SourceNext]_sourceVars

-----------------------------------------------------------------------------
SourceTypeOK ==
  /\ sourcePath \in 0..SourcePaths /\ sourceDisk \subseteq usedPaths /\ usedPaths \subseteq 1..SourcePaths
  /\ writing \in [step : {"none", "wrote", "clean"}, new : 0..SourcePaths, old : 0..SourcePaths]

\* utils/invocation_storage.py:24-25 (a cleanup failure must not invalidate a
\* committed replacement or delete its new file): a source row always has its file,
\* whatever fails and whoever dies.
SourceFileExists == sourcePath # 0 => sourcePath \in sourceDisk
=============================================================================
