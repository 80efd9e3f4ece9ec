---------------------------- MODULE SubmissionRun ----------------------------
(***************************************************************************)
(* What the judging pipeline promises for one submission, whatever threads,*)
(* processes and packets take part: a submission is a sequence of runs,    *)
(* each told from the others by its dispatch id.  Within a run the status  *)
(* only moves forward and is final once; a verdict comes from the worker   *)
(* that judged that run; a new run starts on request after a final status, *)
(* or takes over from a run whose test data could not be fetched.          *)
(* Bridge.tla implements this for every submission.                        *)
(***************************************************************************)
EXTENDS Naturals

CONSTANTS
  Tokens, \* dispatch ids
  None    \* no run was requested yet

VARIABLES
  status, \* Submission.status
  run,    \* the dispatch id of the run the row stands for
  issued, \* the dispatch ids of all runs so far
  by      \* the run whose worker produced the verdict

vars == <<status, run, issued, by>>

Steps == <<"QU", "P", "G">>
Step(st) == CHOOSE i \in 1 .. 3 : Steps[i] = st
InProgress == status \in {"QU", "P", "G"}
Judged == {"D", "CE"}
Final == Judged \cup {"IE", "AB"}

Init == status = "QU" /\ run = None /\ issued = {} /\ by = None

NewRun ==
  /\ run' \in Tokens \ issued
  /\ issued' = issued \cup {run'}
  /\ status' = "QU"
  /\ UNCHANGED by

Request == (status \in Final \/ run = None) /\ NewRun

Retry == run # None /\ status \in {"QU", "P"} /\ NewRun

Advance ==
  /\ run # None /\ InProgress
  /\ \E i \in Step(status) + 1 .. 3 : status' = Steps[i]
  /\ UNCHANGED <<run, issued, by>>

Finish ==
  /\ InProgress
  /\ status' \in Final
  /\ by' \in {by, run}
  /\ status' \in Judged => run # None /\ by' = run
  /\ UNCHANGED <<run, issued>>

Next == Request \/ Retry \/ Advance \/ Finish

Spec == Init /\ [][Next]_vars
=============================================================================
