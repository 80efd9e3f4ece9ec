---------------------------- MODULE RebuildProofs ----------------------------
(* Theorems about the rebuild of the subtask scores of a problem               *)
(* (SubtaskRebuild), for every number of submissions, revisions and attempts.  *)
EXTENDS SubtaskRebuild, SetLemmas

ScoringRecord == [state : {"OFF", "REBUILDING", "ON", "STOPPING", "FAILED"}, revision : Nat,
                  phase : {"none", "drain", "rejudge", "refresh", "disable-refresh", "done"},
                  ceiling : RebuildSubs \cup {0}, cursor : RebuildSubs \cup {0},
                  pending : RebuildSubs \cup {0}, dispatched : BOOLEAN]
RowRecord == [status : InProgress \cup FinalCodes \cup {"none"}, rev : Nat, marker : Nat,
              token : BOOLEAN, run : BOOLEAN]
JobRecord == [kind : CallKinds \cup {"retry", "step", "dispatch", "publishON", "publishOFF"},
              sub : RebuildSubs \cup {0}, rev : Nat, n : Nat, rejudge : BOOLEAN]

\* The records that the actions write, with EXCEPT written out.
Failed(r) == [state |-> "FAILED", revision |-> r.revision, phase |-> r.phase, ceiling |-> r.ceiling,
              cursor |-> r.cursor, pending |-> r.pending, dispatched |-> r.dispatched]
Stopping(r) == [state |-> "STOPPING", revision |-> r.revision + 1, phase |-> r.phase, ceiling |-> r.ceiling,
                cursor |-> r.cursor, pending |-> r.pending, dispatched |-> r.dispatched]
Phase(r, state, phase) == [state |-> state, revision |-> r.revision, phase |-> phase, ceiling |-> r.ceiling,
                           cursor |-> r.cursor, pending |-> r.pending, dispatched |-> r.dispatched]
Advanced(r, cursor, phase, pending) ==
  [state |-> r.state, revision |-> r.revision, phase |-> phase, ceiling |-> r.ceiling,
   cursor |-> cursor, pending |-> pending, dispatched |-> FALSE]
Dispatched(r) == [state |-> r.state, revision |-> r.revision, phase |-> r.phase, ceiling |-> r.ceiling,
                  cursor |-> r.cursor, pending |-> r.pending, dispatched |-> TRUE]

LEMMA FailedEq ==
  ASSUME NEW r \in ScoringRecord, NEW q, q = [r EXCEPT !.state = "FAILED"]
  PROVE  q = Failed(r)
  BY DEF ScoringRecord, Failed

LEMMA StoppingEq ==
  ASSUME NEW r \in ScoringRecord, NEW q, q = [r EXCEPT !.state = "STOPPING", !.revision = @ + 1]
  PROVE  q = Stopping(r)
  BY DEF ScoringRecord, Stopping

LEMMA PhaseEq ==
  ASSUME NEW r \in ScoringRecord, NEW state, NEW phase, NEW q, q = [r EXCEPT !.state = state, !.phase = phase]
  PROVE  q = Phase(r, state, phase)
  BY DEF ScoringRecord, Phase

LEMMA PhaseOnlyEq ==
  ASSUME NEW r \in ScoringRecord, NEW phase, NEW q, q = [r EXCEPT !.phase = phase]
  PROVE  q = Phase(r, r.state, phase)
  BY DEF ScoringRecord, Phase

LEMMA AdvancedEq ==
  ASSUME NEW r \in ScoringRecord, NEW cursor, NEW phase, NEW pending,
         NEW q, q = [r EXCEPT !.cursor = cursor, !.phase = phase, !.pending = pending, !.dispatched = FALSE]
  PROVE  q = Advanced(r, cursor, phase, pending)
  BY DEF ScoringRecord, Advanced

LEMMA DispatchedEq ==
  ASSUME NEW r \in ScoringRecord, NEW q, q = [r EXCEPT !.dispatched = TRUE]
  PROVE  q = Dispatched(r)
  BY DEF ScoringRecord, Dispatched

LEMMA PhaseIs ==
  ASSUME NEW r \in ScoringRecord, NEW state, NEW phase
  PROVE  [r EXCEPT !.state = state, !.phase = phase] = Phase(r, state, phase)
  BY PhaseEq

LEMMA ScoringIs ==
  ASSUME NEW r \in ScoringRecord
  PROVE  /\ [r EXCEPT !.state = "FAILED"] = Failed(r)
         /\ [r EXCEPT !.state = "STOPPING", !.revision = @ + 1] = Stopping(r)
         /\ \A phase : [r EXCEPT !.phase = phase] = Phase(r, r.state, phase)
         /\ [r EXCEPT !.dispatched = TRUE] = Dispatched(r)
  BY FailedEq, StoppingEq, PhaseOnlyEq, DispatchedEq

RowIs(r, status, marker, run) ==
  [status |-> status, rev |-> r.rev, marker |-> marker, token |-> r.token, run |-> run]

\* Columns of the rows; nested EXCEPT of the function of the rows.
LEMMA StatusRow ==
  ASSUME NEW f \in [RebuildSubs -> RowRecord], NEW s \in RebuildSubs, NEW status
  PROVE  [f EXCEPT ![s].status = status] = [f EXCEPT ![s] = RowIs(f[s], status, f[s].marker, f[s].run)]
<1>1. f[s] \in RowRecord
  OBVIOUS
<1>2. ASSUME NEW q, q = [f[s] EXCEPT !.status = status] PROVE q = RowIs(f[s], status, f[s].marker, f[s].run)
  BY <1>1, <1>2 DEF RowRecord, RowIs
<1> QED
  BY <1>2

LEMMA AbortedRow ==
  ASSUME NEW f \in [RebuildSubs -> RowRecord], NEW s \in RebuildSubs, NEW g, g = [f EXCEPT ![s].status = "AB"]
  PROVE  g = [f EXCEPT ![s] = RowIs(f[s], "AB", f[s].marker, f[s].run)]
<1>1. [f EXCEPT ![s].status = "AB"] = [f EXCEPT ![s] = RowIs(f[s], "AB", f[s].marker, f[s].run)]
  <2>1. f[s] \in RowRecord
    OBVIOUS
  <2>2. ASSUME NEW q, q = [f[s] EXCEPT !.status = "AB"] PROVE q = RowIs(f[s], "AB", f[s].marker, f[s].run)
    BY <2>1, <2>2 DEF RowRecord, RowIs
  <2> QED
    BY <2>2
<1> QED
  BY <1>1

LEMMA DeferredEq ==
  ASSUME NEW r \in RowRecord, NEW marker, NEW q, q = [r EXCEPT !.status = "QU", !.marker = marker]
  PROVE  q = RowIs(r, "QU", marker, r.run)
  BY DEF RowRecord, RowIs

LEMMA DeferredRow ==
  ASSUME NEW r \in RowRecord, NEW marker
  PROVE  [r EXCEPT !.status = "QU", !.marker = marker] = RowIs(r, "QU", marker, r.run)
  BY DeferredEq

LEMMA EndedRow ==
  ASSUME NEW f \in [RebuildSubs -> RowRecord], NEW s \in RebuildSubs, NEW status
  PROVE  [f EXCEPT ![s].run = FALSE, ![s].status = status] =
           [f EXCEPT ![s] = RowIs(f[s], status, f[s].marker, FALSE)]
<1>1. f[s] \in RowRecord
  OBVIOUS
<1>2. ASSUME NEW q, q = [f[s] EXCEPT !.run = FALSE, !.status = status]
      PROVE  q = RowIs(f[s], status, f[s].marker, FALSE)
  BY <1>1, <1>2 DEF RowRecord, RowIs
<1>3. [f EXCEPT ![s].run = FALSE, ![s].status = status] =
        [f EXCEPT ![s] = [f[s] EXCEPT !.run = FALSE, !.status = status]]
  OBVIOUS
<1> QED
  BY <1>2, <1>3

-----------------------------------------------------------------------------
(* The invariant.  judge() without the problem lock writes what it makes of an  *)
(* old answer of the storage over whatever the row has become.  The worlds in   *)
(* which data is restored are those in which nobody else judges the row between *)
(* the question and the answer: no remote judge, no rejudge by hand, and no new *)
(* submission that is aborted while its first call runs into a rebuild.         *)
RestoresAlone(w) ==
  "restore" \in w => "remote" \notin w /\ "rejudge" \notin w /\ ~({"abort", "late"} \subseteq w)
OneHazard == \A w \in RebuildWorlds : RestoresAlone(w)

\* Only a row in progress has a run; where data is restored, only a claimed one.
RunFits(r) == r.run => r.status = "P" \/ (r.status = "QU" /\ "restore" \notin rebuildWorld)
Judged(r) == r.status \in {"D", "CE"}

\* What the rebuild has done so far, while it goes on.
Advancing(sc) ==
  /\ sc.revision # 0 /\ sc.phase \in {"drain", "rejudge", "refresh"}
  /\ sc.phase = "drain" => sc.cursor = 0 /\ sc.pending = 0
  /\ \A s \in Created : s <= sc.ceiling
  /\ \A s \in Created : s <= sc.cursor /\ Judged(rows[s]) => rows[s].rev = sc.revision
  /\ sc.pending # 0 => /\ sc.pending \in Created /\ sc.cursor < sc.pending
                       /\ \A s \in Created : s <= sc.cursor \/ sc.pending <= s
  /\ sc.phase = "refresh" => sc.pending = 0 /\ \A s \in Created : s <= sc.cursor
  /\ sc.phase # "drain" => \A s \in RebuildSubs : rows[s].run => s = sc.pending

\* A message names an existing submission and a revision that has begun; one that
\* publishes is of a rebuild that has come to its end.
JobFits(j, sc) ==
  /\ j \in JobRecord /\ j.rev <= sc.revision
  /\ j.kind \in CallKinds \cup {"retry", "dispatch"} => j.sub \in Created
  /\ j.kind = "retry" => "restore" \in rebuildWorld
  /\ j.kind = "remote" => "remote" \in rebuildWorld
  /\ j.kind = "publishON" /\ j.rev = sc.revision /\ sc.state = "REBUILDING" => sc.phase = "refresh"
  /\ j.kind = "publishOFF" /\ j.rev = sc.revision /\ sc.state = "STOPPING" => sc.phase = "disable-refresh"

ScoringFits(sc) ==
  /\ sc \in ScoringRecord
  /\ sc.state = "REBUILDING" => Advancing(sc)
  /\ sc.phase = "disable-refresh" => sc.state = "STOPPING" /\ \A s \in RebuildSubs : ~rows[s].run
  /\ sc.state = "ON" => \A s \in RebuildSubs : Judged(rows[s]) \/ rows[s].run => rows[s].rev = sc.revision
RebuildInv ==
  /\ rebuildWorld \in RebuildWorlds /\ rows \in [RebuildSubs -> RowRecord]
  /\ \A s \in RebuildSubs : RunFits(rows[s])
  /\ ScoringFits(scoring)
  /\ \A j \in rebuildJobs : JobFits(j, scoring)

\* Where data is restored, a call without the problem lock is the first of its
\* submission, is alone with a row that has no run, and is over when the drain is.
IsCall(j) == j.kind \in CallKinds
Calls(j) == IsCall(j) \/ j.kind = "retry"
CallFits(j) ==
  /\ j.rev = 0 /\ ~j.rejudge
  /\ rows[j.sub].status \in {"QU", "AB"} /\ ~rows[j.sub].run
  /\ \A k \in rebuildJobs : k.sub = j.sub /\ Calls(k) => k = j
  /\ "abort" \notin rebuildWorld => rows[j.sub].status = "QU"
  /\ "late" \notin rebuildWorld => ~Paused
  /\ scoring.state = "REBUILDING" => scoring.phase = "drain"
CallInv == "restore" \in rebuildWorld => \A j \in rebuildJobs : IsCall(j) => CallFits(j)

LEMMA RebuildInit_RebuildInv == RebuildInit => RebuildInv
<1> SUFFICES ASSUME RebuildInit PROVE RebuildInv
  OBVIOUS
<1>1. scoring \in ScoringRecord /\ scoring.state = "OFF" /\ scoring.phase = "none"
  BY DEF RebuildInit, ScoringRecord
<1>2. Fresh \in RowRecord /\ ~Fresh.run
  BY DEF Fresh, RowRecord
<1>3. rows \in [RebuildSubs -> RowRecord] /\ \A s \in RebuildSubs : ~rows[s].run
  BY <1>2 DEF RebuildInit
<1> QED
  BY <1>1, <1>3 DEF RebuildInit, RebuildInv, ScoringFits, RunFits

-----------------------------------------------------------------------------
(* Steps that change the row of one submission.                                *)

\* Who may get a run now.
MayRun(s) == ~Paused \/ (scoring.state = "REBUILDING" /\ s = scoring.pending)
RowStep(s, new) ==
  /\ rows' = [rows EXCEPT ![s] = new]
  /\ new \in RowRecord /\ new.status # "none" /\ RunFits(new)
  /\ new.run => (rows[s].run /\ new.rev = rows[s].rev) \/ (MayRun(s) /\ new.rev = scoring.revision)
  /\ Judged(new) => new.rev = rows[s].rev /\ (Judged(rows[s]) \/ rows[s].run)

LEMMA SubNumbers == \A s \in RebuildSubs \cup {0} : s \in Nat /\ (s \in RebuildSubs => s # 0)
  BY RebuildAssumption

LEMMA DispatchedKeeps ==
  ASSUME NEW r \in ScoringRecord, NEW q \in {r, Dispatched(r)}
  PROVE  /\ q \in ScoringRecord /\ q.state = r.state /\ q.revision = r.revision /\ q.phase = r.phase
         /\ q.ceiling = r.ceiling /\ q.cursor = r.cursor /\ q.pending = r.pending
<1>1. CASE q = r
  BY <1>1
<1>2. CASE q = Dispatched(r)
  <2>1. Dispatched(r) \in ScoringRecord
    BY DEF ScoringRecord, Dispatched
  <2> QED
    BY <1>2, <2>1 DEF Dispatched
<1> QED
  BY <1>1, <1>2

LEMMA RowStep_RebuildInv ==
  ASSUME RebuildInv, NEW s \in Created, NEW new, RowStep(s, new), UNCHANGED rebuildWorld,
         scoring' \in {scoring, Dispatched(scoring)},
         \A j \in rebuildJobs' : JobFits(j, scoring)
  PROVE  RebuildInv'
<1> DEFINE sc == scoring'
<1>1. /\ s \in RebuildSubs /\ rows \in [RebuildSubs -> RowRecord] /\ ScoringFits(scoring) /\ rows[s].status # "none"
      /\ new \in RowRecord /\ new.status # "none" /\ rows' = [rows EXCEPT ![s] = new]
      /\ \A r \in RebuildSubs : RunFits(rows[r])
  BY DEF RebuildInv, Created, RowStep
<1>2. /\ rows' \in [RebuildSubs -> RowRecord] /\ rows'[s] = new
      /\ \A r \in RebuildSubs : r # s => rows'[r] = rows[r]
  BY <1>1
<1>3. Created' = Created
  BY <1>1, <1>2 DEF Created
<1>4. /\ sc \in ScoringRecord /\ sc.state = scoring.state /\ sc.revision = scoring.revision
      /\ sc.phase = scoring.phase /\ sc.ceiling = scoring.ceiling /\ sc.cursor = scoring.cursor
      /\ sc.pending = scoring.pending
  BY <1>1, DispatchedKeeps DEF ScoringFits
<1> HIDE DEF sc
<1>5. \A r \in RebuildSubs : RunFits(rows[r])'
  <2>1. RunFits(new)
    BY DEF RowStep
  <2> QED
    BY <1>1, <1>2, <2>1 DEF RunFits
<1>6. \A j \in rebuildJobs' : JobFits(j, scoring)'
  BY <1>3, <1>4 DEF JobFits, sc
<1>7. scoring.state = "REBUILDING" => Advancing(scoring)'
  <2> SUFFICES ASSUME scoring.state = "REBUILDING" PROVE Advancing(scoring)'
    OBVIOUS
  <2>1. Advancing(scoring)
    BY <1>1 DEF ScoringFits
  <2>2. scoring.cursor \in Nat /\ scoring.pending \in Nat /\ s \in Nat \ {0}
    <3>1. scoring.cursor \in RebuildSubs \cup {0} /\ scoring.pending \in RebuildSubs \cup {0}
      BY <1>1 DEF ScoringFits, ScoringRecord
    <3> QED
      BY <1>1, <3>1, SubNumbers
  <2>3. \A r \in RebuildSubs : rows'[r].run => rows[r].run \/ r = scoring.pending
    BY <1>2 DEF RowStep, MayRun, Paused
  <2>4. \A r \in Created : r <= scoring.cursor /\ Judged(rows'[r]) => rows'[r].rev = scoring.revision
    <3>1. CASE Judged(new) /\ s <= scoring.cursor
      <4>1. new.rev = rows[s].rev /\ (Judged(rows[s]) \/ rows[s].run)
        BY <3>1 DEF RowStep
      <4>2. ~rows[s].run
        BY <1>1, <2>1, <2>2, <3>1 DEF Advancing
      <4> QED
        BY <1>2, <2>1, <3>1, <4>1, <4>2 DEF Advancing, Created
    <3>2. CASE ~(Judged(new) /\ s <= scoring.cursor)
      BY <1>2, <2>1, <3>2 DEF Advancing, Created
    <3> QED
      BY <3>1, <3>2
  <2> QED
    BY <1>3, <1>4, <2>1, <2>3, <2>4 DEF Advancing, Judged, sc
<1>8. scoring.phase = "disable-refresh" => \A r \in RebuildSubs : ~rows'[r].run
  BY <1>1, <1>2 DEF RowStep, MayRun, Paused, ScoringFits
<1>9. scoring.state = "ON" =>
        \A r \in RebuildSubs : Judged(rows'[r]) \/ rows'[r].run => rows'[r].rev = scoring.revision
  BY <1>1, <1>2 DEF RowStep, ScoringFits
<1>10. ScoringFits(scoring)'
  BY <1>1, <1>4, <1>7, <1>8, <1>9 DEF ScoringFits, Judged, sc
<1> QED
  BY <1>2, <1>5, <1>6, <1>10 DEF RebuildInv

\* Steps that leave the rows and, but for `dispatched`, the problem alone.
LEMMA Jobs_RebuildInv ==
  ASSUME RebuildInv, UNCHANGED <<rows, rebuildWorld>>, scoring' \in {scoring, Dispatched(scoring)},
         \A j \in rebuildJobs' : JobFits(j, scoring)
  PROVE  RebuildInv'
<1>1. /\ scoring' \in ScoringRecord /\ scoring'.state = scoring.state /\ scoring'.revision = scoring.revision
      /\ scoring'.phase = scoring.phase /\ scoring'.ceiling = scoring.ceiling /\ scoring'.cursor = scoring.cursor
      /\ scoring'.pending = scoring.pending
  BY DispatchedKeeps DEF RebuildInv, ScoringFits
<1>2. Created' = Created
  BY DEF Created
<1>3. \A j \in rebuildJobs' : JobFits(j, scoring)'
  BY <1>1, <1>2 DEF JobFits
<1>4. \A s \in RebuildSubs : RunFits(rows[s])'
  BY DEF RebuildInv, RunFits
<1>5. ScoringFits(scoring)'
  BY <1>1, <1>2 DEF RebuildInv, ScoringFits, Advancing, Judged
<1> QED
  BY <1>3, <1>4, <1>5 DEF RebuildInv

\* A row is claimed for a run, or left alone.
LEMMA ClaimRow_RowStep ==
  ASSUME RebuildInv, RestoresAlone(rebuildWorld), NEW s \in Created, NEW rev, NEW host \in Hosts, NEW rejudge,
         ClaimRow(s, rev, host, rejudge), Admitted(rev) => MayRun(s)
  PROVE  UNCHANGED rows \/ \E new : RowStep(s, new)
<1> DEFINE status == IF host = "local" THEN "P" ELSE "QU"
           new == [status |-> status, rev |-> scoring.revision, marker |-> 0, token |-> TRUE, run |-> TRUE]
<1>1. CASE NewRun(s, status) /\ Admitted(rev)
  <2>1. scoring.revision \in Nat /\ (status = "QU" => "restore" \notin rebuildWorld) /\ status \in {"P", "QU"}
    BY DEF RebuildInv, ScoringFits, ScoringRecord, RestoresAlone, Hosts
  <2>2. new \in RowRecord
    BY <2>1 DEF RowRecord, InProgress
  <2>3. /\ new.status = status /\ new.rev = scoring.revision /\ new.run
        /\ rows' = [rows EXCEPT ![s] = new]
    BY <1>1 DEF NewRun
  <2> HIDE DEF new
  <2>4. RowStep(s, new)
    BY <1>1, <2>1, <2>2, <2>3 DEF RowStep, RunFits, Judged
  <2> QED
    BY <2>4
<1>2. CASE UNCHANGED rows
  BY <1>2
<1> QED
  BY <1>1, <1>2 DEF ClaimRow

\* The two records that judge() writes when the data is not there.
LEMMA DeferIs ==
  ASSUME NEW s \in RebuildSubs, rows \in [RebuildSubs -> RowRecord], NEW rev, Defer(s, rev)
  PROVE  \/ rows[s].status = "AB" /\ UNCHANGED rows
         \/ /\ rows[s].status # "AB"
            /\ rows' = [rows EXCEPT ![s] = RowIs(rows[s], "QU", IF rev # 0 THEN rev ELSE rows[s].marker, rows[s].run)]
<1>1. CASE rows[s].status # "AB" /\ rev # 0
  <2>1. rows' = [rows EXCEPT ![s] = [rows[s] EXCEPT !.status = "QU", !.marker = rev]]
    BY <1>1 DEF Defer
  <2>2. [rows[s] EXCEPT !.status = "QU", !.marker = rev] = RowIs(rows[s], "QU", rev, rows[s].run)
    BY DeferredRow
  <2> QED
    BY <1>1, <2>1, <2>2
<1>2. CASE rows[s].status # "AB" /\ rev = 0
  <2>1. rows' = [rows EXCEPT ![s] = [rows[s] EXCEPT !.status = "QU", !.marker = rows[s].marker]]
    BY <1>2 DEF Defer
  <2>2. [rows[s] EXCEPT !.status = "QU", !.marker = rows[s].marker] = RowIs(rows[s], "QU", rows[s].marker, rows[s].run)
    BY DeferredRow
  <2> QED
    BY <1>2, <2>1, <2>2
<1> QED
  BY <1>1, <1>2 DEF Defer

LEMMA FailIs ==
  ASSUME NEW s \in RebuildSubs, rows \in [RebuildSubs -> RowRecord], Fail(s)
  PROVE  \/ rows[s].status = "AB" /\ UNCHANGED rows
         \/ /\ rows[s].status # "AB"
            /\ rows' = [rows EXCEPT ![s] = RowIs(rows[s], "IE", rows[s].marker, rows[s].run)]
<1>1. \A status : [rows EXCEPT ![s].status = status]
                   = [rows EXCEPT ![s] = RowIs(rows[s], status, rows[s].marker, rows[s].run)]
  BY StatusRow
<1> QED
  BY <1>1 DEF Fail

\* What judge() does to a row without a run when the data is not there.
LEMMA JudgeUnready_RowStep ==
  ASSUME RebuildInv, "restore" \in rebuildWorld, NEW s \in Created, ~rows[s].run,
         NEW rev \in Nat, NEW n \in Nat, NEW rejudge \in BOOLEAN,
         NEW keys, NEW jobs, JudgeUnready(s, rev, n, rejudge, keys, jobs),
         rev <= scoring.revision, \A j \in jobs : JobFits(j, scoring)
  PROVE  /\ UNCHANGED rows \/ \E new : RowStep(s, new)
         /\ \A j \in rebuildJobs' : JobFits(j, scoring)
<1>1. s \in RebuildSubs /\ rows \in [RebuildSubs -> RowRecord] /\ rows[s] \in RowRecord /\ rows[s].marker \in Nat
  BY DEF RebuildInv, Created, RowRecord
<1>2. ASSUME NEW status \in {"QU", "IE"}, NEW marker \in Nat,
             rows' = [rows EXCEPT ![s] = RowIs(rows[s], status, marker, rows[s].run)]
      PROVE  RowStep(s, RowIs(rows[s], status, marker, rows[s].run))
  <2>1. RowIs(rows[s], status, marker, rows[s].run) \in RowRecord
    BY <1>1 DEF RowRecord, RowIs, InProgress, FinalCodes
  <2> QED
    BY <1>2, <2>1 DEF RowStep, RunFits, Judged, RowIs
<1>3. CASE Defer(s, rev) /\ rebuildJobs' = IF s \in keys THEN jobs ELSE jobs \cup {RetryJob(s, rev, n + 1, rejudge)}
  <2> DEFINE marker == IF rev # 0 THEN rev ELSE rows[s].marker
  <2>1. RetryJob(s, rev, n + 1, rejudge) \in JobRecord
    BY <1>1 DEF RetryJob, JobRecord
  <2>2. JobFits(RetryJob(s, rev, n + 1, rejudge), scoring)
    BY <2>1 DEF RetryJob, JobFits
  <2>3. UNCHANGED rows \/ (marker \in Nat /\ rows' = [rows EXCEPT ![s] = RowIs(rows[s], "QU", marker, rows[s].run)])
    BY <1>1, <1>3, DeferIs
  <2> HIDE DEF marker
  <2> QED
    BY <1>2, <1>3, <2>2, <2>3
<1>4. CASE Fail(s) /\ rebuildJobs' = jobs
  <2>1. UNCHANGED rows \/ rows' = [rows EXCEPT ![s] = RowIs(rows[s], "IE", rows[s].marker, rows[s].run)]
    BY <1>1, <1>4, FailIs
  <2> QED
    BY <1>1, <1>2, <1>4, <2>1
<1> QED
  BY <1>3, <1>4 DEF JudgeUnready

\* What Submission.judge does to the row and to the messages under the problem lock.
LEMMA JudgeSub_RowStep ==
  ASSUME RebuildInv, RestoresAlone(rebuildWorld), NEW s \in Created, NEW rev \in Nat, NEW n \in Nat, NEW rejudge \in BOOLEAN,
         NEW force, NEW keys, NEW jobs, JudgeSub(s, rev, n, rejudge, force, keys, jobs),
         rev <= scoring.revision, Admitted(rev) => MayRun(s), \A j \in jobs : JobFits(j, scoring)
  PROVE  /\ UNCHANGED rows \/ \E new : RowStep(s, new)
         /\ \A j \in rebuildJobs' : JobFits(j, scoring)
<1>1. CASE rebuildJobs' = jobs /\ UNCHANGED rows
  BY <1>1
<1>2. CASE rebuildJobs' = jobs /\ \E host \in Hosts : ClaimRow(s, rev, host, rejudge)
  BY <1>2, ClaimRow_RowStep
<1>3. CASE /\ "restore" \in rebuildWorld /\ JudgeUnready(s, rev, n, rejudge, keys, jobs)
           /\ ~JudgeSkips(s, rejudge, force)
  <2>1. ~rows[s].run
    BY <1>3 DEF JudgeSkips, RebuildInv, RunFits, Created
  <2> QED
    BY <1>3, <2>1, JudgeUnready_RowStep
<1> QED
  BY <1>1, <1>2, <1>3 DEF JudgeSub

-----------------------------------------------------------------------------
(* Users and judges.                                                           *)
LEMMA JudgeJobFits == ASSUME RebuildInv, NEW s \in Created, NEW rejudge \in BOOLEAN
                      PROVE  JobFits(JudgeJob("judge", s, rejudge), scoring)
<1>1. JudgeJob("judge", s, rejudge) \in JobRecord /\ scoring.revision \in Nat
  BY DEF JudgeJob, JobRecord, CallKinds, Created, RebuildInv, ScoringFits, ScoringRecord
<1> QED
  BY <1>1 DEF JobFits, JudgeJob

LEMMA CreateSubmission_RebuildInv ==
  ASSUME RebuildInv, NEW s \in RebuildSubs, CreateSubmission(s)
  PROVE  RebuildInv'
<1>1. /\ rows \in [RebuildSubs -> RowRecord] /\ rows[s] = Fresh /\ rows' = [rows EXCEPT ![s].status = "QU"]
      /\ rebuildJobs' = rebuildJobs \cup {JudgeJob("judge", s, FALSE)} /\ UNCHANGED <<scoring, rebuildWorld>>
      /\ scoring.state \notin {"REBUILDING", "STOPPING"} /\ rebuildWorld \in RebuildWorlds
      /\ ScoringFits(scoring) /\ scoring.revision \in Nat /\ \A r \in RebuildSubs : RunFits(rows[r])
  BY DEF RebuildInv, CreateSubmission, Paused, ScoringFits, ScoringRecord
<1> DEFINE new == RowIs(Fresh, "QU", 0, FALSE)
<1>2. rows' = [rows EXCEPT ![s] = new]
  <2>1. [rows EXCEPT ![s].status = "QU"] = [rows EXCEPT ![s] = RowIs(rows[s], "QU", rows[s].marker, rows[s].run)]
    BY <1>1, StatusRow
  <2>2. rows[s].marker = 0 /\ rows[s].run = FALSE /\ rows[s] = Fresh
    BY <1>1 DEF Fresh
  <2> QED
    BY <1>1, <2>1, <2>2
<1>3. new \in RowRecord /\ ~new.run /\ new.status = "QU"
  BY DEF RowIs, RowRecord, InProgress, Fresh
<1> HIDE DEF new
<1>4. /\ rows' \in [RebuildSubs -> RowRecord] /\ rows'[s] = new
      /\ \A r \in RebuildSubs : r # s => rows'[r] = rows[r]
  BY <1>1, <1>2, <1>3
<1>5. Created \subseteq Created' /\ s \in Created'
  BY <1>3, <1>4 DEF Created
<1>6. \A j \in rebuildJobs' : JobFits(j, scoring)'
  <2>1. \A j \in rebuildJobs : JobFits(j, scoring)'
    BY <1>1, <1>5 DEF RebuildInv, JobFits
  <2>2. JudgeJob("judge", s, FALSE) \in JobRecord
    BY DEF JudgeJob, JobRecord, CallKinds
  <2>3. JobFits(JudgeJob("judge", s, FALSE), scoring)'
    BY <1>1, <1>5, <2>2 DEF JudgeJob, JobFits
  <2> QED
    BY <1>1, <2>1, <2>3
<1>7. \A r \in RebuildSubs : RunFits(rows[r])'
  BY <1>1, <1>3, <1>4 DEF RunFits
<1>8. ScoringFits(scoring)'
  BY <1>1, <1>3, <1>4 DEF ScoringFits, Judged
<1> QED
  BY <1>1, <1>4, <1>6, <1>7, <1>8 DEF RebuildInv

LEMMA Verdict_RebuildInv ==
  ASSUME RebuildInv, NEW s \in RebuildSubs, Verdict(s)
  PROVE  RebuildInv'
<1>1. /\ rows \in [RebuildSubs -> RowRecord] /\ rows[s] \in RowRecord /\ rows[s].run
      /\ rows[s].status \in InProgress /\ s \in Created
      /\ UNCHANGED <<scoring, rebuildJobs, rebuildWorld>>
  BY DEF RebuildInv, Verdict, RunFits, InProgress, Created
<1>2. PICK c \in FinalCodes :
        rows' = [rows EXCEPT ![s].run = FALSE, ![s].status = IF @ \in InProgress THEN c ELSE @]
  BY DEF Verdict
<1>3. rows' = [rows EXCEPT ![s].run = FALSE, ![s].status = c]
  BY <1>1, <1>2
<1> DEFINE new == RowIs(rows[s], c, rows[s].marker, FALSE)
<1>4. rows' = [rows EXCEPT ![s] = new]
  BY <1>1, <1>3, EndedRow
<1>5. RowStep(s, new)
  <2>1. new \in RowRecord
    BY <1>1 DEF RowRecord, RowIs
  <2>2. ~new.run /\ new.rev = rows[s].rev /\ new.status # "none"
    BY DEF RowIs, FinalCodes
  <2> HIDE DEF new
  <2> QED
    BY <1>1, <1>4, <2>1, <2>2 DEF RowStep, RunFits
<1>6. \A j \in rebuildJobs' : JobFits(j, scoring)
  BY <1>1 DEF RebuildInv
<1> QED
  BY <1>1, <1>5, <1>6, RowStep_RebuildInv

\* A row without a run that is aborted.
LEMMA Abort_RebuildInv ==
  ASSUME RebuildInv, NEW s \in Created, ~rows[s].run, rows' = [rows EXCEPT ![s].status = "AB"],
         UNCHANGED <<scoring, rebuildWorld>>, rebuildJobs' \subseteq rebuildJobs
  PROVE  RebuildInv'
<1> DEFINE new == RowIs(rows[s], "AB", rows[s].marker, rows[s].run)
<1>1. rows \in [RebuildSubs -> RowRecord] /\ rows[s] \in RowRecord /\ s \in RebuildSubs
  BY DEF RebuildInv, Created
<1>2. rows' = [rows EXCEPT ![s] = new]
  BY <1>1, AbortedRow
<1>3. RowStep(s, new)
  <2>1. new \in RowRecord
    BY <1>1 DEF RowRecord, RowIs, FinalCodes
  <2>2. ~new.run /\ new.status = "AB"
    BY DEF RowIs
  <2> HIDE DEF new
  <2> QED
    BY <1>2, <2>1, <2>2 DEF RowStep, RunFits, Judged
<1>4. \A j \in rebuildJobs' : JobFits(j, scoring)
  BY DEF RebuildInv
<1> QED
  BY <1>3, <1>4, RowStep_RebuildInv

\* A run outside of the rebuild is admitted only while nothing is paused.
LEMMA NoRebuildOfZero == RebuildInv /\ Admitted(0) => ~Paused
  BY DEF RebuildInv, ScoringFits, Advancing, Admitted

\* A call goes on, or ends: the row stays as it is.
LEMMA Proceeds_RebuildInv ==
  ASSUME RebuildInv, NEW j \in rebuildJobs, IsCall(j), NEW kinds \in SUBSET CallKinds, Proceeds(j, kinds),
         "remote" \in kinds => "remote" \in rebuildWorld,
         UNCHANGED <<scoring, rows, rebuildWorld>>
  PROVE  RebuildInv'
<1>1. JobFits(j, scoring) /\ j \in JobRecord /\ \A k \in rebuildJobs : JobFits(k, scoring)
  BY DEF RebuildInv, JobFits
<1>2. ASSUME NEW kind \in kinds PROVE JobFits([j EXCEPT !.kind = kind], scoring)
  <2> DEFINE new == [j EXCEPT !.kind = kind]
  <2>1. new \in JobRecord /\ new.kind = kind /\ new.sub = j.sub /\ new.rev = j.rev
    BY <1>1 DEF JobRecord
  <2> HIDE DEF new
  <2>2. JobFits(new, scoring)
    BY <1>1, <2>1 DEF JobFits, IsCall, CallKinds
  <2> QED
    BY <2>2 DEF new
<1>3. rebuildJobs' = (rebuildJobs \ {j}) \cup {[j EXCEPT !.kind = kind] : kind \in kinds}
  BY DEF Proceeds
<1>4. \A k \in rebuildJobs' : JobFits(k, scoring)
  BY <1>1, <1>2, <1>3
<1> QED
  BY <1>4, Jobs_RebuildInv

LEMMA SiteTask_RebuildInv ==
  ASSUME RebuildInv, CallInv, RestoresAlone(rebuildWorld), NEW j \in rebuildJobs,
         CheckAdmission(j) \/ ReadRow(j) \/ StorageAnswers(j) \/ QueueCall(j) \/ RestoreRetry(j)
  PROVE  RebuildInv'
<1>1. JobFits(j, scoring) /\ j \in JobRecord /\ \A k \in rebuildJobs : JobFits(k, scoring)
  BY DEF RebuildInv, JobFits
<1>2. CASE CheckAdmission(j) \/ ReadRow(j)
  <2>1. UNCHANGED <<scoring, rows, rebuildWorld>> /\ IsCall(j)
    BY <1>2 DEF CheckAdmission, ReadRow, IsCall, CallKinds
  <2>2. Proceeds(j, {}) \/ Proceeds(j, {"checked"}) \/ Proceeds(j, {"asked"})
    BY <1>2 DEF CheckAdmission, ReadRow
  <2>3. {} \in SUBSET CallKinds /\ {"checked"} \in SUBSET CallKinds /\ {"asked"} \in SUBSET CallKinds
    BY DEF CallKinds
  <2> QED
    BY <2>1, <2>2, <2>3, Proceeds_RebuildInv
<1>3. CASE StorageAnswers(j) \/ QueueCall(j)
  <2> DEFINE jobs == rebuildJobs \ {j}
  <2>1. /\ j.sub \in Created /\ j.rejudge \in BOOLEAN /\ UNCHANGED <<scoring, rebuildWorld>> /\ IsCall(j)
        /\ 0 <= scoring.revision
    BY <1>1, <1>3 DEF StorageAnswers, QueueCall, JobFits, JobRecord, IsCall, CallKinds, RebuildInv, ScoringFits, ScoringRecord
  <2>2. \A k \in jobs : JobFits(k, scoring)
    BY <1>1
  <2> HIDE DEF jobs
  <2>3. CASE UNCHANGED rows /\ \E host \in Hosts : Proceeds(j, {host})
    <3>1. \A host \in Hosts : {host} \in SUBSET CallKinds /\ ("remote" \in {host} => "remote" \in rebuildWorld)
      BY DEF Hosts, CallKinds
    <3> QED
      BY <2>1, <2>3, <3>1, Proceeds_RebuildInv
  <2>4. CASE "restore" \in rebuildWorld /\ JudgeUnready(j.sub, 0, 0, j.rejudge, retryKeys, jobs)
    <3>1. ~rows[j.sub].run
      BY <2>1, <2>4 DEF CallInv, CallFits
    <3>2. /\ UNCHANGED rows \/ \E new : RowStep(j.sub, new)
          /\ \A k \in rebuildJobs' : JobFits(k, scoring)
      BY <2>1, <2>2, <2>4, <3>1, JudgeUnready_RowStep
    <3> QED
      BY <2>1, <3>2, RowStep_RebuildInv, Jobs_RebuildInv
  <2>5. CASE j.kind \in {"local", "remote"} /\ ClaimRow(j.sub, 0, j.kind, j.rejudge) /\ rebuildJobs' = jobs
    <3>1. Admitted(0) => MayRun(j.sub)
      BY NoRebuildOfZero DEF MayRun
    <3>2. j.kind \in Hosts
      BY <1>1, <2>5 DEF JobFits, Hosts
    <3>3. UNCHANGED rows \/ \E new : RowStep(j.sub, new)
      BY <2>1, <2>5, <3>1, <3>2, ClaimRow_RowStep
    <3> QED
      BY <2>1, <2>2, <2>5, <3>3, RowStep_RebuildInv, Jobs_RebuildInv
  <2> QED
    BY <1>3, <2>3, <2>4, <2>5 DEF StorageAnswers, QueueCall, jobs
<1>4. CASE RestoreRetry(j)
  <2> DEFINE jobs == rebuildJobs \ {j}
             s == j.sub
  <2>1. /\ s \in Created /\ s \in RebuildSubs /\ UNCHANGED <<scoring, rebuildWorld>>
        /\ j.rev \in Nat /\ j.n \in Nat /\ j.rejudge \in BOOLEAN /\ j.rev <= scoring.revision
        /\ RunFits(rows[s]) /\ "restore" \in rebuildWorld
    BY <1>1, <1>4 DEF RestoreRetry, JobFits, JobRecord, RebuildInv, Created
  <2>2. \A k \in jobs : JobFits(k, scoring)
    BY <1>1
  <2>3. CASE RetryReleases(j)
    <3>1. rebuildJobs' \subseteq rebuildJobs /\ rows' = IF OwnDeferred(j) THEN [rows EXCEPT ![s].status = "AB"] ELSE rows
      BY <2>3 DEF RetryReleases, Replace
    <3>2. CASE OwnDeferred(j)
      <4>1. ~rows[s].run
        BY <2>1, <3>2 DEF OwnDeferred, RunFits
      <4> QED
        BY <2>1, <3>1, <3>2, <4>1, Abort_RebuildInv
    <3>3. CASE ~OwnDeferred(j)
      BY <1>1, <2>1, <3>1, <3>3, Jobs_RebuildInv
    <3> QED
      BY <3>2, <3>3
  <2>4. CASE RetryJudges(j)
    <3>1. CASE UNCHANGED rows /\ rebuildJobs' = jobs
      BY <2>1, <2>2, <3>1, Jobs_RebuildInv
    <3>2. CASE /\ JudgeSub(s, j.rev, j.n, j.rejudge, j.rev = 0, retryKeys \ {s}, jobs)
               /\ j.rev # 0 => ~Superseded(j)
      <4>1. Admitted(j.rev) => MayRun(s)
        BY <3>2, NoRebuildOfZero DEF MayRun, Superseded
      <4> HIDE DEF jobs
      <4>2. /\ UNCHANGED rows \/ \E new : RowStep(s, new)
            /\ \A k \in rebuildJobs' : JobFits(k, scoring)
        BY <2>1, <2>2, <3>2, <4>1, JudgeSub_RowStep
      <4> QED
        BY <2>1, <4>2, RowStep_RebuildInv, Jobs_RebuildInv
    <3> QED
      BY <2>4, <3>1, <3>2 DEF RetryJudges, Replace
  <2> QED
    BY <1>4, <2>3, <2>4 DEF RestoreRetry
<1> QED
  BY <1>2, <1>3, <1>4

-----------------------------------------------------------------------------
(* Steps that change the columns of the problem.                               *)
LEMMA Scoring_RebuildInv ==
  ASSUME RebuildInv, UNCHANGED <<rows, rebuildWorld>>, NEW sc, scoring' = sc, ScoringFits(sc),
         \A j \in rebuildJobs' : JobFits(j, sc)
  PROVE  RebuildInv'
<1>1. Created' = Created
  BY DEF Created
<1>2. ScoringFits(scoring)'
  BY <1>1 DEF ScoringFits, Advancing, Judged
<1>3. \A j \in rebuildJobs' : JobFits(j, scoring)'
  BY <1>1 DEF JobFits
<1>4. \A s \in RebuildSubs : RunFits(rows[s])'
  BY DEF RebuildInv, RunFits
<1> QED
  BY <1>2, <1>3, <1>4 DEF RebuildInv

LEMMA StepJobFits ==
  ASSUME NEW rev \in Nat, NEW s \in RebuildSubs \cup {0}, NEW sc \in ScoringRecord, rev <= sc.revision
  PROVE  /\ JobFits(StepJob(rev), sc)
         /\ s \in Created => JobFits(TaskJob("dispatch", s, rev), sc)
         /\ sc.phase = "refresh" => JobFits(TaskJob("publishON", 0, rev), sc)
         /\ sc.phase = "disable-refresh" => JobFits(TaskJob("publishOFF", 0, rev), sc)
<1>1. ASSUME NEW kind \in {"step", "dispatch", "publishON", "publishOFF"}, NEW x \in RebuildSubs \cup {0}
      PROVE  TaskJob(kind, x, rev) \in JobRecord
  BY DEF TaskJob, JobRecord
<1> QED
  BY <1>1 DEF StepJob, TaskJob, JobFits, CallKinds

\* A rebuild that begins: nothing has been rejudged.
LEMMA Enable_RebuildInv == ASSUME RebuildInv, Enable PROVE RebuildInv'
<1> DEFINE rev == scoring.revision + 1
           top == IF Created = {} THEN 0 ELSE CHOOSE s \in Created : \A r \in Created : r <= s
           start == [state |-> "REBUILDING", revision |-> rev, phase |-> "drain", cursor |-> 0,
                     ceiling |-> top, pending |-> 0, dispatched |-> FALSE]
           fail == [state |-> "FAILED", revision |-> rev, phase |-> "drain", cursor |-> 0,
                    ceiling |-> top, pending |-> 0, dispatched |-> FALSE]
<1>1. /\ \/ scoring' = start /\ rebuildJobs' = rebuildJobs \cup {StepJob(rev)}
         \/ scoring' = [start EXCEPT !.state = "FAILED"] /\ UNCHANGED rebuildJobs
      /\ UNCHANGED <<rows, rebuildWorld>>
  BY DEF Enable
<1>2. Created \subseteq RebuildSubs /\ Created \subseteq Nat \ {0} /\ IsFiniteSet(Created)
  BY RebuildAssumption, FS_Subset DEF Created
<1>3. top \in RebuildSubs \cup {0} /\ \A s \in Created : s <= top
  <2>1. CASE Created = {}
    BY <2>1
  <2>2. CASE Created # {}
    <3>1. \E s \in Created : \A r \in Created : r <= s
      BY <1>2, <2>2, GreatestExists
    <3> QED
      BY <1>2, <2>2, <3>1
  <2> QED
    BY <2>1, <2>2
<1>4. scoring.revision \in Nat /\ rev \in Nat /\ rev # 0 /\ scoring.revision < rev
  BY DEF RebuildInv, ScoringFits, ScoringRecord
<1> HIDE DEF rev, top
<1>5. start \in ScoringRecord /\ fail \in ScoringRecord /\ [start EXCEPT !.state = "FAILED"] = fail
  <2>1. start \in ScoringRecord /\ fail \in ScoringRecord
    BY <1>3, <1>4 DEF ScoringRecord
  <2>2. Failed(start) = fail
    BY DEF Failed
  <2> HIDE DEF start, fail
  <2> QED
    BY <2>1, <2>2, ScoringIs
<1>6. \A s \in Created : ~(s <= 0)
  BY <1>2
<1>7. ScoringFits(start) /\ ScoringFits(fail)
  BY <1>3, <1>4, <1>5, <1>6 DEF ScoringFits, Advancing
<1>8. \A j \in rebuildJobs : JobFits(j, start) /\ JobFits(j, fail)
  <2> SUFFICES ASSUME NEW j \in rebuildJobs PROVE JobFits(j, start) /\ JobFits(j, fail)
    OBVIOUS
  <2>1. JobFits(j, scoring) /\ j.rev \in Nat
    BY DEF RebuildInv, JobFits, JobRecord
  <2>2. j.rev <= rev /\ j.rev # rev
    BY <1>4, <2>1 DEF JobFits
  <2> QED
    BY <2>1, <2>2 DEF JobFits
<1>9. JobFits(StepJob(rev), start)
  BY <1>4, <1>5, StepJobFits
<1> HIDE DEF start, fail
<1> QED
  BY <1>1, <1>5, <1>7, <1>8, <1>9, Scoring_RebuildInv

LEMMA Disable_RebuildInv == ASSUME RebuildInv, Disable PROVE RebuildInv'
<1> DEFINE sc == Stopping(scoring)
<1>1. scoring \in ScoringRecord /\ scoring.revision \in Nat /\ ScoringFits(scoring)
  BY DEF RebuildInv, ScoringFits, ScoringRecord
<1>2. /\ sc \in ScoringRecord /\ sc.revision = scoring.revision + 1 /\ sc.phase = scoring.phase
      /\ sc.state = "STOPPING"
  BY <1>1 DEF Stopping, ScoringRecord
<1>3. /\ scoring' = sc /\ UNCHANGED <<rows, rebuildWorld>>
      /\ rebuildJobs' \subseteq rebuildJobs \cup {StepJob(scoring'.revision)}
  BY <1>1, ScoringIs DEF Disable
<1> HIDE DEF sc
<1>4. ScoringFits(sc)
  BY <1>1, <1>2 DEF ScoringFits
<1>5. \A j \in rebuildJobs : JobFits(j, sc)
  <2> SUFFICES ASSUME NEW j \in rebuildJobs PROVE JobFits(j, sc)
    OBVIOUS
  <2>1. JobFits(j, scoring) /\ j.rev \in Nat
    BY DEF RebuildInv, JobFits, JobRecord
  <2>2. j.rev <= sc.revision /\ j.rev # sc.revision
    BY <1>1, <1>2, <2>1 DEF JobFits
  <2> QED
    BY <2>1, <2>2 DEF JobFits
<1>6. JobFits(StepJob(sc.revision), sc)
  BY <1>1, <1>2, StepJobFits
<1> QED
  BY <1>3, <1>4, <1>5, <1>6, Scoring_RebuildInv

\* A task that ends, or that marks its rebuild as failed.
LEMMA Fails_RebuildInv ==
  ASSUME RebuildInv, NEW j \in rebuildJobs, Fails(j) \/ Ends(j), UNCHANGED <<rows, rebuildWorld>>
  PROVE  RebuildInv'
<1>1. scoring \in ScoringRecord /\ ScoringFits(scoring) /\ \A k \in rebuildJobs' : JobFits(k, scoring)
  BY DEF RebuildInv, ScoringFits, Fails, Ends, Replace
<1>2. CASE scoring' = [scoring EXCEPT !.state = "FAILED"] /\ scoring.state = "REBUILDING"
  <2> DEFINE sc == Failed(scoring)
  <2>1. sc \in ScoringRecord /\ sc.state = "FAILED" /\ sc.revision = scoring.revision /\ sc.phase = scoring.phase
    BY <1>1 DEF Failed, ScoringRecord
  <2>2. scoring' = sc
    BY <1>1, <1>2, ScoringIs
  <2> HIDE DEF sc
  <2>3. ScoringFits(sc)
    BY <1>1, <1>2, <2>1 DEF ScoringFits
  <2>4. \A k \in rebuildJobs' : JobFits(k, sc)
    BY <1>1, <2>1 DEF JobFits
  <2> QED
    BY <2>2, <2>3, <2>4, Scoring_RebuildInv
<1>3. CASE UNCHANGED scoring
  BY <1>1, <1>3, Jobs_RebuildInv
<1> QED
  BY <1>2, <1>3 DEF Fails, Ends

-----------------------------------------------------------------------------
(* The rebuild task.                                                           *)

\* The drain, and the result of the pending submission, leave nothing at the judges.
LEMMA StepAdvance_RebuildInv ==
  ASSUME RebuildInv, NEW j \in rebuildJobs, Current(j), scoring.state = "REBUILDING", StepAdvance(j),
         UNCHANGED <<rows, rebuildWorld>>
  PROVE  RebuildInv'
<1> DEFINE cursor == IF scoring.pending = 0 THEN scoring.cursor ELSE scoring.pending
           todo == {s \in Created : cursor < s /\ s <= scoring.ceiling}
           next == CHOOSE s \in todo : \A r \in todo : s <= r
           at(phase, pending) == [scoring EXCEPT !.cursor = cursor, !.phase = phase,
                                                 !.pending = pending, !.dispatched = FALSE]
<1>1. /\ scoring \in ScoringRecord /\ Advancing(scoring) /\ \A s \in RebuildSubs : RunFits(rows[s])
      /\ j.rev = scoring.revision /\ j.rev \in Nat
  BY DEF RebuildInv, ScoringFits, Current, JobFits, JobRecord
<1>2. /\ scoring.pending # 0 => scoring.dispatched /\ Rebuilt(scoring.pending)
      /\ scoring.phase = "drain" => Drained
      /\ \/ todo = {} /\ scoring' = at("refresh", 0) /\ Replace(j, {TaskJob("publishON", 0, j.rev)})
         \/ /\ todo # {}
            /\ scoring' = at("rejudge", next) /\ Replace(j, {TaskJob("dispatch", next, j.rev)})
         \/ Fails(j)
  BY DEF StepAdvance
<1>3. /\ scoring.cursor \in RebuildSubs \cup {0} /\ scoring.pending \in RebuildSubs \cup {0}
      /\ scoring.ceiling \in RebuildSubs \cup {0} /\ scoring.phase \in {"drain", "rejudge", "refresh"}
      /\ Created \subseteq RebuildSubs
  BY <1>1 DEF ScoringRecord, Advancing, Created
<1>4. cursor \in RebuildSubs \cup {0}
  BY <1>3
<1>5. \A s \in RebuildSubs : ~rows[s].run
  <2> SUFFICES ASSUME NEW s \in RebuildSubs, rows[s].run PROVE FALSE
    OBVIOUS
  <2>1. rows[s].status \in InProgress
    BY <1>1 DEF RunFits, InProgress
  <2>2. scoring.phase # "drain"
    BY <1>2, <2>1 DEF Drained, ActiveRows
  <2>3. s = scoring.pending
    BY <1>1, <2>2 DEF Advancing
  <2>4. Rebuilt(s)
    BY <1>2, <2>3, SubNumbers
  <2> QED
    BY <2>1, <2>4 DEF Rebuilt, InProgress
<1>6. \A s \in Created : s <= cursor /\ Judged(rows[s]) => rows[s].rev = scoring.revision
  <2> SUFFICES ASSUME NEW s \in Created, s <= cursor, Judged(rows[s]) PROVE rows[s].rev = scoring.revision
    OBVIOUS
  <2>1. CASE scoring.pending = 0
    BY <1>1, <2>1 DEF Advancing
  <2>2. CASE scoring.pending # 0
    <3>1. s <= scoring.cursor \/ scoring.pending <= s
      BY <1>1, <2>2 DEF Advancing
    <3>2. s \in Nat /\ scoring.pending \in Nat /\ s <= scoring.pending
      BY <1>3, <2>2, SubNumbers
    <3>3. CASE s <= scoring.cursor
      BY <1>1, <3>3 DEF Advancing
    <3>4. CASE s = scoring.pending
      BY <1>2, <2>2, <3>4 DEF Rebuilt
    <3> QED
      BY <3>1, <3>2, <3>3, <3>4
  <2> QED
    BY <2>1, <2>2
<1>7. \A s \in Created : s <= cursor \/ s \in todo
  <2> SUFFICES ASSUME NEW s \in Created PROVE s <= cursor \/ s \in todo
    OBVIOUS
  <2>1. s <= scoring.ceiling /\ s \in Nat /\ cursor \in Nat
    BY <1>1, <1>3, <1>4, SubNumbers DEF Advancing
  <2> HIDE DEF cursor
  <2> QED
    BY <2>1
<1>8. scoring.phase = "refresh" => todo = {}
  <2> SUFFICES ASSUME scoring.phase = "refresh", NEW s \in todo PROVE FALSE
    OBVIOUS
  <2>1. cursor = scoring.cursor /\ s <= scoring.cursor
    BY <1>1 DEF Advancing
  <2>2. cursor < s /\ s \in Nat /\ scoring.cursor \in Nat
    BY <1>3, SubNumbers
  <2> HIDE DEF cursor
  <2> QED
    BY <2>1, <2>2
<1>9. ASSUME NEW phase \in {"rejudge", "refresh"}, NEW pending \in RebuildSubs \cup {0},
              scoring' = at(phase, pending),
              phase = "refresh" => pending = 0 /\ todo = {},
              todo = {} => phase = "refresh",
              pending # 0 => pending \in todo /\ \A r \in todo : pending <= r,
              NEW kind \in {"publishON", "dispatch"}, Replace(j, {TaskJob(kind, pending, j.rev)}),
              kind = "publishON" => phase = "refresh" /\ pending = 0, kind = "dispatch" => pending \in Created
       PROVE  RebuildInv'
  <2> DEFINE sc == Advanced(scoring, cursor, phase, pending)
  <2>1. scoring' = sc
    <3>1. scoring' = [scoring EXCEPT !.cursor = cursor, !.phase = phase, !.pending = pending, !.dispatched = FALSE]
      BY <1>9
    <3> HIDE DEF cursor
    <3>2. scoring \in ScoringRecord
      BY <1>1
    <3> QED
      BY <3>1, <3>2 DEF ScoringRecord, Advanced
  <2>2. sc \in ScoringRecord
    <3> HIDE DEF cursor
    <3>1. pending \in RebuildSubs \cup {0} /\ cursor \in RebuildSubs \cup {0} /\ scoring \in ScoringRecord
      BY <1>1, <1>4, <1>9
    <3> QED
      BY <1>9, <3>1 DEF Advanced, ScoringRecord
  <2>3. /\ sc.state = "REBUILDING" /\ sc.revision = scoring.revision /\ sc.phase = phase
        /\ sc.ceiling = scoring.ceiling /\ sc.cursor = cursor /\ sc.pending = pending
    <3> HIDE DEF cursor
    <3> QED
      BY DEF Advanced
  <2>4. pending # 0 => pending \in Created /\ cursor < pending /\ \A s \in Created : s <= cursor \/ pending <= s
    BY <1>7, <1>9
  <2>5. phase = "refresh" => \A s \in Created : s <= cursor
    BY <1>7, <1>9
  <2> HIDE DEF cursor, todo, sc
  <2>6. Advancing(sc)
    BY <1>1, <1>5, <1>6, <1>9, <2>3, <2>4, <2>5 DEF Advancing
  <2>7. ScoringFits(sc)
    BY <1>9, <2>2, <2>3, <2>6 DEF ScoringFits
  <2>8. ASSUME NEW k \in rebuildJobs PROVE JobFits(k, sc)
    <3>1. JobFits(k, scoring)
      BY DEF RebuildInv
    <3>2. scoring.phase = "refresh" => phase = "refresh"
      BY <1>8, <1>9
    <3> QED
      BY <2>3, <3>1, <3>2 DEF JobFits
  <2>9. JobFits(TaskJob(kind, pending, j.rev), sc)
    <3>1. j.rev <= sc.revision
      BY <1>1, <2>3
    <3> QED
      BY <1>1, <1>9, <2>2, <2>3, <3>1, StepJobFits
  <2> QED
    BY <1>9, <2>1, <2>7, <2>8, <2>9, Scoring_RebuildInv DEF Replace
<1>10. CASE todo = {} /\ scoring' = at("refresh", 0) /\ Replace(j, {TaskJob("publishON", 0, j.rev)})
  <2> HIDE DEF at, todo
  <2> QED
    BY <1>9, <1>10
<1>11. CASE todo # {} /\ scoring' = at("rejudge", next) /\ Replace(j, {TaskJob("dispatch", next, j.rev)})
  <2>1. \E s \in todo : \A r \in todo : s <= r
    <3>1. todo \in SUBSET Nat
      BY <1>3, SubNumbers
    <3> HIDE DEF todo
    <3> QED
      BY <1>11, <3>1, LeastExists
  <2>2. next \in todo /\ \A r \in todo : next <= r
    <3> HIDE DEF todo
    <3> QED
      BY <2>1
  <2>3. next \in Created /\ next \in RebuildSubs \cup {0}
    <3> HIDE DEF next
    <3> QED
      BY <1>3, <2>2
  <2> HIDE DEF at, next, todo
  <2> QED
    BY <1>9, <1>11, <2>2, <2>3
<1>12. CASE Fails(j)
  BY <1>12, Fails_RebuildInv
<1> HIDE DEF at, todo, next
<1> QED
  BY <1>2, <1>10, <1>11, <1>12

LEMMA StepStopping_RebuildInv ==
  ASSUME RebuildInv, NEW j \in rebuildJobs, Current(j), StepStopping(j), UNCHANGED <<rows, rebuildWorld>>
  PROVE  RebuildInv'
<1> DEFINE sc == Phase(scoring, scoring.state, "disable-refresh")
<1>1. /\ scoring \in ScoringRecord /\ j.rev = scoring.revision /\ j.rev \in Nat /\ scoring.state = "STOPPING"
      /\ \A s \in RebuildSubs : ~rows[s].run
  BY DEF RebuildInv, ScoringFits, Current, JobFits, JobRecord, StepStopping, Drained, ActiveRows, RunFits, InProgress
<1>2. sc \in ScoringRecord /\ sc.state = "STOPPING" /\ sc.revision = scoring.revision /\ sc.phase = "disable-refresh"
  BY <1>1 DEF ScoringRecord, Phase
<1>3. scoring' = sc /\ Replace(j, {TaskJob("publishOFF", 0, j.rev)})
  BY <1>1, ScoringIs DEF StepStopping
<1> HIDE DEF sc
<1>4. ScoringFits(sc)
  BY <1>1, <1>2 DEF ScoringFits
<1>5. \A k \in rebuildJobs : JobFits(k, sc)
  BY <1>1, <1>2 DEF RebuildInv, JobFits
<1>6. JobFits(TaskJob("publishOFF", 0, j.rev), sc)
  <2>1. j.rev <= sc.revision
    BY <1>1, <1>2
  <2> QED
    BY <1>1, <1>2, <2>1, StepJobFits
<1> QED
  BY <1>3, <1>4, <1>5, <1>6, Scoring_RebuildInv DEF Replace

LEMMA Publish_RebuildInv == ASSUME RebuildInv, NEW j \in rebuildJobs, Publish(j) PROVE RebuildInv'
<1> DEFINE from == IF j.kind = "publishON" THEN "REBUILDING" ELSE "STOPPING"
           to == IF j.kind = "publishON" THEN "ON" ELSE "OFF"
           sc == Phase(scoring, to, "done")
<1>1. /\ scoring \in ScoringRecord /\ ScoringFits(scoring) /\ JobFits(j, scoring)
      /\ \A k \in rebuildJobs : JobFits(k, scoring)
      /\ j.kind \in {"publishON", "publishOFF"} /\ UNCHANGED <<rows, rebuildWorld>>
  BY DEF RebuildInv, ScoringFits, Publish
<1>2. CASE /\ j.rev = scoring.revision /\ scoring.state = from
           /\ scoring' = [scoring EXCEPT !.state = to, !.phase = "done"] /\ Replace(j, {})
  <2>1. scoring' = sc
    <3> HIDE DEF to
    <3>1. [scoring EXCEPT !.state = to, !.phase = "done"] = Phase(scoring, to, "done")
      BY <1>1, PhaseIs
    <3> QED
      BY <1>2, <3>1
  <2>2. sc \in ScoringRecord /\ sc.state = to /\ sc.revision = scoring.revision /\ sc.phase = "done"
    BY <1>1 DEF ScoringRecord, Phase
  <2> HIDE DEF sc
  <2>3. ScoringFits(sc)
    <3>1. CASE j.kind = "publishON"
      <4>1. scoring.phase = "refresh" /\ Advancing(scoring)
        BY <1>1, <1>2, <3>1 DEF JobFits, ScoringFits
      <4>2. \A s \in RebuildSubs : ~rows[s].run
        BY <4>1, SubNumbers DEF Advancing
      <4>3. \A s \in Created : Judged(rows[s]) => rows[s].rev = scoring.revision
        BY <4>1 DEF Advancing
      <4>4. \A s \in RebuildSubs : Judged(rows[s]) \/ rows[s].run => rows[s].rev = scoring.revision
        BY <4>2, <4>3 DEF Created, Judged
      <4> QED
        BY <2>2, <3>1, <4>4 DEF ScoringFits
    <3>2. CASE j.kind # "publishON"
      BY <2>2, <3>2 DEF ScoringFits
    <3> QED
      BY <3>1, <3>2
  <2>4. \A k \in rebuildJobs : JobFits(k, sc)
    BY <1>1, <2>2 DEF JobFits
  <2> QED
    BY <1>1, <1>2, <2>1, <2>3, <2>4, Scoring_RebuildInv DEF Replace
<1>3. CASE Fails(j) \/ Ends(j)
  BY <1>1, <1>3, Fails_RebuildInv
<1> QED
  BY <1>2, <1>3 DEF Publish

LEMMA RebuildStep_RebuildInv == ASSUME RebuildInv, NEW j \in rebuildJobs, RebuildStep(j) PROVE RebuildInv'
<1>1. UNCHANGED <<rows, rebuildWorld>> /\ j.rev \in Nat /\ j.rev <= scoring.revision /\ scoring \in ScoringRecord
  BY DEF RebuildStep, RebuildInv, JobFits, JobRecord, ScoringFits
<1>2. CASE Ends(j) \/ Fails(j)
  BY <1>1, <1>2, Fails_RebuildInv
<1>3. CASE Current(j) /\ StepStopping(j)
  BY <1>1, <1>3, StepStopping_RebuildInv
<1>4. CASE Current(j) /\ scoring.state = "REBUILDING" /\ StepDispatchAgain(j)
  <2>1. /\ UNCHANGED scoring /\ scoring.pending \in Created /\ scoring.pending \in RebuildSubs \cup {0}
        /\ rebuildJobs' \subseteq rebuildJobs \cup {TaskJob("dispatch", scoring.pending, j.rev)}
    BY <1>1, <1>4 DEF StepDispatchAgain, Replace, RebuildInv, ScoringFits, Advancing, Created
  <2>2. JobFits(TaskJob("dispatch", scoring.pending, j.rev), scoring)
    BY <1>1, <2>1, StepJobFits
  <2> QED
    BY <1>1, <2>1, <2>2, Jobs_RebuildInv DEF RebuildInv
<1>5. CASE Current(j) /\ scoring.state = "REBUILDING" /\ StepAdvance(j)
  BY <1>1, <1>5, StepAdvance_RebuildInv
<1> QED
  BY <1>2, <1>3, <1>4, <1>5 DEF RebuildStep, StepRejected

LEMMA Dispatch_RebuildInv ==
  ASSUME RebuildInv, RestoresAlone(rebuildWorld), NEW j \in rebuildJobs, Dispatch(j)
  PROVE  RebuildInv'
<1> DEFINE jobs == (rebuildJobs \ {j}) \cup {StepJob(j.rev)}
<1>1. /\ UNCHANGED rebuildWorld /\ j.rev \in Nat /\ j.rev <= scoring.revision /\ scoring \in ScoringRecord
      /\ j.sub \in Created
  BY DEF Dispatch, RebuildInv, JobFits, JobRecord, ScoringFits
<1>2. CASE (Ends(j) \/ Fails(j)) /\ UNCHANGED rows
  BY <1>1, <1>2, Fails_RebuildInv
<1>3. CASE /\ scoring.state = "REBUILDING" /\ scoring.pending = j.sub
           /\ JudgeSub(j.sub, j.rev, 0, TRUE, FALSE, retryKeys, jobs)
           /\ scoring' = [scoring EXCEPT !.dispatched = TRUE]
  <2>1. scoring' = Dispatched(scoring)
    BY <1>1, <1>3, ScoringIs
  <2>2. JobFits(StepJob(j.rev), scoring)
    BY <1>1, StepJobFits
  <2>3. \A k \in jobs : JobFits(k, scoring)
    BY <2>2 DEF RebuildInv
  <2>4. MayRun(j.sub)
    BY <1>3 DEF MayRun
  <2> HIDE DEF jobs
  <2>5. /\ UNCHANGED rows \/ \E new : RowStep(j.sub, new)
        /\ \A k \in rebuildJobs' : JobFits(k, scoring)
    BY <1>1, <1>3, <2>3, <2>4, JudgeSub_RowStep
  <2> QED
    BY <1>1, <2>1, <2>5, RowStep_RebuildInv, Jobs_RebuildInv
<1> QED
  BY <1>2, <1>3 DEF Dispatch

LEMMA RebuildNext_RebuildInv ==
  RestoresAlone(rebuildWorld) /\ RebuildInv /\ CallInv /\ [RebuildNext]_rebuildVars => RebuildInv'
<1> SUFFICES ASSUME RestoresAlone(rebuildWorld), RebuildInv, CallInv, [RebuildNext]_rebuildVars PROVE RebuildInv'
  OBVIOUS
<1>1. \A j \in rebuildJobs : JobFits(j, scoring)
  BY DEF RebuildInv
<1>2. CASE RebuildTask
  BY <1>2, RebuildStep_RebuildInv, Dispatch_RebuildInv, Publish_RebuildInv DEF RebuildTask
<1>3. CASE SiteTask
  BY <1>3, SiteTask_RebuildInv DEF SiteTask
<1>4. ASSUME NEW j \in rebuildJobs, Redelivered(j) PROVE RebuildInv'
  <2>1. j.rev \in Nat /\ j.rev <= scoring.revision /\ scoring \in ScoringRecord
    BY <1>1 DEF RebuildInv, JobFits, JobRecord, ScoringFits
  <2>2. JobFits(StepJob(j.rev), scoring)
    BY <2>1, StepJobFits
  <2>3. rebuildJobs' \subseteq rebuildJobs \cup {StepJob(j.rev)} /\ UNCHANGED <<scoring, rows, rebuildWorld>>
    BY <1>4 DEF Redelivered
  <2> QED
    BY <1>1, <2>2, <2>3, Jobs_RebuildInv
<1>5. CASE Enable \/ Disable
  BY <1>5, Enable_RebuildInv, Disable_RebuildInv
<1>6. ASSUME NEW s \in RebuildSubs, CreateSubmission(s) \/ Verdict(s) PROVE RebuildInv'
  BY <1>6, CreateSubmission_RebuildInv, Verdict_RebuildInv
<1>7. ASSUME NEW s \in RebuildSubs, RequestRejudge(s) PROVE RebuildInv'
  <2>1. /\ s \in Created /\ rebuildJobs' = rebuildJobs \cup {JudgeJob("judge", s, TRUE)}
        /\ UNCHANGED <<scoring, rows, rebuildWorld>>
    BY <1>7 DEF RequestRejudge
  <2>2. JobFits(JudgeJob("judge", s, TRUE), scoring)
    BY <2>1, JudgeJobFits
  <2> QED
    BY <1>1, <2>1, <2>2, Jobs_RebuildInv
<1>8. ASSUME NEW s \in RebuildSubs, AbortDeferred(s) PROVE RebuildInv'
  <2>1. s \in Created /\ ~rows[s].run /\ rows' = [rows EXCEPT ![s].status = "AB"]
        /\ UNCHANGED <<scoring, rebuildJobs, rebuildWorld>>
    BY <1>8 DEF AbortDeferred, Created, InProgress
  <2> QED
    BY <2>1, Abort_RebuildInv
<1>9. CASE UNCHANGED <<scoring, rows, rebuildJobs, rebuildWorld>>
  BY <1>1, <1>9, Jobs_RebuildInv
<1> QED
  BY <1>2, <1>3, <1>4, <1>5, <1>6, <1>7, <1>8, <1>9 DEF RebuildNext, LockedAfterPasses, KeyExpires, rebuildVars

-----------------------------------------------------------------------------
(* Calls without the problem lock, where data is restored.                     *)

\* Steps on one row and the messages about it.
LEMMA Row_CallInv ==
  ASSUME RebuildInv, CallInv, NEW s, UNCHANGED rebuildWorld,
         scoring'.state = scoring.state, scoring'.phase = scoring.phase,
         \A r \in RebuildSubs \ {s} : rows'[r] = rows[r],
         \A k \in rebuildJobs' : Calls(k) => k.sub = s \/ k \in rebuildJobs,
         "restore" \in rebuildWorld => \A k \in rebuildJobs' : IsCall(k) /\ k.sub = s => CallFits(k)'
  PROVE  CallInv'
<1> SUFFICES ASSUME "restore" \in rebuildWorld, NEW k \in rebuildJobs', IsCall(k), k.sub # s PROVE CallFits(k)'
  BY DEF CallInv
<1>1. k \in rebuildJobs /\ CallFits(k) /\ k.sub \in RebuildSubs
  BY DEF CallInv, Calls, RebuildInv, JobFits, IsCall, Created
<1>2. rows'[k.sub] = rows[k.sub] /\ Paused' = Paused
  BY <1>1 DEF Paused
<1> QED
  BY <1>1, <1>2 DEF CallFits, Calls

\* Steps on the columns of the problem: while there are calls, the problem is not
\* paused, or a rebuild begins.
LEMMA Problem_CallInv ==
  ASSUME RebuildInv, CallInv, UNCHANGED <<rows, rebuildWorld>>,
         \A k \in rebuildJobs' : Calls(k) => k \in rebuildJobs,
         "restore" \in rebuildWorld /\ (\E k \in rebuildJobs : IsCall(k)) =>
           /\ Paused' => Paused \/ "late" \in rebuildWorld
           /\ scoring'.state = "REBUILDING" => scoring'.phase = "drain"
  PROVE  CallInv'
<1> SUFFICES ASSUME "restore" \in rebuildWorld, NEW k \in rebuildJobs', IsCall(k) PROVE CallFits(k)'
  BY DEF CallInv
<1>1. k \in rebuildJobs /\ CallFits(k)
  BY DEF CallInv, Calls
<1> QED
  BY <1>1 DEF CallFits, Calls

LEMMA Quiet_CallInv ==
  ASSUME RebuildInv, CallInv, UNCHANGED <<scoring, rows, rebuildWorld>>,
         \A k \in rebuildJobs' : Calls(k) => k \in rebuildJobs
  PROVE  CallInv'
<1>1. Paused' = Paused
  BY DEF Paused
<1>2. "restore" \in rebuildWorld /\ (\E k \in rebuildJobs : IsCall(k)) =>
        (scoring'.state = "REBUILDING" => scoring'.phase = "drain")
  BY DEF CallInv, CallFits
<1> QED
  BY <1>1, <1>2, Problem_CallInv

\* A call that goes on is still alone with its row.
LEMMA Proceeds_CallInv ==
  ASSUME RebuildInv, CallInv, NEW j \in rebuildJobs, IsCall(j), NEW kinds, Proceeds(j, kinds),
         kinds = {} \/ \E kind \in CallKinds : kinds = {kind}, UNCHANGED <<scoring, rows, rebuildWorld>>
  PROVE  CallInv'
<1>1. CASE kinds = {}
  BY <1>1, Quiet_CallInv DEF Proceeds
<1>2. ASSUME NEW kind \in CallKinds, kinds = {kind} PROVE CallInv'
  <2> DEFINE new == [j EXCEPT !.kind = kind]
  <2>1. new.sub = j.sub /\ new.rev = j.rev /\ new.rejudge = j.rejudge
    BY DEF RebuildInv, JobFits, JobRecord
  <2>2. rebuildJobs' = (rebuildJobs \ {j}) \cup {new}
    BY <1>2 DEF Proceeds
  <2> HIDE DEF new
  <2>3. Paused' = Paused
    BY DEF Paused
  <2>4. ASSUME "restore" \in rebuildWorld, NEW k \in rebuildJobs', IsCall(k), k.sub = j.sub PROVE CallFits(k)'
    <3>1. CallFits(j) /\ k = new
      BY <2>2, <2>4 DEF CallInv, CallFits, Calls
    <3> QED
      BY <2>1, <2>2, <2>3, <3>1 DEF CallFits
  <2> QED
    BY <2>1, <2>2, <2>4, Row_CallInv
<1> QED
  BY <1>1, <1>2

\* Steps on one row whose call, if there was one, is over.
LEMMA Over_CallInv ==
  ASSUME RebuildInv, CallInv, NEW s, UNCHANGED rebuildWorld,
         scoring'.state = scoring.state, scoring'.phase = scoring.phase,
         \A r \in RebuildSubs \ {s} : rows'[r] = rows[r],
         NEW j \in rebuildJobs, j.sub = s, Calls(j), \A k \in rebuildJobs' : IsCall(k) => k \in rebuildJobs \ {j},
         \A k \in rebuildJobs' : Calls(k) => k.sub = s \/ k \in rebuildJobs
  PROVE  CallInv'
<1>1. ASSUME "restore" \in rebuildWorld, NEW k \in rebuildJobs', IsCall(k), k.sub = s PROVE FALSE
  <2>1. k \in rebuildJobs /\ k # j /\ CallFits(k)
    BY <1>1 DEF CallInv
  <2> QED
    BY <1>1, <2>1 DEF CallFits
<1> QED
  BY <1>1, Row_CallInv

LEMMA CreateSubmission_CallInv ==
  ASSUME RebuildInv, CallInv, NEW s \in RebuildSubs, CreateSubmission(s)
  PROVE  CallInv'
<1> DEFINE job == JudgeJob("judge", s, FALSE)
<1>1. /\ ~Paused /\ rows[s] = Fresh /\ rows' = [rows EXCEPT ![s].status = "QU"] /\ rows \in [RebuildSubs -> RowRecord]
      /\ rebuildJobs' = rebuildJobs \cup {job} /\ UNCHANGED <<scoring, rebuildWorld>>
  BY DEF CreateSubmission, RebuildInv
<1>2. job.kind = "judge" /\ job.sub = s /\ job.rev = 0 /\ ~job.rejudge
  BY DEF JudgeJob
<1> HIDE DEF job
<1>3. rows'[s].status = "QU" /\ ~rows'[s].run /\ \A r \in RebuildSubs \ {s} : rows'[r] = rows[r]
  <2>1. rows' = [rows EXCEPT ![s] = RowIs(rows[s], "QU", rows[s].marker, rows[s].run)]
    <3>1. \A status : [rows EXCEPT ![s].status = status]
                     = [rows EXCEPT ![s] = RowIs(rows[s], status, rows[s].marker, rows[s].run)]
      BY <1>1, StatusRow
    <3> QED
      BY <1>1, <3>1
  <2>2. rows[s].run = FALSE
    BY <1>1 DEF Fresh
  <2> QED
    BY <1>1, <2>1, <2>2 DEF RowIs
<1>4. \A k \in rebuildJobs : Calls(k) => k.sub # s
  <2>1. s \notin Created
    BY <1>1 DEF Created, Fresh
  <2> QED
    BY <2>1 DEF RebuildInv, JobFits, Calls, IsCall
<1>5. \A k \in rebuildJobs' : IsCall(k) /\ k.sub = s => CallFits(k)'
  <2> SUFFICES ASSUME NEW k \in rebuildJobs', IsCall(k), k.sub = s PROVE CallFits(k)'
    OBVIOUS
  <2>1. k = job
    BY <1>1, <1>4 DEF Calls
  <2>2. ~Paused' /\ scoring'.state # "REBUILDING"
    BY <1>1 DEF Paused
  <2> QED
    BY <1>1, <1>2, <1>3, <1>4, <2>1, <2>2 DEF CallFits
<1> QED
  BY <1>1, <1>2, <1>3, <1>5, Row_CallInv

\* A row that is aborted, or whose run ends.
LEMMA Leaves_CallInv ==
  ASSUME RebuildInv, CallInv, NEW s \in RebuildSubs, AbortDeferred(s) \/ Verdict(s)
  PROVE  CallInv'
<1>1. /\ rows \in [RebuildSubs -> RowRecord] /\ UNCHANGED <<scoring, rebuildJobs, rebuildWorld>>
      /\ \A r \in RebuildSubs \ {s} : rows'[r] = rows[r]
  BY DEF RebuildInv, AbortDeferred, Verdict
<1>2. ASSUME "restore" \in rebuildWorld, NEW k \in rebuildJobs', IsCall(k), k.sub = s PROVE CallFits(k)'
  <2>1. CallFits(k) /\ k \in rebuildJobs
    BY <1>1, <1>2 DEF CallInv
  <2>2. AbortDeferred(s)
    BY <1>2, <2>1 DEF Verdict, CallFits
  <2>3. "abort" \in rebuildWorld /\ rows'[s].status = "AB" /\ ~rows'[s].run
    <3>1. rows' = [rows EXCEPT ![s].status = "AB"]
      BY <2>2 DEF AbortDeferred
    <3>2. rows \in [RebuildSubs -> RowRecord] /\ ~rows[s].run /\ "abort" \in rebuildWorld
      BY <1>1, <2>2 DEF AbortDeferred
    <3>3. rows' = [rows EXCEPT ![s] = RowIs(rows[s], "AB", rows[s].marker, rows[s].run)]
      BY <3>1, <3>2, AbortedRow
    <3> QED
      BY <3>2, <3>3 DEF RowIs
  <2>4. Paused' = Paused
    BY <1>1 DEF Paused
  <2> QED
    BY <1>1, <1>2, <2>1, <2>3, <2>4 DEF CallFits
<1> QED
  BY <1>1, <1>2, Row_CallInv

\* Whatever judge() does with the row, the others are left alone and only a
\* retry of it is new.
OnlyAbout(s, jobs) ==
  /\ \A r \in RebuildSubs \ {s} : rows'[r] = rows[r]
  /\ \A k \in rebuildJobs' : k \in jobs \/ (k.kind = "retry" /\ k.sub = s)
LEMMA JudgeUnreadyOnly ==
  ASSUME RebuildInv, NEW s \in RebuildSubs, NEW rev, NEW n, NEW rejudge, NEW keys, NEW jobs,
         JudgeUnready(s, rev, n, rejudge, keys, jobs)
  PROVE  OnlyAbout(s, jobs)
<1>1. rows \in [RebuildSubs -> RowRecord]
  BY DEF RebuildInv
<1>2. RetryJob(s, rev, n + 1, rejudge).kind = "retry" /\ RetryJob(s, rev, n + 1, rejudge).sub = s
  BY DEF RetryJob
<1>3. CASE Defer(s, rev) /\ rebuildJobs' = IF s \in keys THEN jobs ELSE jobs \cup {RetryJob(s, rev, n + 1, rejudge)}
  BY <1>1, <1>2, <1>3, DeferIs DEF OnlyAbout
<1>4. CASE Fail(s) /\ rebuildJobs' = jobs
  BY <1>1, <1>4, FailIs DEF OnlyAbout
<1> QED
  BY <1>3, <1>4 DEF JudgeUnready

LEMMA ClaimRowOnly ==
  ASSUME RebuildInv, NEW s \in RebuildSubs, NEW rev, NEW host, NEW rejudge, ClaimRow(s, rev, host, rejudge)
  PROVE  \A r \in RebuildSubs \ {s} : rows'[r] = rows[r]
  BY DEF RebuildInv, ClaimRow, NewRun

LEMMA JudgeSubOnly ==
  ASSUME RebuildInv, NEW s \in RebuildSubs, NEW rev, NEW n, NEW rejudge, NEW force, NEW keys, NEW jobs,
         JudgeSub(s, rev, n, rejudge, force, keys, jobs)
  PROVE  OnlyAbout(s, jobs)
<1>1. CASE rebuildJobs' = jobs /\ UNCHANGED rows
  BY <1>1 DEF OnlyAbout
<1>2. CASE rebuildJobs' = jobs /\ \E host \in Hosts : ClaimRow(s, rev, host, rejudge)
  BY <1>2, ClaimRowOnly DEF OnlyAbout
<1>3. CASE JudgeUnready(s, rev, n, rejudge, keys, jobs)
  BY <1>3, JudgeUnreadyOnly
<1> QED
  BY <1>1, <1>2, <1>3 DEF JudgeSub

LEMMA SiteTask_CallInv ==
  ASSUME RebuildInv, CallInv, NEW j \in rebuildJobs,
         CheckAdmission(j) \/ ReadRow(j) \/ StorageAnswers(j) \/ QueueCall(j) \/ RestoreRetry(j)
  PROVE  CallInv'
<1>1. UNCHANGED <<scoring, rebuildWorld>> /\ Calls(j)
  BY DEF CheckAdmission, ReadRow, StorageAnswers, QueueCall, RestoreRetry, Calls, IsCall, CallKinds
<1>2. j.sub \in RebuildSubs /\ rows \in [RebuildSubs -> RowRecord] /\ j.rejudge \in BOOLEAN
  BY <1>1 DEF RebuildInv, JobFits, JobRecord, Calls, IsCall, Created
<1>3. CASE CheckAdmission(j) \/ ReadRow(j)
  <2>1. IsCall(j) /\ UNCHANGED rows /\ (Proceeds(j, {}) \/ \E kind \in CallKinds : Proceeds(j, {kind}))
    BY <1>3 DEF CheckAdmission, ReadRow, IsCall, CallKinds
  <2> QED
    BY <1>1, <2>1, Proceeds_CallInv
<1>4. CASE StorageAnswers(j) \/ QueueCall(j)
  <2>1. IsCall(j)
    BY <1>4 DEF StorageAnswers, QueueCall, IsCall, CallKinds
  <2>2. CASE UNCHANGED rows /\ \E host \in Hosts : Proceeds(j, {host})
    BY <1>1, <2>1, <2>2, Proceeds_CallInv DEF Hosts, CallKinds
  <2>3. CASE JudgeUnready(j.sub, 0, 0, j.rejudge, retryKeys, rebuildJobs \ {j})
    <3>1. OnlyAbout(j.sub, rebuildJobs \ {j})
      BY <1>2, <2>3, JudgeUnreadyOnly
    <3> QED
      BY <1>1, <3>1, Over_CallInv DEF OnlyAbout, IsCall, CallKinds
  <2>4. CASE ClaimRow(j.sub, 0, j.kind, j.rejudge) /\ rebuildJobs' = rebuildJobs \ {j}
    BY <1>1, <1>2, <2>4, ClaimRowOnly, Over_CallInv
  <2> QED
    BY <1>4, <2>2, <2>3, <2>4 DEF StorageAnswers, QueueCall
<1>5. CASE RestoreRetry(j)
  <2>1. OnlyAbout(j.sub, rebuildJobs \ {j})
    <3>1. CASE RetryReleases(j)
      BY <1>2, <3>1 DEF OnlyAbout, RetryReleases, Replace
    <3>2. CASE UNCHANGED rows /\ rebuildJobs' = rebuildJobs \ {j}
      BY <3>2 DEF OnlyAbout
    <3>3. CASE JudgeSub(j.sub, j.rev, j.n, j.rejudge, j.rev = 0, retryKeys \ {j.sub}, rebuildJobs \ {j})
      BY <1>2, <3>3, JudgeSubOnly
    <3> QED
      BY <1>5, <3>1, <3>2, <3>3 DEF RestoreRetry, RetryJudges, Replace
  <2> QED
    BY <1>1, <2>1, Over_CallInv DEF OnlyAbout, IsCall, CallKinds
<1> QED
  BY <1>3, <1>4, <1>5

\* A rebuild goes on only when there are no calls.
LEMMA NoCallsAfterDrain ==
  ASSUME RebuildInv, CallInv, "restore" \in rebuildWorld, scoring.state = "REBUILDING",
         scoring.phase # "drain" \/ (Drained /\ RestoresAlone(rebuildWorld)), NEW k \in rebuildJobs, IsCall(k)
  PROVE  FALSE
<1>1. CallFits(k) /\ Paused /\ k.sub \in RebuildSubs
  BY DEF CallInv, Paused, RebuildInv, JobFits, IsCall, Created
<1>2. scoring.phase = "drain" /\ "late" \in rebuildWorld /\ "abort" \notin rebuildWorld
  BY <1>1 DEF CallFits, RestoresAlone
<1> QED
  BY <1>1, <1>2 DEF CallFits, Drained, ActiveRows, InProgress

LEMMA RebuildTask_CallInv ==
  ASSUME RebuildInv, CallInv, RestoresAlone(rebuildWorld), NEW j \in rebuildJobs,
         RebuildStep(j) \/ Dispatch(j) \/ Publish(j)
  PROVE  CallInv'
<1> DEFINE NoNewCalls == \A k \in rebuildJobs' : Calls(k) => k \in rebuildJobs
<1>1. /\ UNCHANGED rebuildWorld /\ scoring \in ScoringRecord
      /\ \A kind \in {"step", "dispatch", "publishON", "publishOFF"} : \A s, rev : ~Calls(TaskJob(kind, s, rev))
  BY DEF RebuildStep, Dispatch, Publish, RebuildInv, ScoringFits, TaskJob, Calls, IsCall, CallKinds
<1>2. CASE (Ends(j) \/ Fails(j)) /\ UNCHANGED rows
  <2>1. NoNewCalls
    BY <1>2 DEF Ends, Fails, Replace
  <2>2. CASE UNCHANGED scoring
    BY <1>1, <1>2, <2>1, <2>2, Quiet_CallInv
  <2>3. CASE scoring' = [scoring EXCEPT !.state = "FAILED"] /\ scoring.state = "REBUILDING"
    <3>1. scoring'.state = "FAILED" /\ Paused
      BY <1>1, <2>3, ScoringIs DEF Failed, Paused
    <3> HIDE DEF NoNewCalls
    <3> QED
      BY <1>1, <1>2, <2>1, <3>1, Problem_CallInv DEF NoNewCalls
  <2> QED
    BY <1>2, <2>2, <2>3 DEF Ends, Fails
<1>3. CASE RebuildStep(j) /\ StepStopping(j)
  <2>1. scoring'.state = "STOPPING" /\ Paused /\ UNCHANGED rows
    <3>1. scoring' = Phase(scoring, scoring.state, "disable-refresh")
      BY <1>1, <1>3, ScoringIs DEF StepStopping
    <3> QED
      BY <1>3, <3>1 DEF Phase, Paused, StepStopping, RebuildStep
  <2>2. NoNewCalls
    BY <1>1, <1>3 DEF StepStopping, Replace
  <2> QED
    BY <1>1, <2>1, <2>2, Problem_CallInv
<1>4. CASE RebuildStep(j) /\ StepDispatchAgain(j)
  <2>1. NoNewCalls /\ UNCHANGED <<scoring, rows>>
    BY <1>1, <1>4 DEF StepDispatchAgain, Replace, RebuildStep
  <2> QED
    BY <1>1, <2>1, Quiet_CallInv
<1>5. CASE RebuildStep(j) /\ scoring.state = "REBUILDING" /\ StepAdvance(j) /\ ~Fails(j)
  <2>1. NoNewCalls /\ UNCHANGED rows /\ (scoring.phase = "drain" => Drained)
    BY <1>1, <1>5 DEF StepAdvance, Replace, RebuildStep
  <2>2. "restore" \in rebuildWorld => \A k \in rebuildJobs : ~IsCall(k)
    BY <1>5, <2>1, NoCallsAfterDrain
  <2> QED
    BY <1>1, <2>1, <2>2, Problem_CallInv
<1>6. CASE /\ scoring.state = "REBUILDING" /\ scoring.pending = j.sub /\ j.kind = "dispatch"
           /\ JudgeSub(j.sub, j.rev, 0, TRUE, FALSE, retryKeys, (rebuildJobs \ {j}) \cup {StepJob(j.rev)})
           /\ scoring' = [scoring EXCEPT !.dispatched = TRUE]
  <2>1. j.sub \in RebuildSubs /\ j.sub # 0
    BY <1>6, SubNumbers DEF RebuildInv, JobFits, Created
  <2>2. scoring.phase # "drain"
    BY <1>6, <2>1 DEF RebuildInv, ScoringFits, Advancing
  <2>3. scoring'.state = scoring.state /\ scoring'.phase = scoring.phase
    BY <1>1, <1>6, ScoringIs DEF Dispatched
  <2>4. "restore" \in rebuildWorld => \A k \in rebuildJobs : ~IsCall(k)
    BY <1>6, <2>2, NoCallsAfterDrain
  <2>5. /\ \A r \in RebuildSubs \ {j.sub} : rows'[r] = rows[r]
        /\ \A k \in rebuildJobs' : k \in rebuildJobs \/ k = StepJob(j.rev) \/ (k.kind = "retry" /\ k.sub = j.sub)
    <3> DEFINE jobs == (rebuildJobs \ {j}) \cup {StepJob(j.rev)}
    <3>1. \A k \in jobs : k \in rebuildJobs \/ k = StepJob(j.rev)
      OBVIOUS
    <3>2. JudgeSub(j.sub, j.rev, 0, TRUE, FALSE, retryKeys, jobs)
      BY <1>6
    <3> HIDE DEF jobs
    <3>3. OnlyAbout(j.sub, jobs)
      BY <2>1, <3>2, JudgeSubOnly
    <3> QED
      BY <3>1, <3>3 DEF OnlyAbout
  <2>6. ~IsCall(StepJob(j.rev)) /\ ~Calls(StepJob(j.rev))
    BY <1>1 DEF StepJob, Calls
  <2> QED
    BY <1>1, <2>3, <2>4, <2>5, <2>6, Row_CallInv DEF IsCall, CallKinds
<1>7. CASE Publish(j) /\ ~(Ends(j) \/ Fails(j))
  <2>1. PICK to \in {"ON", "OFF"} : scoring' = [scoring EXCEPT !.state = to, !.phase = "done"]
    BY <1>7 DEF Publish
  <2>2. scoring' = Phase(scoring, to, "done")
    BY <1>1, <2>1, PhaseIs
  <2>3. scoring'.state = to
    BY <2>2 DEF Phase
  <2>4. NoNewCalls /\ UNCHANGED rows /\ ~Paused'
    BY <1>7, <2>3 DEF Publish, Replace, Paused
  <2> QED
    BY <1>1, <2>3, <2>4, Problem_CallInv
<1> QED
  BY <1>2, <1>3, <1>4, <1>5, <1>6, <1>7 DEF RebuildStep, Dispatch, Publish, StepRejected

LEMMA Administrator_CallInv ==
  ASSUME RebuildInv, CallInv, Enable \/ Disable
  PROVE  CallInv'
<1>1. /\ UNCHANGED <<rows, rebuildWorld>> /\ NothingLate /\ scoring \in ScoringRecord
      /\ \E rev : rebuildJobs' \subseteq rebuildJobs \cup {StepJob(rev)}
  BY DEF Enable, Disable, RebuildInv, ScoringFits
<1>2. \A rev : ~Calls(StepJob(rev))
  BY DEF StepJob, TaskJob, Calls, IsCall, CallKinds
<1>3. "restore" \in rebuildWorld /\ (\E k \in rebuildJobs : IsCall(k)) => "late" \in rebuildWorld
  BY <1>1 DEF NothingLate, CallInv, CallFits
<1>4. scoring'.state = "REBUILDING" => scoring'.phase = "drain"
  <2>1. CASE Enable
    <3> DEFINE start == [state |-> "REBUILDING", revision |-> scoring.revision + 1, phase |-> "drain", cursor |-> 0,
                         ceiling |-> IF Created = {} THEN 0 ELSE CHOOSE s \in Created : \A r \in Created : r <= s,
                         pending |-> 0, dispatched |-> FALSE]
    <3>1. scoring' = start \/ scoring' = [start EXCEPT !.state = "FAILED"]
      BY <2>1 DEF Enable
    <3>2. start.phase = "drain" /\ [start EXCEPT !.state = "FAILED"].phase = "drain"
      OBVIOUS
    <3> HIDE DEF start
    <3> QED
      BY <3>1, <3>2
  <2>2. CASE Disable
    <3>1. scoring' = Stopping(scoring)
      BY <1>1, <2>2, ScoringIs DEF Disable
    <3> QED
      BY <3>1 DEF Stopping
  <2> QED
    BY <2>1, <2>2
<1> QED
  BY <1>1, <1>2, <1>3, <1>4, Problem_CallInv

LEMMA RebuildNext_CallInv ==
  RestoresAlone(rebuildWorld) /\ RebuildInv /\ CallInv /\ [RebuildNext]_rebuildVars => CallInv'
<1> SUFFICES ASSUME RestoresAlone(rebuildWorld), RebuildInv, CallInv, [RebuildNext]_rebuildVars PROVE CallInv'
  OBVIOUS
<1>1. CASE RebuildTask
  BY <1>1, RebuildTask_CallInv DEF RebuildTask
<1>2. CASE SiteTask
  BY <1>2, SiteTask_CallInv DEF SiteTask
<1>3. ASSUME NEW j \in rebuildJobs, Redelivered(j) PROVE CallInv'
  <2>1. ~Calls(StepJob(j.rev))
    BY DEF StepJob, TaskJob, Calls, IsCall, CallKinds
  <2> QED
    BY <1>3, <2>1, Quiet_CallInv DEF Redelivered
<1>4. CASE Enable \/ Disable
  BY <1>4, Administrator_CallInv
<1>5. ASSUME NEW s \in RebuildSubs, CreateSubmission(s) \/ AbortDeferred(s) \/ Verdict(s) PROVE CallInv'
  BY <1>5, CreateSubmission_CallInv, Leaves_CallInv
<1>6. ASSUME NEW s \in RebuildSubs, RequestRejudge(s) PROVE CallInv'
  BY <1>6 DEF RequestRejudge, CallInv, RestoresAlone
<1>7. CASE UNCHANGED <<scoring, rows, rebuildJobs, rebuildWorld>>
  BY <1>7, Quiet_CallInv
<1> QED
  BY <1>1, <1>2, <1>3, <1>4, <1>5, <1>6, <1>7 DEF RebuildNext, LockedAfterPasses, KeyExpires, rebuildVars

LEMMA RebuildInvHolds == ASSUME OneHazard PROVE RebuildSpec => []RebuildInv
<1>1. RebuildInit => CallInv
  BY DEF RebuildInit, CallInv
<1>2. RebuildInv /\ CallInv /\ [RebuildNext]_rebuildVars => RebuildInv' /\ CallInv'
  BY RebuildNext_RebuildInv, RebuildNext_CallInv DEF RebuildInv, OneHazard
<1> QED
  BY <1>1, <1>2, RebuildInit_RebuildInv, PTL DEF RebuildSpec

-----------------------------------------------------------------------------
\* tasks/subtask_scoring.py:110-260: after the drain only the pending submission
\* of the rebuild has a run at the judges.
THEOREM HistoryIsRejudgedAlone == ASSUME OneHazard PROVE RebuildSpec => []OnlyPendingRuns
<1>1. RebuildInv => OnlyPendingRuns
  BY DEF RebuildInv, ScoringFits, Advancing, OnlyPendingRuns
<1> QED
  BY <1>1, RebuildInvHolds, PTL

\* docs/cumulative-subtasks.md:100: the scores that are public come from runs of
\* one generation, whatever was rejudged, restored, retried or delivered again.
THEOREM ScoresAreOfOneGeneration == ASSUME OneHazard PROVE RebuildSpec => []PublishedIsOneGeneration
<1>1. RebuildInv => PublishedIsOneGeneration
  <2> SUFFICES ASSUME RebuildInv, scoring.state = "ON", NEW s \in Created, rows[s].status \in {"D", "CE"}
               PROVE  rows[s].rev = scoring.revision
    BY DEF PublishedIsOneGeneration
  <2>1. s \in RebuildSubs /\ Judged(rows[s])
    BY DEF Created, Judged
  <2> QED
    BY <2>1 DEF RebuildInv, ScoringFits
<1> QED
  BY <1>1, RebuildInvHolds, PTL

\* The tests of the problem are unlocked only when no judge has a run of it.
THEOREM TestsAreUnlockedWhenIdle == ASSUME OneHazard PROVE RebuildSpec => UnlockedWhenIdle
<1> DEFINE Idle == scoring'.state = "OFF" /\ scoring.state # "OFF" => \A s \in RebuildSubs : ~rows[s].run
<1>1. RebuildInv /\ RebuildNext => Idle
  <2> SUFFICES ASSUME RebuildInv, RebuildNext, scoring'.state = "OFF", scoring.state # "OFF"
               PROVE  \A s \in RebuildSubs : ~rows[s].run
    OBVIOUS
  <2>1. scoring \in ScoringRecord /\ scoring' # scoring
    BY DEF RebuildInv, ScoringFits
  <2>2. ASSUME NEW j \in rebuildJobs PROVE ~Fails(j) /\ ~Ends(j)
    BY <2>1, ScoringIs DEF Fails, Ends, Failed
  <2>3. ASSUME NEW j \in rebuildJobs, Publish(j) PROVE \A s \in RebuildSubs : ~rows[s].run
    <3>1. PICK to \in {"ON", "OFF"} : /\ scoring' = [scoring EXCEPT !.state = to, !.phase = "done"]
                                      /\ j.rev = scoring.revision
                                      /\ to = "OFF" => j.kind = "publishOFF" /\ scoring.state = "STOPPING"
      BY <2>2, <2>3 DEF Publish
    <3>2. scoring' = Phase(scoring, to, "done")
      BY <2>1, <3>1, PhaseEq
    <3>3. to = "OFF"
      BY <3>2 DEF Phase
    <3> QED
      BY <3>1, <3>3 DEF RebuildInv, JobFits, ScoringFits
  <2>4. ASSUME NEW j \in rebuildJobs PROVE ~RebuildStep(j) /\ ~Dispatch(j)
    <3>1. ASSUME StepStopping(j) PROVE FALSE
      <4>1. scoring' = Phase(scoring, scoring.state, "disable-refresh")
        BY <2>1, <3>1, ScoringIs DEF StepStopping
      <4> QED
        BY <4>1 DEF Phase
    <3>2. ASSUME StepAdvance(j) PROVE FALSE
      <4>1. PICK cursor, phase, pending :
              scoring' = [scoring EXCEPT !.cursor = cursor, !.phase = phase, !.pending = pending, !.dispatched = FALSE]
        <5> DEFINE cursor == IF scoring.pending = 0 THEN scoring.cursor ELSE scoring.pending
                   todo == {s \in Created : cursor < s /\ s <= scoring.ceiling}
                   next == CHOOSE s \in todo : \A r \in todo : s <= r
                   at(phase, pending) == [scoring EXCEPT !.cursor = cursor, !.phase = phase,
                                                         !.pending = pending, !.dispatched = FALSE]
        <5>1. scoring' = at("refresh", 0) \/ scoring' = at("rejudge", next)
          BY <2>2, <3>2 DEF StepAdvance
        <5> HIDE DEF cursor, next
        <5> QED
          BY <5>1
      <4>2. scoring' = Advanced(scoring, cursor, phase, pending)
        BY <2>1, <4>1, AdvancedEq
      <4> QED
        BY <4>2 DEF Advanced
    <3>3. scoring' # [scoring EXCEPT !.dispatched = TRUE]
      BY <2>1, ScoringIs DEF Dispatched
    <3> QED
      BY <2>1, <2>2, <3>1, <3>2, <3>3 DEF RebuildStep, Dispatch, StepDispatchAgain, StepRejected
  <2>5. ~Disable
    <3>1. scoring' # [scoring EXCEPT !.state = "STOPPING", !.revision = @ + 1]
      BY <2>1, ScoringIs DEF Stopping
    <3> QED
      BY <3>1 DEF Disable
  <2>6. ~Enable
    BY DEF Enable
  <2> QED
    BY <2>1, <2>3, <2>4, <2>5, <2>6
    DEF RebuildNext, RebuildTask, SiteTask, CheckAdmission, ReadRow, StorageAnswers, QueueCall, RestoreRetry, Redelivered,
        CreateSubmission, RequestRejudge, AbortDeferred, Verdict, LockedAfterPasses, KeyExpires
<1>2. RebuildInv /\ [RebuildNext]_rebuildVars => [Idle]_rebuildVars
  BY <1>1
<1> HIDE DEF Idle
<1>3. RebuildSpec => [][Idle]_rebuildVars
  BY <1>2, RebuildInvHolds, PTL DEF RebuildSpec
<1> QED
  BY <1>3 DEF UnlockedWhenIdle, Idle

\* tasks/storage.py:698: a retry of a rebuild that is over leaves every run at the
\* judges as it is.
THEOREM OldRetriesSpareRuns == ASSUME OneHazard PROVE RebuildSpec => OldRetrySparesRuns
<1> DEFINE Spared == \A j \in rebuildJobs : j.rev # 0 /\ Superseded(j) /\ RestoreRetry(j) =>
                       \A s \in RebuildSubs : rows[s].run => rows'[s] = rows[s]
<1>1. RebuildInv => Spared
  <2> SUFFICES ASSUME RebuildInv, NEW j \in rebuildJobs, j.rev # 0, Superseded(j), RestoreRetry(j),
                      NEW s \in RebuildSubs, rows[s].run
               PROVE  rows'[s] = rows[s]
    OBVIOUS
  <2>1. JobFits(j, scoring) /\ rows \in [RebuildSubs -> RowRecord] /\ RunFits(rows[s])
    BY DEF RebuildInv
  <2>2. RetryReleases(j) /\ j.sub \in RebuildSubs /\ "restore" \in rebuildWorld
    BY <2>1 DEF RestoreRetry, RetryJudges, JobFits, Created
  <2>3. CASE OwnDeferred(j)
    <3>1. j.sub # s
      BY <2>1, <2>2, <2>3 DEF OwnDeferred, RunFits
    <3>2. rows' = [rows EXCEPT ![j.sub].status = "AB"]
      BY <2>2, <2>3 DEF RetryReleases
    <3> QED
      BY <2>1, <2>2, <3>1, <3>2
  <2>4. CASE ~OwnDeferred(j)
    BY <2>2, <2>4 DEF RetryReleases
  <2> QED
    BY <2>3, <2>4
<1>2. RebuildInv /\ [RebuildNext]_rebuildVars => [Spared]_rebuildVars
  BY <1>1
<1> HIDE DEF Spared
<1>3. RebuildSpec => [][Spared]_rebuildVars
  BY <1>2, RebuildInvHolds, PTL DEF RebuildSpec
<1> QED
  BY <1>3 DEF OldRetrySparesRuns, Spared

-----------------------------------------------------------------------------
(* Submissions that wait for their data.  For this, retries that meet a paused  *)
(* problem and remote judges are left out.                                      *)
Timely == rebuildWorld \cap {"late", "remote"} = {}

\* A retry in jobs that will not drop the row: an ordinary one, or one of the rebuild that
\* deferred it.
RetriedBy(s, jobs) == \E j \in jobs : j.sub = s /\ j.kind = "retry" /\ (j.rev = 0 \/ j.rev = rows[s].marker)
\* A call that judges the row even when it is locked, and is not refused.
CalledBy(s, jobs) ==
  ~Paused /\ \E j \in jobs : j.sub = s /\ IsCall(j) /\ ~j.rejudge
\* The key is there only while a retry is, or for a row that was aborted.
RowWaits(s) ==
  /\ rows[s].run => rows[s].status = "P"
  /\ s \in retryKeys => rows[s].status = "AB" \/ (rows[s].status = "QU" /\ RetriedBy(s, rebuildJobs))
  /\ rows[s].status = "QU" => RetriedBy(s, rebuildJobs) \/ CalledBy(s, rebuildJobs)
\* Whoever is admitted while the problem is paused works for the rebuild.
JobWaits(j) ==
  /\ IsCall(j) => j.rev = 0
  /\ Paused /\ Calls(j) /\ j.kind # "judge" => j.rev # 0
\* After the drain only the pending submission, once dispatched, is in progress.
OneActive ==
  scoring.state = "REBUILDING" /\ scoring.phase # "drain" =>
    \A s \in ActiveRows : s = scoring.pending /\ scoring.dispatched
WaitInv ==
  /\ OneActive
  /\ \A j \in rebuildJobs : JobWaits(j)
  /\ \A s \in RebuildSubs : RowWaits(s)

\* Steps that change no row and take no call away.
LEMMA NoRow_WaitInv ==
  ASSUME WaitInv, UNCHANGED rows, retryKeys' \subseteq retryKeys, OneActive',
         \A j \in rebuildJobs : Calls(j) => j \in rebuildJobs',
         \A j \in rebuildJobs' : j \in rebuildJobs \/ ~Calls(j) \/ (j.kind = "judge" /\ j.rev = 0),
         Paused' => Paused \/ \A j \in rebuildJobs' : Calls(j) => j.rev # 0
  PROVE  WaitInv'
<1>1. \A j \in rebuildJobs' : JobWaits(j)'
  BY DEF WaitInv, JobWaits, Calls
<1>2. ASSUME NEW s \in RebuildSubs PROVE RowWaits(s)'
  <2>1. RowWaits(s)
    BY DEF WaitInv
  <2>2. RetriedBy(s, rebuildJobs) => RetriedBy(s, rebuildJobs)'
    BY DEF RetriedBy, Calls
  <2>3. CalledBy(s, rebuildJobs) => CalledBy(s, rebuildJobs)'
    <3> SUFFICES ASSUME CalledBy(s, rebuildJobs) PROVE CalledBy(s, rebuildJobs)'
      OBVIOUS
    <3>1. PICK j \in rebuildJobs : j.sub = s /\ IsCall(j) /\ ~j.rejudge
      BY DEF CalledBy
    <3>2. ~Paused /\ j \in rebuildJobs' /\ Calls(j) /\ j.rev = 0
      BY <3>1 DEF CalledBy, Calls, WaitInv, JobWaits
    <3>3. ~Paused'
      BY <3>2
    <3> QED
      BY <3>1, <3>2, <3>3 DEF CalledBy
  <2> QED
    BY <2>1, <2>2, <2>3 DEF RowWaits
<1> QED
  BY <1>1, <1>2 DEF WaitInv

\* Steps on one row, its key and the messages about it.
LEMMA OneRow_WaitInv ==
  ASSUME WaitInv, NEW s \in RebuildSubs, Paused' = Paused, OneActive',
         \A r \in RebuildSubs \ {s} : rows'[r] = rows[r] /\ (r \in retryKeys' => r \in retryKeys),
         \A j : Calls(j) /\ j.sub # s => (j \in rebuildJobs <=> j \in rebuildJobs'),
         RowWaits(s)', \A j \in rebuildJobs' : JobWaits(j)
  PROVE  WaitInv'
<1>1. \A j \in rebuildJobs' : JobWaits(j)'
  BY DEF JobWaits
<1>2. ASSUME NEW r \in RebuildSubs \ {s} PROVE RowWaits(r)'
  <2>1. RowWaits(r) /\ rows'[r] = rows[r] /\ (r \in retryKeys' => r \in retryKeys)
    BY DEF WaitInv
  <2>2. RetriedBy(r, rebuildJobs) => RetriedBy(r, rebuildJobs)'
    BY <2>1 DEF RetriedBy, Calls
  <2>3. CalledBy(r, rebuildJobs) => CalledBy(r, rebuildJobs)'
    BY DEF CalledBy, Calls
  <2> QED
    BY <2>1, <2>2, <2>3 DEF RowWaits
<1> QED
  BY <1>1, <1>2 DEF WaitInv

\* A row without a run for which the data is not there: it waits for a retry, or has failed.
LEMMA JudgeUnready_RowWaits ==
  ASSUME RebuildInv, Paused' = Paused, NEW s \in Created, ~rows[s].run,
         NEW rev, NEW n, NEW rejudge, NEW keys, NEW jobs, JudgeUnready(s, rev, n, rejudge, keys, jobs),
         s \in keys => rows[s].status = "AB"
  PROVE  /\ RowWaits(s)' /\ \A r \in RebuildSubs \ {s} : rows'[r] = rows[r] /\ (r \in retryKeys' => r \in keys)
         /\ jobs \subseteq rebuildJobs' /\ rebuildJobs' \subseteq jobs \cup {RetryJob(s, rev, n + 1, rejudge)}
<1> DEFINE retry == RetryJob(s, rev, n + 1, rejudge)
           marker == IF rev # 0 THEN rev ELSE rows[s].marker
<1>1. s \in RebuildSubs /\ rows \in [RebuildSubs -> RowRecord]
  BY DEF RebuildInv, Created
<1>2. retry.sub = s /\ retry.kind = "retry" /\ retry.rev = rev
  BY DEF RetryJob
<1>3. CASE /\ Defer(s, rev) /\ retryKeys' = keys \cup {s}
           /\ rebuildJobs' = IF s \in keys THEN jobs ELSE jobs \cup {retry}
  <2>1. CASE rows[s].status = "AB" /\ UNCHANGED rows
    BY <1>3, <2>1 DEF RowWaits
  <2>2. CASE rows[s].status # "AB" /\ rows' = [rows EXCEPT ![s] = RowIs(rows[s], "QU", marker, rows[s].run)]
    <3>1. /\ rows'[s] = RowIs(rows[s], "QU", marker, rows[s].run)
          /\ \A r \in RebuildSubs \ {s} : rows'[r] = rows[r]
      <4> HIDE DEF marker
      <4> QED
        BY <1>1, <2>2
    <3>2. rows'[s].status = "QU" /\ ~rows'[s].run /\ rows'[s].marker = marker
      BY <3>1 DEF RowIs
    <3>3. rebuildJobs' = jobs \cup {retry}
      BY <1>3, <2>2
    <3> HIDE DEF retry
    <3>4. RetriedBy(s, rebuildJobs)'
      BY <1>2, <3>2, <3>3 DEF RetriedBy
    <3> QED
      BY <1>3, <3>1, <3>2, <3>3, <3>4 DEF RowWaits, retry
  <2> QED
    BY <1>1, <1>3, <2>1, <2>2, DeferIs
<1>4. CASE Fail(s) /\ rebuildJobs' = jobs /\ (retryKeys' = keys \/ retryKeys' = keys \ {s})
  <2>1. CASE rows[s].status = "AB" /\ UNCHANGED rows
    BY <1>4, <2>1 DEF RowWaits
  <2>2. CASE rows[s].status # "AB" /\ rows' = [rows EXCEPT ![s] = RowIs(rows[s], "IE", rows[s].marker, rows[s].run)]
    <3>1. /\ rows'[s] = RowIs(rows[s], "IE", rows[s].marker, rows[s].run)
          /\ \A r \in RebuildSubs \ {s} : rows'[r] = rows[r]
      BY <1>1, <2>2
    <3>2. rows'[s].status = "IE" /\ ~rows'[s].run
      BY <3>1 DEF RowIs
    <3> QED
      BY <1>4, <2>2, <3>1, <3>2 DEF RowWaits
  <2> QED
    BY <1>1, <1>4, <2>1, <2>2, FailIs
<1> HIDE DEF retry
<1> QED
  BY <1>3, <1>4 DEF JudgeUnready, retry

\* A row that is claimed, when the run is admitted.
LEMMA ClaimRow_RowWaits ==
  ASSUME RebuildInv, WaitInv, Paused' = Paused, NEW s \in Created, NEW rev, NEW rejudge,
         ClaimRow(s, rev, "local", rejudge), Admitted(rev), s \notin retryKeys'
  PROVE  RowWaits(s)' /\ \A r \in RebuildSubs \ {s} : rows'[r] = rows[r]
<1>1. s \in RebuildSubs /\ rows \in [RebuildSubs -> RowRecord] /\ RowWaits(s)
  BY DEF RebuildInv, Created, WaitInv
<1>2. CASE NewRun(s, "P")
  <2> DEFINE new == [status |-> "P", rev |-> scoring.revision, marker |-> 0, token |-> TRUE, run |-> TRUE]
  <2>1. rows' = [rows EXCEPT ![s] = new] /\ new.status = "P"
    BY <1>2 DEF NewRun
  <2> HIDE DEF new
  <2>2. rows'[s].status = "P" /\ \A r \in RebuildSubs \ {s} : rows'[r] = rows[r]
    BY <1>1, <2>1
  <2> QED
    BY <2>2 DEF RowWaits
<1>3. CASE UNCHANGED rows /\ ~Claimable(s, "local", rejudge)
  <2>1. rows[s].status # "QU"
    BY <1>3 DEF Claimable
  <2> QED
    BY <1>1, <1>3, <2>1 DEF RowWaits
<1> QED
  BY <1>2, <1>3 DEF ClaimRow

\* The row after judge() under the problem lock, when it is admitted: it has a run, waits
\* for a retry, has failed, or was left alone.
LEMMA JudgeSub_RowWaits ==
  ASSUME RebuildInv, WaitInv, Timely, Paused' = Paused,
         NEW s \in Created, NEW rev, NEW n, NEW rejudge, NEW force, NEW keys, NEW jobs,
         JudgeSub(s, rev, n, rejudge, force, keys, jobs), Admitted(rev),
         ~(JudgeSkips(s, rejudge, force) /\ rows[s].status = "QU"), s \in keys => rows[s].status = "AB"
  PROVE  /\ RowWaits(s)' /\ \A r \in RebuildSubs \ {s} : rows'[r] = rows[r] /\ (r \in retryKeys' => r \in keys)
         /\ jobs \subseteq rebuildJobs' /\ rebuildJobs' \subseteq jobs \cup {RetryJob(s, rev, n + 1, rejudge)}
<1>1. RowWaits(s) /\ s \in RebuildSubs /\ Hosts = {"local"}
  BY DEF WaitInv, Timely, Hosts, Created
<1>2. CASE JudgeSkips(s, rejudge, force)
  BY <1>1, <1>2 DEF JudgeSub, RowWaits
<1>3. CASE ClaimRow(s, rev, "local", rejudge) /\ retryKeys' = keys \ {s} /\ rebuildJobs' = jobs
  BY <1>3, ClaimRow_RowWaits
<1>4. CASE ~JudgeSkips(s, rejudge, force) /\ JudgeUnready(s, rev, n, rejudge, keys, jobs)
  <2>1. ~rows[s].run
    BY <1>1, <1>4 DEF JudgeSkips, RowWaits
  <2> QED
    BY <1>4, <2>1, JudgeUnready_RowWaits
<1> QED
  BY <1>1, <1>2, <1>3, <1>4 DEF JudgeSub

\* A message about a row.
LEMMA CallOf ==
  ASSUME RebuildInv, NEW j \in rebuildJobs, Calls(j) \/ j.kind = "dispatch"
  PROVE  j.sub \in RebuildSubs /\ j.sub \in Created /\ j.rev \in Nat /\ rows[j.sub] \in RowRecord
         /\ rows \in [RebuildSubs -> RowRecord] /\ j \in JobRecord
  BY DEF RebuildInv, JobFits, JobRecord, Calls, IsCall, Created

LEMMA CreateSubmission_WaitInv ==
  ASSUME RebuildInv, WaitInv, NEW s \in RebuildSubs, CreateSubmission(s)
  PROVE  WaitInv'
<1> DEFINE job == JudgeJob("judge", s, FALSE)
<1>1. /\ ~Paused /\ rows[s] = Fresh /\ rows' = [rows EXCEPT ![s].status = "QU"]
      /\ rebuildJobs' = rebuildJobs \cup {job} /\ UNCHANGED <<scoring, retryKeys, lockedRows, rebuildWorld>>
  BY DEF CreateSubmission
<1>2. job.kind = "judge" /\ job.sub = s /\ job.rev = 0 /\ ~job.rejudge
  BY DEF JudgeJob
<1> HIDE DEF job
<1>3. rows'[s].status = "QU" /\ ~rows'[s].run /\ \A r \in RebuildSubs \ {s} : rows'[r] = rows[r]
  <2>1. rows \in [RebuildSubs -> RowRecord] /\ rows[s].run = FALSE
    BY <1>1 DEF RebuildInv, Fresh
  <2>2. rows' = [rows EXCEPT ![s] = RowIs(rows[s], "QU", rows[s].marker, rows[s].run)]
    <3>1. \A status : [rows EXCEPT ![s].status = status]
                     = [rows EXCEPT ![s] = RowIs(rows[s], status, rows[s].marker, rows[s].run)]
      BY <2>1, StatusRow
    <3> QED
      BY <1>1, <3>1
  <2> QED
    BY <2>1, <2>2 DEF RowIs
<1>4. s \notin retryKeys
  <2>1. rows[s].status = "none" /\ RowWaits(s)
    BY <1>1 DEF WaitInv, Fresh
  <2> QED
    BY <2>1 DEF RowWaits
<1>5. Paused' = Paused /\ OneActive'
  BY <1>1 DEF Paused, OneActive
<1>6. RowWaits(s)'
  <2>1. CalledBy(s, rebuildJobs)'
    BY <1>1, <1>2, <1>5 DEF CalledBy, IsCall, CallKinds
  <2> QED
    BY <1>1, <1>3, <1>4, <2>1 DEF RowWaits
<1>7. \A j \in rebuildJobs' : JobWaits(j)
  BY <1>1, <1>2 DEF WaitInv, JobWaits
<1> QED
  BY <1>1, <1>2, <1>3, <1>5, <1>6, <1>7, OneRow_WaitInv

\* Rows that leave the queue: a verdict, an abort, a release.
LEMMA Leaves_WaitInv ==
  ASSUME RebuildInv, WaitInv, NEW s \in RebuildSubs, NEW row, rows' = [rows EXCEPT ![s] = row],
         ~row.run, row.status \in FinalCodes, s \in retryKeys => row.status = "AB",
         UNCHANGED <<scoring, retryKeys>>, rebuildJobs' \subseteq rebuildJobs,
         \A j \in rebuildJobs : Calls(j) /\ j.sub # s => j \in rebuildJobs'
  PROVE  WaitInv'
<1>1. rows'[s] = row /\ \A r \in RebuildSubs \ {s} : rows'[r] = rows[r]
  BY DEF RebuildInv
<1>2. ActiveRows' \subseteq ActiveRows
  BY <1>1 DEF ActiveRows, InProgress, FinalCodes
<1>3. OneActive' /\ Paused' = Paused
  BY <1>2 DEF WaitInv, OneActive, Paused
<1>4. RowWaits(s)'
  BY <1>1 DEF RowWaits, FinalCodes
<1>5. \A j \in rebuildJobs' : JobWaits(j)
  BY DEF WaitInv
<1> QED
  BY <1>1, <1>3, <1>4, <1>5, OneRow_WaitInv

LEMMA Verdict_WaitInv ==
  ASSUME RebuildInv, WaitInv, NEW s \in RebuildSubs, Verdict(s)
  PROVE  WaitInv'
<1>1. /\ rows \in [RebuildSubs -> RowRecord] /\ rows[s].run /\ UNCHANGED <<scoring, rebuildJobs, retryKeys>> /\ RowWaits(s)
  BY DEF RebuildInv, Verdict, WaitInv
<1>2. rows[s].status = "P" /\ s \notin retryKeys
  BY <1>1 DEF RowWaits
<1>3. PICK c \in FinalCodes :
        rows' = [rows EXCEPT ![s].run = FALSE, ![s].status = IF @ \in InProgress THEN c ELSE @]
  BY DEF Verdict
<1>4. rows' = [rows EXCEPT ![s].run = FALSE, ![s].status = c]
  BY <1>1, <1>2, <1>3 DEF InProgress
<1> DEFINE row == RowIs(rows[s], c, rows[s].marker, FALSE)
<1>5. rows' = [rows EXCEPT ![s] = row]
  BY <1>1, <1>4, EndedRow
<1>6. ~row.run /\ row.status \in FinalCodes
  BY DEF RowIs
<1> HIDE DEF row
<1> QED
  BY <1>1, <1>2, <1>5, <1>6, Leaves_WaitInv

LEMMA Aborts_WaitInv ==
  ASSUME RebuildInv, WaitInv, NEW s \in RebuildSubs, ~rows[s].run, rows' = [rows EXCEPT ![s].status = "AB"],
         UNCHANGED <<scoring, retryKeys>>, rebuildJobs' \subseteq rebuildJobs,
         \A j \in rebuildJobs : Calls(j) /\ j.sub # s => j \in rebuildJobs'
  PROVE  WaitInv'
<1> DEFINE row == RowIs(rows[s], "AB", rows[s].marker, rows[s].run)
<1>1. rows' = [rows EXCEPT ![s] = row]
  BY AbortedRow DEF RebuildInv
<1>2. ~row.run /\ row.status = "AB"
  BY DEF RowIs
<1> HIDE DEF row
<1> QED
  BY <1>1, <1>2, Leaves_WaitInv DEF FinalCodes

\* A call that goes on, or that ends for a row that does not wait for it.
LEMMA Proceeds_WaitInv ==
  ASSUME RebuildInv, WaitInv, NEW j \in rebuildJobs, IsCall(j), NEW kinds, Proceeds(j, kinds),
         \/ kinds = {} /\ (Paused \/ j.rejudge \/ rows[j.sub].status # "QU")
         \/ ~Paused /\ \E kind \in CallKinds : kinds = {kind},
         UNCHANGED <<scoring, rows>>, retryKeys' \subseteq retryKeys
  PROVE  WaitInv'
<1> DEFINE s == j.sub
<1>1. s \in RebuildSubs /\ j \in JobRecord /\ j.rev = 0 /\ RowWaits(s)
  BY CallOf DEF Calls, WaitInv, JobWaits
<1>2. Paused' = Paused /\ OneActive'
  BY DEF Paused, WaitInv, OneActive, ActiveRows
<1>3. RetriedBy(s, rebuildJobs) => RetriedBy(s, rebuildJobs)'
  BY DEF RetriedBy, Proceeds, IsCall, CallKinds
<1>4. CASE kinds = {}
  <2>1. rebuildJobs' = rebuildJobs \ {j}
    BY <1>4 DEF Proceeds
  <2>2. rows[s].status = "QU" /\ CalledBy(s, rebuildJobs) => CalledBy(s, rebuildJobs)'
    BY <1>2, <1>4, <2>1 DEF CalledBy
  <2>3. RowWaits(s)'
    BY <1>1, <1>3, <2>2 DEF RowWaits
  <2>4. \A k \in rebuildJobs' : JobWaits(k)
    BY <2>1 DEF WaitInv
  <2>5. \A k : Calls(k) /\ k.sub # s => (k \in rebuildJobs <=> k \in rebuildJobs')
    BY <2>1
  <2> HIDE DEF s
  <2> QED
    BY <1>1, <1>2, <2>3, <2>4, <2>5, OneRow_WaitInv
<1>5. ASSUME NEW kind \in CallKinds, kinds = {kind}, ~Paused PROVE WaitInv'
  <2> DEFINE new == [j EXCEPT !.kind = kind]
  <2>1. new.kind = kind /\ new.sub = s /\ new.rev = 0 /\ new.rejudge = j.rejudge
    BY <1>1 DEF JobRecord
  <2>2. rebuildJobs' = (rebuildJobs \ {j}) \cup {new}
    BY <1>5 DEF Proceeds
  <2> HIDE DEF new
  <2>3. CalledBy(s, rebuildJobs) => CalledBy(s, rebuildJobs)'
    BY <1>2, <2>1, <2>2 DEF CalledBy, IsCall
  <2>4. RowWaits(s)'
    BY <1>1, <1>3, <2>3 DEF RowWaits
  <2>5. \A k \in rebuildJobs' : JobWaits(k)
    BY <1>5, <2>1, <2>2 DEF WaitInv, JobWaits
  <2>6. \A k : Calls(k) /\ k.sub # s => (k \in rebuildJobs <=> k \in rebuildJobs')
    BY <2>1, <2>2
  <2> HIDE DEF s
  <2> QED
    BY <1>1, <1>2, <2>4, <2>5, <2>6, OneRow_WaitInv
<1> QED
  BY <1>4, <1>5

\* Where no data is restored there are no keys.
KeysInv == retryKeys # {} => "restore" \in rebuildWorld
LEMMA RebuildNext_KeysInv == KeysInv /\ [RebuildNext]_rebuildVars => KeysInv'
<1> SUFFICES ASSUME KeysInv, [RebuildNext]_rebuildVars PROVE rebuildWorld' = rebuildWorld /\ KeysInv'
  OBVIOUS
<1>1. ASSUME NEW s, NEW rev, NEW n, NEW rejudge, NEW force, NEW keys \in SUBSET retryKeys, NEW jobs,
             JudgeSub(s, rev, n, rejudge, force, keys, jobs)
      PROVE  retryKeys' # {} => "restore" \in rebuildWorld
  BY <1>1 DEF JudgeSub, KeysInv
<1>2. CASE UNCHANGED <<retryKeys, rebuildWorld>>
  BY <1>2 DEF KeysInv
<1>3. ASSUME NEW j \in rebuildJobs, Dispatch(j) \/ RestoreRetry(j) PROVE rebuildWorld' = rebuildWorld /\ KeysInv'
  <2>1. UNCHANGED rebuildWorld
    BY <1>3 DEF Dispatch, RestoreRetry
  <2>2. CASE retryKeys' \subseteq retryKeys
    BY <2>1, <2>2 DEF KeysInv
  <2>3. CASE JudgeSub(j.sub, j.rev, 0, TRUE, FALSE, retryKeys, (rebuildJobs \ {j}) \cup {StepJob(j.rev)})
    BY <1>1, <2>1, <2>3 DEF KeysInv
  <2>4. CASE JudgeSub(j.sub, j.rev, j.n, j.rejudge, j.rev = 0, retryKeys \ {j.sub}, rebuildJobs \ {j})
    <3>1. retryKeys \ {j.sub} \in SUBSET retryKeys
      OBVIOUS
    <3> QED
      BY <1>1, <2>1, <2>4, <3>1 DEF KeysInv
  <2> QED
    BY <1>3, <2>2, <2>3, <2>4 DEF Dispatch, RestoreRetry, RetryReleases, RetryJudges
<1>4. ASSUME NEW j \in rebuildJobs, StorageAnswers(j) PROVE rebuildWorld' = rebuildWorld /\ KeysInv'
  BY <1>4 DEF StorageAnswers, KeysInv
<1>5. ASSUME NEW s, KeyExpires(s) PROVE rebuildWorld' = rebuildWorld /\ KeysInv'
  BY <1>5 DEF KeyExpires, KeysInv
<1> QED
  BY <1>2, <1>3, <1>4, <1>5
  DEF RebuildNext, rebuildVars, RebuildTask, SiteTask, RebuildStep, Publish, CheckAdmission, ReadRow, QueueCall, Redelivered,
      Enable, Disable, CreateSubmission, RequestRejudge, AbortDeferred, Verdict, LockedAfterPasses

LEMMA Call_WaitInv ==
  ASSUME RebuildInv, CallInv, KeysInv, WaitInv, Timely, NEW j \in rebuildJobs,
         CheckAdmission(j) \/ ReadRow(j) \/ StorageAnswers(j) \/ QueueCall(j)
  PROVE  WaitInv'
<1> DEFINE s == j.sub
           jobs == rebuildJobs \ {j}
           retry == RetryJob(s, 0, 0 + 1, j.rejudge)
<1>1. UNCHANGED scoring /\ IsCall(j) /\ Calls(j)
  BY DEF CheckAdmission, ReadRow, StorageAnswers, QueueCall, IsCall, CallKinds, Calls
<1>2. s \in RebuildSubs /\ s \in Created /\ RowWaits(s) /\ (j.kind # "judge" => ~Paused)
  BY <1>1, CallOf DEF WaitInv, JobWaits
<1>3. Paused' = Paused
  BY <1>1 DEF Paused
<1>4. CASE CheckAdmission(j)
  <2>1. UNCHANGED <<scoring, rows, retryKeys>> /\ Proceeds(j, IF Paused THEN {} ELSE {"checked"}) /\ "checked" \in CallKinds
    BY <1>4 DEF CheckAdmission, CallKinds
  <2>2. CASE Paused
    BY <1>1, <2>1, <2>2, Proceeds_WaitInv
  <2>3. CASE ~Paused
    BY <1>1, <2>1, <2>3, Proceeds_WaitInv
  <2> QED
    BY <2>2, <2>3
\* A call for a rejudge may be given up, but it is not what the row waits for.
<1>5. CASE ReadRow(j)
  <2>1. UNCHANGED <<scoring, rows, retryKeys>> /\ "asked" \in CallKinds /\ ~Paused
        /\ Proceeds(j, IF JudgeSkips(s, j.rejudge, ~j.rejudge) THEN {} ELSE {"asked"})
    BY <1>2, <1>5 DEF ReadRow, CallKinds
  <2>2. CASE JudgeSkips(s, j.rejudge, ~j.rejudge)
    <3>1. j.rejudge \/ rows[s].status # "QU"
      BY <2>2 DEF JudgeSkips
    <3> QED
      BY <1>1, <2>1, <2>2, <3>1, Proceeds_WaitInv
  <2>3. CASE ~JudgeSkips(s, j.rejudge, ~j.rejudge)
    BY <1>1, <2>1, <2>3, Proceeds_WaitInv
  <2> QED
    BY <2>2, <2>3
<1>6. CASE StorageAnswers(j) /\ UNCHANGED rows /\ \E host \in Hosts : Proceeds(j, {host}) /\ retryKeys' = retryKeys \ {s}
  <2>1. Hosts \subseteq CallKinds /\ ~Paused /\ retryKeys' \subseteq retryKeys
    BY <1>2, <1>6 DEF StorageAnswers, Hosts, CallKinds
  <2> HIDE DEF s
  <2> QED
    BY <1>1, <1>6, <2>1, Proceeds_WaitInv
<1>7. CASE StorageAnswers(j) /\ "restore" \in rebuildWorld /\ JudgeUnready(s, 0, 0, j.rejudge, retryKeys, jobs)
  <2>1. CallFits(j) /\ ~Paused
    BY <1>1, <1>2, <1>7 DEF CallInv, StorageAnswers
  <2>2. ~RetriedBy(s, rebuildJobs)
    BY <1>1, <2>1 DEF CallFits, RetriedBy, Calls, IsCall, CallKinds
  <2>3. s \in retryKeys => rows[s].status = "AB"
    BY <1>2, <2>2 DEF RowWaits
  <2>4. retry.kind = "retry" /\ retry.sub = s
    BY DEF RetryJob
  <2>5. OneActive'
    BY <1>3, <2>1 DEF OneActive, Paused
  <2> HIDE DEF s, jobs, retry
  <2>6. /\ RowWaits(s)' /\ \A r \in RebuildSubs \ {s} : rows'[r] = rows[r] /\ (r \in retryKeys' => r \in retryKeys)
        /\ jobs \subseteq rebuildJobs' /\ rebuildJobs' \subseteq jobs \cup {retry}
    BY <1>2, <1>3, <1>7, <2>1, <2>3, JudgeUnready_RowWaits DEF CallFits, retry, s
  <2>7. \A k \in rebuildJobs' : JobWaits(k)
    BY <2>1, <2>4, <2>6 DEF WaitInv, JobWaits, jobs, IsCall, CallKinds
  <2>8. \A k : Calls(k) /\ k.sub # s => (k \in rebuildJobs <=> k \in rebuildJobs')
    BY <2>4, <2>6 DEF jobs, s
  <2> QED
    BY <1>2, <1>3, <2>5, <2>6, <2>7, <2>8, OneRow_WaitInv
<1>8. CASE QueueCall(j)
  <2>1. j.kind = "local" /\ ClaimRow(s, 0, "local", j.rejudge) /\ rebuildJobs' = jobs /\ UNCHANGED retryKeys /\ ~Paused
    BY <1>2, <1>8 DEF QueueCall, Timely, RebuildInv, JobFits
  <2>2. OneActive'
    BY <1>3, <2>1 DEF OneActive, Paused
  <2>3. \A r \in RebuildSubs \ {s} : rows'[r] = rows[r]
    BY <1>2, <2>1, ClaimRowOnly
  <2>4. RowWaits(s)'
    <3>1. CASE s \notin retryKeys
      <4>1. Admitted(0) /\ s \notin retryKeys'
        BY <2>1, <3>1 DEF Admitted
      <4> QED
        BY <1>2, <1>3, <2>1, <4>1, ClaimRow_RowWaits
    <3>2. CASE s \in retryKeys
      <4>1. CallFits(j)
        BY <1>1, <3>2 DEF KeysInv, CallInv
      <4>2. ~RetriedBy(s, rebuildJobs)
        BY <1>1, <4>1 DEF CallFits, RetriedBy, Calls, IsCall, CallKinds
      <4>3. rows[s].status = "AB" /\ ~j.rejudge
        BY <1>2, <3>2, <4>1, <4>2 DEF RowWaits, CallFits
      <4>4. UNCHANGED rows
        BY <2>1, <4>3 DEF ClaimRow, Claimable
      <4> QED
        BY <1>2, <4>3, <4>4 DEF RowWaits
    <3> QED
      BY <3>1, <3>2
  <2>5. \A k \in rebuildJobs' : JobWaits(k)
    BY <2>1 DEF WaitInv
  <2>6. \A k : Calls(k) /\ k.sub # s => (k \in rebuildJobs <=> k \in rebuildJobs')
    BY <2>1
  <2> HIDE DEF s, jobs
  <2> QED
    BY <1>2, <1>3, <2>1, <2>2, <2>3, <2>4, <2>5, <2>6, OneRow_WaitInv
<1> HIDE DEF s, jobs
<1> QED
  BY <1>4, <1>5, <1>6, <1>7, <1>8 DEF StorageAnswers, s, jobs

LEMMA RestoreRetry_WaitInv ==
  ASSUME RebuildInv, WaitInv, Timely, NEW j \in rebuildJobs, RestoreRetry(j)
  PROVE  WaitInv'
<1> DEFINE s == j.sub
           jobs == rebuildJobs \ {j}
           retry == RetryJob(s, j.rev, j.n + 1, j.rejudge)
<1>1. /\ j.kind = "retry" /\ UNCHANGED <<scoring, lockedRows, rebuildWorld>> /\ j.rev \in Nat
      /\ s \in RebuildSubs /\ s \in Created /\ RowWaits(s) /\ (j.rev = 0 => ~Paused)
  BY CallOf DEF RestoreRetry, Calls, WaitInv, JobWaits
<1>2. Paused' = Paused
  BY <1>1 DEF Paused
<1>3. CASE RetryReleases(j)
  <2>1. /\ j.rev # 0 /\ rows' = IF OwnDeferred(j) THEN [rows EXCEPT ![s].status = "AB"] ELSE rows
        /\ rebuildJobs' = jobs /\ UNCHANGED retryKeys
    BY <1>3 DEF RetryReleases, Replace
  <2>2. CASE OwnDeferred(j)
    <3>1. ~rows[s].run
      BY <1>1, <2>2 DEF OwnDeferred, RowWaits
    <3>2. \A k \in rebuildJobs : Calls(k) /\ k.sub # s => k \in rebuildJobs'
      BY <2>1
    <3> HIDE DEF s
    <3> QED
      BY <1>1, <2>1, <2>2, <3>1, <3>2, Aborts_WaitInv
\* A retry that does not own the row is not what the row waits for.
  <2>3. CASE ~OwnDeferred(j)
    <3>1. rows' = rows /\ OneActive'
      BY <1>1, <2>1, <2>3 DEF WaitInv, OneActive, ActiveRows
    <3>2. rows[s].status = "QU" /\ RetriedBy(s, rebuildJobs) => RetriedBy(s, rebuildJobs)'
      BY <2>1, <2>3, <3>1 DEF RetriedBy, OwnDeferred
    <3>3. CalledBy(s, rebuildJobs) => CalledBy(s, rebuildJobs)'
      BY <1>1, <1>2, <2>1 DEF CalledBy, IsCall, CallKinds
    <3>4. RowWaits(s)'
      BY <1>1, <2>1, <3>1, <3>2, <3>3 DEF RowWaits
    <3>5. \A k \in rebuildJobs' : JobWaits(k)
      BY <2>1 DEF WaitInv
    <3>6. \A k : Calls(k) /\ k.sub # s => (k \in rebuildJobs <=> k \in rebuildJobs')
      BY <2>1
    <3> HIDE DEF s, jobs
    <3> QED
      BY <1>1, <1>2, <2>1, <3>1, <3>4, <3>5, <3>6, OneRow_WaitInv
  <2> QED
    BY <2>2, <2>3
<1>4. CASE RetryJudges(j) /\ rows[s].status \notin InProgress
  <2>1. rebuildJobs' = jobs /\ retryKeys' = retryKeys \ {s} /\ rows' = rows
    BY <1>4 DEF RetryJudges, Replace
  <2>2. RowWaits(s)' /\ OneActive'
    BY <1>1, <1>4, <2>1 DEF RowWaits, InProgress, WaitInv, OneActive, ActiveRows
  <2>3. \A k \in rebuildJobs' : JobWaits(k)
    BY <2>1 DEF WaitInv
  <2>4. \A k : Calls(k) /\ k.sub # s => (k \in rebuildJobs <=> k \in rebuildJobs')
    BY <2>1
  <2> HIDE DEF s, jobs
  <2> QED
    BY <1>1, <1>2, <2>1, <2>2, <2>3, <2>4, OneRow_WaitInv
<1>5. CASE RetryJudges(j) /\ rows[s].status \in InProgress
  <2>1. /\ JudgeSub(s, j.rev, j.n, j.rejudge, j.rev = 0, retryKeys \ {s}, jobs)
        /\ j.rev # 0 => ~Superseded(j) /\ ~(s \in lockedRows /\ rows[s].status = "QU")
    BY <1>1, <1>5 DEF RetryJudges
  <2>2. Admitted(j.rev) /\ (j.rev # 0 => scoring.state = "REBUILDING" /\ s = scoring.pending)
    BY <1>1, <2>1 DEF Admitted, Superseded, Current
  <2>3. ~(JudgeSkips(s, j.rejudge, j.rev = 0) /\ rows[s].status = "QU")
    BY <2>1 DEF JudgeSkips
  <2>4. retry.kind = "retry" /\ retry.sub = s /\ retry.rev = j.rev
    BY DEF RetryJob
  <2>5. s \in ActiveRows
    BY <1>1, <1>5 DEF ActiveRows
  <2> HIDE DEF s, jobs, retry
  <2>6. /\ RowWaits(s)' /\ \A r \in RebuildSubs \ {s} : rows'[r] = rows[r] /\ (r \in retryKeys' => r \in retryKeys \ {s})
        /\ jobs \subseteq rebuildJobs' /\ rebuildJobs' \subseteq jobs \cup {retry}
    BY <1>1, <1>2, <2>1, <2>2, <2>3, JudgeSub_RowWaits DEF retry
  <2>7. ActiveRows' \subseteq ActiveRows
    BY <1>1, <2>5, <2>6 DEF ActiveRows
  <2>8. OneActive'
    BY <1>1, <2>7 DEF WaitInv, OneActive
  <2>9. \A k \in rebuildJobs' : JobWaits(k)
    <3>1. \A k \in jobs : JobWaits(k)
      BY DEF WaitInv, jobs
    <3> QED
      BY <1>1, <2>4, <2>6, <3>1 DEF JobWaits, Calls, IsCall, CallKinds
  <2>10. \A k : Calls(k) /\ k.sub # s => (k \in rebuildJobs <=> k \in rebuildJobs')
    BY <2>4, <2>6 DEF jobs, s
  <2> QED
    BY <1>1, <1>2, <2>6, <2>8, <2>9, <2>10, OneRow_WaitInv
<1> QED
  BY <1>3, <1>4, <1>5 DEF RestoreRetry

LEMMA Dispatch_WaitInv ==
  ASSUME RebuildInv, WaitInv, Timely, NEW j \in rebuildJobs, Dispatch(j)
  PROVE  WaitInv'
<1> DEFINE s == j.sub
           jobs == (rebuildJobs \ {j}) \cup {StepJob(j.rev)}
           retry == RetryJob(s, j.rev, 0 + 1, TRUE)
<1>1. j.kind = "dispatch" /\ s \in RebuildSubs /\ s \in Created /\ s # 0 /\ scoring \in ScoringRecord
  BY CallOf, SubNumbers DEF Dispatch, RebuildInv, ScoringFits
<1>2. CASE (Ends(j) \/ Fails(j)) /\ UNCHANGED <<rows, retryKeys>>
  <2>1. rebuildJobs' = rebuildJobs \ {j} /\ (scoring' = scoring \/ scoring' = [scoring EXCEPT !.state = "FAILED"])
        /\ (scoring' # scoring => Paused)
    BY <1>2 DEF Ends, Fails, Replace, Paused
  <2>2. OneActive' /\ (Paused' => Paused)
    <3>1. CASE scoring' = scoring
      BY <1>2, <3>1 DEF WaitInv, OneActive, ActiveRows, Paused
    <3>2. CASE scoring' # scoring
      <4>1. scoring'.state = "FAILED"
        BY <1>1, <2>1, <3>2 DEF ScoringRecord
      <4> QED
        BY <2>1, <3>2, <4>1 DEF OneActive
    <3> QED
      BY <3>1, <3>2
  <2> QED
    BY <1>1, <1>2, <2>1, <2>2, NoRow_WaitInv DEF Calls, IsCall, CallKinds
<1>3. CASE /\ Current(j) /\ scoring.state = "REBUILDING" /\ scoring.pending = s /\ ~scoring.dispatched
           /\ JudgeSub(s, j.rev, 0, TRUE, FALSE, retryKeys, jobs)
           /\ scoring' = [scoring EXCEPT !.dispatched = TRUE]
  <2>1. /\ scoring'.state = scoring.state /\ scoring'.revision = scoring.revision /\ scoring'.pending = s
        /\ scoring'.phase = scoring.phase /\ scoring'.dispatched
    BY <1>1, <1>3 DEF ScoringRecord
  <2>2. scoring.phase # "drain" /\ scoring.revision # 0 /\ j.rev = scoring.revision
    BY <1>1, <1>3 DEF RebuildInv, ScoringFits, Advancing, Current
  <2>3. ActiveRows = {} /\ Paused' = Paused /\ Admitted(j.rev) /\ RowWaits(s)
    BY <1>1, <1>3, <2>1, <2>2 DEF WaitInv, OneActive, Paused, Admitted
  <2>4. rows[s].status # "QU" /\ (s \in retryKeys => rows[s].status = "AB")
    BY <1>1, <2>3 DEF ActiveRows, InProgress, RowWaits
  <2>5. StepJob(j.rev).kind = "step" /\ retry.kind = "retry" /\ retry.sub = s /\ retry.rev = j.rev
    BY DEF StepJob, TaskJob, RetryJob
  <2> HIDE DEF s, jobs, retry
  <2>6. /\ RowWaits(s)' /\ \A r \in RebuildSubs \ {s} : rows'[r] = rows[r] /\ (r \in retryKeys' => r \in retryKeys)
        /\ jobs \subseteq rebuildJobs' /\ rebuildJobs' \subseteq jobs \cup {retry}
    BY <1>1, <1>3, <2>3, <2>4, JudgeSub_RowWaits DEF retry
  <2>7. OneActive'
    <3>1. ActiveRows' \subseteq {s}
      BY <2>3, <2>6 DEF ActiveRows
    <3> QED
      BY <2>1, <3>1 DEF OneActive
  <2>8. \A k \in rebuildJobs' : JobWaits(k)
    <3>1. \A k \in jobs : JobWaits(k)
      BY <2>5 DEF WaitInv, JobWaits, Calls, IsCall, CallKinds, jobs
    <3> QED
      BY <2>2, <2>5, <2>6, <3>1 DEF JobWaits, Calls, IsCall, CallKinds
  <2>9. \A k : Calls(k) /\ k.sub # s => (k \in rebuildJobs <=> k \in rebuildJobs')
    BY <1>1, <2>5, <2>6 DEF jobs, Calls, IsCall, CallKinds
  <2> QED
    BY <1>1, <2>3, <2>6, <2>7, <2>8, <2>9, OneRow_WaitInv
<1> QED
  BY <1>2, <1>3 DEF Dispatch

\* Steps that only change the columns of the problem and the messages of the rebuild.
LEMMA Problem_WaitInv ==
  ASSUME RebuildInv, WaitInv, UNCHANGED <<rows, retryKeys>>, OneActive',
         \A j \in rebuildJobs : Calls(j) => j \in rebuildJobs',
         \A j \in rebuildJobs' : j \in rebuildJobs \/ ~Calls(j),
         Paused' => Paused \/ \A j \in rebuildJobs : Calls(j) => j.rev # 0
  PROVE  WaitInv'
  BY NoRow_WaitInv

LEMMA Administrator_WaitInv ==
  ASSUME RebuildInv, WaitInv, Timely, Enable \/ Disable
  PROVE  WaitInv'
<1>1. /\ UNCHANGED <<rows, retryKeys, lockedRows, rebuildWorld>> /\ scoring \in ScoringRecord
      /\ \A j \in rebuildJobs : Calls(j) => j.rev # 0
  BY DEF Enable, Disable, NothingLate, Timely, Calls, RebuildInv, ScoringFits
<1>2. \E rev : rebuildJobs' = rebuildJobs \/ rebuildJobs' = rebuildJobs \cup {StepJob(rev)}
  BY DEF Enable, Disable
<1>3. \A rev : ~Calls(StepJob(rev))
  BY DEF StepJob, TaskJob, Calls, IsCall, CallKinds
<1>4. OneActive'
  <2>1. CASE Enable
    <3> DEFINE start == [state |-> "REBUILDING", revision |-> scoring.revision + 1, phase |-> "drain", cursor |-> 0,
                         ceiling |-> IF Created = {} THEN 0 ELSE CHOOSE s \in Created : \A r \in Created : r <= s,
                         pending |-> 0, dispatched |-> FALSE]
    <3>1. scoring' = start \/ scoring' = [start EXCEPT !.state = "FAILED"]
      BY <2>1 DEF Enable
    <3>2. start.phase = "drain" /\ [start EXCEPT !.state = "FAILED"].state = "FAILED"
      OBVIOUS
    <3> HIDE DEF start
    <3> QED
      BY <3>1, <3>2 DEF OneActive
  <2>2. CASE Disable
    <3>1. scoring' = Stopping(scoring)
      BY <1>1, <2>2, ScoringIs DEF Disable
    <3> QED
      BY <3>1 DEF Stopping, OneActive
  <2> QED
    BY <2>1, <2>2
<1> QED
  BY <1>1, <1>2, <1>3, <1>4, Problem_WaitInv

LEMMA RebuildStep_WaitInv ==
  ASSUME RebuildInv, WaitInv, NEW j \in rebuildJobs, RebuildStep(j)
  PROVE  WaitInv'
<1>1. /\ j.kind = "step" /\ UNCHANGED <<rows, retryKeys, lockedRows, rebuildWorld>> /\ scoring \in ScoringRecord
      /\ \/ rebuildJobs' = rebuildJobs \ {j}
         \/ \E kind \in {"publishOFF", "publishON", "dispatch"} : \E s, rev :
               rebuildJobs' = (rebuildJobs \ {j}) \cup {TaskJob(kind, s, rev)}
  BY DEF RebuildStep, Ends, Fails, StepStopping, StepRejected, StepDispatchAgain, StepAdvance, Replace, RebuildInv, ScoringFits
<1>2. \A kind \in {"publishOFF", "publishON", "dispatch"} : \A s, rev : ~Calls(TaskJob(kind, s, rev))
  BY DEF TaskJob, Calls, IsCall, CallKinds
<1>3. /\ \A k \in rebuildJobs : Calls(k) => k \in rebuildJobs'
      /\ \A k \in rebuildJobs' : k \in rebuildJobs \/ ~Calls(k)
  BY <1>1, <1>2 DEF Calls, IsCall, CallKinds
<1>4. OneActive' /\ (Paused' => Paused)
  <2>1. CASE UNCHANGED scoring
    BY <1>1, <2>1 DEF WaitInv, OneActive, ActiveRows, Paused
  <2>2. CASE scoring' = [scoring EXCEPT !.state = "FAILED"] /\ scoring.state = "REBUILDING"
    <3>1. scoring' = Failed(scoring)
      BY <1>1, <2>2, ScoringIs
    <3> QED
      BY <2>2, <3>1 DEF Failed, OneActive, Paused
  <2>3. CASE scoring' = [scoring EXCEPT !.phase = "disable-refresh"] /\ scoring.state = "STOPPING"
    <3>1. scoring' = Phase(scoring, "STOPPING", "disable-refresh")
      BY <1>1, <2>3, ScoringIs
    <3> QED
      BY <2>3, <3>1 DEF Phase, OneActive, Paused
  <2>4. CASE scoring.state = "REBUILDING" /\ StepAdvance(j)
    <3> DEFINE cursor == IF scoring.pending = 0 THEN scoring.cursor ELSE scoring.pending
               at(phase, pending) == [scoring EXCEPT !.cursor = cursor, !.phase = phase,
                                                     !.pending = pending, !.dispatched = FALSE]
    <3>1. Fails(j) \/ \E phase, pending : scoring' = at(phase, pending)
      <4> HIDE DEF at
      <4> QED
        BY <2>4 DEF StepAdvance, at
    <3>2. CASE Fails(j)
      BY <2>1, <2>2, <3>2 DEF Fails
    <3>3. CASE ~Fails(j)
      <4>1. PICK phase, pending : scoring' = at(phase, pending)
        BY <3>1, <3>3
      <4>4. scoring' = [scoring EXCEPT !.cursor = cursor, !.phase = phase, !.pending = pending, !.dispatched = FALSE]
        <5> HIDE DEF cursor
        <5> QED
          BY <4>1
      <4>5. scoring' = Advanced(scoring, cursor, phase, pending)
        <5> HIDE DEF cursor, at
        <5> QED
          BY <1>1, <4>4, AdvancedEq
\* The row it goes on from has its result, and was the only one in progress.
      <4>2. ActiveRows = {}
        <5>1. CASE scoring.phase = "drain"
          BY <2>4, <5>1 DEF StepAdvance, Drained
        <5>2. CASE scoring.phase # "drain"
          <6>1. \A s \in ActiveRows : s = scoring.pending
            BY <2>4, <5>2 DEF WaitInv, OneActive
          <6>2. scoring.pending # 0 => rows[scoring.pending].status \in {"D", "CE"}
            BY <2>4 DEF StepAdvance, Rebuilt
          <6> QED
            BY <6>1, <6>2, SubNumbers DEF ActiveRows, InProgress
        <5> QED
          BY <5>1, <5>2
      <4>3. ActiveRows' = {}
        BY <1>1, <4>2 DEF ActiveRows
      <4> QED
        BY <2>4, <4>5, <4>3 DEF Advanced, OneActive, Paused
    <3> QED
      BY <3>2, <3>3
  <2> QED
    BY <1>1, <2>1, <2>2, <2>3, <2>4 DEF RebuildStep, Ends, Fails, StepStopping, StepRejected, StepDispatchAgain
<1> QED
  BY <1>1, <1>3, <1>4, Problem_WaitInv

LEMMA Publish_WaitInv ==
  ASSUME RebuildInv, WaitInv, NEW j \in rebuildJobs, Publish(j)
  PROVE  WaitInv'
<1>1. /\ j.kind \in {"publishON", "publishOFF"} /\ UNCHANGED <<rows, retryKeys, lockedRows, rebuildWorld>>
      /\ rebuildJobs' = rebuildJobs \ {j} /\ scoring \in ScoringRecord
  BY DEF Publish, Ends, Fails, Replace, RebuildInv, ScoringFits
<1>2. OneActive' /\ (Paused' => Paused)
  <2>1. CASE UNCHANGED scoring
    BY <1>1, <2>1 DEF WaitInv, OneActive, ActiveRows, Paused
  <2>2. CASE scoring' = [scoring EXCEPT !.state = "FAILED"] /\ scoring.state = "REBUILDING"
    <3>1. scoring' = Failed(scoring)
      BY <1>1, <2>2, ScoringIs
    <3> QED
      BY <2>2, <3>1 DEF Failed, OneActive, Paused
  <2>3. CASE \E to \in {"ON", "OFF"} : scoring' = [scoring EXCEPT !.state = to, !.phase = "done"]
    <3>1. PICK to \in {"ON", "OFF"} : scoring' = [scoring EXCEPT !.state = to, !.phase = "done"]
      BY <2>3
    <3>2. scoring' = Phase(scoring, to, "done")
      BY <1>1, <3>1, PhaseIs
    <3> QED
      BY <3>2 DEF Phase, OneActive, Paused
  <2> QED
    BY <2>1, <2>2, <2>3 DEF Publish, Ends, Fails
<1> QED
  BY <1>1, <1>2, Problem_WaitInv DEF Calls, IsCall, CallKinds

LEMMA RebuildInit_WaitInv == RebuildInit => WaitInv
<1> SUFFICES ASSUME RebuildInit PROVE WaitInv
  OBVIOUS
<1>1. scoring.state = "OFF" /\ rebuildJobs = {} /\ retryKeys = {}
  BY DEF RebuildInit
<1>2. \A s \in RebuildSubs : rows[s].status = "none" /\ ~rows[s].run
  BY DEF RebuildInit, Fresh
<1> QED
  BY <1>1, <1>2 DEF WaitInv, OneActive, RowWaits

LEMMA RebuildNext_WaitInv ==
  ASSUME RebuildInv, CallInv, KeysInv, WaitInv, Timely, [RebuildNext]_rebuildVars
  PROVE  WaitInv'
<1>1. CASE RebuildTask
  BY <1>1, RebuildStep_WaitInv, Dispatch_WaitInv, Publish_WaitInv DEF RebuildTask
<1>2. CASE SiteTask
  BY <1>2, Call_WaitInv, RestoreRetry_WaitInv DEF SiteTask
<1>3. ASSUME NEW j \in rebuildJobs, Redelivered(j) PROVE WaitInv'
  <2>1. /\ UNCHANGED <<scoring, rows, retryKeys, lockedRows, rebuildWorld>> /\ ~Calls(j)
        /\ \E lost \in SUBSET {j} : rebuildJobs' = (rebuildJobs \ lost) \cup {StepJob(j.rev)}
    BY <1>3 DEF Redelivered, Calls, IsCall, CallKinds
  <2>2. ~Calls(StepJob(j.rev))
    BY DEF StepJob, TaskJob, Calls, IsCall, CallKinds
  <2>3. OneActive' /\ Paused' = Paused
    BY <2>1 DEF WaitInv, OneActive, ActiveRows, Paused
  <2> QED
    BY <2>1, <2>2, <2>3, Problem_WaitInv
<1>4. CASE Enable \/ Disable
  BY <1>4, Administrator_WaitInv
<1>5. ASSUME NEW s \in RebuildSubs, CreateSubmission(s) \/ Verdict(s) PROVE WaitInv'
  BY <1>5, CreateSubmission_WaitInv, Verdict_WaitInv
<1>6. ASSUME NEW s \in RebuildSubs, AbortDeferred(s) PROVE WaitInv'
  BY <1>6, Aborts_WaitInv DEF AbortDeferred
<1>7. ASSUME NEW s \in RebuildSubs, RequestRejudge(s) \/ LockedAfterPasses(s) \/ KeyExpires(s) PROVE WaitInv'
  <2>1. /\ UNCHANGED <<scoring, rows>> /\ retryKeys' \subseteq retryKeys
        /\ rebuildJobs' = rebuildJobs \/ rebuildJobs' = rebuildJobs \cup {JudgeJob("judge", s, TRUE)}
    BY <1>7 DEF RequestRejudge, LockedAfterPasses, KeyExpires
  <2>2. JudgeJob("judge", s, TRUE).kind = "judge" /\ JudgeJob("judge", s, TRUE).rev = 0
    BY DEF JudgeJob
  <2>3. OneActive' /\ Paused' = Paused
    BY <2>1 DEF WaitInv, OneActive, ActiveRows, Paused
  <2> QED
    BY <2>1, <2>2, <2>3, NoRow_WaitInv
<1>8. CASE UNCHANGED rebuildVars
  <2>1. OneActive' /\ Paused' = Paused
    BY <1>8 DEF rebuildVars, WaitInv, OneActive, ActiveRows, Paused
  <2> QED
    BY <1>8, <2>1, Problem_WaitInv DEF rebuildVars
<1> QED
  BY <1>1, <1>2, <1>3, <1>4, <1>5, <1>6, <1>7, <1>8 DEF RebuildNext

\* judge/models/submission.py:217-346 and storage_retry_judge_submission: a submission
\* that waits in the queue for its data without a run always has somebody who will try
\* again, whatever keys expire, rebuilds begin, stop or fail, and rows are locked or
\* aborted meanwhile.  (The property itself leaves out late retries and remote judges;
\* OneHazard leaves out rejudges by hand where data is restored.)
THEOREM DeferredRunsAreRetried == ASSUME OneHazard PROVE RebuildSpec => []DeferredRunIsRetriedInTime
<1> DEFINE Inv == RebuildInv /\ CallInv /\ KeysInv /\ (Timely => WaitInv)
<1>1. RebuildInit => Inv
  BY RebuildInit_RebuildInv, RebuildInit_WaitInv DEF RebuildInit, CallInv, KeysInv
<1>2. Inv /\ [RebuildNext]_rebuildVars => Inv'
  <2> SUFFICES ASSUME Inv, [RebuildNext]_rebuildVars PROVE Inv'
    OBVIOUS
  <2>1. rebuildWorld' = rebuildWorld
    BY DEF RebuildNext, rebuildVars, RebuildTask, SiteTask, RebuildStep, Dispatch, Publish, CheckAdmission, ReadRow,
           StorageAnswers, QueueCall, RestoreRetry, Redelivered, Enable, Disable, CreateSubmission, RequestRejudge,
           AbortDeferred, Verdict, LockedAfterPasses, KeyExpires
  <2>2. RestoresAlone(rebuildWorld) /\ (Timely' => Timely)
    BY <2>1 DEF Timely, OneHazard, RebuildInv
  <2> QED
    BY <2>2, RebuildNext_RebuildInv, RebuildNext_CallInv, RebuildNext_KeysInv, RebuildNext_WaitInv
<1>3. Inv => DeferredRunIsRetriedInTime
  <2> SUFFICES ASSUME Inv, Timely, NEW s \in RebuildSubs, Waiting(s) PROVE SomebodyRetries(s)
    BY DEF DeferredRunIsRetriedInTime, DeferredRunIsRetried, Timely
  <2>1. RetriedBy(s, rebuildJobs) \/ CalledBy(s, rebuildJobs)
    BY DEF WaitInv, RowWaits, Waiting
  <2> QED
    BY <2>1 DEF RetriedBy, CalledBy, IsCall, SomebodyRetries
<1> QED
  BY <1>1, <1>2, <1>3, PTL DEF RebuildSpec
====
