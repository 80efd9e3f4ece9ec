------------------------------- MODULE MCSite -------------------------------
(* The components of the site that share no state with one another, explored   *)
(* in one run: `live` says which of them moves, the others stay where they     *)
(* begin.                                                                      *)
EXTENDS SubtaskRebuild, ExternalJudge, StorageSync, TestData, Participation, BatchSubmit,
        ContestScoring, Conservative, Invocations, SourceFiles, Streaks, TLC

VARIABLE live   \* the component that this behaviour is about

siteVars == <<live, rebuildVars, externalVars, syncVars, dataVars, partVars, batchVars,
              scoreVars, rankVars, invVars, sourceVars, streakVars>>

MCWorlds == {{"restore", "lock", "fail"}, {"redeliver", "abort", "fail"}, {"restore", "late"},
             {"rejudge", "late"}, {"restore", "remote", "fail"}, {"restore", "lock"}}
MCFeed == (1 :> "p") @@ (2 :> "none") @@ (3 :> "q") @@ (4 :> "p")
MCUser == (1 :> "a") @@ (2 :> "a")
MCScoreWorlds == {{}, {"overlap"}, {"abort"}, {"rejudge"}}
MCTokens == 1 :> 2
MCBusyRows == {{}, {1}}

MCSubtasks == (1 :> {1}) @@ (2 :> {1, 2})
Entries(kinds, problems, submitted) ==
  [of |-> problems, kind |-> kinds, day |-> submitted, last |-> 1, seed |-> 0, subs |-> {1, 2, 3},
   legacy |-> {}, faults |-> 0, workers |-> {1, 2}]
MCStreakWorlds ==
  LET p == "practice"
      o == "offline"
      c == "contest"
  IN {[Entries(<<o, p, o>>, <<1, 1, 1>>, <<1, 1, 1>>) EXCEPT !.workers = {1}],
      [Entries(<<p, p, p>>, <<1, 2, 1>>, <<1, 3, 2>>) EXCEPT !.last = 3],
      [Entries(<<c, p, c>>, <<2, 2, 2>>, <<1, 1, 1>>) EXCEPT !.subs = {1, 2}],
      [Entries(<<o, p, o>>, <<1, 1, 2>>, <<1, 1, 1>>) EXCEPT !.legacy = {1, 3}],
      [Entries(<<o, p, o>>, <<1, 1, 2>>, <<1, 1, 1>>) EXCEPT !.last = 2, !.subs = {1, 2}],
      [Entries(<<o, p, o>>, <<1, 1, 1>>, <<1, 1, 1>>) EXCEPT !.faults = 1, !.subs = {1, 2}, !.workers = {1}]}

\* A component that is not live begins in one state only (the scoreboard in a world
\* that BoardIsCurrent says nothing about, so that no rows are computed meanwhile).
First(S) == CHOOSE x \in S : TRUE
SiteInit ==
  /\ live \in {"rebuild", "external", "sync", "data", "part", "batch", "score", "rank", "inv",
                "source", "streak"}
  /\ RebuildInit /\ ExternalInit /\ SyncInit /\ DataInit /\ PartInit /\ BatchInit
  /\ ScoringInit /\ RankInit /\ InvInit /\ SourceInit /\ StreakInit
  /\ live # "rebuild" => rebuildWorld = First(RebuildWorlds)
  /\ live # "data" => dataFaults = First(EditFaults)
  /\ live # "score" => scoreWorld = {"overlap"}
  /\ live # "rank" => busyRows = First(BusyRows)
  /\ live # "inv" => ensure = First(EnsureReady)
  /\ live # "streak" => streakWorld = First(StreakWorlds)

Only(c) ==
  /\ live = c /\ UNCHANGED live
  /\ c # "rebuild" => UNCHANGED rebuildVars
  /\ c # "external" => UNCHANGED externalVars
  /\ c # "sync" => UNCHANGED syncVars
  /\ c # "data" => UNCHANGED dataVars
  /\ c # "part" => UNCHANGED partVars
  /\ c # "batch" => UNCHANGED batchVars
  /\ c # "score" => UNCHANGED scoreVars
  /\ c # "rank" => UNCHANGED rankVars
  /\ c # "inv" => UNCHANGED invVars
  /\ c # "source" => UNCHANGED sourceVars
  /\ c # "streak" => UNCHANGED streakVars

SiteNext ==
  \/ Only("rebuild") /\ RebuildNext
  \/ Only("external") /\ ExternalNext
  \/ Only("sync") /\ SyncNext
  \/ Only("data") /\ DataNext
  \/ Only("part") /\ PartNext
  \/ Only("batch") /\ BatchNext
  \/ Only("score") /\ ScoringNext
  \/ Only("rank") /\ RankNext
  \/ Only("inv") /\ InvNext
  \/ Only("source") /\ SourceNext
  \/ Only("streak") /\ StreakNext

(* Fairness.  Each component needs weak fairness of a few actions; as `live`    *)
(* never changes, weak fairness of a disjunction over the components is weak    *)
(* fairness of the disjunct of each of them.                                    *)
\* The rebuild is only claimed to end when no message and no callback is lost and
\* nobody else asks for a run.
Undisturbed == rebuildWorld = {"restore", "lock"}
\* Files are followed as long as no worker died before it handed a run over.
\* Events are followed to their end where workers fail, or find those of an earlier release.
Followed == streakWorld.faults > 0 \/ streakWorld.legacy # {}
Fair1 ==
  \/ Undisturbed /\ Only("rebuild") /\ RebuildTask
  \/ Only("external") /\ ExternalTasks
  \/ Only("data") /\ (EditStep \/ EditFails)
  \/ Only("part") /\ ExpireAttempt
  \/ ~lostRun /\ Only("batch") /\ SomeDelivery
  \/ Followed /\ Only("streak") /\ DrainStep(1)
Fair2 ==
  \/ Undisturbed /\ Only("rebuild") /\ SiteTask
  \/ Only("data") /\ Upload
  \/ Only("part") /\ Tick
  \/ ~lostRun /\ Only("batch") /\ \E s \in created : JudgeEnds(s)
  \/ Followed /\ Only("streak") /\ 2 \in streakWorld.workers /\ DrainStep(2)
Fair3 ==
  \/ Undisturbed /\ Only("rebuild") /\ Verdict(1)
  \/ Only("data") /\ PollStep
  \/ ~lostRun /\ Only("batch") /\ DeliveryStep(1)
  \/ Followed /\ Only("streak") /\ BecomeDue(NotYetDue)
Fair4 ==
  \/ Undisturbed /\ Only("rebuild") /\ Verdict(2)
  \/ ~lostRun /\ Only("batch") /\ DeliveryStep(2)
  \/ Followed /\ Only("streak") /\ (GradingStep \/ RevealStep)

SiteSpec ==
  /\ SiteInit /\ [][SiteNext]_siteVars
  /\ WF_siteVars(Fair1) /\ WF_siteVars(Fair2) /\ WF_siteVars(Fair3) /\ WF_siteVars(Fair4)

Owed ==
  \/ live = "rebuild" /\ Undisturbed /\ Paused
  \/ live = "external" /\ extStatus \in ExtActive
  \/ live = "data" /\ isLocked
  \/ live = "part" /\ active # 0
  \/ live = "batch" /\ started /\ ~lostRun
  \/ live = "streak" /\ Followed /\ \E s \in Pending : Published(s)
Settle ==
  \/ live = "rebuild" /\ scoring.state \in {"ON", "OFF", "FAILED"}
  \/ live = "external" /\ extStatus \in ExtFinal
  \/ live = "data" /\ (~isLocked \/ manifest.ready = manifest.sha)
  \/ live = "part" /\ active = 0
  \/ live = "batch" /\ (PendingFiles = {} \/ lostRun)
  \/ live = "streak" /\ \A s \in Pending : ~Published(s)
SiteProgress == Owed ~> Settle

SiteTypeOK ==
  /\ live = "rebuild" => RebuildTypeOK
  /\ live = "external" => ExternalTypeOK
  /\ live = "sync" => SyncTypeOK
  /\ live = "data" => DataTypeOK
  /\ live = "part" => PartTypeOK
  /\ live = "batch" => BatchTypeOK
  /\ live = "score" => ScoringTypeOK
  /\ live = "rank" => RankTypeOK
  /\ live = "inv" => InvTypeOK
  /\ live = "source" => SourceTypeOK
  /\ live = "streak" => StreakTypeOK
=============================================================================
