SPECIFICATION SiteSpec
CONSTANTS
  RebuildSubs = {1, 2}
  RebuildRevisions = 2
  RestoreAttempts = 2
  RebuildWorlds <- MCWorlds
  ExternalRuns = 3
  MaxPollAttempts = 2
  SyncWorkers = {1, 2}
  NoWorker = 0
  CatalogProblems = {"p", "q"}
  NoProblem = "none"
  FeedLength = 4
  Feed <- MCFeed
  Overruns = FALSE
  DataVersions = 3
  EditFaults = {TRUE, FALSE}
  LastTime = 2
  ContestEnd = 1
  MaxJoins = 2
  MaxAttempts = 2
  MaxUserSubs = 1
  BatchFiles = {1, 2}
  FileUser <- MCUser
  NoFile = 0
  Deliveries = {1, 2}
  UserQueueLimit = 1
  ContestProblems = {"A", "B"}
  FullPoints = 2
  Penalty = 20
  FreezeAt = 2
  WindowEnd = 2
  MaxEntries = 2
  ScoreWorlds <- MCScoreWorlds
  RankedSubs = {1, 2}
  RankedRuns = 2
  RankRevisions = 2
  Builders = {1, 2}
  BuildPage = 1
  BusyRows <- MCBusyRows
  InvItems = {1}
  NoItem = 0
  InvTokens <- MCTokens
  InvWorkers = {1, 2}
  ItemsPerTask = 1
  EnsureReady = {"off", "restore", "remote"}
  SourcePaths = 4
  StreakSubs = {1, 2, 3}
  StreakProblems = {1, 2}
  Subtasks <- MCSubtasks
  SubtaskPoints = 1
  LastDay = 3
  StreakBatch = 1
  StreakWorkers = {1, 2}
  StreakWorlds <- MCStreakWorlds
INVARIANTS
  SiteTypeOK
  PublishedIsOneGeneration  DeferredRunIsRetriedInTime
  ResultOfCurrentRow
  
  GateOpensOnPublished RemoteDataReady
  OneActivity AttemptSubmissions
  OneSubmissionPerFile
  FrozenShowsFreeze BoardIsCurrent
  ScoreOfCurrentRun RankingIsComplete
  SentRunIsOnItsWay SourceFileExists
  LedgerIsPublic StreaksAreRuns NoLockCycle
PROPERTIES
  SiteProgress
   OldRetrySparesRuns
  StaleRequestsAreHarmless
CHECK_DEADLOCK FALSE
