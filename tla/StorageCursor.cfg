SPECIFICATION SyncSpec
CONSTANTS
  SyncWorkers = {1, 2}
  NoWorker = 0
  CatalogProblems = {"p", "q"}
  NoProblem = "none"
  FeedLength = 4
  Feed <- MCFeed
  Overruns = TRUE
PROPERTIES
  CursorMovesWithBatch
CHECK_DEADLOCK FALSE
