SPECIFICATION FairSpec
CONSTANTS
  Project = {"a", "b"}
  SubDir <- MCSubDir
  Root <- MCRoot
  Base <- MCBase
  SkippedName = {"testdata"}
  Rank <- MCRank
  Pkg = {"x", "y"}
  Deps <- MCDeps
  MayBlock = {"a", "a/v2/lib"}
  Home = "projects"
  Start = "start"
  Star = "*"
  Nowhere = "nowhere"
  MaxRuns = 2
  MaxChanges = 1
INVARIANTS TypeOK NothingLost BinaryExplained OwnEvidence DriftBounded HandledComplete
PROPERTY EveryEntryHandled
CHECK_DEADLOCK FALSE
