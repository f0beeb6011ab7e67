SPECIFICATION Spec
CONSTANTS
  Project = {"a", "b", "c"}
  SubDir <- CwdSubDir
  Root <- CwdRoot
  Base <- CwdBase
  SkippedName = {"testdata"}
  Rank <- MCRank
  Pkg = {"x", "y", "z"}
  Deps <- CwdDeps
  MayBlock = {"a", "b", "c"}
  Home = "projects"
  Start = "start"
  Star = "*"
  Nowhere = "nowhere"
  MaxRuns = 1
  MaxChanges = 0
INVARIANT BackInProjectsFolder
CHECK_DEADLOCK FALSE
