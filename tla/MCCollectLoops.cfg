SPECIFICATION Spec
CONSTANTS
  Project = {"a", "b", "c"}
  SubDir <- MCSubDir
  Root <- MCRoot
  Rank <- MCRank
  Pkg = {"libc", "x", "y"}
  Tools = {"libc"}
  Deps <- MCDeps
  CMake = {"a"}
  MayBlock = {"b"}
  Home = "projects"
  Start = "start"
  Star = "*"
  Nowhere = "nowhere"
  MaxRuns = 2
  MaxChanges = 1
INVARIANTS TypeOK OwnBuildOnly SeenIsListed ProductExplained ReachableBuilt
CHECK_DEADLOCK FALSE
