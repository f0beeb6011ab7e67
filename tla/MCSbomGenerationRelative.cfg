SPECIFICATION Spec
CONSTANTS
  Project = {"a", "b", "c"}
  MayBlock = {"c"}
  Home = "projects"
  Star = "*"
  None = None
  Partial = Partial
  MaxRuns = 1
INVARIANT SbomsInOutputFolder
CHECK_DEADLOCK FALSE
