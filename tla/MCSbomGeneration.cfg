SPECIFICATION Spec
CONSTANTS
  Project = {"a", "b", "c"}
  MayBlock = {"c"}
  Home = "projects"
  Star = "*"
  None = None
  Partial = Partial
  MaxRuns = 2
INVARIANTS TypeOK NoOrphanSbom Settled HealthyDescribed
CHECK_DEADLOCK FALSE
