SPECIFICATION Spec
CONSTANTS
  Pkg = {"gods", "toml"}
  Mixed = {"toml"}
  GoMod = "go/pkg/mod"
  Index = {"index-1"}
  Slash = "/"
  None = None
  MaxRuns = 1
  MaxChanges = 0
INVARIANT MaterialsUsedNamed
CHECK_DEADLOCK FALSE
