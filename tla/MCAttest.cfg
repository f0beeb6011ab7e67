SPECIFICATION Spec
CONSTANTS
  Pkg = {"gods", "toml"}
  Mixed = {"toml"}
  GoMod = "go/pkg/mod"
  Index = {"index-1", "index-2"}
  Slash = "/"
  None = None
  MaxRuns = 3
  MaxChanges = 2
INVARIANTS TypeOK ProductExplained
CHECK_DEADLOCK FALSE
