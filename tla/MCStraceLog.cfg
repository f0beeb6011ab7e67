SPECIFICATION LogSpec
CONSTANTS
  Proc = {p1, p2}
  Path = {"libz.so.1", "ld.so.cache", "x@v1/go.mod", "cache/x@v1.mod", "x.crate"}
  Lib = {"libz.so.1", "ld.so.cache"}
  Conf = {"ld.so.cache"}
  Mod = {"x@v1/go.mod", "cache/x@v1.mod"}
  Cached = {"cache/x@v1.mod"}
  Crate = {"x.crate"}
  Noise <- MCNoise
  None = "none"
  Text = "text"
  MaxCalls = 3
  MaxOutput = 2
SYMMETRY MCSymmetry
INVARIANTS LogTypeOK LibrariesComplete ModulesComplete CratesComplete
  AbsentNotReported
CHECK_DEADLOCK FALSE
