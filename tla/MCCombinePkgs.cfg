SPECIFICATION Spec
CONSTANTS
  Name = {"a", "a-strace.txt", "b"}
  Line <- MCLine
  Refs <- MCRefs
  PkgLines <- MCPkgLines
  BinLines <- MCBinLines
  Listing <- MCListing
  None = ""
  Folders <- AnyFolders
  MaxRuns = 3
INVARIANTS TypeOK NoMixing AlignedComplete
PROPERTY KeepsPromise
CHECK_DEADLOCK FALSE
