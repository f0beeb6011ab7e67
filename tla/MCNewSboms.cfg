SPECIFICATION FairSpec
CONSTANTS
  Project = {"a", "b"}
  Part = {"my", "lib", "dep", "sha", "x", "rc", "1", "1.0", "2.0", "0.10.0"}
  Number = {"1", "1.0", "2.0", "0.10.0"}
  Rank <- MCRank
  Package <- MCPackage
  Uses <- MCUses
  Orig <- MCOrig
  Hidden <- MCHidden
  MaxRuns = 2
INVARIANTS TypeOK NewSbomExact NamesSurvive AbortKeepsLater
PROPERTY BatchEnds
CHECK_DEADLOCK FALSE
