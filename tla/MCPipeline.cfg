SPECIFICATION Spec
CONSTANTS
  Project = {"a", "b"}
  MayLack = {"b"}
  Star = "*"
  Rank <- MCRank
  MaxStarts = 10
INVARIANTS TypeOK 
CHECK_DEADLOCK FALSE
