SPECIFICATION Spec
CONSTANTS
  Project = {"a", "b"}
  Star = "*"
  Pkg = {"x", "y"}
  Contents <- MCContents
  Listing <- MCListing
  MaxRuns = 2
  MaxBuilds = 2
  Mentions <- MCMentions
  None = ""
  Lefts <- MCLefts
INVARIANTS TypeOK ListsExplained CollectedComplete TotalsTrue RefusesOnlyMisaligned AgreementIsEvidence
CHECK_DEADLOCK FALSE
