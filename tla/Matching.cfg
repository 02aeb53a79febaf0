CONSTANTS
  Anchors = {"a", "b"}
  Facts <- AllFacts
  Rows <- MCRows
  Groups = {"g", "h"}
  NoGroup = ""
  NoParty = ""
  GroupOf <- MCGroupOf
  Cohort <- MCCohort
  Strategies <- Shipped
  Tolerance = 1
  MaxSolutions = 3
  MaxCandidates = 4
  Months <- MCMonths
SPECIFICATION SpecBoth
CHECK_DEADLOCK FALSE
INVARIANT BacksOneAnchor
INVARIANT EveryInputHasAFate
INVARIANT LeftoverKeepsFatesApart
INVARIANT SubsetIsUnique
INVARIANT OrderMattersOnlyInContest
