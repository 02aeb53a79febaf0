CONSTANTS
  Codes = {"E05", "E14", "E20"}
  RuleIds = {1, 2, 3, 4, 5, 6, 7}
  Rule <- MCRule
  Batches <- MCBatches
  World <- MCWorld
  Roles = {"suspense", "fees"}
  None = None
  Latest = 2
  Ceiling <- MCCeiling
  MaxAdded = 1
  Breadth = 2
  Tolerance = 0
  Deployments <- MCDeployments
  Seeded <- MCSeeded
  MaxChanges = 3
SPECIFICATION Spec
CHECK_DEADLOCK FALSE
INVARIANTS
  ToleranceWithinCeiling
  UnratifiedNeverBooks
  LostMatchBlocks
  ApprovedEvidenceHolds
PROPERTIES
  RulesAreNotForgotten
