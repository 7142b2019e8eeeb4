\* What the guard against endless loops counts.
SPECIFICATION Spec
CONSTANTS
  PineVersion = 5
  Offers <- MCOffers
  Signatures <- MCSignatures
  Fields <- MCFields
  DynamicDefault = FALSE
  ExportedConst = FALSE
  MaxNodes = 4
INVARIANT GuardCountsIterations
CHECK_DEADLOCK FALSE
