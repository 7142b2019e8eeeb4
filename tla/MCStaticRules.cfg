\* In Pine v5 requests are static unless the declaration says otherwise.
SPECIFICATION Spec
CONSTANTS
  PineVersion = 5
  Offers <- MCOffers
  Signatures <- MCSignatures
  Fields <- MCFields
  DynamicDefault = FALSE
  ExportedConst = FALSE
  MaxNodes = 4
INVARIANT WalkInvariant
INVARIANT RequestsDisabledAreReported
INVARIANT CountsMatchRows
INVARIANT SortsSelectOrderedFields
INVARIANT LoopRowsCountIterations
CHECK_DEADLOCK FALSE
