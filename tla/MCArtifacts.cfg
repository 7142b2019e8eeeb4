\* A request with two arguments and a read beside it fits in five nodes; time
\* may pass once, at any point.
SPECIFICATION Spec
CONSTANTS
  PineVersion = 6
  Offers <- MCOffers
  Results <- MCResults
  Starts <- MCStarts
  Heads <- MCHeads
  MaxNodes = 5
  MaxClock = 1
  MaxDiagnostics = 2
INVARIANT SealInvariant
INVARIANT RequirementsHaveRows
INVARIANT SeriesIdentityByContext
INVARIANT VerdictsAgree
INVARIANT PayloadsValidate
CHECK_DEADLOCK FALSE
