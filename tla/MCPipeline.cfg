\* Two reports a stage and room for two diagnostics: lists fill up, and
\* shrink again when duplicates go.
CONSTANTS
  Reports <- MCReports
  Audited <- MCAudited
  MaxDiagnostics = 2
  MaxReports = 2
SPECIFICATION Spec
INVARIANT GatesTellTheOutcome
INVARIANT FatalYieldsNoProgram
INVARIANT OnlyTheLimitDrops
INVARIANT NothingLost
CHECK_DEADLOCK FALSE
