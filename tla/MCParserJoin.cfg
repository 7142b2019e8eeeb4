\* Scripts of one or two lines.
CONSTANTS
  MaxLines = 3
  Programs <- ShortPrograms
  MaxDiagnostics = 20
SPECIFICATION Spec
INVARIANT FollowingStatementKept
CHECK_DEADLOCK FALSE
