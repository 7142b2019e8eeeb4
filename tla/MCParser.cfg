\* Three kinds of line and every expression with three operators; three lines
\* and a last one are a structure in another, an arm with a block of its own, and
\* what follows them.
CONSTANTS
  MaxLines = 3
  Programs <- MCPrograms
  MaxDiagnostics = 20
SPECIFICATION Spec
INVARIANT TreeFollowsText
INVARIANT TypeOK
INVARIANT LaterLinesRecovered
PROPERTY Terminates
CHECK_DEADLOCK FALSE
