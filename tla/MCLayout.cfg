\* Two blocks, one indentation between them and one beyond; six lines are enough
\* to open two blocks, leave a bracket open, recover and dedent past it.
CONSTANTS
  Indents = {0, 2, 4, 8}
  Lines <- MCLines
  BlockWidth = 4
  MaxLines = 6
SPECIFICATION Spec
INVARIANT LayoutTokensMatch
INVARIANT LevelsAreBlocks
INVARIANT OffsideRule
CHECK_DEADLOCK FALSE
