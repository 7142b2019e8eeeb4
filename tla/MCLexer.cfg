CONSTANTS
  Texts <- MCTexts
SPECIFICATION Spec
INVARIANT TokensFaithful
CHECK_DEADLOCK FALSE
