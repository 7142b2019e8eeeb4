\* The overloads that differ by version are bound for Pine v6.
SPECIFICATION Spec
CONSTANTS
  Callables <- MCCallables
  Offers <- MCOffers
  PineVersion = 6
  MaxArgs = 3
INVARIANT ChoiceInvariant
INVARIANT AcceptedCallsBindOnce
INVARIANT BindersAgree
INVARIANT ConstructorFactsMatchDiagnostics
INVARIANT CollectionCallsWellTyped
INVARIANT CollectionRowsMatchCall
\* A call is analysed once.
CHECK_DEADLOCK FALSE
