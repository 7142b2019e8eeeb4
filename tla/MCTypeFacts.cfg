SPECIFICATION FactsSpec
CONSTANTS
  ItemSets <- MCItemSets
  MaxItems = 4
  BuiltinTypes <- MCBuiltinTypes
  BuiltinReceivers <- MCBuiltinReceivers
  PineVersion = 6
INVARIANT TablesOK
INVARIANT TypesOutliveTheWalk
INVARIANT SectionsNameTheSameMethod
INVARIANT ReferencesKnown
\* A program is analysed once.
CHECK_DEADLOCK FALSE
