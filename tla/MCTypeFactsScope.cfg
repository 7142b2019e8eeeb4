\* A collection parameter whose name an earlier function has used.
SPECIFICATION FactsSpec
CONSTANTS
  ItemSets <- CollectionItemSets
  MaxItems = 2
  BuiltinTypes <- MCBuiltinTypes
  BuiltinReceivers <- MCBuiltinReceivers
  PineVersion = 6
INVARIANT CollectionsCheckedInScope
CHECK_DEADLOCK FALSE
