\* Four groups of programs; how many symbols and scopes each may create is given
\* with the group.
CONSTANTS
  f = f
  e = e
  a = a
  Names = {f, e, a}
  Members <- MCMembers
  UsedKinds <- SymbolKinds
  UsedScopes <- ScopeKinds
  Programs <- MCPrograms
  ForbiddenLocal = {a}
  WrittenQualifiers = {"input"}
  Heads <- Heads_
  LoopCeiling = 10
  NestCeiling = 20
  MaxSymbols = 8
  MaxScopes = 4
SPECIFICATION AnalysisSpec
INVARIANT TypeOK
INVARIANT ResolvesToInnermost
INVARIANT DeadVariablesUnresolved
PROPERTY ImplementsLexicalScopes
INVARIANT WalkInvariant
INVARIANT NamesKeepTheirMeaning
INVARIANT AssignedVariablesNotConst
PROPERTY KeepsScopeDiscipline
CHECK_DEADLOCK FALSE
