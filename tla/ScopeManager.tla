---------------------------- MODULE ScopeManager ----------------------------
(***************************************************************************)
(* The scope manager of the semantic analyzer (semantic/analyzer_scope.py: *)
(* _define, _resolve, _push_scope, _pop_scope).                            *)
(*                                                                         *)
(* The analyzer does not look names up in its stack of scopes.  It keeps   *)
(* ONE flat dictionary, model.symbols, from names to symbols, which later  *)
(* passes and the inference engine read directly, plus a history of the    *)
(* symbols a declaration has displaced.  A scope only records the ids of   *)
(* the symbols it declared.  Whether a name still means what its           *)
(* block structure says depends on every declaration pushing, and every    *)
(* closed scope popping, exactly the right entry of that history.          *)
(*                                                                         *)
(* This module is the data structure under any caller that keeps the       *)
(* calling discipline of the walker (Permitted, below); module Analyzer is *)
(* the walker itself.                                                      *)
(***************************************************************************)
EXTENDS Naturals, Sequences

CONSTANTS
  Names,        \* plain identifiers: x, f, T
  Members,      \* qualified names: enum members E.A and fields T.f
  UsedKinds,    \* the kinds of symbol the caller declares
  UsedScopes,   \* the kinds of scope the caller opens
  MaxSymbols,   \* bound on the symbols created
  MaxScopes     \* bound on the scopes created

AllNames == Names \cup Members

ScopeKinds ==
  {"GLOBAL", "FUNCTION", "METHOD", "LOCAL_BLOCK", "LOOP", "TYPE_DECL"}

SymbolKinds ==
  {"VARIABLE", "FUNCTION", "METHOD", "TYPE", "ENUM", "ENUM_MEMBER",
   "FIELD", "IMPORT_ALIAS", "BUILTIN"}

ASSUME ScopeAssumption ==
  /\ Names \cap Members = {}
  /\ UsedKinds \subseteq SymbolKinds
  /\ UsedScopes \subseteq ScopeKinds
  /\ MaxSymbols \in Nat
  /\ MaxScopes \in Nat

VARIABLES
  scopes,      \* model.scopes: the kind of every scope ever opened, by id
  stack,       \* scope_stack: open scopes, each its id and name -> symbol id
  flat,        \* model.symbols
  history,     \* _symbol_history; <<>> where the dictionary has no key
  nextId,      \* next_symbol_id
  redeclared   \* names a REDECLARATION diagnostic was issued for

scopeVars == <<scopes, stack, flat, history, nextId, redeclared>>

\* Symbols: id, kind and the id of the declaring scope.  Id 0 is "no symbol".
NoSymbol == [id |-> 0, kind |-> "NONE", scope |-> 0]

Symbol == [id : 1..MaxSymbols, kind : SymbolKinds, scope : 1..MaxScopes]

Top == stack[Len(stack)]

Binds(scope, n) == scope.symbols[n] # 0

(***************************************************************************)
(* _resolve.  The scan of the open scopes stops at the innermost one whose *)
(* recorded id is the id of a symbol of the flat dictionary.  An id        *)
(* belongs to one name, so the only candidate is the symbol the dictionary *)
(* has for that name; what remains to be decided is whether it may be      *)
(* used at all.                                                            *)
(***************************************************************************)
AlwaysVisibleScopes == {"GLOBAL", "TYPE_DECL"}

AlwaysVisibleKinds ==
  {"BUILTIN", "TYPE", "ENUM", "ENUM_MEMBER", "IMPORT_ALIAS",
   "FUNCTION", "METHOD"}

Live(n) == \E i \in 1..Len(stack) :
             /\ Binds(stack[i], n)
             /\ stack[i].symbols[n] = flat[n].id

MutantResolveFlat(n) == flat[n]

Resolve(n) ==
  IF /\ flat[n].id # 0
     /\ \/ Live(n)
        \/ scopes[flat[n].scope] \in AlwaysVisibleScopes
        \/ flat[n].kind \in AlwaysVisibleKinds
  THEN flat[n]
  ELSE NoSymbol

-----------------------------------------------------------------------------
(* The operations. *)

\* A user variable may take over a builtin of the same scope.
ShadowsBuiltin(n, kind) == flat[n].kind = "BUILTIN" /\ kind = "VARIABLE"

MutantRejectedLocally(n, kind, allowExisting) ==
  Binds(Top, n) /\ ~allowExisting /\ scopes[Top.id] # "GLOBAL"

Rejected(n, kind, allowExisting) ==
  Binds(Top, n) /\ ~allowExisting /\ ~ShadowsBuiltin(n, kind)

DefineRejected(n, kind, allowExisting) ==
  /\ Rejected(n, kind, allowExisting)
  /\ redeclared' = redeclared \cup {n}
  /\ UNCHANGED <<scopes, stack, flat, history, nextId>>

MutantSavedOnce(n) ==
  IF flat[n].id # 0 /\ history[n] = <<>> THEN <<flat[n]>> ELSE history[n]

MutantSavedAlways(n) == Append(history[n], flat[n])

\* The history of n once what the dictionary has for it is displaced.
Saved(n) ==
  IF flat[n].id # 0 THEN Append(history[n], flat[n]) ELSE history[n]

DefineAccepted(n, kind, allowExisting) ==
  /\ ~Rejected(n, kind, allowExisting)
  /\ nextId <= MaxSymbols
  /\ stack' = [stack EXCEPT ![Len(stack)] =
                 [id |-> Top.id, symbols |-> [Top.symbols EXCEPT ![n] = nextId]]]
  /\ history' = [history EXCEPT ![n] = Saved(n)]
  /\ flat' = [flat EXCEPT ![n] = [id |-> nextId, kind |-> kind,
                                  scope |-> Top.id]]
  /\ nextId' = nextId + 1
  /\ UNCHANGED <<scopes, redeclared>>

Define(n, kind, allowExisting) ==
  /\ stack # <<>>
  /\ \/ DefineRejected(n, kind, allowExisting)
     \/ DefineAccepted(n, kind, allowExisting)

PushScope(kind) ==
  /\ Len(scopes) < MaxScopes
  /\ scopes' = Append(scopes, kind)
  /\ stack' = Append(stack, [id |-> Len(scopes) + 1,
                             symbols |-> [n \in AllNames |-> 0]])
  /\ UNCHANGED <<flat, history, nextId, redeclared>>

MutantKeptWholeType(scope, n) == scopes[scope.id] \in {"GLOBAL", "TYPE_DECL"}

\* Symbols that stay in the dictionary when their scope closes.
Kept(scope, n) ==
  \/ scopes[scope.id] = "GLOBAL"
  \/ scopes[scope.id] = "TYPE_DECL" /\ n \in Members

\* The names whose displaced symbol comes back when the top scope closes.
Restores(n) ==
  /\ Binds(Top, n)
  /\ flat[n].id = Top.symbols[n]
  /\ ~Kept(Top, n)
  /\ history[n] # <<>>

PopScope ==
  /\ stack # <<>>
  /\ flat' = [n \in AllNames |->
                IF Restores(n) THEN history[n][Len(history[n])] ELSE flat[n]]
  /\ history' = [n \in AllNames |->
                   IF Restores(n)
                   THEN SubSeq(history[n], 1, Len(history[n]) - 1)
                   ELSE history[n]]
  /\ stack' = SubSeq(stack, 1, Len(stack) - 1)
  /\ UNCHANGED <<scopes, nextId, redeclared>>

-----------------------------------------------------------------------------
(* The calling discipline of the walker. *)

\* Which symbols are declared where: qualified names as builtins and by type
\* and enum declarations, which the grammar has at top level only; builtins,
\* types, enums and imports in the global scope; a name is overwritten on purpose
\* only there or when it is qualified.
Permitted(n, kind, allowExisting) ==
  LET here == scopes[Top.id]
  IN  /\ allowExisting => here = "GLOBAL" \/ n \in Members
      /\ kind \in {"BUILTIN", "TYPE", "ENUM", "ENUM_MEMBER", "IMPORT_ALIAS"}
           => here = "GLOBAL"
      /\ kind = "BUILTIN" => allowExisting
      /\ kind = "FIELD" <=> here = "TYPE_DECL"
      /\ n \in Members => kind \in {"ENUM_MEMBER", "FIELD", "BUILTIN", "TYPE"}

\* The global scope is opened once, first; a type declaration only in it.
MayOpen(kind) ==
  IF scopes = <<>> THEN kind = "GLOBAL"
  ELSE /\ stack # <<>>
       /\ kind # "GLOBAL"
       /\ kind = "TYPE_DECL" => Len(stack) = 1

Init ==
  /\ scopes = <<>>
  /\ stack = <<>>
  /\ flat = [n \in AllNames |-> NoSymbol]
  /\ history = [n \in AllNames |-> <<>>]
  /\ nextId = 1
  /\ redeclared = {}

Declare ==
  /\ stack # <<>>
  /\ \E n \in AllNames, kind \in UsedKinds, allowExisting \in BOOLEAN :
       /\ Permitted(n, kind, allowExisting)
       /\ Define(n, kind, allowExisting)

Open == \E kind \in UsedScopes : MayOpen(kind) /\ PushScope(kind)

Next == Declare \/ Open \/ PopScope

Spec == Init /\ [][Next]_scopeVars

-----------------------------------------------------------------------------
(* Properties. *)

\* The open scopes that declare n, and whether scope i is the innermost.
Declaring(n) == {i \in 1..Len(stack) : Binds(stack[i], n)}

Innermost(n, i) == i \in Declaring(n) /\ \A j \in Declaring(n) : j <= i

\* The type invariant of _define, _push_scope and _pop_scope.
TypeOK ==
  /\ scopes \in Seq(ScopeKinds)
  /\ Len(scopes) <= MaxScopes
  /\ stack \in Seq([id : 1..MaxScopes, symbols : [AllNames -> 0..MaxSymbols]])
  /\ flat \in [AllNames -> Symbol \cup {NoSymbol}]
  /\ history \in [AllNames -> Seq(Symbol)]
  /\ nextId \in 1..(MaxSymbols + 1)
  /\ redeclared \subseteq AllNames

\* An identifier that open scopes declare resolves to the symbol of the
\* innermost of them, whatever was declared, shadowed, redeclared and closed
\* before: the flat dictionary and the history of _define/_pop_scope implement
\* block structure.
ResolvesToInnermost ==
  \A n \in Names : \A i \in 1..Len(stack) :
    Innermost(n, i) => Resolve(n).id = stack[i].symbols[n]

\* A variable whose scope is closed is out of reach of _resolve, although
\* _pop_scope leaves its symbol in the dictionary when it displaced none.
DeadVariablesUnresolved ==
  stack # <<>> =>
    \A n \in Names :
      Declaring(n) = {} => Resolve(n).kind # "VARIABLE"

\* Implements LexicalScopes: what _resolve answers for a declared identifier
\* is its meaning under block structure, step by step.
Lexical == INSTANCE LexicalScopes WITH
  env <- [i \in 1..Len(stack) |->
            [n \in Names |-> stack[i].symbols[n]]],
  used <- nextId - 1,
  meaning <- [n \in Names |->
                IF Declaring(n) # {} THEN Resolve(n).id ELSE 0]

ImplementsLexicalScopes == Lexical!Spec
=============================================================================
