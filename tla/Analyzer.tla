------------------------------ MODULE Analyzer ------------------------------
(***************************************************************************)
(* The semantic analyzer (semantic/analyzer*.py and its passes): builtins  *)
(* are registered, top-level declarations are predeclared, and the program *)
(* is then walked once, statement by statement, over the scope manager.    *)
(*                                                                         *)
(* The program is the walk itself: its top-level declarations are fixed    *)
(* when the analysis starts (predeclaration looks ahead at them), and what *)
(* statement comes next in a body is chosen when the walk gets there.      *)
(* frames is the recursion of the visitors; todo is what is left to do of  *)
(* the handler that is running, so that every step does at most one        *)
(* operation on the scope manager.                                         *)
(***************************************************************************)
EXTENDS ScopeManager, Integers, FiniteSets

CONSTANTS
  Programs,       \* what a program may be; see ProgramAssumption
  ForbiddenLocal, \* builtins marked forbidden_in_local_blocks
  WrittenQualifiers, \* the qualifiers that variable declarations write
  Heads,          \* heads of for-range loops: [span, step]
  LoopCeiling,    \* ParseOptions.loop_max_iterations
  NestCeiling     \* the bound on products of nested loops; 10^8 in the code

Types == {"int", "string", "unknown"}

Literals == {"int", "string"}        \* literals, by their type

Expressions(names) == Literals \cup names

Qualifiers == {"const", "input", "series"}

Unstated == "unstated"               \* no type, qualifier or name is written

NonLiteral == -1                     \* a bound or step that is no literal

NoStep == 0

ScriptTypes == {"indicator", "strategy", "library"}

ItemNodes ==
  {"STATEMENTS", "FUNCTION", "METHOD", "TYPE", "ENUM", "IMPORT"}

\* A top-level item.  parts: parameters, fields or members; a method's receiver
\* is the first of its parts, and receiver its type.  STATEMENTS stands for the
\* statements between two declarations.
Item == [node : ItemNodes, name : Names, parts : Seq(Names),
         receiver : Names \cup {Unstated}, exported : BOOLEAN]

\* A registered builtin; a dotted one is qualified.
Builtin == [name : Names \cup Members, kind : {"BUILTIN", "TYPE"},
            type : Types, qualifier : Qualifiers]

StatementKinds ==
  {"VAR", "TUPLE", "REASSIGN", "USE", "CALL", "BREAK", "DECLARATION", "NESTED",
   "BLOCK", "WHILE", "FORRANGE", "FORIN"}

\* A program is its items, the declaration statement that opens it, the names
\* its reassignments have for roots, and the builtins of its language version,
\* in the order they are registered.  Of its bodies it gives the kinds of
\* statement they hold and the names those mention, and it bounds the symbols
\* and scopes they create.
Program ==
  [items : Seq(Item), script : ScriptTypes \cup {Unstated},
   reassigned : SUBSET Names, builtins : Seq(Builtin),
   statements : SUBSET StatementKinds, names : SUBSET Names,
   symbols : 0..MaxSymbols, scopes : 0..MaxScopes]

\* Qualified names are pairs of plain ones, and the walk declares every kind of
\* symbol and opens every kind of scope.
ASSUME ProgramAssumption ==
  /\ Members \subseteq Names \X Names
  /\ UsedKinds = SymbolKinds /\ UsedScopes = ScopeKinds
  /\ Programs \subseteq Program
  /\ \A p \in Programs : \A i \in 1..Len(p.items) :
       /\ p.items[i].node \in {"TYPE", "ENUM"} =>
            \A j \in 1..Len(p.items[i].parts) :
              <<p.items[i].name, p.items[i].parts[j]>> \in Members
       /\ p.items[i].node = "METHOD" /\ p.items[i].receiver # Unstated
            => p.items[i].parts # <<>>
       /\ p.items[i].node = "STATEMENTS" => ~p.items[i].exported
  /\ ForbiddenLocal \subseteq Names
  /\ WrittenQualifiers \subseteq Qualifiers
  /\ LoopCeiling \in Nat /\ NestCeiling \in Nat

VARIABLES
  attr,           \* name, kind, type and qualifier of every symbol, by id
  params,         \* _function_params: whose parameter list a name has
  program,        \* the program under analysis
  phase,          \* the pass that is running
  at,             \* the next top-level item
  predeclared,    \* _predeclared_nodes: items
  frames,         \* the visitors that are running, outermost first
  todo,           \* the operations left of the running handler
  loopDepth, localDepth, functionDepth,
  staticBounds,   \* _static_loop_bounds
  scriptType,     \* _script_type
  declarations,   \* declaration statements of the program, at most 2 counted
  diags           \* <<code, subject>> of the diagnostics issued

tableVars == <<attr, params, predeclared>>
passVars  == <<program, phase, at>>
depthVars == <<loopDepth, localDepth, functionDepth, staticBounds>>
unitVars  == <<scriptType, declarations>>

vars == <<scopeVars, tableVars, passVars, depthVars, unitVars, frames, todo,
          diags>>

-----------------------------------------------------------------------------
(* What the handlers read. *)

Items == program.items

Mentioned == program.names

Inner == frames[Len(frames)]

Resolved(n) == Resolve(n).id # 0

\* infer_type and infer_qualifier read the flat dictionary.
InferType(e) ==
  IF e \in Literals THEN e
  ELSE IF flat[e].id = 0 THEN "unknown" ELSE attr[flat[e].id].type

InferQualifier(e) ==
  IF e \in Literals THEN "const"
  ELSE IF flat[e].id = 0 \/ attr[flat[e].id].qualifier = Unstated
       THEN "series" ELSE attr[flat[e].id].qualifier

Assignable(expected, actual) ==
  expected = actual \/ "unknown" \in {expected, actual}

Rank(q) == CASE q = "const" -> 0 [] q = "input" -> 1 [] OTHER -> 2

When(condition, code, subject) ==
  IF condition THEN {<<code, subject>>} ELSE {}

Issue(found) == diags' = diags \cup found

\* _visit_expr of an identifier or a literal.
Unresolved(e) ==
  When(e \in Names /\ ~Resolved(e), "UNDECLARED_VARIABLE", e)

-----------------------------------------------------------------------------
(* Handlers leave single operations behind, in order. *)

Definition(n, kind, existing, type, qualifier) ==
  [op |-> "DEFINE", name |-> n, kind |-> kind, existing |-> existing,
   type |-> type, qualifier |-> qualifier]

Variable(n, type, qualifier) ==
  Definition(n, "VARIABLE", FALSE, type, qualifier)

Push(kind) == [op |-> "PUSH", kind |-> kind]

Pop == [op |-> "POP"]

Foreign == MaxSymbols + 1     \* the parameters of a rejected declaration

Idle == phase = "WALK" /\ todo = <<>>

RunDefine ==
  /\ todo # <<>> /\ Head(todo).op = "DEFINE"
  /\ nextId <= program.symbols
  /\ LET d == Head(todo)
         accepted == nextId' # nextId
     IN  /\ Define(d.name, d.kind, d.existing)
         /\ attr' = IF accepted
                    THEN Append(attr, [name |-> d.name, kind |-> d.kind,
                                       type |-> d.type,
                                       qualifier |-> d.qualifier])
                    ELSE attr
         /\ params' = IF \/ d.kind \notin {"FUNCTION", "METHOD"}
                         \/ phase = "PREDECLARE" /\ ~accepted
                      THEN params
                      ELSE [params EXCEPT ![d.name] =
                              IF accepted THEN nextId ELSE Foreign]
         /\ predeclared' = IF /\ phase = "PREDECLARE" /\ accepted
                              /\ d.kind # "ENUM_MEMBER"
                           THEN predeclared \cup {at - 1}
                           ELSE predeclared
  /\ todo' = Tail(todo)
  /\ UNCHANGED <<passVars, depthVars, unitVars, frames, diags>>

RunPush ==
  /\ todo # <<>> /\ Head(todo).op = "PUSH"
  /\ Len(scopes) < program.scopes
  /\ PushScope(Head(todo).kind)
  /\ todo' = Tail(todo)
  /\ UNCHANGED <<tableVars, passVars, depthVars, unitVars, frames, diags>>

RunPop ==
  /\ todo # <<>> /\ Head(todo).op = "POP"
  /\ PopScope
  /\ todo' = Tail(todo)
  /\ UNCHANGED <<tableVars, passVars, depthVars, unitVars, frames, diags>>

-----------------------------------------------------------------------------
(* declaration_index: builtins, the declaration statement, predeclaration. *)

\* A member or field name that occurs twice is skipped the second time.
Firsts(s) == {k \in 1..Len(s) : \A j \in 1..(k - 1) : s[j] # s[k]}

Duplicates(s) == Firsts(s) # 1..Len(s)

\* How many of these places are up to k.
Place(places, k) == Cardinality({j \in places : j <= k})

Distinct(s) ==
  [n \in 1..Cardinality(Firsts(s)) |->
     s[CHOOSE k \in Firsts(s) : Place(Firsts(s), k) = n]]

MemberDefinitions(item) ==
  LET members == Distinct(item.parts)
  IN  [j \in 1..Len(members) |->
         Definition(<<item.name, members[j]>>, "ENUM_MEMBER", TRUE, "unknown",
                "const")]

\* After the builtins, before the items.
IndexDeclaration ==
  /\ phase = "BUILTINS" /\ todo = <<>>
  /\ phase' = "PREDECLARE"
  /\ scriptType' = program.script
  /\ declarations' = IF program.script = Unstated THEN 0 ELSE 1
  /\ Issue(When(program.script = Unstated, "MISSING_DECLARATION", Unstated))
  /\ UNCHANGED <<scopeVars, tableVars, program, at, depthVars, frames, todo>>

PredeclareItem ==
  /\ phase = "PREDECLARE" /\ todo = <<>> /\ at <= Len(Items)
  /\ at' = at + 1
  /\ LET item == Items[at]
         one(kind) == <<Definition(item.name, kind, FALSE, "unknown", Unstated)>>
     IN  todo' = CASE item.node = "STATEMENTS" -> <<>>
                   [] item.node = "IMPORT" -> one("IMPORT_ALIAS")
                   [] item.node = "ENUM" -> one("ENUM") \o MemberDefinitions(item)
                   [] OTHER -> one(item.node)
  /\ UNCHANGED <<scopeVars, tableVars, program, phase, depthVars, unitVars,
                 frames, diags>>

StartWalk ==
  /\ phase = "PREDECLARE" /\ todo = <<>> /\ at > Len(Items)
  /\ phase' = "WALK"
  /\ at' = 1
  /\ UNCHANGED <<scopeVars, tableVars, program, depthVars, unitVars, frames,
                 todo, diags>>

-----------------------------------------------------------------------------
(* scope_symbols: declarations. *)

Enter(node, name) ==
  frames' = Append(frames, [node |-> node, name |-> name])

\* validate_export_policy.
ExportPolicy(exported, name) ==
  When(exported /\ scriptType # "library", "EXPORT_NOT_LIBRARY", name)

Nested(name) ==
  When(localDepth > 0 \/ functionDepth > 0, "NESTED_FUNCTION", name)

Parameters(item) ==
  [j \in 1..Len(item.parts) |->
     Variable(item.parts[j], "unknown",
              IF item.node = "METHOD" /\ item.receiver # Unstated /\ j = 1
              THEN "series" ELSE Unstated)]

ReceiverChecked(item) ==
  IF item.receiver = Unstated
  THEN {<<"METHOD_RECEIVER_REQUIRED", item.name>>}
  ELSE When(~Resolved(item.receiver), "METHOD_RECEIVER_TYPE_NOT_FOUND",
            item.name)

\* _s_function_declaration and _s_method_declaration up to the body.
EnterCallable(item, known) ==
  /\ Issue(ExportPolicy(item.exported, item.name) \cup Nested(item.name) \cup
           IF item.node = "METHOD" THEN ReceiverChecked(item) ELSE {})
  /\ todo' = (IF known THEN <<>>
              ELSE <<Definition(item.name, item.node, FALSE, "unknown", Unstated)>>)
             \o <<Push(item.node)>> \o Parameters(item)
  /\ functionDepth' = IF item.node = "FUNCTION" THEN functionDepth + 1
                      ELSE functionDepth
  /\ Enter(item.node, item.name)
  /\ UNCHANGED <<scopeVars, tableVars, loopDepth, localDepth, staticBounds,
                 unitVars>>

MutantFieldDefinitionsOverwrite(item, j) ==
  <<Definition(item.parts[j], "FIELD", TRUE, "unknown", "series"),
    Definition(<<item.name, item.parts[j]>>, "FIELD", TRUE, "unknown", "series")>>

\* A field is declared under its own name and under its qualified one.
FieldDefinitions(item, j) ==
  <<Definition(item.parts[j], "FIELD", FALSE, "unknown", "series"),
    Definition(<<item.name, item.parts[j]>>, "FIELD", TRUE, "unknown", "series")>>

\* The two definitions of every field, field by field.
Fields(item) ==
  [k \in 1..(2 * Len(item.parts)) |->
     FieldDefinitions(item, (k + 1) \div 2)[2 - (k % 2)]]

\* _s_type_declaration, _s_enum_declaration and _s_import_declaration.
VisitPlain(item, known) ==
  LET own(kind) == IF known THEN <<>>
                   ELSE <<Definition(item.name, kind, FALSE, "unknown", Unstated)>>
  IN  /\ todo' =
           CASE item.node = "IMPORT" -> own("IMPORT_ALIAS")
             [] item.node = "ENUM" -> own("ENUM") \o MemberDefinitions(item)
             [] item.node = "TYPE" ->
                  own("TYPE") \o <<Push("TYPE_DECL")>> \o Fields(item) \o <<Pop>>
      /\ Issue(IF item.node = "IMPORT" THEN {}
               ELSE ExportPolicy(item.exported, item.name) \cup
                    When(Duplicates(item.parts), "REDECLARATION", item.name))
      /\ UNCHANGED <<scopeVars, tableVars, depthVars, unitVars, frames>>

\* _visit_statement of the top-level items, in source order.
VisitItem ==
  /\ Idle /\ frames = <<>> /\ at <= Len(Items)
  /\ at' = at + 1
  /\ LET item == Items[at]
         known == at \in predeclared
     IN  \/ /\ item.node = "STATEMENTS"
            /\ UNCHANGED <<scopeVars, tableVars, depthVars, unitVars, frames,
                           todo, diags>>
         \/ item.node \in {"FUNCTION", "METHOD"} /\ EnterCallable(item, known)
         \/ item.node \in {"TYPE", "ENUM", "IMPORT"} /\ VisitPlain(item, known)
  /\ UNCHANGED <<program, phase>>

-----------------------------------------------------------------------------
(* Statements of a body.  A function's body may be one expression, visited *)
(* in the function's own scope; statements need a block.                   *)

Blocks == {"BLOCK", "WHILE", "FORRANGE", "FORIN"}

AtExpression ==
  /\ Idle
  /\ frames = <<>> => at <= Len(Items) /\ Items[at].node = "STATEMENTS"

AtStatement(kind) ==
  /\ AtExpression /\ kind \in program.statements
  /\ frames # <<>> => Inner.node \in Blocks

Quietly == UNCHANGED <<scopeVars, tableVars, passVars, depthVars, frames>>

MutantInferredQualifierIgnoresReassignments(n, e) ==
  IF InferQualifier(e) \in {"input", "const"} THEN InferQualifier(e)
  ELSE "series"

\* A variable is const only if nothing in the program assigns its name.
InferredQualifier(n, e) ==
  CASE InferQualifier(e) = "input" -> "input"
    [] InferQualifier(e) = "const" /\ n \notin program.reassigned -> "const"
    [] OTHER -> "series"

\* _s_var_declaration.
VarDeclaration ==
  /\ AtStatement("VAR")
  /\ \E n \in Mentioned, e \in Expressions(Mentioned),
        written \in Literals \cup {Unstated},
        qualifier \in WrittenQualifiers \cup {Unstated}, exported \in BOOLEAN :
     /\ exported => frames = <<>>
     /\ LET type == IF written = Unstated THEN InferType(e) ELSE written
       IN  /\ todo' = <<Variable(n, type, IF qualifier = Unstated
                                          THEN InferredQualifier(n, e)
                                          ELSE qualifier)>>
           /\ Issue(ExportPolicy(exported, n) \cup Unresolved(e) \cup
                    When(~Assignable(type, InferType(e)), "TYPE_MISMATCH", e)
                    \cup
                    When(/\ qualifier # Unstated
                         /\ Rank(InferQualifier(e)) > Rank(qualifier),
                         "QUALIFIER_MISMATCH", n))
  /\ Quietly /\ UNCHANGED unitVars

\* The targets of a tuple or a loop; Unstated is the blank one.
Target(n) ==
  IF n = Unstated THEN <<>> ELSE <<Variable(n, "unknown", "series")>>

\* _s_tuple_declaration, of a pair.
TupleDeclaration ==
  /\ AtStatement("TUPLE")
  /\ \E first, second \in Mentioned \cup {Unstated} :
       todo' = Target(first) \o Target(second)
  /\ Quietly /\ UNCHANGED <<unitVars, diags>>

\* _s_reassignment of a plain name.
Reassignment ==
  /\ AtStatement("REASSIGN")
  /\ \E n \in program.reassigned, e \in Expressions(Mentioned),
        compound \in BOOLEAN :
       LET symbol == Resolve(n)
           target == attr[symbol.id]
       IN  Issue(Unresolved(e) \cup
                 IF symbol.id = 0
                 THEN {<<IF compound THEN "COMPOUND_UNDECLARED"
                         ELSE "REASSIGN_UNDECLARED", n>>}
                 ELSE IF target.qualifier = "const"
                 THEN {<<"CONST_REASSIGNMENT", n>>}
                 ELSE When(\/ compound /\ target.type = "string"
                           \/ ~Assignable(target.type, InferType(e)),
                           "TYPE_MISMATCH", e))
  /\ Quietly /\ UNCHANGED <<unitVars, todo>>

LocalHistory(n) ==
  Resolved(n) /\ scopes[Resolve(n).scope] # "GLOBAL"

\* _e_identifier, and _e_history_ref_expr of a name.
Use ==
  /\ AtExpression /\ "USE" \in program.statements
  /\ \E n \in Mentioned, history_ref \in BOOLEAN :
       Issue(Unresolved(n) \cup When(history_ref /\ LocalHistory(n),
                                     "HISTORY_LOCAL_SCOPE", n))
  /\ Quietly /\ UNCHANGED <<unitVars, todo>>

Forbidden(n) == n \in ForbiddenLocal /\ localDepth > 0

\* _e_call_expr.
Call ==
  /\ AtExpression /\ "CALL" \in program.statements
  /\ \E n \in Mentioned :
       Issue(Unresolved(n) \cup
             When(Forbidden(n), "BUILTIN_FORBIDDEN_LOCAL", n))
  /\ Quietly /\ UNCHANGED <<unitVars, todo>>

MutantBreakAllowedInBlocks == localDepth > 0

BreakAllowed == loopDepth > 0

\* validate_loop_control_statement.
BreakOrContinue ==
  /\ AtStatement("BREAK")
  /\ Issue(When(~BreakAllowed, "BREAK_CONTINUE_OUTSIDE_LOOP", Unstated))
  /\ Quietly /\ UNCHANGED <<unitVars, todo>>

\* _s_declaration_statement: a second one, or one that is not global.
DeclarationStatement ==
  /\ AtStatement("DECLARATION")
  /\ \E type \in ScriptTypes : scriptType' = type
  /\ declarations' = IF declarations = 2 THEN 2 ELSE declarations + 1
  /\ Issue(When(localDepth > 0 \/ functionDepth > 0,
                "DECLARATION_NOT_GLOBAL", Unstated))
  /\ Quietly /\ UNCHANGED todo

\* The grammar accepts functions and methods in blocks; the analyzer does not.
NestedCallable ==
  /\ AtStatement("NESTED") /\ frames # <<>>
  /\ \E n, part \in Mentioned, receiver \in Mentioned \cup {Unstated},
        node \in {"FUNCTION", "METHOD"} :
       EnterCallable([node |-> node, name |-> n, parts |-> <<part>>,
                      receiver |-> receiver, exported |-> FALSE], FALSE)
  /\ UNCHANGED passVars

-----------------------------------------------------------------------------
(* Structures: _visit_structure and _visit_block. *)

\* _static_int_bound: iterations of a for-range, when they are known.
StaticBound(head) ==
  IF head.span = NonLiteral THEN NonLiteral
  ELSE IF head.step \in {NonLiteral, NoStep} THEN head.span
  ELSE head.span \div head.step

\* The bound of the nearest enclosing for-range that has one.
ParentBound(bounds) ==
  LET known == {i \in 1..Len(bounds) : bounds[i] # NonLiteral}
  IN  IF known = {} THEN NonLiteral
      ELSE bounds[CHOOSE i \in known : \A j \in known : j <= i]

Explodes(bounds, bound) ==
  /\ loopDepth >= 1
  /\ bound # NonLiteral
  /\ ParentBound(bounds) # NonLiteral
  /\ ParentBound(bounds) * bound > NestCeiling

\* A branch of an if or a case of a switch.
OpenBlock ==
  /\ AtExpression /\ "BLOCK" \in program.statements
  /\ localDepth' = localDepth + 1
  /\ todo' = <<Push("LOCAL_BLOCK")>>
  /\ Enter("BLOCK", Unstated)
  /\ UNCHANGED <<scopeVars, tableVars, passVars, loopDepth, functionDepth,
                 staticBounds, unitVars, diags>>

OpenWhile ==
  /\ AtExpression /\ "WHILE" \in program.statements
  /\ loopDepth' = loopDepth + 1
  /\ localDepth' = localDepth + 1
  /\ todo' = <<Push("LOOP")>>
  /\ Enter("WHILE", Unstated)
  /\ \E literal_true \in BOOLEAN :
       Issue(When(literal_true, "INFINITE_WHILE_LITERAL", Unstated))
  /\ UNCHANGED <<scopeVars, tableVars, passVars, functionDepth, staticBounds,
                 unitVars>>

OpenForRange ==
  /\ AtExpression /\ "FORRANGE" \in program.statements
  /\ \E head \in Heads, variable \in Mentioned :
       LET bound == StaticBound(head)
       IN  /\ Issue(When(bound > LoopCeiling, "LOOP_ITERATION_OVERFLOW", head)
                    \cup When(Explodes(staticBounds, bound),
                              "NESTED_LOOP_EXPLOSION", Unstated))
           /\ staticBounds' = Append(staticBounds, bound)
           /\ todo' = <<Push("LOOP"), Variable(variable, "int", "series")>>
  /\ loopDepth' = loopDepth + 1
  /\ localDepth' = localDepth + 1
  /\ Enter("FORRANGE", Unstated)
  /\ UNCHANGED <<scopeVars, tableVars, passVars, functionDepth, unitVars>>

\* One target, or an index and a value.
OpenForIn ==
  /\ AtExpression /\ "FORIN" \in program.statements
  /\ \E first, second \in Mentioned \cup {Unstated} :
       /\ Issue(When(first = second /\ first # Unstated, "REDECLARATION",
                     first))
       /\ todo' = <<Push("LOOP")>> \o Target(first) \o Target(second)
  /\ loopDepth' = loopDepth + 1
  /\ localDepth' = localDepth + 1
  /\ Enter("FORIN", Unstated)
  /\ UNCHANGED <<scopeVars, tableVars, passVars, functionDepth, staticBounds,
                 unitVars>>

LeavesLoop(node) == node # "BLOCK"

Leave == frames' = SubSeq(frames, 1, Len(frames) - 1)

\* The end of a block or loop.
CloseBlock ==
  /\ Idle /\ frames # <<>> /\ Inner.node \in Blocks
  /\ PopScope
  /\ Leave
  /\ localDepth' = localDepth - 1
  /\ loopDepth' = IF LeavesLoop(Inner.node) THEN loopDepth - 1 ELSE loopDepth
  /\ staticBounds' = IF Inner.node = "FORRANGE"
                     THEN SubSeq(staticBounds, 1, Len(staticBounds) - 1)
                     ELSE staticBounds
  /\ UNCHANGED <<tableVars, passVars, functionDepth, unitVars, todo, diags>>

\* The end of a function or method: its return type is stored in the symbol
\* its name resolves to, and its scope closes.
CloseCallable ==
  /\ Idle /\ frames # <<>> /\ Inner.node \in {"FUNCTION", "METHOD"}
  /\ \E type \in Types :
       attr' = IF Resolved(Inner.name)
               THEN [attr EXCEPT ![Resolve(Inner.name).id] =
                       [name |-> @.name, kind |-> @.kind, type |-> type,
                        qualifier |-> @.qualifier]]
               ELSE attr
  /\ PopScope
  /\ Leave
  /\ functionDepth' = IF Inner.node = "FUNCTION" THEN functionDepth - 1
                      ELSE functionDepth
  /\ UNCHANGED <<params, predeclared, passVars, loopDepth, localDepth,
                 staticBounds, unitVars, todo, diags>>

-----------------------------------------------------------------------------
(* The end: declaration_cardinality, and the global scope. *)

FinishWalk ==
  /\ Idle /\ frames = <<>> /\ at > Len(Items)
  /\ phase' = "DONE"
  /\ Issue(When(declarations > 1, "MULTIPLE_DECLARATIONS", Unstated))
  /\ PopScope
  /\ UNCHANGED <<tableVars, program, at, depthVars, unitVars, frames, todo>>

AnalysisInit ==
  /\ Init
  /\ attr = <<>>
  /\ params = [n \in Names |-> 0]
  /\ program \in Programs
  /\ phase = "BUILTINS"
  /\ at = 1
  /\ predeclared = {}
  /\ frames = <<>>
  /\ todo = <<Push("GLOBAL")>> \o
            [i \in 1..Len(program.builtins) |->
               LET b == program.builtins[i]
               IN  Definition(b.name, b.kind, TRUE, b.type, b.qualifier)]
  /\ loopDepth = 0 /\ localDepth = 0 /\ functionDepth = 0
  /\ staticBounds = <<>>
  /\ scriptType = Unstated
  /\ declarations = 0
  /\ diags = {}

Step == RunDefine \/ RunPush \/ RunPop

Pass == IndexDeclaration \/ PredeclareItem \/ StartWalk \/ VisitItem
          \/ FinishWalk

Statement == VarDeclaration \/ TupleDeclaration \/ Reassignment \/ Use \/ Call
               \/ BreakOrContinue \/ DeclarationStatement \/ NestedCallable

Structure == OpenBlock \/ OpenWhile \/ OpenForRange \/ OpenForIn
               \/ CloseBlock \/ CloseCallable

AnalysisNext == Step \/ Pass \/ Statement \/ Structure

AnalysisSpec == AnalysisInit /\ [][AnalysisNext]_vars

-----------------------------------------------------------------------------
(* Properties. *)

Callables == {"FUNCTION", "METHOD"}

Loops == {"WHILE", "FORRANGE", "FORIN"}

ScopeOf(node) == CASE node \in Callables -> node
                   [] node \in Loops -> "LOOP"
                   [] OTHER -> "LOCAL_BLOCK"

Running(nodes) == {i \in 1..Len(frames) : frames[i].node \in nodes}

\* The type invariant of the walker; the symbol table and the dictionary of
\* _define agree on what an id stands for.
WalkTypeOK ==
  /\ TypeOK
  /\ Len(attr) = nextId - 1
  /\ \A id \in 1..Len(attr) :
       /\ attr[id].name \in Names \cup Members
       /\ attr[id].type \in Types
       /\ attr[id].qualifier \in Qualifiers \cup {Unstated}
  /\ \A n \in Names \cup Members : flat[n].id # 0 =>
       attr[flat[n].id].name = n /\ attr[flat[n].id].kind = flat[n].kind
  /\ params \in [Names -> 0..Foreign]
  /\ phase \in {"BUILTINS", "PREDECLARE", "WALK", "DONE"}
  /\ predeclared \subseteq 1..Len(Items)
  /\ loopDepth \in Nat /\ localDepth \in Nat /\ functionDepth \in Nat
  /\ scriptType \in ScriptTypes \cup {Unstated}

\* Whenever a handler has finished, the scopes on the stack are those of the
\* visitors that are running and the depth counters count them: no path
\* through _visit_structure and the declaration handlers leaves one behind.
WalkBalanced ==
  /\ Idle => [i \in 1..Len(stack) |-> scopes[stack[i].id]] =
               <<"GLOBAL">> \o [i \in 1..Len(frames) |-> ScopeOf(frames[i].node)]
  /\ loopDepth = Cardinality(Running(Loops))
  /\ localDepth = Cardinality(Running(Blocks))
  /\ functionDepth = Cardinality(Running({"FUNCTION"}))
  /\ Len(staticBounds) = Cardinality(Running({"FORRANGE"}))
  /\ phase = "DONE" => stack = <<>> /\ frames = <<>>

\* break and continue are accepted only where a loop encloses them inside the
\* same function: loop_depth also counts the loops around a function that is
\* declared in a loop, but then the function has been reported.
LoopControlLexical ==
  BreakAllowed =>
    \E i \in Running(Loops) :
      \A j \in Running(Callables) :
        j > i => <<"NESTED_FUNCTION", frames[j].name>> \in diags

\* A function or method declared anywhere but at top level is reported, also
\* where only a method, which function_depth does not count, surrounds it.
NestedCallablesReported ==
  \A i \in Running(Callables) :
    i > 1 => <<"NESTED_FUNCTION", frames[i].name>> \in diags

\* A predeclared name can be used before its declaration and wherever no open
\* inner scope declares it: no local declaration, closed scope or redeclaration
\* takes it from _resolve, and it is what the finished model publishes.
PredeclaredStayVisible ==
  phase \in {"WALK", "DONE"} =>
    \A i \in predeclared :
      LET n == Items[i].name
      IN  (\A k \in 2..Len(stack) : ~Binds(stack[k], n)) =>
            /\ Resolve(n).kind \notin {"NONE", "VARIABLE", "FIELD"}
            /\ scopes[Resolve(n).scope] = "GLOBAL"

\* A member of an enum resolves to that member, although enum and field
\* declarations overwrite qualified names on purpose, unless the enum's own
\* name was reported as redeclared.
MembersResolve ==
  phase \in {"WALK", "DONE"} =>
    \A i \in predeclared :
      Items[i].node = "ENUM" /\ Items[i].name \notin redeclared =>
        \A j \in 1..Len(Items[i].parts) :
          Resolve(<<Items[i].name, Items[i].parts[j]>>).kind = "ENUM_MEMBER"

\* A call of a user function is checked against the parameters of the very
\* function its name resolves to (_function_params is keyed by name alone),
\* unless a redeclaration or a nested function of that name was reported.
CallsCheckedAgainstCallee ==
  phase \in {"WALK", "DONE"} =>
    \A n \in Names :
      Resolve(n).kind \in Callables =>
        \/ params[n] = Resolve(n).id
        \/ n \in redeclared
        \/ <<"NESTED_FUNCTION", n>> \in diags

\* Every walker step on the scopes is one the scope manager's specification
\* permits: the calling discipline its properties rest on is kept.
KeepsScopeDiscipline == Spec

\* Whether an export is accepted is decided by the program's declaration
\* statement, although a later one changes _script_type in the middle of the
\* walk, or the program is reported by the time the analysis ends.
ExportsPoliced ==
  phase = "DONE" =>
    \A i \in 1..Len(Items) :
      Items[i].exported /\ Items[i].node # "IMPORT" =>
        \/ (<<"EXPORT_NOT_LIBRARY", Items[i].name>> \in diags
              <=> program.script # "library")
        \/ <<"MULTIPLE_DECLARATIONS", Unstated>> \in diags
        \/ <<"MISSING_DECLARATION", Unstated>> \in diags

ConstBuiltins ==
  {program.builtins[i].name :
     i \in {j \in 1..Len(program.builtins) :
              program.builtins[j].qualifier = "const"}}

\* A variable that no declaration calls const is never refused an assignment,
\* unless it has the name of a builtin constant such as na: what
\* _collect_reassigned_names gathers before the walk is enough for no variable
\* to be inferred const, at any depth, that a later statement assigns.
AssignedVariablesNotConst ==
  "const" \notin WrittenQualifiers =>
    \A n \in Names \ ConstBuiltins : <<"CONST_REASSIGNMENT", n>> \notin diags

\* The walk knows where it is, and judges by it: what is allowed depends on the
\* loops, functions and blocks around a statement and on the kind of script
\* (_visit_structure and the declaration handlers).
WalkInvariant ==
  /\ WalkTypeOK
  /\ WalkBalanced
  /\ LoopControlLexical
  /\ NestedCallablesReported
  /\ ExportsPoliced

\* The names that predeclaration defined mean the same to the end, for lookup,
\* for members and for calls (_predeclare_globals and _define).
NamesKeepTheirMeaning ==
  /\ PredeclaredStayVisible
  /\ MembersResolve
  /\ CallsCheckedAgainstCallee
=============================================================================
