----------------------------- MODULE TypeFacts -----------------------------
(***************************************************************************)
(* User-defined types, enums and methods: what the analyzer makes of their *)
(* declarations and uses, and what the types, methods and callables        *)
(* sections say of them afterwards.                                        *)
(*                                                                         *)
(* The walk knows the receiver of a use by the scope it stands in.  What   *)
(* comes after the walk, the validation of collection operations and the   *)
(* three sections, looks the name up in the table the walk has left        *)
(* behind, where a parameter may outlive its function.                     *)
(*                                                                         *)
(* A behavior writes a program item by item, declares its globals, visits  *)
(* the items and runs the collection pass.  An item is a type, an enum, a  *)
(* method, a function, a variable ("let") or a use on its own ("do").  A   *)
(* use is owner.member, or owner.member(args) if it is called.             *)
(***************************************************************************)
EXTENDS Collections, Integers

CONSTANTS
  ItemSets,          \* sets of items: a program is written from one of them
  MaxItems,          \* bound on the items of a program
  BuiltinTypes,      \* the names of types that need no declaration
  BuiltinReceivers   \* registered methods: name -> kinds of receiver

\* Whatever comes with an item is listed.
ASSUME ItemsAssumption ==
  \A item \in UNION ItemSets :
    /\ item.form \in {"type", "enum", "method", "function", "let", "do"}
    /\ item.form = "type" => item.fields \in Seq(Range(item.fields))
    /\ item.form = "enum" => item.members \in Seq(Range(item.members))
    /\ item.form \in {"method", "function"} => item.params \in Seq(Range(item.params))
    /\ item.form \in {"method", "function", "let", "do"} =>
         /\ item.uses \in Seq(Range(item.uses))
         /\ \A k \in DOMAIN item.uses : item.uses[k].args \in Seq(Range(item.uses[k].args))

VARIABLES
  program,
  symbols,      \* model.symbols with _symbol_history: what a key has named,
                \* the present meaning last
  globals,      \* the keys of the global scope
  predeclared,  \* the items that predeclaration has defined
  receivers,    \* _method_receivers
  userParams,   \* _user_method_params
  udtFields,    \* _udt_fields
  issues,       \* what has been reported: <<reason, item>>
  seen,         \* every use as the walk has seen it
  pass, next    \* the pass, and the item it is at

factsVars == <<program, symbols, globals, predeclared, receivers, userParams,
               udtFields, issues, seen, pass, next>>

-----------------------------------------------------------------------------
(***************************************************************************)
(* The table of symbols.  A key is a name or a dotted name, as a sequence; *)
(* that of a member is the type followed by the member.                    *)
(***************************************************************************)
Unknown == Text("unknown")
Member(type, m) == type \o <<m>>

Symbol(kind, type, scope) == [kind |-> kind, type |-> type, scope |-> scope]
NoSymbol == Symbol("none", NoType, "none")

Current(s, key) == IF key \in DOMAIN s THEN Last(s[key]) ELSE NoSymbol

Put(f, x, v) == [y \in DOMAIN f \cup {x} |-> IF y = x THEN v ELSE f[y]]

\* The definitions of a scope: each key is bound to its symbol.
Bind(s, new) ==
  [key \in DOMAIN s \cup DOMAIN new |->
     IF key \notin DOMAIN new THEN s[key]
     ELSE Append(IF key \in DOMAIN s THEN s[key] ELSE <<>>, new[key])]

\* The end of a scope that never brings a displaced symbol back.
MutantUnbind(s, keys) == s

\* The end of a scope: its names get their former meaning back, but keep the
\* last one if they had none.
Unbind(s, keys) ==
  [k \in DOMAIN s |-> IF k \in keys /\ Front(s[k]) # <<>> THEN Front(s[k]) ELSE s[k]]

AlwaysVisible == {"BUILTIN", "TYPE", "ENUM", "ENUM_MEMBER", "FUNCTION", "METHOD"}

Resolve(s, bound, key) ==
  LET left == Current(s, key)
  IN IF \/ key \in bound
        \/ left.scope \in {"GLOBAL", "TYPE_DECL"}
        \/ left.kind \in AlwaysVisible
     THEN left ELSE NoSymbol

TypeIn(s, name) ==
  LET type == Current(s, Text(name)).type IN IF type = NoType THEN Unknown ELSE type

-----------------------------------------------------------------------------
(***************************************************************************)
(* The types of uses (PineInferenceEngine with type_infer).                *)
(***************************************************************************)
IsConstructor(s, use) ==
  /\ use.called /\ use.member = "new"
  /\ Current(s, Text(use.owner)).kind = "TYPE"

IsOperation(type, m) == m \in Operations(KindOf(type))

\* The user's method of the name, whatever its receiver.
UserReturn(s, m) ==
  LET method == Current(s, Text(m))
  IN IF method.kind = "METHOD" /\ method.type \notin {Text("method"), Unknown}
     THEN method.type ELSE Unknown

CallType(s, use) ==
  LET receiver == TypeIn(s, use.owner)
      result == IF IsOperation(receiver, use.member)
                THEN ReturnType(receiver, use.member) ELSE Unknown
  IN IF IsConstructor(s, use) THEN Text(use.owner)
     ELSE IF result # Unknown THEN result
     ELSE UserReturn(s, use.member)

UseType(s, use) ==
  LET own == Current(s, Member(Text(use.owner), use.member)).type
      field == Current(s, Member(TypeIn(s, use.owner), use.member)).type
  IN IF use.called THEN CallType(s, use)
     ELSE IF own # NoType THEN own
     ELSE IF field # NoType THEN field ELSE Unknown

-----------------------------------------------------------------------------
(***************************************************************************)
(* Writing a program, and _predeclare_globals.                             *)
(***************************************************************************)
FactsInit ==
  /\ program = <<>>
  /\ symbols = [key \in {Text(t) : t \in BuiltinTypes} |->
                  <<Symbol("BUILTIN", NoType, "GLOBAL")>>]
  /\ globals = DOMAIN symbols
  /\ predeclared = {}
  /\ receivers = BuiltinReceivers
  /\ userParams = <<>> /\ udtFields = <<>>
  /\ issues = {} /\ seen = <<>>
  /\ pass = "write" /\ next = 1

Write ==
  /\ pass = "write" /\ Len(program) < MaxItems
  /\ \E items \in ItemSets :
       /\ Range(program) \subseteq items
       /\ \E item \in items : program' = Append(program, item)
  /\ UNCHANGED <<symbols, globals, predeclared, receivers, userParams,
                 udtFields, issues, seen, pass, next>>

Analyze ==
  /\ pass = "write" /\ program # <<>>
  /\ pass' = "predeclare"
  /\ UNCHANGED <<program, symbols, globals, predeclared, receivers, userParams,
                 udtFields, issues, seen, next>>

\* The next item, or the next pass.
Advance(after) ==
  IF next < Len(program) THEN next' = next + 1 /\ UNCHANGED pass
  ELSE next' = 1 /\ pass' = after

\* Methods that overload each other.
MutantRedeclared(item) ==
  /\ Text(item.name) \in globals
  /\ ~(item.form = "method" /\ Current(symbols, Text(item.name)).kind = "METHOD")

\* A name of the global scope is taken; only a variable may take it from a
\* builtin.
Redeclared(item) ==
  /\ Text(item.name) \in globals
  /\ ~(item.form = "let" /\ Current(symbols, Text(item.name)).kind = "BUILTIN")

\* What a method or function returns by its syntax, if its body ends in a
\* literal, and by its last expression.
Shape(item) ==
  IF item.result.name = NoName THEN item.result.type ELSE Text(item.form)

ResultType(s, item) ==
  IF item.result.name = NoName THEN item.result.type ELSE TypeIn(s, item.result.name)

Declaration(item) ==
  CASE item.form = "type" -> Symbol("TYPE", Text("type"), "GLOBAL")
    [] item.form = "enum" -> Symbol("ENUM", Text("enum"), "GLOBAL")
    [] item.form = "method" -> Symbol("METHOD", Shape(item), "GLOBAL")
    [] item.form = "function" -> Symbol("FUNCTION", Shape(item), "GLOBAL")

\* A member is defined once.
MemberSymbols(item) ==
  [key \in {Member(Text(item.name), m) : m \in Range(item.members)} |->
     Symbol("ENUM_MEMBER", Text(item.name), "GLOBAL")]

Declares(item) == item.form \in {"type", "enum", "method", "function"}

\* A user's method takes the name from the registered ones.
Predeclare ==
  /\ pass = "predeclare"
  /\ LET item == program[next]
         accepted == Declares(item) /\ ~Redeclared(item)
         method == accepted /\ item.form = "method"
         own == [key \in When(accepted, Text(item.name)) |-> Declaration(item)]
         members == IF item.form = "enum" THEN MemberSymbols(item) ELSE <<>>
     IN /\ symbols' = Bind(Bind(symbols, own), members)
        /\ globals' = globals \cup DOMAIN own \cup DOMAIN members
        /\ predeclared' = predeclared \cup When(accepted, next)
        /\ receivers' = IF method
                        THEN Put(receivers, item.name, {KindOf(item.receiver.type)})
                        ELSE receivers
        /\ userParams' = IF method THEN Put(userParams, item.name, item.params)
                         ELSE userParams
        /\ issues' = issues \cup When(Declares(item) /\ ~accepted,
                                      <<"redeclared", next>>)
  /\ Advance("visit")
  /\ UNCHANGED <<program, udtFields, seen>>

-----------------------------------------------------------------------------
(***************************************************************************)
(* The walk.  bound are the keys of the scopes around the use.             *)
(***************************************************************************)
OwnerSymbol(s, bound, use) == Resolve(s, bound, Text(use.owner))

FieldOf(s, bound, use) ==
  LET type == OwnerSymbol(s, bound, use).type
  IN IF type = NoType THEN NoSymbol ELSE Resolve(s, bound, Member(type, use.member))

HasFields(type) == \E name \in DOMAIN udtFields : type = Text(name)

\* Members of enums only are checked.
MutantAccessIssues(s, bound, use) ==
  When(/\ OwnerSymbol(s, bound, use).kind = "ENUM"
       /\ Member(Text(use.owner), use.member) \notin DOMAIN s, "member")

AccessIssues(s, bound, use) ==
  LET owner == OwnerSymbol(s, bound, use)
  IN IF owner.kind = "ENUM"
     THEN When(Member(Text(use.owner), use.member) \notin DOMAIN s, "member")
     ELSE When(HasFields(owner.type) /\ FieldOf(s, bound, use) = NoSymbol, "member")

\* A type that has not been visited yet has no fields.
FieldsOf(name) == IF name \in DOMAIN udtFields THEN udtFields[name] ELSE <<>>

ConstructorCallIssues(s, bound, use) ==
  When(/\ use.member = "new"
       /\ OwnerSymbol(s, bound, use).kind = "TYPE"
       /\ ParamCallIssues(use.args, FieldsOf(use.owner)) # {}, "arguments")

MethodCallIssues(s, use) ==
  LET actual == TypeIn(s, use.owner)
      declared == receivers[use.member]
  IN IF use.member \notin DOMAIN receivers THEN {}
     ELSE When(~(actual = Unknown \/ KindOf(actual) \in declared), "receiver")
            \cup When(/\ ~IsOperation(actual, use.member)
                      /\ use.member \in DOMAIN userParams
                      /\ ParamCallIssues(use.args, userParams[use.member]) # {},
                      "arguments")

CallTargetIssues(s, bound, use) ==
  LET owner == OwnerSymbol(s, bound, use)
      type == TypeIn(s, use.owner)
      field == FieldOf(s, bound, use) # NoSymbol
  IN IF \/ use.member = "new" /\ owner.kind = "TYPE"
        \/ owner.kind = "BUILTIN"
     THEN {}
     ELSE When(\/ field
               \/ /\ use.member \notin DOMAIN receivers
                  /\ ~IsOperation(type, use.member)
                  /\ type \notin {Unknown, Text("function"), Text("method")},
               "target")

UseIssues(s, bound, use) ==
  When(OwnerSymbol(s, bound, use) = NoSymbol, "undeclared")
    \cup IF use.called
         THEN ConstructorCallIssues(s, bound, use) \cup MethodCallIssues(s, use)
                \cup CallTargetIssues(s, bound, use)
                \cup When(OrderIssues(use.args) # {}, "order")
         ELSE AccessIssues(s, bound, use)

Reported(reasons) == {<<r, next>> : r \in reasons}

WalkIssues(s, bound, uses) == UNION {UseIssues(s, bound, uses[k]) : k \in DOMAIN uses}

\* What the walk knows of a use: what kind of symbol its owner is and whether
\* a local one, the owner's type, its fields, and the member's type.
Sight(s, bound, use) ==
  [item |-> next, use |-> use, kind |-> Current(s, Text(use.owner)).kind,
   local |-> Current(s, Text(use.owner)).scope # "GLOBAL",
   type |-> TypeIn(s, use.owner), visited |-> HasFields(OwnerSymbol(s, bound, use).type),
   fields |-> FieldsOf(use.owner), member |-> FieldOf(s, bound, use).type]

Sights(s, bound, uses) == [k \in DOMAIN uses |-> Sight(s, bound, uses[k])]

\* A type with all that it is built from, and its base alone.
Pieces(type) == Range(type) \ {"<", ">", ","}

TypeKnown(names) ==
  \A name \in names : Resolve(symbols, globals, Text(name)) # NoSymbol

Distinct(names) == \A j, k \in DOMAIN names : names[j] = names[k] => j = k

\* The plain name of a field is defined once, the dotted one again and again.
FieldSymbols(item) ==
  LET names == NamesOf(item.fields)
      Final(name) == CHOOSE k \in DOMAIN item.fields :
                      /\ item.fields[k].name = name
                      /\ \A j \in DOMAIN item.fields : item.fields[j].name = name => j <= k
      Field(key) == IF Len(key) = 1 THEN ByName(item.fields, key[1]) ELSE Final(key[2])
  IN [key \in {Text(n) : n \in names} \cup {Member(Text(item.name), n) : n \in names} |->
        Symbol("FIELD", item.fields[Field(key)].type, "TYPE_DECL")]

NamesIn(params) == [k \in DOMAIN params |-> params[k].name]

VisitType ==
  /\ pass = "visit" /\ program[next].form = "type"
  /\ LET item == program[next]
         names == NamesIn(item.fields)
     IN /\ symbols' = Unbind(Bind(symbols, FieldSymbols(item)),
                             {Text(n) : n \in Range(names)})
        /\ udtFields' = Put(udtFields, item.name, item.fields)
        /\ issues' = issues \cup Reported(
             When(~Distinct(names), "duplicate")
               \cup When(\E k \in DOMAIN names : ~TypeKnown(Pieces(item.fields[k].type)),
                       "type"))
  /\ Advance("collections")
  /\ UNCHANGED <<program, globals, predeclared, receivers, userParams, seen>>

VisitEnum ==
  /\ pass = "visit" /\ program[next].form = "enum"
  /\ LET item == program[next]
     IN /\ symbols' = Bind(symbols, MemberSymbols(item))
        /\ globals' = globals \cup DOMAIN MemberSymbols(item)
        /\ issues' = issues \cup Reported(When(~Distinct(item.members), "duplicate"))
  /\ Advance("collections")
  /\ UNCHANGED <<program, predeclared, receivers, userParams, udtFields, seen>>

Parameters(item) ==
  (IF item.form = "method" THEN <<item.receiver>> ELSE <<>>) \o item.params

\* Of parameters with one name the first is defined.
Locals(item) ==
  LET all == Parameters(item)
      scope == IF item.form = "method" THEN "METHOD" ELSE "FUNCTION"
  IN [key \in {Text(n) : n \in NamesOf(all)} |->
        Symbol("VARIABLE", all[ByName(all, key[1])].type, scope)]

\* The type of the result goes to whatever the name means inside the body.
SetResult(s, item) ==
  LET key == Text(item.name)
      history == s[key]
  IN [s EXCEPT ![key] = Append(Front(history),
                               [Last(history) EXCEPT !.type = ResultType(s, item)])]

VisitCallable ==
  /\ pass = "visit" /\ program[next].form \in {"method", "function"}
  /\ LET item == program[next]
         locals == Locals(item)
         inside == Bind(symbols, locals)
         bound == globals \cup DOMAIN locals
         late == item.form = "method" /\ next \notin predeclared
     IN /\ symbols' = Unbind(SetResult(inside, item), DOMAIN locals)
        /\ receivers' =
             IF late
             THEN Put(receivers, item.name,
                      {KindOf(item.receiver.type)}
                        \cup IF item.name \in DOMAIN receivers
                             THEN receivers[item.name] ELSE {})
             ELSE receivers
        /\ issues' = issues \cup Reported(
             When(\/ \E k \in DOMAIN item.params : ~TypeKnown(Pieces(item.params[k].type))
                  \/ item.form = "method" /\ ~TypeKnown({KindOf(item.receiver.type)}),
                  "type")
               \cup When(~Distinct(NamesIn(Parameters(item))), "duplicate")
               \cup WalkIssues(inside, bound, item.uses))
        /\ seen' = seen \o Sights(inside, bound, item.uses)
  /\ Advance("collections")
  /\ UNCHANGED <<program, globals, predeclared, userParams, udtFields>>

\* The type of a variable is inferred before its initializer is visited.
VisitLet ==
  /\ pass = "visit" /\ program[next].form = "let"
  /\ LET item == program[next]
         type == IF item.uses = <<>> THEN item.made ELSE UseType(symbols, item.uses[1])
         key == Text(item.name)
     IN /\ IF Redeclared(item) THEN UNCHANGED <<symbols, globals>>
           ELSE /\ symbols' = Bind(symbols, [k \in {key} |->
                                              Symbol("VARIABLE", type, "GLOBAL")])
                /\ globals' = globals \cup {key}
        /\ issues' = issues \cup Reported(
             WalkIssues(symbols, globals, item.uses)
               \cup When(Redeclared(item), "redeclared"))
        /\ seen' = seen \o Sights(symbols, globals, item.uses)
  /\ Advance("collections")
  /\ UNCHANGED <<program, predeclared, receivers, userParams, udtFields>>

VisitDo ==
  /\ pass = "visit" /\ program[next].form = "do"
  /\ LET uses == program[next].uses
     IN /\ issues' = issues \cup Reported(WalkIssues(symbols, globals, uses))
        /\ seen' = seen \o Sights(symbols, globals, uses)
  /\ Advance("collections")
  /\ UNCHANGED <<program, symbols, globals, predeclared, receivers, userParams,
                 udtFields>>

\* CollectionValidationPass goes over the calls again, all items at once, with
\* the table the walk has left.
OperationIssues(type, use) ==
  IF use.called /\ IsOperation(type, use.member)
  THEN BindingIssues(use.args, MethodSpecs(type, use.member)) ELSE {}

ValidateCollections ==
  /\ pass = "collections"
  /\ issues' = issues \cup
       {<<"collection", seen[k].item>> :
          k \in {k \in DOMAIN seen :
                   OperationIssues(TypeIn(symbols, seen[k].use.owner), seen[k].use) # {}}}
  /\ pass' = "done"
  /\ UNCHANGED <<program, symbols, globals, predeclared, receivers, userParams,
                 udtFields, seen, next>>

FactsNext ==
  \/ Write \/ Analyze \/ Predeclare \/ VisitType \/ VisitEnum \/ VisitCallable
  \/ VisitLet \/ VisitDo \/ ValidateCollections

FactsSpec == FactsInit /\ [][FactsNext]_factsVars

-----------------------------------------------------------------------------
(***************************************************************************)
(* The sections.  A row of a call is <<>>, or holds the method it is taken *)
(* for, the parameters its arguments are bound to and the type it returns. *)
(***************************************************************************)
Items(form, name) ==
  {k \in DOMAIN program : program[k].form = form /\ program[k].name = name}

\* The item at the first of the places, if there is one.
ItemAt(places) ==
  IF places = {} THEN <<>>
  ELSE <<program[CHOOSE k \in places : \A j \in places : k <= j]>>

\* Later declarations of a type replace earlier ones.
TypeMap(name) ==
  ItemAt({k \in Items("type", name) : \A j \in Items("type", name) : j <= k})

\* frontend: the first method with this very receiver, else the first one.
Candidate(name, type) ==
  LET all == Items("method", name)
      exact == {k \in all : program[k].receiver.type = type}
  IN ItemAt(IF exact # {} THEN exact ELSE all)

\* facts: a bare kind takes every type of the kind.
ReceiverMatches(actual, expected) ==
  \/ actual = Unknown \/ actual = expected
  \/ KindOf(actual) = KindOf(expected) /\ Len(expected) = 1

MatchingMethod(name, type) ==
  ItemAt({k \in Items("method", name) :
            ReceiverMatches(type, program[k].receiver.type)})

MethodReturn(name) ==
  LET type == Current(symbols, Text(name)).type
  IN IF type \in {NoType, Text("method"), Text("function"), Unknown} THEN NoType ELSE type

CallRow(method, binding, returns) ==
  <<[method |-> method, binding |-> binding, returns |-> returns]>>

\* The methods section (semantic/facts.py).
MethodFact(use) ==
  LET type == TypeIn(symbols, use.owner)
      user == MatchingMethod(use.member, type)
  IN IF ~use.called \/ use.member = "new" THEN <<>>
     ELSE IF user # <<>>
     THEN CallRow(user, SpecBinding(use.args, user[1].params), MethodReturn(use.member))
     ELSE IF IsOperation(type, use.member)
     THEN CallRow(<<>>, SpecBinding(use.args, MethodSpecs(type, use.member)),
                  ReturnType(type, use.member))
     ELSE <<>>

\* The method calls of the types section (frontend/types.py).
TypesRow(use) ==
  LET type == TypeIn(symbols, use.owner)
      user == Candidate(use.member, type)
  IN IF ~use.called \/ (user = <<>> /\ type = Unknown) THEN <<>>
     ELSE CallRow(user, IF user = <<>> THEN <<>>
                        ELSE DeclaredBinding(use.args, user[1].params),
                  UseType(symbols, use))

\* Those of the callables section (frontend/callables.py).
CallablesRow(use) ==
  LET user == Candidate(use.member, TypeIn(symbols, use.owner))
  IN IF ~use.called \/ user = <<>> THEN <<>>
     ELSE CallRow(user, DeclaredBinding(use.args, user[1].params), UseType(symbols, use))

\* Reads of fields and of members of enums; methods that are called count as
\* fields that are not known.
EnumNames == {program[k].name : k \in {k \in DOMAIN program : program[k].form = "enum"}}

EnumFactKnown(use) == Member(Text(use.owner), use.member) \in DOMAIN symbols

\* The enum declared last.
EnumRowKnown(use) ==
  \E k \in Items("enum", use.owner) :
    /\ \A j \in Items("enum", use.owner) : j <= k
    /\ use.member \in Range(program[k].members)

FieldFact(use) ==
  LET fields == TypeMap(KindOf(TypeIn(symbols, use.owner)))[1].fields
      k == ByName(fields, use.member)
  IN IF k = 0 THEN <<>> ELSE <<fields[k]>>

IsFieldRead(use) ==
  /\ use.owner \notin EnumNames /\ use.member # "new"
  /\ Len(TypeIn(symbols, use.owner)) = 1
  /\ TypeMap(KindOf(TypeIn(symbols, use.owner))) # <<>>

-----------------------------------------------------------------------------
(***************************************************************************)
(* Properties.                                                             *)
(***************************************************************************)
\* Every item is visited once, in order, and the global scope has a symbol for
\* every key, and for every name a global one, whatever the walk has displaced;
\* a member's key may be a field's if something was declared twice.
TablesOK ==
  /\ next \in 1..(Len(program) + 1)
  /\ \A key \in DOMAIN symbols : symbols[key] # <<>>
  /\ globals \subseteq DOMAIN symbols
  /\ \A key \in globals :
       Len(key) = 1 \/ issues = {} => Current(symbols, key).scope = "GLOBAL"
  /\ DOMAIN userParams \subseteq DOMAIN receivers
  /\ \A k \in DOMAIN seen : /\ seen[k].item <= Len(program)
                            /\ k > 1 => seen[k - 1].item <= seen[k].item
  /\ pass \in {"write", "predeclare", "visit", "collections", "done"}

ProgramAccepted == pass = "done" /\ issues = {}

\* The names an item brings into a scope of its own, and what a variable is
\* called.
NamesBy(item) ==
  CASE item.form = "let" -> {item.name}
    [] item.form = "type" -> NamesOf(item.fields)
    [] item.form \in {"method", "function"} -> NamesOf(Parameters(item))
    [] OTHER -> {}

DeclaredNames ==
  {program[k].name : k \in {k \in DOMAIN program : Declares(program[k])}}

Shared(name) ==
  \/ name \in BuiltinTypes \cup DeclaredNames
  \/ \E j, k \in DOMAIN program :
       j # k /\ name \in NamesBy(program[j]) \cap NamesBy(program[k])

\* In an accepted program the sections see a use with the type its owner had
\* in the walk if the owner is a type, an enum, a global variable, or a
\* parameter that shares its name with nothing else (analyzer_scope.py:252:
\* symbols is one table for all scopes).
TypesOutliveTheWalk ==
  ProgramAccepted =>
    \A k \in DOMAIN seen :
      /\ seen[k].kind \in {"TYPE", "ENUM", "VARIABLE"}
      /\ seen[k].local => ~Shared(seen[k].use.owner)
      => TypeIn(symbols, seen[k].use.owner) = seen[k].type

\* The three sections take a call of an accepted program for the same method
\* and bind its arguments alike, if they see its receiver as the walk did.
\* Only when the method is declared for another instance of a generic type do
\* the types and callables sections describe it and the methods section not.
\* What it returns is the same unless the name is also an operation of the
\* collection (facts.py:570, types.py:99 and callables.py:66 each choose the
\* method their own way).  A method called new is taken for a constructor.
SectionsNameTheSameMethod ==
  ProgramAccepted =>
    \A k \in DOMAIN seen :
      LET use == seen[k].use
          type == TypeIn(symbols, use.owner)
          fact == MethodFact(use)
          row == TypesRow(use)
          described == row # <<>> /\ row[1].method # <<>>
          user == fact # <<>> /\ fact[1].method # <<>>
      IN type = seen[k].type /\ use.member # "new" =>
         /\ user => /\ described
                    /\ row[1].method = fact[1].method
                    /\ row[1].binding = fact[1].binding
                    /\ ~IsOperation(type, use.member) /\ fact[1].returns # NoType
                         => row[1].returns = fact[1].returns
         /\ described /\ ~user =>
              LET declared == row[1].method[1].receiver.type
              IN /\ KindOf(declared) = KindOf(type)
                 /\ Len(declared) # 1 /\ declared # type
         /\ CallablesRow(use) # <<>> <=> described
         /\ described => CallablesRow(use)[1].method = row[1].method

\* In an accepted program every member of an enum that is read exists, in both
\* descriptions of enums; every field that is read has the type the walk found
\* for it, and a constructor gives all required fields, if the type comes
\* before the use and the receiver is seen as in the walk
\* (analyzer_validation_members.py:114: a type has no fields until it is
\* visited).
ReferencesKnown ==
  ProgramAccepted =>
    \A k \in DOMAIN seen :
      LET use == seen[k].use
      IN /\ ~use.called /\ use.owner \in EnumNames /\ ~seen[k].local =>
              EnumFactKnown(use) /\ EnumRowKnown(use)
         /\ ~use.called /\ seen[k].visited /\ IsFieldRead(use)
              /\ TypeIn(symbols, use.owner) = seen[k].type
              => FieldFact(use) # <<>> /\ FieldFact(use)[1].type = seen[k].member
         /\ use.called /\ use.member = "new" /\ ~seen[k].local
              /\ use.owner \in DOMAIN udtFields =>
              \/ seen[k].fields = <<>>
              \/ RequiredOf(udtFields[use.owner])
                   \subseteq Supplied(use.args, udtFields[use.owner])

\* "method-form validation is delegated to CollectionValidationPass where
\* receiver-specialized parameter types are available"
\* (analyzer_validation_calls.py:288): in an accepted program the arguments of
\* a collection's operation fit the receiver it has where it stands.
CollectionsCheckedInScope ==
  ProgramAccepted => \A k \in DOMAIN seen : OperationIssues(seen[k].type, seen[k].use) = {}
=============================================================================
