---------------------------- MODULE Collections ----------------------------
(***************************************************************************)
(* Calls of array, matrix and map operations, as array.push(a, v) or as    *)
(* a.push(v).  The parameters of an operation are templates over the       *)
(* element, key and value type, specialized by the type of the receiver;   *)
(* collection_signatures does it for both forms, SignatureResolver once    *)
(* more for the first.  frontend/collections.py describes every call to    *)
(* the runtime, from the resolution if it serves and by name and place     *)
(* otherwise.                                                              *)
(*                                                                         *)
(* A call is a record of its form, the kind it names (function form), the  *)
(* type of its receiver (method form), the operation and the arguments.    *)
(***************************************************************************)
EXTENDS Arguments

Text(name) == <<name>>

P(name, type, role, required) ==
  [name |-> name, type |-> type, role |-> role, required |-> required,
   max |-> NoLimit]

Value == P("value", Text("T"), "value", TRUE)
Index == P("index", Text("int"), "index", TRUE)
Key == P("key", Text("K"), "key", TRUE)
Row == P("row", Text("int"), "row", TRUE)
Column == P("column", Text("int"), "column", TRUE)
ElementArray(required) ==
  P("array_id", <<"array", "<", "T", ">">>, "array_id", required)

\* One operation of the code's table for each list of parameters in it.
Templates ==
  [array |->
     [push |-> <<Value>>, includes |-> <<Value>>, set |-> <<Index, Value>>,
      get |-> <<Index>>, remove |-> <<Index>>, pop |-> <<>>, size |-> <<>>,
      copy |-> <<>>, clear |-> <<>>, concat |-> <<ElementArray(TRUE)>>,
      slice |-> <<P("index_from", Text("int"), "index", TRUE),
                  P("index_to", Text("int"), "index", TRUE)>>,
      fill |-> <<Value, P("index_from", Text("int"), "index", FALSE),
                 P("index_to", Text("int"), "index", FALSE)>>],
   matrix |->
     [set |-> <<Row, Column, Value>>, get |-> <<Row, Column>>, rows |-> <<>>,
      row |-> <<Row>>, copy |-> <<>>,
      add_col |-> <<Column, ElementArray(FALSE)>>,
      mult |-> <<P("other", Text("unknown"), "other", TRUE)>>],
   map |->
     [put |-> <<Key, P("value", Text("V"), "value", TRUE)>>, get |-> <<Key>>,
      put_all |-> <<P("other", <<"map", "<", "K", ",", "V", ">">>, "other", TRUE)>>,
      contains |-> <<Key>>, remove |-> <<Key>>, keys |-> <<>>,
      values |-> <<>>, copy |-> <<>>, clear |-> <<>>]]

Operations(kind) ==
  IF kind \in CollectionKinds THEN DOMAIN Templates[kind] ELSE {}

Mutations ==
  [array |-> {"push", "set", "remove", "pop", "clear", "concat", "fill"},
   matrix |-> {"set", "add_col"},
   map |-> {"put", "put_all", "remove", "clear"}]

-----------------------------------------------------------------------------
(***************************************************************************)
(* Specialization.                                                         *)
(***************************************************************************)
\* The two arguments of a map taken for each other.
MutantReplacementsSwapped(receiver) ==
  LET args == GenericArgs(receiver)
      unknown == Text("unknown")
  IN IF Len(args) = 2 THEN [T |-> unknown, K |-> args[2], V |-> args[1]]
     ELSE IF Len(args) = 1 THEN [T |-> args[1], K |-> unknown, V |-> unknown]
     ELSE [T |-> unknown, K |-> unknown, V |-> unknown]

Replacements(receiver) ==
  LET args == GenericArgs(receiver)
      unknown == Text("unknown")
  IN IF KindOf(receiver) \in {"array", "matrix"} /\ args # <<>>
     THEN [T |-> args[1], K |-> unknown, V |-> unknown]
     ELSE IF KindOf(receiver) = "map" /\ Len(args) >= 2
     THEN [T |-> unknown, K |-> args[1], V |-> args[2]]
     ELSE [T |-> unknown, K |-> unknown, V |-> unknown]

ReplaceLetter(text, letter, by) ==
  FlattenSeq([i \in DOMAIN text |-> IF text[i] = letter THEN by ELSE <<text[i]>>])

\* One letter after the other, in what the letters before have become.
Substitute(template, by) ==
  ReplaceLetter(ReplaceLetter(ReplaceLetter(template, "K", by.K), "V", by.V), "T", by.T)

MethodSpecs(receiver, op) ==
  IF op \notin Operations(KindOf(receiver)) THEN <<>>
  ELSE LET templates == Templates[KindOf(receiver)][op]
       IN [k \in DOMAIN templates |->
             [templates[k] EXCEPT !.type = Substitute(@, Replacements(receiver))]]

\* The type of an operation's result.
ReturnType(receiver, op) ==
  LET kind == KindOf(receiver)
      by == Replacements(receiver)
      ArrayOf(type) == <<"array", "<">> \o type \o <<">">>
  IN CASE kind \in {"array", "matrix"} /\ op \in {"get", "pop"} -> by.T
       [] kind = "array" /\ op = "remove" -> by.T
       [] kind = "map" /\ op \in {"get", "remove"} -> by.V
       [] op \in {"size", "rows"} -> Text("int")
       [] op \in {"includes", "contains"} -> Text("bool")
       [] op \in {"copy", "slice"} -> receiver
       [] kind = "matrix" /\ op = "row" -> ArrayOf(by.T)
       [] kind = "map" /\ op = "keys" -> ArrayOf(by.K)
       [] kind = "map" /\ op = "values" -> ArrayOf(by.V)
       [] op = "mult" -> Text("unknown")
       [] OTHER -> Text("void")

\* SignatureResolver looks at the first argument, whatever its name, and
\* knows fewer operations; NoType where it leaves the registry's type.
ResolverTypes(receiver, op) ==
  LET args == GenericArgs(receiver)
  IN IF KindOf(receiver) = "map" /\ Len(args) >= 2
     THEN [key |-> IF op \in {"put", "get", "contains", "remove"}
                   THEN args[1] ELSE NoType,
           value |-> IF op = "put" THEN args[2] ELSE NoType]
     ELSE [key |-> NoType,
           value |-> IF args # <<>> /\ op \in {"push", "set"}
                     THEN args[1] ELSE NoType]

ResolverReturn(receiver, op) ==
  LET args == GenericArgs(receiver)
      kind == KindOf(receiver)
  IN IF args = <<>> THEN NoType
     ELSE IF op = "copy" THEN receiver
     ELSE IF kind \in {"array", "matrix"} /\ op = "get" THEN args[1]
     ELSE IF kind = "array" /\ op = "pop" THEN args[1]
     ELSE IF kind = "map" /\ Len(args) >= 2
     THEN CASE op \in {"get", "remove"} -> args[2]
            [] op = "keys" -> <<"array", "<">> \o args[1] \o <<">">>
            [] op = "values" -> <<"array", "<">> \o args[2] \o <<">">>
            [] OTHER -> NoType
     ELSE NoType

-----------------------------------------------------------------------------
(***************************************************************************)
(* Resolution: resolve_collection_call and the checks of its arguments.    *)
(***************************************************************************)
\* The id is taken to be the first argument; without one the bare kind stands
\* for its type.
Receiver(c) ==
  IF c.form = "method" THEN c.receiver
  ELSE IF c.args # <<>> THEN c.args[1].type ELSE Text(c.kind)

KindNamed(c) == IF c.form = "method" THEN KindOf(c.receiver) ELSE c.kind

Resolves(c) == c.op \in Operations(KindNamed(c))

Specs(c) ==
  IF c.form = "method" THEN MethodSpecs(Receiver(c), c.op)
  ELSE <<P("id", Receiver(c), "id", TRUE)>> \o MethodSpecs(Receiver(c), c.op)

\* The registry's own entry, which a call in function form is checked against
\* as well: it knows the kind of the id, names some parameters otherwise, and
\* knows nothing of array.get and array.set.
RegistryName(c, name) ==
  CASE c.op = "concat" /\ name = "id" -> "id1"
    [] c.op = "concat" /\ name = "array_id" -> "id2"
    [] c.op = "mult" /\ name = "id" -> "id1"
    [] c.op = "mult" /\ name = "other" -> "id2"
    [] c.op = "put_all" /\ name = "other" -> "from"
    [] OTHER -> name

\* The types it has for the rest ask no more than the specification does: the
\* resolver puts in those of the receiver.  It takes keys for strings where it
\* is not told what they are.
RegistryType(c, name) ==
  LET r == Receiver(c)
      told == KindOf(r) = "map" /\ Len(GenericArgs(r)) >= 2
  IN IF name = "key" /\ ~told THEN Text("string") ELSE NoType

RegistryParams(c) ==
  LET id == P("id", Text(c.kind), "id", TRUE)
      specs == <<id>> \o Templates[c.kind][c.op]
  IN IF c.form = "method" \/ (c.kind = "array" /\ c.op \in {"get", "set"}) THEN <<>>
     ELSE [k \in DOMAIN specs |->
             [specs[k] EXCEPT
                !.name = RegistryName(c, @),
                !.type = IF k = 1 THEN @ ELSE RegistryType(c, specs[k].name)]]

BindingIssues(args, params) ==
  {<<"repeated", i>> : i \in Repeated(args)}
    \cup Structural(args, params)
    \cup UNION {ValueIssues(args[i], params[PlaceParameter(args, params, i)], i) :
                  i \in {i \in DOMAIN args : PlaceParameter(args, params, i) # 0}}

\* An operation that is none of the kind's goes to the other rules, which let
\* a function of the namespace pass and look a method up by its name.
CollectionIssues(c) ==
  IF Resolves(c)
  THEN BindingIssues(c.args, Specs(c))
         \cup (IF RegistryParams(c) = <<>> THEN {}
               ELSE BindingIssues(c.args, RegistryParams(c)))
  ELSE When(c.form = "method", <<"receiver", 0>>)

-----------------------------------------------------------------------------
(***************************************************************************)
(* The rows of frontend/collections.py.  A row says which argument has     *)
(* each role, 0 for none; NoRow is the absence of a row.                   *)
(***************************************************************************)
Roles == {"key", "index", "row", "column", "value"}

NoRow == [role \in {} |-> 0]

IsMutation(c) == Resolves(c) /\ c.op \in Mutations[KindNamed(c)]
IsAccess(c) == Resolves(c) /\ c.op \notin Mutations[KindNamed(c)]

\* The first argument bound to a parameter of the role.
RoleArgument(c, role) ==
  LET specs == Specs(c)
      Of(i) == PlaceParameter(c.args, specs, i)
      having == {i \in DOMAIN c.args : Of(i) # 0 /\ specs[Of(i)].role = role}
  IN IF having = {} THEN 0
     ELSE CHOOSE i \in having : \A j \in having : i <= j

FromResolution(c) ==
  IF c.form = "function" /\ c.args = <<>> THEN NoRow
  ELSE [role \in Roles |-> RoleArgument(c, role)]

\* The operations known by name, each with the roles of its arguments in order.
NamedMutations ==
  [array |-> [push |-> <<"value">>, unshift |-> <<"value">>,
              set |-> <<"index", "value">>, clear |-> <<>>],
   matrix |-> [set |-> <<"row", "column", "value">>, clear |-> <<>>],
   map |-> [put |-> <<"key", "value">>, remove |-> <<"key">>, clear |-> <<>>]]

NamedAccesses ==
  [array |-> [get |-> <<"index">>, includes |-> <<"value">>,
              indexof |-> <<"value">>, first |-> <<>>, last |-> <<>>,
              size |-> <<>>, copy |-> <<>>],
   matrix |-> [get |-> <<"row", "column">>, rows |-> <<>>, columns |-> <<>>,
               copy |-> <<>>],
   map |-> [get |-> <<"key">>, contains |-> <<"key">>, remove |-> <<"key">>,
            keys |-> <<>>, values |-> <<>>, size |-> <<>>, copy |-> <<>>]]

\* The id of the function form counted as an argument of the operation.
MutantFromNameIgnoresForm(c, table, optional) ==
  LET kind == KindNamed(c)
      roles == table[kind][c.op]
      Place(role) == {k \in DOMAIN roles : roles[k] = role /\ k <= Len(c.args)}
  IN IF kind \notin DOMAIN table THEN NoRow
     ELSE IF c.op \notin DOMAIN table[kind] THEN NoRow
     ELSE IF Len(c.args) < (IF optional THEN 0 ELSE Len(roles)) THEN NoRow
     ELSE [role \in Roles |->
             IF Place(role) = {} THEN 0 ELSE CHOOSE k \in Place(role) : TRUE]

\* By place; optional says that a missing argument does not matter.
FromName(c, table, optional) ==
  LET kind == KindNamed(c)
      first == IF c.form = "function" THEN 1 ELSE 0
      roles == table[kind][c.op]
      Place(role) == {k \in DOMAIN roles : roles[k] = role
                                           /\ first + k <= Len(c.args)}
  IN IF kind \notin DOMAIN table THEN NoRow
     ELSE IF c.op \notin DOMAIN table[kind] THEN NoRow
     ELSE IF Len(c.args) < first + (IF optional THEN 0 ELSE Len(roles))
     THEN NoRow
     ELSE [role \in Roles |->
             IF Place(role) = {} THEN 0
             ELSE first + CHOOSE k \in Place(role) : TRUE]

MutationRow(c) ==
  IF IsMutation(c) THEN FromResolution(c)
  ELSE FromName(c, NamedMutations, FALSE)

AccessRow(c) ==
  IF IsAccess(c) THEN FromResolution(c)
  ELSE FromName(c, NamedAccesses, KindNamed(c) = "array")
=============================================================================
