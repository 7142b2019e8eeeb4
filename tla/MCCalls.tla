------------------------------ MODULE MCCalls ------------------------------
(***************************************************************************)
(* Calls of up to three arguments for TLC.  Four groups: builtins with     *)
(* overloads, optional, removed and later parameters; functions and        *)
(* constructors; methods with receivers of a few types; and the operations *)
(* of arrays, matrices and maps in both forms.  ElementName is the name of *)
(* a user's type, used as element and value type, and Tip that of an enum, *)
(* with a letter of the templates in it, used as key.                      *)
(***************************************************************************)
EXTENDS Calls

ElementName == Text("Order")

Tip == <<"T", "ip">>

Arg(name, type, qual, na) ==
  [name |-> name, type |-> Text(type), qual |-> qual, na |-> na]

Param(name, type, max, required, added, removed) ==
  [name |-> name, type |-> Text(type), max |-> max, required |-> required,
   unsupported |-> FALSE, added |-> added, removed |-> removed]

Values == {<<"int", "const", FALSE>>, <<"string", "series", FALSE>>,
           <<"na", "const", TRUE>>}

ArgsOf(names, values) == {Arg(m, v[1], v[2], v[3]) : m \in names, v \in values}

pa == Param("a", "float", "none", TRUE, 0, 0)
pb == Param("b", "string", "none", FALSE, 0, 0)
pbInt == Param("b", "int", "simple", TRUE, 0, 0)
pc1 == Param("c", "bool", "const", FALSE, 0, 0)
pOld == Param("o", "int", "none", FALSE, 0, 6)
pNew == Param("b", "int", "none", TRUE, 6, 0)
pUnsup == [pb EXCEPT !.unsupported = TRUE]

Entry(params, overloads, extra) ==
  [params |-> params, overloads |-> overloads, extra |-> extra]

Entries ==
  {Entry(<<pa, pb>>, <<>>, FALSE),
   Entry(<<pa, pbInt>>, <<<<pa>>, <<pa, pb, pc1>>>>, FALSE),
   Entry(<<pOld, pa, pNew>>, <<<<pbInt>>>>, FALSE),
   Entry(<<pOld>>, <<>>, FALSE),
   Entry(<<pa, pUnsup>>, <<<<pbInt, pa>>>>, FALSE),
   Entry(<<pa>>, <<<<pb>>, <<pa, pbInt>>>>, TRUE)}

Lists == {<<>>, <<pa>>, <<pa, pb>>, <<pa, pbInt>>, <<pb, pa, pc1>>}

Call(callee, entry) ==
  [callee |-> callee, entry |-> entry, args |-> <<>>, declared |-> "none",
   receiver |-> "none", collection |-> FALSE]

MethodCall(declared, receiver, collection) ==
  [Call("method", Entry(<<pa>>, <<>>, FALSE))
     EXCEPT !.declared = declared, !.receiver = receiver,
            !.collection = collection]

Generic(kind, args) == <<kind, "<">> \o args \o <<">">>

Elements == {Text("int"), ElementName}

Map(key, value) == Generic("map", key \o <<",">> \o value)

ReceiverTypes ==
  {Generic(k, e) : k \in {"array", "matrix"}, e \in Elements}
    \cup {Map(Text("string"), e) : e \in Elements} \cup {Map(Tip, Text("int"))}

CollectionCall(form, kind, op, receiver) ==
  [callee |-> "collection", form |-> form, kind |-> kind, op |-> op,
   receiver |-> receiver, args |-> <<>>]

\* Every kind has a clear for the namespace and for the extractor.
Ops(kind) == Operations(kind) \cup {"clear"}

CollectionCallables ==
  UNION {{CollectionCall("method", "none", op, r) : op \in Ops(KindOf(r))} :
           r \in ReceiverTypes}
    \cup UNION {{CollectionCall("function", k, op, NoType) : op \in Ops(k)} :
                 k \in CollectionKinds}

MCCallables ==
  {Call("builtin", e) : e \in Entries}
    \cup {Call(k, Entry(ps, <<>>, FALSE)) :
            k \in {"function", "constructor"}, ps \in Lists}
    \cup {MethodCall(d, r, FALSE) :
            d \in {"array", "int"}, r \in {"array", "int", "unknown"}}
    \cup {MethodCall(d, "array", TRUE) : d \in {"array", "int"}}
    \cup CollectionCallables

TypedArgs(names, types) ==
  {[name |-> n, type |-> t, qual |-> "const", na |-> FALSE] :
     n \in names, t \in types}

\* An id and then what its operation may be given, by position or by name.
CollectionOffers(c) ==
  LET kind == KindNamed(c)
      params == IF c.op \in Operations(kind) THEN Templates[kind][c.op] ELSE <<>>
      plain == {Text("int"), Text("string"), ElementName, Tip}
      collections == {Generic("array", Text("int")),
                      Map(Text("string"), ElementName)}
      types == IF \E k \in DOMAIN params : params[k].role \in {"array_id", "other"}
               THEN plain \cup collections ELSE plain
  IN IF c.form = "function" /\ c.args = <<>>
     THEN TypedArgs({"", "id"}, ReceiverTypes \cup {Text("unknown"), Text("map")})
     ELSE TypedArgs({"", "id"} \cup NamesOf(params), types)

MCOffers(c) ==
  CASE c.callee = "builtin" -> ArgsOf({"", "a", "b", "o"}, Values)
    [] c.callee \in {"function", "constructor"} -> ArgsOf({"", "a", "b", "x"}, Values)
    [] c.callee = "method" -> ArgsOf({"", "a"}, {<<"int", "const", FALSE>>})
    [] c.callee = "collection" -> CollectionOffers(c)
=============================================================================
