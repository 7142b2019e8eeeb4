---------------------------- MODULE MCTypeFacts ----------------------------
(***************************************************************************)
(* Programs of up to four items for TLC, over two types that differ in     *)
(* their fields, an enum, methods of one name with receivers that do and   *)
(* do not include each other, functions that share a parameter's name with *)
(* each other and with a global variable, and arrays of two element types. *)
(***************************************************************************)
EXTENDS TypeFacts

MCBuiltinTypes == {"int", "string", "array"}
MCBuiltinReceivers == [push |-> {"array"}, get |-> {"array", "matrix", "map"}]

int == Text("int")
ArrayOf(type) == <<"array", "<">> \o type \o <<">">>

Param(name, type) == P(name, type, "none", TRUE)

Arg(type) == [name |-> NoName, type |-> type, qual |-> "const", na |-> FALSE]

Read(owner, member) == [owner |-> owner, member |-> member, called |-> FALSE, args |-> <<>>]

CallOf(owner, member, args) ==
  [owner |-> owner, member |-> member, called |-> TRUE, args |-> args]

Type(name, fields) == [form |-> "type", name |-> name, fields |-> fields]

Fn(params, use) ==
  [form |-> "function", name |-> "f", params |-> params, uses |-> <<use>>,
   result |-> [name |-> NoName, type |-> int]]

Method(name, receiver, result) ==
  [form |-> "method", name |-> name, receiver |-> receiver,
   params |-> <<Param("k", int)>>, uses |-> <<>>, result |-> result]

LetMade(name, type) == [form |-> "let", name |-> name, made |-> type, uses |-> <<>>]
LetUse(name, use) == [form |-> "let", name |-> name, made |-> NoType, uses |-> <<use>>]
Do(use) == [form |-> "do", name |-> NoName, uses |-> <<use>>]

Literal == [name |-> NoName, type |-> int]
Parameter == [name |-> "k", type |-> NoType]

Trade == Type("Trade", <<Param("id", int)>>)
Pos == Type("Pos", <<Param("t", Text("string"))>>)
E == [form |-> "enum", name |-> "E", members |-> <<"a">>]

Self(type) == Param("t", type)

\* Types, enums and what reads them.
TypeOffers ==
  {Trade, Pos, E, Type("Trade", <<Param("w", int)>>)}
    \cup {LetMade("t", Text("Trade")), Do(Read("t", "id"))}
    \cup {LetUse("x", CallOf("Trade", "new", args)) : args \in {<<>>, <<Arg(int)>>}}
    \cup {Do(Read("x", m)) : m \in {"id", "w"}}
    \cup {Do(Read("E", m)) : m \in {"a", "b"}}
    \cup {[Fn(<<Param("t", Text(n))>>, Read("t", m)) EXCEPT !.name = g] :
            n \in {"Trade", "Pos"}, m \in {"id"}, g \in {"f"}}
    \cup {Fn(<<Param("f", Text("Trade"))>>, Read("f", "id")), Do(Read("f", "id"))}
    \cup {Type("Trade", <<Param("id", int), Param("id", Text("string"))>>),
          Type("E", <<Param("a", int)>>)}

\* Methods, collections and what calls them.
MethodOffers ==
  {Method("up", Self(type), Literal) :
     type \in {ArrayOf(int), Text("array"), int}}
    \cup {Method("up", Param("up", ArrayOf(int)), Literal)}
    \cup {Method("push", Self(ArrayOf(int)), Parameter)}
    \cup {LetMade("t", ArrayOf(type)) : type \in {int, Text("string")}}
    \cup {Do(CallOf("t", m, <<Arg(int)>>)) : m \in {"up", "push"}}
    \cup {LetUse("x", CallOf("t", m, <<Arg(int)>>)) : m \in {"up"}}
    \cup {[Fn(<<Param("t", ArrayOf(type))>>, CallOf("t", m, <<Arg(int)>>))
             EXCEPT !.name = g] :
            type \in {int, Text("string")}, m \in {"push"}, g \in {"f", "g"}}
    \cup {Method("new", Self(ArrayOf(int)), Literal), Do(CallOf("t", "new", <<Arg(int)>>)),
          Do(CallOf("t", "up", <<[Arg(int) EXCEPT !.name = "k"], Arg(int)>>))}

MCItemSets == {TypeOffers, MethodOffers}

\* Two functions, for the run that shows one behaviour.
CollectionItemSets ==
  {{[Fn(<<Param("t", ArrayOf(type))>>, CallOf("t", "push", <<Arg(int)>>))
      EXCEPT !.name = g] : type \in {int, Text("string")}, g \in {"f", "g"}}}
=============================================================================
