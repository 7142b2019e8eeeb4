---------------------------- MODULE MCStaticRules ----------------------------
(***************************************************************************)
(* Programs of up to MaxNodes nodes for TLC, of three families: requests   *)
(* and strategy calls in structures, sorts of arrays of records, loops;    *)
(* exported declarations go with the first.                                *)
(***************************************************************************)
EXTENDS StaticRules

Node(kind, body) == [kind |-> kind, body |-> body]

Arg(name, qual) == [name |-> name, qual |-> qual]

Call(callee, args) ==
  Node("call", [callee |-> callee, args |-> args])

StaticRequest == Call("request.security", <<Arg("", "const"), Arg("", "const")>>)

PositionalExit ==
  Call("strategy.exit", <<Arg("", "const"), Arg("", "const"), Arg("", "series")>>)

RequestCalls ==
  {Call("request.security", <<Arg("", "const"), Arg("", "series")>>),
   Call("request.security", <<Arg("", "const"), Arg("timeframe", "const"),
                              Arg("expression", "series")>>),
   Call("request.security", <<Arg("gaps", "series"), Arg("symbol", "const")>>),
   Call("request.security", <<Arg("symbol", "const"), Arg("", "series")>>),
   Call("request.seed", <<Arg("", "series"), Arg("", "const"), Arg("", "series")>>)}

StrategyNodes ==
  {Call("strategy.exit", <<Arg("", "const"), Arg("stop", "series")>>),
   PositionalExit,
   Call("strategy.exit", <<Arg("trail_offset", "const"), Arg("trail_price", "series")>>),
   Call("strategy.entry", <<Arg("", "const")>>),
   Call("strategy.risk.max_drawdown", <<Arg("", "const")>>)}

Structures ==
  {Node("if", [else_ifs |-> 1]), Node("while", <<>>),
   Node("function", [exported |-> TRUE, untyped |-> TRUE]),
   Node("method", [exported |-> TRUE, untyped |-> FALSE, receiver |-> FALSE]),
   Node("var", [exported |-> TRUE, const |-> TRUE])}

Selectors ==
  {[form |-> "none"]}
    \cup {[form |-> "name", qual |-> "const", type |-> "string", name |-> m] :
            m \in {"id", "owner", "absent"}}
    \cup {[form |-> "index", qual |-> "const", type |-> "int", index |-> k] :
            k \in -1..2}
    \cup {[form |-> "other", qual |-> q, type |-> t] :
            q \in {"const", "series"}, t \in {"int", "float"}}

Sorts == {Node("call", [callee |-> "sort", args |-> <<>>, element |-> e,
                        selector |-> s]) :
            e \in {"Trade", "Empty", "int"}, s \in Selectors}

Bounds == {[known |-> TRUE, plus |-> p, value |-> v] :
             p \in BOOLEAN, v \in {-2, 0, 1, 5}}
            \cup {[known |-> FALSE, plus |-> FALSE, value |-> 0]}

Loops == {Node("for_range", [start |-> a, end |-> b, step |-> c]) :
            a \in Bounds, b \in Bounds, c \in Bounds}

MCFields == [Trade |-> <<[name |-> "id", type |-> "int"],
                         [name |-> "owner", type |-> "User"]>>,
             Empty |-> <<>>]

MCSignatures ==
  [c \in Requests \cup StrategyCalls |->
     CASE c = "request.security" -> <<"symbol", "timeframe", "expression", "gaps">>
       [] c = "request.seed" -> <<"source", "symbol", "expression">>
       [] c = "strategy.exit" -> <<"id", "from_entry", "profit", "trail_price",
                                   "trail_offset">>
       [] OTHER -> <<"id">>]

OneLoop == Node("for_range", [start |-> [known |-> TRUE, plus |-> FALSE, value |-> 0],
                              end |-> [known |-> TRUE, plus |-> FALSE, value |-> 1],
                              step |-> [known |-> TRUE, plus |-> FALSE, value |-> 1]])

\* Sorts and loops of all kinds stand alone; the rest is combined, with fewer
\* kinds of nodes in the last place.
MCOffers(nodes) ==
  LET last == nodes[Len(nodes)]
      alone == [kind |-> last.kind, body |-> last.body]
                 \in (Sorts \cup Loops) \ {OneLoop}
  IN CASE alone -> {}
       [] Len(nodes) = 1 -> RequestCalls \cup StrategyNodes \cup Structures
                              \cup Sorts \cup Loops
       [] Len(nodes) = 2 -> RequestCalls \cup StrategyNodes \cup Structures
                              \cup {OneLoop}
       [] OTHER -> {StaticRequest, PositionalExit}
=============================================================================
