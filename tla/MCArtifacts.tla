----------------------------- MODULE MCArtifacts -----------------------------
(***************************************************************************)
(* Programs, results and surroundings for TLC: requests around reads of    *)
(* the instrument's name, orders and plots; results of every outcome, one  *)
(* with its error cut off; commits from each source.                       *)
(***************************************************************************)
EXTENDS Artifacts

Node(kind, name, arg) == [kind |-> kind, name |-> name, arg |-> arg]

ArgumentNames == {NoName, "expression", "symbol"}

Reads(args) == {Node("member", "syminfo.tickerid", a) : a \in args}

OtherNodes ==
  {Node("call", "strategy.order", NoName), Node("call", "plotshape", NoName),
   Node("member", "strategy.position_size", NoName),
   Node("member", "syminfo.mintick", NoName)}

Request(arg) == Node("call", "request.security", arg)

Value == Node("other", "close", NoName)

Large(options) == options.explicit # Absent

\* Larger programs where the commit is given, so that git does not matter.  The
\* last places are for what the arguments of a request may be.
MCOffers(nodes, options) ==
  CASE Len(nodes) > 1 /\ ~Large(options) -> {}
    [] Len(nodes) = 1 -> {Request(NoName)} \cup OtherNodes
                           \cup (IF Large(options) THEN {Value} ELSE {})
    [] Len(nodes) = 2 -> {Request(NoName), Request("expression"), Value}
                           \cup Reads(ArgumentNames) \cup OtherNodes
    [] Len(nodes) = 3 -> {Value} \cup Reads({NoName, "expression"})
    [] OTHER -> Reads({NoName})

Setting(name, value) == [name |-> name, value |-> value]

MCSettings ==
  {<<>>,
   <<Setting("calc_on_every_tick", "true"), Setting("calc_on_order_fills", "other")>>,
   <<Setting("calc_on_order_fills", "true"), Setting("calc_on_order_fills", "false")>>}

MCResults ==
  [ast : {TRUE}, diagnostics : {<<>>, <<"WARNING">>, <<"WARNING", "ERROR">>}]
    \cup [ast : {FALSE}, diagnostics : {<<"FATAL">>, <<"ERROR">>, <<"WARNING", "WARNING">>}]

Start(set, explicit, override, profile, name, at) ==
  [settings |-> set, head |-> at,
   environment |-> [explicit |-> explicit, override |-> override,
                    profile |-> profile, name |-> name]]

MCHeads == {"c1", "c2", Unavailable}

MCStarts ==
  {Start(s, Absent, Absent, Absent, "a.pine", h) : s \in MCSettings, h \in MCHeads}
    \cup {Start(<<>>, Absent, Absent, "legacy", "", "c1"),
          Start(<<>>, "c3", "bad", "strict_5x", "a.pine", Unavailable),
          Start(<<>>, Absent, "bad", Absent, "a.pine", Unavailable),
          Start(<<>>, Absent, "c3", "unheard_of", "a.pine", Unavailable)}
=============================================================================
