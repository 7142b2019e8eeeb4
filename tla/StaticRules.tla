------------------------------ MODULE StaticRules ------------------------------
(***************************************************************************)
(* The rules checked after the analysis, and the facts about requests,     *)
(* strategies and loops handed to the runtime.                             *)
(*                                                                         *)
(* build_static_validation_report collects the calls of the program with   *)
(* the structures around them, by a walk with a stack of its own, and      *)
(* checks four families of rules.  The three extractors under frontend/    *)
(* walk the program again, recursively, bind the arguments again, and say  *)
(* again whether a request may run.  Report and facts are used by          *)
(* different readers and must agree.                                       *)
(*                                                                         *)
(* A program is the sequence of its nodes in the order of iter_nodes; node *)
(* 1 is the Program.  A behavior builds a program, walks it, checks the    *)
(* rules and extracts the facts.                                           *)
(***************************************************************************)
EXTENDS Arguments, Integers

CONSTANTS
  Offers(_),        \* what may come next in a program: records [kind, body]
  Signatures,       \* the parameters of the builtins, a function on names
  Fields,           \* the fields of the user's types, a function on names
  DynamicDefault,   \* the profile's default of dynamic_requests
  ExportedConst,    \* whether the profile lets a library export a const
  MaxNodes          \* bound on the nodes of a program

ASSUME DynamicDefaultAssumption == DynamicDefault \in BOOLEAN

\* The analysis rejects a type that gives the name of a field twice.
ASSUME FieldsAssumption ==
  \A type \in DOMAIN Fields :
    /\ Fields[type] \in Seq([name : STRING, type : STRING])
    /\ \A i, j \in DOMAIN Fields[type] :
         Fields[type][i].name = Fields[type][j].name => i = j

ASSUME MaxNodesAssumption == MaxNodes \in Nat \ {0}

VARIABLES
  script,      \* the script type
  dynamic,     \* the values of the declaration's dynamic_requests arguments
  program,     \* the nodes, each with the index of its parent
  stack,       \* nodes to visit with their contexts, the next one last
  calls,       \* the calls found, with their contexts, in the order found
  counts,      \* the counters of the report
  issues,      \* the issues of the report: pairs of a rule and a node
  rows,        \* the rows of the three contracts
  pc           \* what comes next

vars == <<script, dynamic, program, stack, calls, counts, issues, rows, pc>>

Body(n) == program[n].body
Callee(n) == Body(n).callee

Children(n) == InOrder({k \in DOMAIN program : program[k].parent = n})

Calls == InOrder({k \in DOMAIN program : program[k].kind = "call"})

\* The nodes a node is in, itself among them.
Under ==
  LET U[n \in DOMAIN program] ==
        {n} \cup (IF program[n].parent = 0 THEN {} ELSE U[program[n].parent])
  IN U

\* Arguments have a name or NoName and a qualifier; a selector is none, a
\* literal name or index, which are constant, or any other expression; a bound
\* of a loop is known if it is an integer literal with any number of signs.
Argument == [name : STRING, qual : STRING]

IsSelector(s) ==
  \/ s.form \in {"none", "other"}
  \/ s \in [form : {"name"}, qual : {"const"}, type : {"string"}, name : STRING]
             \cup [form : {"index"}, qual : {"const"}, type : {"int"}, index : Int]

Bound == [known : BOOLEAN, plus : BOOLEAN, value : Int]

IsNode(node) ==
  CASE node.kind = "call" ->
         /\ node.body.args \in Seq(Argument)
         /\ node.body.callee = "sort" => IsSelector(node.body.selector)
    [] node.kind = "for_range" ->
         node.body \in [start : Bound, end : Bound, step : Bound]
    [] OTHER -> TRUE

-----------------------------------------------------------------------------
(***************************************************************************)
(* Contexts.                                                               *)
(***************************************************************************)
Markers == {"function", "method", "if", "switch", "for_range", "for_in", "while"}

Marker(n) == IF program[n].kind \in Markers THEN <<program[n].kind>> ELSE <<>>

\* What the recursive walk of the extractors gives each node.
Context ==
  LET C[n \in DOMAIN program] ==
        IF program[n].parent = 0 THEN <<>>
        ELSE C[program[n].parent] \o Marker(program[n].parent)
  IN C

LocalRequestMarkers ==
  {"if", "switch", "for_range", "for_in", "while", "function", "method"}

IsLocal(context) == \E k \in DOMAIN context : context[k] \in LocalRequestMarkers

-----------------------------------------------------------------------------
(***************************************************************************)
(* Requests.                                                               *)
(***************************************************************************)
Requests == {"request.security", "request.seed"}

ASSUME SignaturesAssumption ==
  \A name \in Requests : Signatures[name] \in Seq(STRING)

ContextParameters ==
  {"symbol", "ticker", "timeframe", "currency", "financial_id", "period",
   "field", "gaps", "lookahead"}

\* The report takes the first boolean literal among the arguments so named,
\* the contract the first argument whatever it is.
ReportEnabled ==
  LET literals == {k \in DOMAIN dynamic : dynamic[k] \in {"true", "false"}}
  IN IF literals = {} THEN DynamicDefault
     ELSE dynamic[CHOOSE k \in literals : \A j \in literals : k <= j] = "true"

ContractEnabled ==
  IF dynamic = <<>> THEN DynamicDefault
  ELSE IF dynamic[1] \in {"true", "false"} THEN dynamic[1] = "true"
  ELSE DynamicDefault

AsParams(names) == [k \in DOMAIN names |-> [name |-> names[k]]]

\* The contract's names: those of the resolver's parameters, or the argument's
\* own where there is none.
BoundName(args, params, i) ==
  LET k == PlaceParameter(args, AsParams(params), i)
  IN IF k # 0 THEN params[k] ELSE args[i].name

SeriesContext(args, Name(_)) ==
  {Name(i) : i \in {i \in DOMAIN args : Name(i) \in ContextParameters
                                        /\ args[i].qual = "series"}}

DynamicRequestIssue(c) ==
  LET args == Body(c.node).args
      Name(i) == StaticNames(args, AsParams(Signatures[Callee(c.node)]))[i]
  IN /\ Callee(c.node) \in Requests
     /\ IsLocal(c.context) \/ SeriesContext(args, Name) # {}
     /\ ~ReportEnabled

\* A row that forgets the arguments when the scope is local.
MutantRequestRow(n) ==
  LET local == IsLocal(Context[n])
  IN [node |-> n, context |-> Context[n],
      disabled |-> IF ContractEnabled \/ ~local THEN {} ELSE {"local_scope"}]

RequestRow(n) ==
  LET args == Body(n).args
      Name(i) == BoundName(args, Signatures[Callee(n)], i)
      local == IsLocal(Context[n])
      series == SeriesContext(args, Name)
  IN [node |-> n, context |-> Context[n],
      disabled |-> IF ContractEnabled THEN {}
                   ELSE When(local, "local_scope")
                          \cup When(series # {}, "series_context_argument")]

-----------------------------------------------------------------------------
(***************************************************************************)
(* Strategies.                                                             *)
(***************************************************************************)
\* The calls of the strategy namespace and the bucket each goes to.
MutantStrategyBucket(name) ==
  CASE name \in {"strategy.entry", "strategy.order", "strategy.exit"} -> "orders"
    [] name \in {"strategy.close", "strategy.cancel"} -> "management"
    [] name = "strategy.risk.max_drawdown" -> "risk_rules"
    [] OTHER -> "other"

StrategyBucket(name) ==
  CASE name \in {"strategy.entry", "strategy.order"} -> "orders"
    [] name = "strategy.exit" -> "exits"
    [] name \in {"strategy.close", "strategy.cancel"} -> "management"
    [] name = "strategy.risk.max_drawdown" -> "risk_rules"
    [] OTHER -> "other"

StrategyCalls ==
  {"strategy.entry", "strategy.order", "strategy.exit", "strategy.close",
   "strategy.cancel", "strategy.risk.max_drawdown", "strategy.convert_to_account"}

Effective(names) ==
  \/ names \cap {"profit", "limit", "loss", "stop"} # {}
  \/ "trail_offset" \in names /\ names \cap {"trail_price", "trail_points"} # {}

\* Only the arguments given by name count.
ExitIssue(c) ==
  /\ Callee(c.node) = "strategy.exit"
  /\ LET args == Body(c.node).args
     IN ~Effective({args[i].name : i \in Named(args)})

StrategyRow(n) ==
  LET args == Body(n).args
  IN [node |-> n, context |-> Context[n], bucket |-> StrategyBucket(Callee(n)),
      parameters |-> {BoundName(args, Signatures[Callee(n)], i) : i \in DOMAIN args}]

-----------------------------------------------------------------------------
(***************************************************************************)
(* Exports and sorts.                                                      *)
(***************************************************************************)
Exported(n) == program[n].kind \in {"function", "method", "var"} /\ Body(n).exported

ExportRules(n) ==
  LET b == Body(n)
      Rule(condition, name) == IF condition THEN <<<<name, n>>>> ELSE <<>>
  IN IF ~Exported(n) THEN <<>>
     ELSE CASE program[n].kind = "function" -> Rule(b.untyped, "function_parameter")
            [] program[n].kind = "method" ->
                 Rule(~b.receiver, "method_receiver")
                   \o Rule(b.untyped, "method_parameter")
            [] program[n].kind = "var" ->
                 IF ~b.const THEN Rule(TRUE, "variable_const")
                 ELSE Rule(~ExportedConst, "const_version")

\* The field a selector is taken to mean.
SortField(fields, selector) ==
  LET at == CASE selector.form = "none" -> {1}
              [] selector.form = "name" -> {k \in DOMAIN fields :
                                              fields[k].name = selector.name}
              [] selector.form = "index" -> {selector.index + 1}
  IN at \cap DOMAIN fields

Sortable == {"int", "float", "string"}

\* An index checked from above only.
MutantSortRules(call) ==
  LET s == call.selector
      fields == Fields[call.element]
  IN IF call.element \notin DOMAIN Fields \/ s.form = "other" THEN <<>>
     ELSE IF s.form = "index" /\ s.index < 0 THEN <<>>
     ELSE IF SortField(fields, s) = {} THEN <<"unknown_field">>
     ELSE IF fields[CHOOSE k \in SortField(fields, s) : TRUE].type \in Sortable
     THEN <<>> ELSE <<"not_sortable">>

SortRules(call) ==
  LET s == call.selector
      known == call.element \in DOMAIN Fields
      fields == Fields[call.element]
      constant == IF s.form # "none" /\ s.qual # "const"
                  THEN <<"requires_const">> ELSE <<>>
  IN IF ~known THEN IF s.form # "none" THEN <<"requires_udt">> ELSE <<>>
     ELSE IF s.form # "none" /\ s.type \notin {"int", "string", "unknown", "any"}
     THEN Append(constant, "argument_type")
     ELSE IF s.form = "other" THEN constant
     ELSE IF SortField(fields, s) = {} THEN Append(constant, "unknown_field")
     ELSE LET k == CHOOSE k \in SortField(fields, s) :
                     \A j \in SortField(fields, s) : k <= j
          IN IF fields[k].type \in Sortable THEN constant
             ELSE Append(constant, "not_sortable")

-----------------------------------------------------------------------------
(***************************************************************************)
(* Loops.  A bound has plus if a plus sign is among its signs.             *)
(***************************************************************************)
NoCount == -1

Magnitude(x) == IF x < 0 THEN -x ELSE x

\* The contract does not look under a plus sign.
Readable(bound) == bound.known /\ ~bound.plus

MutantStaticIterations(l) ==
  LET distance == l.end.value - l.start.value
      step == l.step.value
  IN IF ~Readable(l.start) \/ ~Readable(l.end) \/ ~Readable(l.step) THEN NoCount
     ELSE IF step = 0 THEN NoCount
     ELSE IF distance * step < 0 THEN 0
     ELSE Magnitude(distance) \div Magnitude(step)

StaticIterations(l) ==
  LET distance == l.end.value - l.start.value
      step == l.step.value
  IN IF ~Readable(l.start) \/ ~Readable(l.end) \/ ~Readable(l.step) THEN NoCount
     ELSE IF step = 0 THEN NoCount
     ELSE IF distance = 0 THEN 1
     ELSE IF (distance > 0 /\ step < 0) \/ (distance < 0 /\ step > 0) THEN 0
     ELSE Magnitude(distance) \div Magnitude(step) + 1

\* What the guard against endless loops takes for the same count.
StaticBound(l) ==
  LET distance == Magnitude(l.end.value - l.start.value)
  IN IF ~l.start.known \/ ~l.end.known THEN NoCount
     ELSE IF ~l.step.known \/ l.step.value = 0 THEN distance
     ELSE distance \div Magnitude(l.step.value)

LoopRow(n) ==
  [node |-> n, kind |-> program[n].kind,
   iterations |-> IF program[n].kind = "for_range" THEN StaticIterations(Body(n))
                  ELSE NoCount]

ConditionRows(n) ==
  CASE program[n].kind = "if" ->
         [k \in 1..(1 + Body(n).else_ifs) |->
            [node |-> n, kind |-> IF k = 1 THEN "if" ELSE "else_if"]]
    [] program[n].kind \in {"while", "switch"} ->
         <<[node |-> n, kind |-> program[n].kind]>>
    [] OTHER -> <<>>

-----------------------------------------------------------------------------
(***************************************************************************)
(* Behaviors.                                                              *)
(***************************************************************************)
Containers == Markers \cup {"program", "call"}

\* Where the next node of the program may hang: on the path from the last one
\* to the root.
Open == {n \in Under[Len(program)] : program[n].kind \in Containers}

Init ==
  /\ script \in {"library", "strategy"}
  /\ dynamic \in {<<>>, <<"true">>, <<"false">>, <<"series">>, <<"series", "false">>}
  /\ program = <<[kind |-> "program", body |-> <<>>, parent |-> 0]>>
  /\ stack = <<>>
  /\ calls = <<>>
  /\ counts = [requests |-> 0, exits |-> 0, exported |-> 0, sorts |-> 0]
  /\ issues = <<>>
  /\ rows = [requests |-> <<>>, strategy |-> <<>>, loops |-> <<>>,
             conditions |-> <<>>]
  /\ pc = "parse"

AddNode ==
  /\ pc = "parse" /\ Len(program) < MaxNodes
  /\ \E node \in Offers(program), p \in Open :
       /\ IsNode(node)
       /\ program' = Append(program, [kind |-> node.kind, body |-> node.body,
                                      parent |-> p])
  /\ UNCHANGED <<script, dynamic, stack, calls, counts, issues, rows, pc>>

StartWalk ==
  /\ pc = "parse"
  /\ stack' = <<[node |-> 1, context |-> <<>>]>>
  /\ pc' = "walk"
  /\ UNCHANGED <<script, dynamic, program, calls, counts, issues, rows>>

\* The children of a structure given the context of the structure itself.
MutantPushed(top) ==
  LET children == Children(top.node)
  IN [k \in DOMAIN children |-> [node |-> children[k], context |-> top.context]]

\* The children in order, so that the last one is visited first.
Pushed(top) ==
  LET children == Children(top.node)
  IN [k \in DOMAIN children |->
        [node |-> children[k], context |-> top.context \o Marker(top.node)]]

Visit ==
  /\ pc = "walk" /\ stack # <<>>
  /\ LET top == stack[Len(stack)]
     IN /\ calls' = IF program[top.node].kind = "call" THEN Append(calls, top)
                    ELSE calls
        /\ stack' = SubSeq(stack, 1, Len(stack) - 1) \o Pushed(top)
  /\ UNCHANGED <<script, dynamic, program, counts, issues, rows, pc>>

\* The counters are taken on the calls and the exported declarations.
Counted(c) ==
  [requests |-> Callee(c.node) \in Requests,
   exits |-> Callee(c.node) = "strategy.exit",
   sorts |-> Callee(c.node) = "sort" /\ Body(c.node).selector.form # "none"]

Count ==
  /\ pc = "walk" /\ stack = <<>>
  /\ LET Of(field) == Cardinality({k \in DOMAIN calls : Counted(calls[k])[field]})
     IN counts' = [requests |-> Of("requests"), exits |-> Of("exits"),
                   sorts |-> Of("sorts"),
                   exported |-> Cardinality({n \in DOMAIN program : Exported(n)})]
  /\ pc' = "requests"
  /\ UNCHANGED <<script, dynamic, program, stack, calls, issues, rows>>

\* The issues of one rule over the calls found.
Found(rule, Holds(_)) ==
  LET found == InOrder({k \in DOMAIN calls : Holds(calls[k])})
  IN [k \in DOMAIN found |-> <<rule, calls[found[k]].node>>]

CheckRequests ==
  /\ pc = "requests"
  /\ issues' = issues \o Found("dynamic_request", DynamicRequestIssue)
  /\ pc' = "exits"
  /\ UNCHANGED <<script, dynamic, program, stack, calls, counts, rows>>

CheckExits ==
  /\ pc = "exits"
  /\ issues' = issues \o Found("exit_action", ExitIssue)
  /\ pc' = "exports"
  /\ UNCHANGED <<script, dynamic, program, stack, calls, counts, rows>>

CheckExports ==
  /\ pc = "exports"
  /\ issues' = issues \o
                 (IF script # "library" THEN <<>>
                  ELSE Concat([n \in DOMAIN program |-> ExportRules(n)]))
  /\ pc' = "sorts"
  /\ UNCHANGED <<script, dynamic, program, stack, calls, counts, rows>>

CheckSorts ==
  /\ pc = "sorts"
  /\ LET Of(c) == IF Callee(c.node) # "sort" THEN <<>>
                  ELSE [k \in DOMAIN SortRules(Body(c.node)) |->
                          <<SortRules(Body(c.node))[k], c.node>>]
     IN issues' = issues \o Concat([k \in DOMAIN calls |-> Of(calls[k])])
  /\ pc' = "extract_requests"
  /\ UNCHANGED <<script, dynamic, program, stack, calls, counts, rows>>

\* The rows of the calls that belong to a contract, in the recursive order.
RowsOf(names, Row(_)) ==
  LET chosen == InOrder({n \in DOMAIN program : /\ program[n].kind = "call"
                                               /\ Callee(n) \in names})
  IN [k \in DOMAIN chosen |-> Row(chosen[k])]

ExtractRequests ==
  /\ pc = "extract_requests"
  /\ rows' = [rows EXCEPT !.requests = RowsOf(Requests, RequestRow)]
  /\ pc' = "extract_strategy"
  /\ UNCHANGED <<script, dynamic, program, stack, calls, counts, issues>>

ExtractStrategy ==
  /\ pc = "extract_strategy"
  /\ rows' = [rows EXCEPT !.strategy = RowsOf(StrategyCalls, StrategyRow)]
  /\ pc' = "extract_control_flow"
  /\ UNCHANGED <<script, dynamic, program, stack, calls, counts, issues>>

ExtractControlFlow ==
  /\ pc = "extract_control_flow"
  /\ LET loops == InOrder({n \in DOMAIN program :
                              program[n].kind \in {"while", "for_range", "for_in"}})
     IN rows' = [rows EXCEPT
                   !.loops = [k \in DOMAIN loops |-> LoopRow(loops[k])],
                   !.conditions = Concat([n \in DOMAIN program |-> ConditionRows(n)])]
  /\ pc' = "done"
  /\ UNCHANGED <<script, dynamic, program, stack, calls, counts, issues>>

Next ==
  \/ AddNode \/ StartWalk \/ Visit \/ Count
  \/ CheckRequests \/ CheckExits \/ CheckExports \/ CheckSorts
  \/ ExtractRequests \/ ExtractStrategy \/ ExtractControlFlow

Spec == Init /\ [][Next]_vars

-----------------------------------------------------------------------------
(***************************************************************************)
(* Properties.                                                             *)
(***************************************************************************)
TypeOK ==
  /\ script \in {"library", "strategy"}
  /\ \A n \in DOMAIN program :
       program[n].parent \in 0..(n - 1) /\ (n = 1 <=> program[n].parent = 0)
  /\ \A k \in DOMAIN stack : stack[k].node \in DOMAIN program
  /\ \A k \in DOMAIN calls : calls[k].node \in DOMAIN program
  /\ \A k \in DOMAIN issues : issues[k][2] \in DOMAIN program
  /\ \A f \in DOMAIN counts : counts[f] \in 0..MaxNodes
  /\ pc \in {"parse", "walk", "requests", "exits", "exports", "sorts",
             "extract_requests", "extract_strategy", "extract_control_flow",
             "done"}

Reported(rule, n) == <<rule, n>> \in {issues[k] : k \in DOMAIN issues}

\* The analysis rejects a call whose named arguments come before a positional
\* one or repeat, and a declaration that gives a name twice.
Accepted(args) ==
  /\ Repeated(args) = {}
  /\ \A i \in DOMAIN args, j \in DOMAIN args :
       i < j /\ i \in Named(args) => j \in Named(args)

\* iter_calls_with_context_fast is said to be equivalent to the recursive
\* walk: at any moment the calls found and those under the stack are all the
\* calls of the program, once each, in the context the other walk gives them.
\* A structure entered or left at the wrong time would make a request local
\* for the report and global for the runtime.
WalksAgree ==
  pc \in {"walk", "done"} =>
    LET found == {calls[k].node : k \in DOMAIN calls}
        pending == {n \in DOMAIN program :
                      /\ program[n].kind = "call"
                      /\ \E k \in DOMAIN stack : stack[k].node \in Under[n]}
    IN /\ found \cup pending = {Calls[k] : k \in DOMAIN Calls}
       /\ found \cap pending = {}
       /\ Cardinality(found) = Len(calls)
       /\ \A k \in DOMAIN calls : calls[k].context = Context[calls[k].node]
       /\ \A k \in DOMAIN stack : stack[k].context = Context[stack[k].node]

\* Both walks, at every step of the second one.
WalkInvariant == TypeOK /\ WalksAgree

\* A request is reported exactly if its row of the contract says it may not
\* run: the report and the runtime's facts bind arguments by different rules,
\* read the declaration by different rules and walk the program by different
\* walks, and agree on every call and declaration the analysis accepts.
RequestsDisabledAreReported ==
  pc = "done" /\ Len(dynamic) <= 1 =>
    \A k \in DOMAIN rows.requests :
      LET n == rows.requests[k].node
      IN Accepted(Body(n).args) =>
           (Reported("dynamic_request", n) <=> rows.requests[k].disabled # {})

\* The counters of the report are the numbers of rows the contracts have, and
\* a reported exit is a row among the exits.
CountsMatchRows ==
  pc = "done" =>
    LET exits == {rows.strategy[k].node : k \in {k \in DOMAIN rows.strategy :
                                          rows.strategy[k].bucket = "exits"}}
    IN /\ counts.requests = Len(rows.requests)
       /\ counts.exits = Cardinality(exits)
       /\ \A n \in DOMAIN program : Reported("exit_action", n) => n \in exits

\* The field a selector stands for: the first one, the one of the name, or the
\* one that as many others come before.
Selected(fields, s) ==
  {k \in DOMAIN fields :
     CASE s.form = "none" -> \A j \in DOMAIN fields : k <= j
       [] s.form = "name" -> fields[k].name = s.name
       [] s.form = "index" -> Cardinality(1..(k - 1)) = s.index}

\* A sort of records by a literal selector, or by none, is accepted exactly if
\* it selects one field and that field can be ordered; anything else is
\* reported once.
SortsSelectOrderedFields ==
  pc = "done" =>
    \A c \in {n \in {Calls[k] : k \in DOMAIN Calls} : Callee(n) = "sort"} :
      LET s == Body(c).selector
          fields == Fields[Body(c).element]
          reports == {k \in DOMAIN issues : issues[k][2] = c}
      IN Body(c).element \in DOMAIN Fields /\ s.form # "other" =>
           /\ reports = {} <=> \E k \in Selected(fields, s) :
                                 /\ fields[k].type \in Sortable
                                 /\ Selected(fields, s) = {k}
           /\ Cardinality(reports) <= 1

\* The values the counter of a loop takes going from start to end.
Values(l) ==
  {k \in 0..Magnitude(l.end.value - l.start.value) :
     Magnitude(l.step.value) * k <= Magnitude(l.end.value - l.start.value)}

\* A loop whose step points to its end has as many iterations as its row in the
\* contract says.
LoopRowsCountIterations ==
  \A k \in DOMAIN rows.loops :
    LET row == rows.loops[k]
    IN row.kind = "for_range" /\ row.iterations > 0 =>
         row.iterations = Cardinality(Values(Body(row.node)))

\* What the tests of the guard against endless loops say of it: its number is
\* how often the loop runs, whose end is included
\* (tests/unit/test_loop_dos_p2_1.py:81, "for i = 0 to 100", 100 iterations).
GuardCountsIterations ==
  \A k \in DOMAIN rows.loops :
    LET row == rows.loops[k]
        l == Body(row.node)
    IN row.kind = "for_range" /\ row.iterations > 0 =>
         StaticBound(l) = Cardinality(Values(l))
=============================================================================
