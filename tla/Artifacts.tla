------------------------------ MODULE Artifacts ------------------------------
(***************************************************************************)
(* What a parse leaves behind: the support profile, the frontend artifact  *)
(* and the tree artifact that parse_code attaches to its result, and the   *)
(* inspection payloads that are built from the result later, checked by    *)
(* two validators that were written apart.                                 *)
(*                                                                         *)
(* A behavior parses a program of given nodes, reads the clock and the     *)
(* commit of the producer once, seals the three artifacts one after the    *)
(* other and attaches them, or raises on the way; time passes and the      *)
(* checkout moves in between.  Then the frontend artifact may be built     *)
(* again, alone, and payloads are built and validated.                     *)
(*                                                                         *)
(* A program is the sequence of its nodes in the order of walk; node 1 is  *)
(* the Program.  A node is [kind, name, arg, parent]: arg is the name of   *)
(* the argument the node is the value of, if its parent is a call.         *)
(***************************************************************************)
EXTENDS Arguments, Integers

CONSTANTS
  Offers(_, _),    \* what may come next in a program: [kind, name, arg]
  Results,         \* what parsing may come to: [ast, diagnostics]
  Starts,          \* how a run may begin: [settings, environment, head]
  Heads,           \* what git may answer: commits, or Unavailable
  MaxNodes,        \* bound on the nodes of a program
  MaxClock,        \* bound on the clock
  MaxDiagnostics   \* options.max_diagnostics

Absent == "absent"            \* an option that is None
Unavailable == "unavailable"  \* git cannot be run, or fails
Profiles == {"strict_5x", "legacy"}
Severities == {"FATAL", "ERROR", "WARNING", "INFO"}

(***************************************************************************)
(* Without a tree there is an error to report; the limit may have cut it   *)
(* off.  With one there is no FATAL (Pipeline!FatalYieldsNoProgram).       *)
(***************************************************************************)
Blocking == {"ERROR", "FATAL"}

HasSeverity(list, severities) == \E k \in DOMAIN list : list[k] \in severities

ASSUME ResultsAssumption ==
  \A r \in Results :
    /\ Len(r.diagnostics) <= MaxDiagnostics
    /\ IF r.ast THEN ~HasSeverity(r.diagnostics, {"FATAL"})
       ELSE \/ HasSeverity(r.diagnostics, Blocking)
            \/ Len(r.diagnostics) = MaxDiagnostics

\* There is room for the diagnostic of a refused path, and what git answers is
\* never mistaken for no answer.
ASSUME ArtifactsAssumption ==
  /\ MaxDiagnostics \in Nat \ {0} /\ MaxClock \in Nat
  /\ \A r \in Results : r.ast \in BOOLEAN /\ r.diagnostics \in Seq(Severities)
  /\ Absent \notin Heads
  /\ \A s \in Starts : s.head \in Heads

VARIABLES
  program,     \* the nodes of the tree
  settings,    \* the arguments of the declaration: [name, value]
  environment, \* [explicit, override, profile, name]: the options, with the
               \* environment variable and the source's name
  head,        \* what git says the checkout is at
  clock,       \* milliseconds
  result,      \* ast, diagnostics
  created,     \* created_at
  commit,      \* the producer's commit
  support,     \* the artifacts as they are sealed, None before
  frontend,
  tree,
  attached,    \* the artifacts of the result that parse_code returns
  rebuilt,     \* what build_frontend_v2_payload returned
  payload,     \* what the inspection payload was built with
  pc           \* what comes next

vars == <<program, settings, environment, head, clock, result, created, commit,
          support, frontend, tree, attached, rebuilt, payload, pc>>

None == [none |-> TRUE]
NoTime == -1

Ok(r) == r.ast /\ ~HasSeverity(r.diagnostics, Blocking)

-----------------------------------------------------------------------------
(***************************************************************************)
(* What the program requires.                                              *)
(***************************************************************************)
Children(n) == InOrder({k \in DOMAIN program : program[k].parent = n})

Subtree(n) ==
  LET Under[k \in DOMAIN program] ==
        k = n \/ (program[k].parent # 0 /\ Under[program[k].parent])
  IN {k \in DOMAIN program : Under[k]}

Calls == {k \in DOMAIN program : program[k].kind = "call"}
Members == {k \in DOMAIN program : program[k].kind = "member"}

NamesIn(nodes) == {program[k].name : k \in nodes}

Security == {k \in Calls : program[k].name = "request.security"}

\* The argument nodes as Arguments has them.
ArgumentsOf(call) ==
  [k \in DOMAIN Children(call) |-> [name |-> program[Children(call)[k]].arg]]

\* The places of the arguments that are given under a name.
GivenAs(args, name) == InOrder({i \in DOMAIN args : args[i].name = name})

\* The expression given by position only.
MutantExpression(call) ==
  LET positional == GivenAs(ArgumentsOf(call), NoName)
  IN IF Len(positional) > 2 THEN {Children(call)[positional[3]]} ELSE {}

\* The expression of a request: so named, or the third by position.
Expression(call) ==
  LET named == GivenAs(ArgumentsOf(call), "expression")
      positional == GivenAs(ArgumentsOf(call), NoName)
  IN IF named # <<>> THEN {Children(call)[named[1]]}
     ELSE IF Len(positional) > 2 THEN {Children(call)[positional[3]]} ELSE {}

RequestedContext == UNION {Subtree(e) : e \in UNION {Expression(c) : c \in Security}}

InstrumentFeatures ==
  [f \in {"syminfo.tickerid", "syminfo.mintick", "syminfo.pointvalue"} |->
     IF f = "syminfo.tickerid" THEN "canonical_instrument_identity"
     ELSE "canonical_instrument_rules"]

SeriesIdentityFeatures ==
  [f \in {"chart_series_identity", "requested_series_identity"} |->
     IF f = "chart_series_identity" THEN "canonical_chart_series_identity"
     ELSE "canonical_requested_series_identity"]

OrderAndRiskFeatures ==
  {"strategy.entry", "strategy.order", "strategy.exit",
   "strategy.risk.max_cons_loss_days"}

ExecutionSettings ==
  {"calc_on_order_fills", "calc_on_every_tick", "process_orders_on_close"}

\* Orders are known by their names alone.
MutantDynamicFeatures ==
  ExecutionSettings \cup DOMAIN InstrumentFeatures \cup OrderAndRiskFeatures

DynamicFeatures ==
  ExecutionSettings \cup DOMAIN InstrumentFeatures
    \cup DOMAIN SeriesIdentityFeatures \cup OrderAndRiskFeatures

PositionMembers == {"strategy.position_size"}

Plots == {"plot", "plotshape", "plotchar", "hline"}

RequestUsage ==
  LET requested == IF Security = {} THEN <<>>
                   ELSE <<"mtf_requested_series", "requested_series_identity">>
      chart == \E k \in Members \ RequestedContext :
                 program[k].name = "syminfo.tickerid"
  IN IF chart THEN InsertAt(requested, IF requested = <<>> THEN 1 ELSE 2,
                            "chart_series_identity")
     ELSE requested

Referenced ==
  (NamesIn(Members) \cap DOMAIN InstrumentFeatures)
    \cup (NamesIn(Calls) \cap OrderAndRiskFeatures)
    \cup (IF NamesIn(Members) \cap PositionMembers # {}
          THEN {"broker_projection_reads"} ELSE {})

VisualRequirements == IF NamesIn(Calls) \cap Plots # {} THEN {"visuals"} ELSE {}

\* A later argument of the same name replaces an earlier one.
StrategySettings ==
  LET Given(n) == {k \in DOMAIN settings :
                     settings[k].name = n /\ settings[k].value # "other"}
  IN [n \in {n \in ExecutionSettings : Given(n) # {}} |->
        settings[CHOOSE k \in Given(n) : \A j \in Given(n) : j <= k].value = "true"]

NoUsage == [referenced |-> {}, requests |-> <<>>, visuals |-> {}, settings |-> <<>>]

CapabilityUsage ==
  IF ~result.ast THEN NoUsage
  ELSE [referenced |-> Referenced, requests |-> RequestUsage,
        visuals |-> VisualRequirements, settings |-> StrategySettings]

Required(usage) ==
  usage.referenced \cup Range(usage.requests) \cup usage.visuals
    \cup DOMAIN usage.settings

-----------------------------------------------------------------------------
(***************************************************************************)
(* The three artifacts.                                                    *)
(***************************************************************************)
BlockingIn(list) ==
  LET at == InOrder({k \in DOMAIN list : list[k] \in Blocking})
  IN [n \in DOMAIN at |-> list[at[n]]]
BlockingDiagnostics == BlockingIn(result.diagnostics)

\* A row of the support profile, of the axes that vary.
Feature(id, lower, data, visual, predicate) ==
  [feature_id |-> id, lower |-> lower, data_mtf |-> data, visual |-> visual,
   capability_predicate |-> predicate]

Plain(id, predicate) ==
  Feature(id, "CONDITIONAL", "NOT_APPLICABLE", "NOT_APPLICABLE", predicate)

BaseFeatures(blocked) ==
  {Plain("broker_projection_reads", "interactive_broker_projection"),
   Plain("calc_on_order_fills", "interactive_fill_recalculation"),
   Feature("mtf_requested_series", "CONDITIONAL", "CONDITIONAL",
           "NOT_APPLICABLE", "explicit_confirmed_series"),
   Feature("visuals", "VISUAL_ONLY", "NOT_APPLICABLE", "SUPPORTED", Absent),
   Feature("unsupported_features", IF blocked THEN "UNSUPPORTED" ELSE "SUPPORTED",
           "NOT_APPLICABLE", "NOT_APPLICABLE", Absent)}

Ids(features) == {f.feature_id : f \in features}

Predicate(id) ==
  IF id \in DOMAIN InstrumentFeatures THEN InstrumentFeatures[id]
  ELSE IF id \in DOMAIN SeriesIdentityFeatures THEN SeriesIdentityFeatures[id]
  ELSE Absent

\* The required features that no row of the base covers.
Further == Required(CapabilityUsage) \ Ids(BaseFeatures(FALSE))

\* Any diagnostic at all marks the program unsupported.
MutantSupportFeatures ==
  BaseFeatures(result.diagnostics # <<>>) \cup {Plain(id, Predicate(id)) : id \in Further}

SupportFeatures ==
  BaseFeatures(BlockingDiagnostics # <<>>) \cup {Plain(id, Predicate(id)) : id \in Further}

\* seal_content_hash leaves the time out of what it hashes.
Hash(s) == [commit |-> s.commit, features |-> s.features]

Support(time, sha) == [created |-> time, commit |-> sha, features |-> SupportFeatures]

SectionContracts ==
  [static_validation |-> "openpine.static_validation.v1",
   requests |-> "openpine.requests.v1", strategy |-> "openpine.strategy.v1",
   types |-> "openpine.types.v1", methods |-> "openpine.methods.v1",
   collections |-> "openpine.collections.v1", callables |-> "openpine.callables.v1",
   control_flow |-> "openpine.control_flow.v1"]

Sections == DOMAIN SectionContracts

SourceName(given, path) == IF given # "" THEN given ELSE path

\* declarations.ok and so on come from the payload of payload.py.
Frontend(time, sha, ref) ==
  [created |-> time, commit |-> sha,
   ok |-> Ok(result),
   source_name |-> SourceName(environment.name, environment.name),
   sections_present |-> IF result.ast THEN Sections ELSE {},
   blocking |-> BlockingDiagnostics,
   usage |-> CapabilityUsage,
   support_profile_ref |-> ref,
   profile |-> IF environment.profile = Absent THEN "strict_5x"
               ELSE environment.profile]

Tree(time, sha) ==
  [created |-> time, commit |-> sha,
   nodes |-> IF result.ast THEN Len(program) ELSE 0,
   diagnostics |-> Len(result.diagnostics)]

\* _producer_commit: the option, else the environment variable, else git.
\* "bad" stands for every text that is no commit.
ProducerCommit ==
  IF environment.explicit # Absent THEN environment.explicit
  ELSE IF environment.override # Absent THEN environment.override
  ELSE head

\* Only a failing git is noticed.
MutantValidCommit(sha) == sha # Unavailable

ValidCommit(sha) == sha \notin {"bad", Unavailable}

ValidProfile == environment.profile \in Profiles \cup {Absent}

-----------------------------------------------------------------------------
(***************************************************************************)
(* Payloads and their validators.                                          *)
(*                                                                         *)
(* A payload is a function on paths.  A value is the name of its type, or  *)
(* a literal that the validators compare; "str" is a text that is neither  *)
(* such a literal nor empty.                                               *)
(***************************************************************************)
Types == {"int", "bool", "list", "dict", "none"}

One == "1"  \* the number

NoTexts == Types \cup {One}

TypeOf(value) ==
  IF value = One THEN "int" ELSE IF value \in Types THEN value ELSE "str"

ASSUME NamesAssumption == \A s \in Starts : s.environment.name \notin NoTexts

Typed(keys, type) == [path \in {<<k>> : k \in keys} |-> type]

Under(key, p) ==
  [path \in {<<key>> \o q : q \in DOMAIN p} |-> p[Tail(path)]]

\* A payload put together of parts that have no path in common.
Payload(parts) ==
  [path \in UNION {DOMAIN p : p \in parts} |->
     (CHOOSE p \in parts : path \in DOMAIN p)[path]]

\* What all payloads begin with.
Envelope(contract, name) ==
  [path \in {<<"schema_version">>, <<"contract">>, <<"ok">>, <<"producer">>,
             <<"producer", "name">>, <<"producer", "version">>, <<"source">>,
             <<"source", "path">>, <<"source", "name">>} |->
     CASE path = <<"schema_version">> -> One
       [] path = <<"contract">> -> contract
       [] path = <<"ok">> -> "bool"
       [] path \in {<<"producer">>, <<"source">>} -> "dict"
       [] path = <<"producer", "name">> -> "pine2ast"
       [] path \in {<<"producer", "version">>, <<"source", "path">>} -> "str"
       [] path = <<"source", "name">> -> name]

Places(list) == {ToString(k) : k \in DOMAIN list}

DiagnosticTexts == {"code", "message", "severity"}

Diagnostics(list) ==
  Payload({Typed({"diagnostics"}, "list"),
           [path \in {<<"diagnostics", k>> : k \in Places(list)} |-> "dict"],
           [path \in {<<"diagnostics", k, f>> : k \in Places(list), f \in DiagnosticTexts}
              |-> "str"]})

\* Sections without a tree are left out.
MutantSectionsOf(ast) ==
  IF ~ast THEN <<>>
  ELSE Payload({Typed(Sections, "dict"),
                [path \in {<<s, "contract">> : s \in Sections} |-> SectionContracts[path[1]]],
                [path \in {<<s, "profile">> : s \in Sections} |-> "str"]})

SectionsOf(ast) ==
  IF ~ast THEN Typed(Sections, "none")
  ELSE Payload({Typed(Sections, "dict"),
                [path \in {<<s, "contract">> : s \in Sections} |-> SectionContracts[path[1]]],
                [path \in {<<s, "profile">> : s \in Sections} |-> "str"]})

OpenPine(r, name) ==
  Payload({Envelope("openpine.frontend.v2", name), Typed({"contracts"}, "dict"),
           Diagnostics(r.diagnostics), SectionsOf(r.ast)})

\* The diagnostics of a snapshot are counted, not listed.
Snapshot(name) ==
  Payload({Envelope("pine2ast.semantic_snapshot.v1", name),
           Typed({"profile", "diagnostics", "counts"}, "dict"),
           Typed({"passes", "symbols", "scopes", "node_facts"}, "list")})

InspectLists == {"unsupported_features", "inputs", "strategy_calls",
                 "request_calls", "plots", "alerts", "drawings"}

\* Another payload under a key, if it is asked for.
Embedded(wanted, key, p) ==
  IF wanted THEN Payload({Typed({key}, "dict"), Under(key, p)}) ELSE <<>>

Inspect(r, name, openpine, snapshot) ==
  Payload({Envelope("pine2ast.inspect.optimizer.v1", name),
           Typed({"tool", "script"}, "dict"), Diagnostics(r.diagnostics),
           Typed(InspectLists, "list"),
           Typed({"dependencies"}, IF r.ast THEN "dict" ELSE "none"),
           Embedded(openpine, "openpine_contract", OpenPine(r, name)),
           Embedded(snapshot, "semantic_snapshot", Snapshot(name))})

\* payload.get
Get(p, path) == IF path \in DOMAIN p THEN p[path] ELSE "none"

\* contracts/validation.py: what a path must lead to.
Requires(p, path, types) ==
  IF path \notin DOMAIN p THEN {<<path, "missing_key">>}
  ELSE IF TypeOf(p[path]) \notin types THEN {<<path, "wrong_type">>} ELSE {}

RequiresAll(p, at, keys, types) == UNION {Requires(p, at \o <<k>>, types) : k \in keys}

RequiresLiteral(p, path, literal) ==
  LET found == Requires(p, path, {"str"})
  IN IF found = {} /\ p[path] # literal THEN {<<path, "wrong_literal">>} ELSE found

IsDict(p, path) == TypeOf(Get(p, path)) = "dict"

\* The producer, the source or a diagnostic, and the texts it holds.
HolderIssues(p, path, texts) ==
  Requires(p, path, {"dict"})
    \cup IF IsDict(p, path) THEN RequiresAll(p, path, texts, {"str"}) ELSE {}

EnvelopeIssues(p, at, contract) ==
  Requires(p, at \o <<"schema_version">>, {"int"})
    \cup RequiresLiteral(p, at \o <<"contract">>, contract)
    \cup Requires(p, at \o <<"ok">>, {"bool"})
    \cup HolderIssues(p, at \o <<"producer">>, {"name", "version"})
    \cup HolderIssues(p, at \o <<"source">>, {"path", "name"})

DiagnosticIssues(p, at) ==
  LET list == at \o <<"diagnostics">>
      items == {path \in DOMAIN p : Len(path) = Len(list) + 1
                                    /\ SubSeq(path, 1, Len(list)) = list}
      wrong == Requires(p, list, {"list"})
  IN IF wrong # {} THEN wrong
     ELSE UNION {HolderIssues(p, i, DiagnosticTexts) : i \in items}

SectionIssues(p, at, s) ==
  LET section == at \o <<s>>
  IN Requires(p, section, {"dict", "none"})
       \cup (IF IsDict(p, section)
             THEN RequiresLiteral(p, section \o <<"contract">>, SectionContracts[s])
                    \cup Requires(p, section \o <<"profile">>, {"str"})
             ELSE {})

OpenPineIssues(p, at) ==
  EnvelopeIssues(p, at, "openpine.frontend.v2") \cup DiagnosticIssues(p, at)
    \cup UNION {SectionIssues(p, at, s) : s \in Sections}

SnapshotIssues(p, at) ==
  EnvelopeIssues(p, at, "pine2ast.semantic_snapshot.v1")
    \cup RequiresAll(p, at, {"profile", "diagnostics", "counts"}, {"dict"})
    \cup RequiresAll(p, at, {"passes", "symbols", "scopes", "node_facts"}, {"list"})

\* What is embedded is optional.
EmbeddedIssues(p, key, issues) ==
  IF Get(p, <<key>>) = "none" THEN {}
  ELSE IF IsDict(p, <<key>>) THEN issues ELSE {<<<<key>>, "wrong_type">>}

\* validate_contract_payload
InspectIssues(p) ==
  EnvelopeIssues(p, <<>>, "pine2ast.inspect.optimizer.v1") \cup DiagnosticIssues(p, <<>>)
    \cup RequiresAll(p, <<>>, {"script"}, {"dict"})
    \cup RequiresAll(p, <<>>, InspectLists, {"list"})
    \cup RequiresAll(p, <<>>, {"dependencies"}, {"dict", "none"})
    \cup EmbeddedIssues(p, "openpine_contract",
                        OpenPineIssues(p, <<"openpine_contract">>))
    \cup EmbeddedIssues(p, "semantic_snapshot",
                        SnapshotIssues(p, <<"semantic_snapshot">>))

\* What Python takes for false, of the values that may be met.
Empty(value) == value \in {"", "none"}

\* frontend/schema.py, of the OpenPine payload alone, which compares the version
\* of the schema and lets a section be missing, but no text be empty.
ProducerIssues(p) ==
  IF ~IsDict(p, <<"producer">>) THEN {<<<<"producer">>, "object">>}
  ELSE When(\/ Get(p, <<"producer", "name">>) # "pine2ast"
            \/ Empty(Get(p, <<"producer", "version">>)), <<<<"producer">>, "expected">>)

SourceIssues(p) ==
  IF ~IsDict(p, <<"source">>) THEN {<<<<"source">>, "object">>}
  ELSE When(Empty(Get(p, <<"source", "name">>)), <<<<"source", "name">>, "missing">>)

ContractIssues(p, s) ==
  IF Get(p, <<s>>) = "none" THEN {}
  ELSE IF ~IsDict(p, <<s>>) THEN {<<<<s>>, "object">>}
  ELSE When(Get(p, <<s, "contract">>) # SectionContracts[s], <<<<s, "contract">>, "expected">>)

SchemaIssues(p) ==
  {<<<<k>>, "missing">> : k \in {k \in {"schema_version", "contract", "producer",
                                        "source", "ok", "diagnostics"} :
                                   <<k>> \notin DOMAIN p}}
    \cup When(Get(p, <<"contract">>) # "openpine.frontend.v2", <<<<"contract">>, "expected">>)
    \cup When(Get(p, <<"schema_version">>) # One, <<<<"schema_version">>, "expected">>)
    \cup ProducerIssues(p) \cup SourceIssues(p)
    \cup When(TypeOf(Get(p, <<"diagnostics">>)) # "list", <<<<"diagnostics">>, "list">>)
    \cup UNION {ContractIssues(p, s) : s \in Sections}

\* inspect_exit_code
ExitCode(r) ==
  IF HasSeverity(r.diagnostics, {"FATAL"}) THEN 2
  ELSE IF HasSeverity(r.diagnostics, {"ERROR"}) THEN 1 ELSE 0

\* contract_check_file_payload
ContractCheckOk(r, p) == Ok(r) /\ InspectIssues(p) = {}

\* _diagnostic_summary
Summary(list) ==
  [s \in {"FATAL", "ERROR", "WARNING"} |->
     Cardinality({k \in DOMAIN list : list[k] = s})]

-----------------------------------------------------------------------------
(***************************************************************************)
(* The run.                                                                *)
(***************************************************************************)
Root == [kind |-> "program", name |-> NoName, arg |-> NoName, parent |-> 0]

Init ==
  /\ program = <<Root>>
  /\ \E s \in Starts : /\ settings = s.settings
                        /\ environment = s.environment
                        /\ head = s.head
  /\ clock = 0
  /\ result = None /\ created = NoTime /\ commit = Absent
  /\ support = None /\ frontend = None /\ tree = None
  /\ attached = None /\ rebuilt = None /\ payload = None
  /\ pc = "parse"

\* The nodes a node may still be added to: the last one and those around it.
Open ==
  {p \in DOMAIN program : /\ Len(program) \in Subtree(p)
                          /\ program[p].kind # "member"}

AddNode ==
  /\ pc = "parse" /\ Len(program) < MaxNodes
  /\ \E node \in Offers(program, environment), p \in Open :
       program' = Append(program, [kind |-> node.kind, name |-> node.name,
                                   arg |-> node.arg, parent |-> p])
  /\ UNCHANGED <<settings, environment, head, clock, result, created, commit,
                 support, frontend, tree, attached, rebuilt, payload, pc>>

\* The pipeline returns; without a tree there are no nodes.
Parse ==
  /\ pc = "parse"
  /\ \E r \in Results :
       /\ r.ast \/ Len(program) = 1
       /\ result' = r
  /\ pc' = "clock"
  /\ UNCHANGED <<program, settings, environment, head, clock, created, commit,
                 support, frontend, tree, attached, rebuilt, payload>>

\* parse_file refuses the path: a result without artifacts.
RefusePath ==
  /\ pc = "parse" /\ Len(program) = 1
  /\ result' = [ast |-> FALSE, diagnostics |-> <<"FATAL">>]
  /\ pc' = "returned"
  /\ UNCHANGED <<program, settings, environment, head, clock, created, commit,
                 support, frontend, tree, attached, rebuilt, payload>>

Tick ==
  /\ pc \notin {"parse", "raised", "done"} /\ clock < MaxClock
  /\ clock' = clock + 1
  /\ UNCHANGED <<program, settings, environment, head, result, created, commit,
                 support, frontend, tree, attached, rebuilt, payload, pc>>

\* Another commit is checked out, where git is asked at all.
Checkout ==
  /\ environment.explicit = Absent /\ environment.override = Absent
  /\ pc \notin {"parse", "raised", "done"}
  /\ \E h \in Heads \ {head} : head' = h
  /\ UNCHANGED <<program, settings, environment, clock, result, created, commit,
                 support, frontend, tree, attached, rebuilt, payload, pc>>

ReadClock ==
  /\ pc = "clock"
  /\ created' = clock
  /\ pc' = "commit"
  /\ UNCHANGED <<program, settings, environment, head, clock, result, commit,
                 support, frontend, tree, attached, rebuilt, payload>>

ReadCommit ==
  /\ pc = "commit"
  /\ commit' = ProducerCommit
  /\ pc' = IF ValidCommit(ProducerCommit) THEN "support" ELSE "raised"
  /\ UNCHANGED <<program, settings, environment, head, clock, result, created,
                 support, frontend, tree, attached, rebuilt, payload>>

\* The time of a profile that is built on its own.
MutantSupportTime == clock
SupportTime == created

\* A feature without a row raises.
SealSupport ==
  /\ pc = "support"
  /\ IF Further \subseteq DynamicFeatures
     THEN support' = Support(SupportTime, commit) /\ pc' = "frontend"
     ELSE pc' = "unknown_feature" /\ UNCHANGED support
  /\ UNCHANGED <<program, settings, environment, head, clock, result, created,
                 commit, frontend, tree, attached, rebuilt, payload>>

SealFrontend ==
  /\ pc = "frontend"
  /\ IF ValidProfile
     THEN /\ frontend' = Frontend(created, commit, Hash(support))
          /\ pc' = "tree"
     ELSE pc' = "raised" /\ UNCHANGED frontend
  /\ UNCHANGED <<program, settings, environment, head, clock, result, created,
                 commit, support, tree, attached, rebuilt, payload>>

SealTree ==
  /\ pc = "tree"
  /\ tree' = Tree(created, commit)
  /\ pc' = "attach"
  /\ UNCHANGED <<program, settings, environment, head, clock, result, created,
                 commit, support, frontend, attached, rebuilt, payload>>

\* The result is replaced, its artifacts frozen.
Attach ==
  /\ pc = "attach"
  /\ attached' = [support |-> support, frontend |-> frontend, tree |-> tree,
                  created |-> created]
  /\ pc' = "returned"
  /\ UNCHANGED <<program, settings, environment, head, clock, result, created,
                 commit, support, frontend, tree, rebuilt, payload>>

\* build_frontend_v2_payload: a clock, a commit and a support profile of its own.
Rebuild ==
  /\ pc = "returned" /\ rebuilt = None /\ attached # None
  /\ IF ValidCommit(ProducerCommit)
     THEN /\ rebuilt' = Frontend(clock, ProducerCommit,
                                 Hash(Support(clock, ProducerCommit)))
          /\ pc' = pc
     ELSE pc' = "raised" /\ UNCHANGED rebuilt
  /\ UNCHANGED <<program, settings, environment, head, clock, result, created,
                 commit, support, frontend, tree, attached, payload>>

BuildInspect ==
  /\ pc = "returned"
  /\ \E openpine \in BOOLEAN, snapshot \in BOOLEAN :
       payload' = [openpine |-> openpine, snapshot |-> snapshot]
  /\ pc' = "done"
  /\ UNCHANGED <<program, settings, environment, head, clock, result, created,
                 commit, support, frontend, tree, attached, rebuilt>>

Next ==
  \/ AddNode \/ Parse \/ RefusePath \/ Tick \/ Checkout \/ ReadClock
  \/ ReadCommit \/ SealSupport \/ SealFrontend \/ SealTree \/ Attach
  \/ Rebuild \/ BuildInspect

Spec == Init /\ [][Next]_vars

-----------------------------------------------------------------------------
(***************************************************************************)
(* Properties.                                                             *)
(***************************************************************************)
\* Trees are well formed and what is sealed has been read before, however the
\* run ends.
TypeOK ==
  /\ \A n \in DOMAIN program :
       program[n].parent \in 0..(n - 1) /\ (n = 1 <=> program[n].parent = 0)
  /\ result = None \/ (result.ast \in BOOLEAN /\ Len(result.diagnostics) <= MaxDiagnostics)
  /\ clock \in 0..MaxClock
  /\ created = NoTime \/ created \in 0..clock
  /\ support # None => commit \notin {"bad", Absent, Unavailable}
  /\ pc \in {"parse", "clock", "commit", "support", "frontend", "tree", "attach",
             "returned", "raised", "unknown_feature", "done"}

\* The three artifacts of a result name the same time and commit, the time the
\* result itself carries, and the frontend refers to the support profile beside
\* it (artifact.py:474-521), though time passes and the checkout moves while
\* they are sealed.  A frontend built again refers to that profile as long as
\* the producer is at the same commit.
BundleConsistent ==
  attached # None =>
    /\ \A a \in {attached.support.created, attached.frontend.created, attached.tree.created} :
         a = attached.created
    /\ attached.support.commit = attached.frontend.commit
    /\ attached.tree.commit = attached.frontend.commit
    /\ attached.frontend.support_profile_ref = Hash(attached.support)
    /\ rebuilt # None /\ rebuilt.commit = attached.frontend.commit =>
         rebuilt.support_profile_ref = Hash(attached.support)

\* What is sealed, and when (attach_frontend_artifacts).
SealInvariant == TypeOK /\ BundleConsistent

\* Every capability that the frontend artifact requires has exactly one row in
\* the support profile it refers to, and no requirement makes the sealing fail
\* (_capability_usage and _support_features enumerate the features separately).
RequirementsHaveRows ==
  /\ pc # "unknown_feature"
  /\ frontend # None =>
       /\ Required(frontend.usage) \subseteq Ids(support.features)
       /\ Cardinality(Ids(support.features)) = Cardinality(support.features)

RequestParameters ==
  [k \in 1..4 |-> [name |-> <<"symbol", "timeframe", "expression", "gaps">>[k]]]

\* Calls the analyzer accepts: names are known and given once, positional
\* arguments first.
WellCalled(call) ==
  LET args == ArgumentsOf(call)
      names == StaticNames(args, RequestParameters)
  IN /\ \A i \in Named(args) : names[i] \in NamesOf(RequestParameters)
     /\ \A i, j \in DOMAIN names : i < j => names[i] # names[j]
     /\ \A i \in Named(args), j \in DOMAIN args : i < j => j \in Named(args)

EvaluatedByRequest(n) ==
  \E call \in Security : \E k \in DOMAIN Children(call) :
    /\ n \in Subtree(Children(call)[k])
    /\ StaticNames(ArgumentsOf(call), RequestParameters)[k] = "expression"

\* If all requests are called properly, the chart's identity is required iff
\* syminfo.tickerid is read somewhere the chart evaluates, and that of a
\* requested series iff there is a request.security: as the arguments bind,
\* not as they are written (tests/unit/test_rc4_wave0_execution_requirements.py).
SeriesIdentityByContext ==
  (frontend # None /\ result.ast /\ \A call \in Security : WellCalled(call)) =>
    LET required == Required(frontend.usage)
    IN /\ "chart_series_identity" \in required
             <=> \E k \in Members : /\ program[k].name = "syminfo.tickerid"
                                    /\ ~EvaluatedByRequest(k)
       /\ "requested_series_identity" \in required <=> Security # {}

Inspected ==
  Inspect(result, environment.name, payload.openpine, payload.snapshot)

\* What says whether the program may be used says the same: the flag of the
\* frontend, the row of the support profile, the list of blocking diagnostics,
\* the exit code and the counts of the snapshot.  Only when the limit has cut
\* the error off does a failed parse look like a clean one, except for ok.
VerdictsAgree ==
  /\ frontend # None =>
       LET unsupported == CHOOSE f \in support.features :
                            f.feature_id = "unsupported_features"
       IN /\ unsupported.lower = "UNSUPPORTED" <=> frontend.blocking # <<>>
          /\ frontend.blocking # <<>> <=> ExitCode(result) # 0
          /\ frontend.ok => ExitCode(result) = 0 /\ frontend.sections_present = Sections
          /\ ~frontend.ok /\ ExitCode(result) = 0 =>
               ~result.ast /\ Len(result.diagnostics) = MaxDiagnostics
  /\ pc = "done" =>
       LET summary == Summary(result.diagnostics)
       IN /\ ContractCheckOk(result, Inspected) <=> Ok(result)
          /\ ExitCode(result) = 2 <=> summary["FATAL"] > 0
          /\ ExitCode(result) = 1 <=> summary["FATAL"] = 0 /\ summary["ERROR"] > 0

\* Every payload passes the public validator, of failed parses and refused
\* paths too, and the OpenPine payload inside passes the other validator
\* unless the source has no name.
PayloadsValidate ==
  pc = "done" =>
    /\ InspectIssues(Inspected) = {}
    /\ payload.openpine =>
         SchemaIssues(OpenPine(result, environment.name))
           = When(environment.name = "", <<<<"source", "name">>, "missing">>)
=============================================================================
