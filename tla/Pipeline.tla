------------------------------ MODULE Pipeline ------------------------------
(***************************************************************************)
(* The parse pipeline (api.py, audit.py): the stages of parse_code and     *)
(* parse_file, what each adds to the diagnostics, where a run ends early,  *)
(* which limits cut the diagnostics off, and what the gates and the result *)
(* say in the end.                                                         *)
(*                                                                         *)
(* What a stage reports is chosen from Reports, one diagnostic per step;   *)
(* whether there are too many tokens or nodes is chosen too.               *)
(***************************************************************************)
EXTENDS Integers, Sequences, FiniteSets

CONSTANTS
  Reports,        \* [stage, key, severity]: what the stages may report.  The
                  \* key stands for code, span and message.
  Audited,        \* the keys whose codes are in SECURITY_AUDIT_CODES
  MaxDiagnostics, \* options.max_diagnostics
  MaxReports      \* bound on what one stage reports

Stages == {"FILE", "VALIDATE", "NORMALIZE", "LEX", "LAYOUT", "PARSE", "GATE",
           "SEMANTIC", "CONTRACT", "CEILING", "FINISH", "DONE"}

Severities == {"WARNING", "ERROR", "FATAL"}

\* The keys of what the pipeline itself and the reading of the version say.
OwnKeys == {"UNSUPPORTED_VERSION", "VERSION_ASSUMED", "MISSING_VERSION_6",
            "TOO_MANY_TOKENS", "TOO_MANY_AST_NODES"}

Keys == {r.key : r \in Reports} \cup OwnKeys

Diagnostic == [key : Keys, severity : Severities]

\* FATAL comes only of the input's validation, the normalizer and the lexer.
\* Nobody else uses the codes of OwnKeys, and what is said twice of one place in
\* one wording has the same severity both times.
ASSUME PipelineAssumption ==
  /\ Reports \subseteq [stage : Stages, key : STRING, severity : Severities]
  /\ \A r \in Reports :
       /\ r.stage \in {"FILE", "VALIDATE"} => r.severity = "FATAL"
       /\ r.severity = "FATAL" =>
            r.stage \in {"FILE", "VALIDATE", "NORMALIZE", "LEX"}
       /\ r.stage = "CONTRACT" => r.severity = "ERROR"
       /\ r.key \notin OwnKeys
       /\ \A other \in Reports :
            other.key = r.key => other.severity = r.severity
  /\ MaxDiagnostics \in Nat \ {0}
  /\ MaxReports \in Nat

\* Source versions; 4 stands for every other one.
Versions == {4, 5, 6}
NoVersion == 0

Options == [strict : BOOLEAN,      \* strict_v6
            target : {5, 6},       \* the version of the profile
            compatibility : BOOLEAN,
            semantic : BOOLEAN,    \* run_semantic
            contract : BOOLEAN,    \* runtime_contract_profile is v1.4
            hook : BOOLEAN]        \* there is a security_audit_hook

VARIABLES
  options,
  stage,
  diagnostics,
  own,        \* the diagnostics of the stage itself
  reported,   \* how many the stage has reported
  version,    \* ast.version
  ast,        \* the tree, of which only its diagnostics matter, or NoAst
  gates,      \* parser_gate_ok, semantic_gate_ok
  result,     \* [ast, diagnostics]
  issued,     \* all that was ever reported, in order
  events      \* the keys the audit hook was called with

pipelineVars == <<options, stage, diagnostics, own, reported, version, ast,
                  gates, result, issued, events>>

NoAst == [exists |-> FALSE, diagnostics |-> <<>>]
Tree(list) == [exists |-> TRUE, diagnostics |-> list]
NoResult == [ast |-> NoAst, diagnostics |-> <<>>]

Blocking == {"ERROR", "FATAL"}

HasSeverity(list, severities) ==
  \E k \in 1..Len(list) : list[k].severity \in severities

Diag(severity, key) == [key |-> key, severity |-> severity]

Return(tree, list) ==
  /\ result' = [ast |-> tree, diagnostics |-> list]
  /\ stage' = "DONE"

Enter(next) ==
  /\ stage' = next
  /\ own' = <<>>
  /\ reported' = 0

\* AuditHookRunner.emit; an exception of the hook changes nothing here.
Emit(d) ==
  events' = IF options.hook /\ d.key \in Audited
            THEN Append(events, d.key) ELSE events

-----------------------------------------------------------------------------
(* Input. *)

\* parse_file refuses the path, or validate_input the code or an option.
Reject(r) ==
  /\ stage \in {"FILE", "VALIDATE"} /\ r.stage = stage
  /\ LET d == Diag("FATAL", r.key)
     IN  /\ Emit(d)
         /\ issued' = Append(issued, d)
         /\ Return(NoAst, <<d>>)
  /\ UNCHANGED <<options, diagnostics, own, reported, version, ast, gates>>

Accept ==
  /\ \/ stage = "FILE" /\ Enter("VALIDATE")
     \/ stage = "VALIDATE" /\ Enter("NORMALIZE")
  /\ UNCHANGED <<options, diagnostics, version, ast, gates, result, issued,
                 events>>

-----------------------------------------------------------------------------
(* What the stages report. *)

\* The stages that stop appending at max_diagnostics: Parser._diag and _diag of
\* the analyzer.
Capped == {"PARSE", "SEMANTIC"}

Full == stage \in Capped /\ Len(own) >= MaxDiagnostics

Add(d) ==
  /\ issued' = Append(issued, d)
  /\ IF Full THEN UNCHANGED <<diagnostics, own>>
     ELSE /\ diagnostics' = Append(diagnostics, d)
          /\ own' = Append(own, d)

\* A missing version is either assumed or reported.
VersionRead == version # NoVersion \/ own # <<>>

\* A text that cannot be decoded has no lines to report.
Report(r) ==
  /\ stage \in {"NORMALIZE", "LEX", "LAYOUT", "PARSE", "SEMANTIC", "CONTRACT"}
  /\ r.stage = stage
  /\ stage = "PARSE" => VersionRead
  /\ stage = "NORMALIZE" => ~HasSeverity(own, {"FATAL"})
  /\ stage = "NORMALIZE" /\ r.severity = "FATAL" => own = <<>>
  /\ reported < MaxReports
  /\ Add(Diag(r.severity, r.key))
  /\ reported' = reported + 1
  /\ UNCHANGED <<options, stage, version, ast, gates, result, events>>

MutantStopped == FALSE

\* A FATAL diagnostic ends the run here.
Stopped == HasSeverity(diagnostics, {"FATAL"})

Normalized ==
  /\ stage = "NORMALIZE"
  /\ IF Stopped
     THEN Return(NoAst, diagnostics) /\ UNCHANGED <<own, reported>>
     ELSE Enter("LEX") /\ UNCHANGED result
  /\ UNCHANGED <<options, diagnostics, version, ast, gates, issued, events>>

TooManyTokens ==
  /\ stage = "LEX"
  /\ LET d == Diag("FATAL", "TOO_MANY_TOKENS")
     IN  /\ issued' = Append(issued, d)
         /\ diagnostics' = Append(diagnostics, d)
         /\ Return(NoAst, Append(diagnostics, d))
  /\ UNCHANGED <<options, own, reported, version, ast, gates, events>>

Lexed ==
  /\ stage = "LEX"
  /\ IF Stopped
     THEN Return(NoAst, diagnostics) /\ UNCHANGED <<own, reported>>
     ELSE Enter("LAYOUT") /\ UNCHANGED result
  /\ UNCHANGED <<options, diagnostics, version, ast, gates, issued, events>>

LaidOut ==
  /\ stage = "LAYOUT"
  /\ Enter("PARSE")
  /\ UNCHANGED <<options, diagnostics, version, ast, gates, result, issued,
                 events>>

-----------------------------------------------------------------------------
(* The parser and its gate. *)

\* What Parser.parse says of the annotation of the version, before anything
\* else; Missing: there is none.
Missing == 0

VersionReports(annotated) ==
  LET lenient == IF options.strict THEN "ERROR" ELSE "WARNING"
  IN  CASE annotated = Missing /\ options.target = 6 ->
             <<Diag(lenient, IF options.strict THEN "MISSING_VERSION_6"
                             ELSE "VERSION_ASSUMED")>>
        [] annotated = Missing /\ options.target = 5 ->
             <<Diag("WARNING", "VERSION_ASSUMED")>>
        [] annotated = 4 -> <<Diag(lenient, "UNSUPPORTED_VERSION")>>
        [] annotated = 5 /\ options.target = 6 ->
             <<Diag(lenient, "UNSUPPORTED_VERSION")>>
        [] annotated = 6 /\ options.target = 5 ->
             <<Diag(IF options.compatibility THEN "WARNING" ELSE "ERROR",
                    "UNSUPPORTED_VERSION")>>
        [] OTHER -> <<>>

VersionOf(annotated) ==
  IF annotated # Missing THEN annotated
  ELSE IF options.target = 5 THEN 5
  ELSE IF options.strict THEN NoVersion ELSE 6

ReadVersion(annotated) ==
  /\ stage = "PARSE" /\ ~VersionRead
  /\ version' = VersionOf(annotated)
  /\ issued' = issued \o VersionReports(annotated)
  /\ diagnostics' = diagnostics \o VersionReports(annotated)
  /\ own' = VersionReports(annotated)
  /\ UNCHANGED <<options, stage, reported, ast, gates, result, events>>

\* Parser.parse always returns a program.
Parsed ==
  /\ stage = "PARSE" /\ VersionRead
  /\ ast' = Tree(<<>>)
  /\ Enter("GATE")
  /\ UNCHANGED <<options, diagnostics, version, gates, result, issued, events>>

\* Strict parsing of a v5 script for another version.
Upgraded ==
  IF version = 5 /\ options.strict /\ options.target # 5
  THEN [k \in 1..Len(diagnostics) |->
          IF diagnostics[k].key = "UNSUPPORTED_VERSION"
          THEN [diagnostics[k] EXCEPT !.severity = "ERROR"]
          ELSE diagnostics[k]]
  ELSE diagnostics

MutantPasses(list) == ~HasSeverity(list, {"FATAL"})

Passes(list) == ~HasSeverity(list, Blocking)

ParserGate ==
  /\ stage = "GATE"
  /\ diagnostics' = Upgraded
  /\ gates' = [parser |-> Passes(Upgraded), semantic |-> FALSE]
  /\ Enter(IF options.semantic THEN "SEMANTIC"
           ELSE IF options.contract THEN "CONTRACT" ELSE "CEILING")
  /\ UNCHANGED <<options, version, ast, result, issued, events>>

\* Only the analyzer's own diagnostics decide, once the parser's gate has passed.
SemanticGate ==
  /\ stage = "SEMANTIC"
  /\ gates' = [gates EXCEPT !.semantic = gates.parser /\ Passes(own)]
  /\ Enter(IF options.contract THEN "CONTRACT" ELSE "CEILING")
  /\ UNCHANGED <<options, diagnostics, version, ast, result, issued, events>>

ContractChecked ==
  /\ stage = "CONTRACT"
  /\ Enter("CEILING")
  /\ UNCHANGED <<options, diagnostics, version, ast, gates, result, issued,
                 events>>

-----------------------------------------------------------------------------
(* The end. *)

Truncated(list) ==
  SubSeq(list, 1, IF Len(list) < MaxDiagnostics THEN Len(list)
                  ELSE MaxDiagnostics)

MutantKept(list) ==
  {k \in 1..Len(list) :
     \A j \in 1..(k - 1) : list[j].severity # list[k].severity}

\* The places of the diagnostics that _dedupe_diagnostics keeps: the first of
\* each key.
Kept(list) ==
  {k \in 1..Len(list) : \A j \in 1..(k - 1) : list[j].key # list[k].key}

\* How many of some places are no later than k.
Rank(places, k) == Cardinality({j \in places : j <= k})

\* _dedupe_diagnostics.
Deduped(list) ==
  [n \in 1..Cardinality(Kept(list)) |->
     list[CHOOSE k \in Kept(list) : Rank(Kept(list), k) = n]]

\* Cut off before the duplicates are removed.
MutantShown(list) == Deduped(Truncated(list))

\* What the result shows of a list.
Shown(list) == Truncated(Deduped(list))

TooManyNodes ==
  /\ stage = "CEILING"
  /\ LET d == Diag("FATAL", "TOO_MANY_AST_NODES")
     IN  /\ issued' = Append(issued, d)
         /\ diagnostics' = Append(diagnostics, d)
  /\ ast' = NoAst
  /\ Enter("FINISH")
  /\ UNCHANGED <<options, version, gates, result, events>>

NodesCounted ==
  /\ stage = "CEILING"
  /\ ast' = Tree(Truncated(diagnostics))
  /\ Enter("FINISH")
  /\ UNCHANGED <<options, diagnostics, version, gates, result, issued, events>>

\* The tree's diagnostics are those of the result.
Final(list) == IF ast = NoAst THEN NoAst ELSE Tree(list)

Finish ==
  /\ stage = "FINISH"
  /\ diagnostics' = Shown(diagnostics)
  /\ ast' = Final(diagnostics')
  /\ Return(ast', diagnostics')
  /\ UNCHANGED <<options, own, reported, version, gates, issued, events>>

Init ==
  /\ options \in Options
  /\ stage \in {"FILE", "VALIDATE"}
  /\ diagnostics = <<>> /\ own = <<>> /\ reported = 0
  /\ version = NoVersion
  /\ ast = NoAst
  /\ gates = [parser |-> FALSE, semantic |-> FALSE]
  /\ result = NoResult
  /\ issued = <<>>
  /\ events = <<>>

Next ==
  \/ \E r \in Reports : Reject(r) \/ Report(r)
  \/ Accept \/ Normalized \/ TooManyTokens \/ Lexed \/ LaidOut
  \/ \E annotated \in Versions \cup {Missing} : ReadVersion(annotated)
  \/ Parsed \/ ParserGate \/ SemanticGate \/ ContractChecked
  \/ TooManyNodes \/ NodesCounted \/ Finish

Spec == Init /\ [][Next]_pipelineVars

-----------------------------------------------------------------------------
(* Properties. *)

Done == stage = "DONE"

\* ParseResult.ok.
Ok == result.ast # NoAst /\ ~HasSeverity(result.diagnostics, Blocking)

\* The type invariant of the pipeline; the lists of the parser and the analyzer
\* keep to their limit.
TypeOK ==
  /\ options \in Options
  /\ stage \in Stages
  /\ diagnostics \in Seq(Diagnostic) /\ issued \in Seq(Diagnostic)
  /\ own \in Seq(Diagnostic)
  /\ stage \in Capped => Len(own) <= MaxDiagnostics
  /\ reported \in 0..MaxReports
  /\ version \in Versions \cup {NoVersion}
  /\ ast = NoAst \/ ast \in [exists : {TRUE}, diagnostics : Seq(Diagnostic)]
  /\ gates \in [parser : BOOLEAN, semantic : BOOLEAN]
  /\ DOMAIN result = {"ast", "diagnostics"}
  /\ Done => result.ast = ast
  /\ result.diagnostics \in Seq(Diagnostic)
  /\ events \in Seq(Keys)

\* No program comes out of a run that met a FATAL condition, in whichever stage
\* it was and whatever was cut off later.
FatalYieldsNoProgram ==
  Done /\ HasSeverity(issued, {"FATAL"}) => result.ast = NoAst

\* Where the semantic gate says pass the result is ok, but for what the runtime
\* contract adds after the gates.
GatesMeanOk ==
  Done /\ gates.semantic /\ result.ast # NoAst /\ ~options.contract => Ok

\* Where the result is ok no gate says fail, unless the list of diagnostics is
\* full and may have lost an error.
OkMeansGates ==
  Done /\ Ok /\ Len(result.diagnostics) < MaxDiagnostics =>
    /\ gates.parser
    /\ options.semantic => gates.semantic

\* Gates and result tell the same outcome, whatever is appended, cut off or
\* merged after the gates are taken (ParsePipeline.parse).
GatesTellTheOutcome == TypeOK /\ GatesMeanOk /\ OkMeansGates

Index(list, key) == {k \in 1..Len(list) : list[k].key = key}

Places(list, key) == Index(list, key) # {}

FirstOf(list, key) ==
  CHOOSE k \in Index(list, key) : \A j \in Index(list, key) : k <= j

\* What the parser and the analyzer may have dropped at their own limits.
CappedKeys == {r.key : r \in {r \in Reports : r.stage \in Capped}}

\* A result with room left shows every diagnostic of the stages that have no
\* limit of their own, and so does its tree, which was given another list first:
\* duplicates take no place from what comes after them, and what the run itself
\* says is never lost to the parser's or the analyzer's limit (api.py:384-387).
OnlyTheLimitDrops ==
  Done /\ Len(result.diagnostics) < MaxDiagnostics =>
    \A k \in 1..Len(issued) : issued[k].key \notin CappedKeys =>
      /\ Places(result.diagnostics, issued[k].key)
      /\ result.ast # NoAst => Places(result.ast.diagnostics, issued[k].key)

\* A result shows everything that was said, once and in the order in which it
\* was first said.
Tells(res, said) ==
  LET shown == res.diagnostics
  IN  /\ \A k \in 1..Len(said) : Places(shown, said[k].key)
      /\ \A j, k \in 1..Len(shown) :
           /\ Places(said, shown[j].key)
           /\ res.ast # NoAst /\ j < k =>
                FirstOf(said, shown[j].key) < FirstOf(said, shown[k].key)

\* Unless a limit was reached, the result has everything that was reported,
\* once and in the order in which it was first reported (ParsePipeline.parse).
NothingLost == Done /\ Len(issued) <= MaxDiagnostics => Tells(result, issued)
=============================================================================
