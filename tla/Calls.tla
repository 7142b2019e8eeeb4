------------------------------- MODULE Calls -------------------------------
(***************************************************************************)
(* How the arguments of a call find their parameters.                      *)
(*                                                                         *)
(* Seven places of the code bind arguments, each with loops of its own:    *)
(* SignatureResolver (builtins, with overloads), collection_signatures,    *)
(* _validate_param_call (functions and methods),                           *)
(* _validate_udt_constructor_call, the static rules, and the two           *)
(* extractors of facts for the runtime, one of which counts positions      *)
(* among all the arguments and the other among the positional ones.  The   *)
(* analyzer reports what it rejects; the extractors describe every call,   *)
(* reported or not.  They agree only because of a check made elsewhere:    *)
(* _e_call_expr rejects a positional argument after a named one and a name *)
(* given twice.                                                            *)
(*                                                                         *)
(* A behavior is the analysis of one call: its arguments are read, the     *)
(* candidates of a builtin are bound one by one, or those of another       *)
(* callable at once, and the order of the arguments is checked.            *)
(***************************************************************************)
EXTENDS Collections

CONSTANTS
  Callables,    \* what may be called: calls without their arguments
  Offers(_),    \* the arguments that a call may be given next
  MaxArgs       \* bound on the number of arguments

\* A list of parameters with distinct names: the registry refuses any other
\* (builtin_registry.py:209), and the declaration of a function or type with
\* one is reported as such.
ParameterList(params) ==
  /\ params \in Seq(Range(params))
  /\ \A j, k \in DOMAIN params : params[j].name = params[k].name => j = k

\* A call says what kind of callee it has, and begins without arguments; the
\* overloads of a builtin are a list, and the namespace of a collection knows
\* the operation that is called by its name.
ASSUME CallablesAssumption ==
  \A c \in Callables :
    /\ {"callee", "args"} \subseteq DOMAIN c /\ c.args = <<>>
    /\ c.callee \in {"builtin", "function", "constructor", "method", "collection"}
    /\ c.callee # "collection" =>
         "entry" \in DOMAIN c /\ ParameterList(c.entry.params)
    /\ c.callee = "collection" =>
         /\ {"form", "kind", "op"} \subseteq DOMAIN c
         /\ c.form \in {"method", "function"}
         /\ c.form = "function" =>
              c.kind \in CollectionKinds /\ c.op \in Operations(c.kind) \cup {"clear"}
    /\ c.callee = "builtin" =>
         /\ c.entry.overloads \in Seq(Range(c.entry.overloads))
         /\ \A k \in DOMAIN c.entry.overloads : ParameterList(c.entry.overloads[k])

VARIABLES
  call,         \* the call under analysis
  tried,        \* how many candidates of a builtin have been bound
  best,         \* the best candidate so far, 0 before the first
  diags,        \* what has been reported: pairs of a reason and an argument
  pc            \* where _e_call_expr is

vars == <<call, tried, best, diags, pc>>

-----------------------------------------------------------------------------
(***************************************************************************)
(* SignatureResolver: builtins.                                            *)
(***************************************************************************)
ParamActive(p) ==
  /\ p.removed = 0 \/ PineVersion < p.removed
  /\ p.added = 0 \/ PineVersion >= p.added

\* The active ones in their order.
Active(params) ==
  LET kept == {k \in DOMAIN params : ParamActive(params[k])}
  IN [n \in 1..Cardinality(kept) |->
        params[CHOOSE k \in kept : CountUpTo(kept, k) = n]]

RemovedNames(params) == NamesOf(params) \ NamesOf(Active(params))

\* The overloads, then the entry itself.
CandidateEntries(entry) == Append(entry.overloads, entry.params)

ResolvedParameter(args, params, i) == PlaceParameter(args, Active(params), i)

RemovedIssues(args, params) ==
  {<<"removed", i>> : i \in {i \in Named(args) :
                               args[i].name \in RemovedNames(params)}}

\* A builtin whose parameters are all inactive takes any arguments but the
\* removed ones.
EntryIssues(args, params, extra) ==
  LET active == Active(params)
      removed == RemovedIssues(args, params)
  IN IF active = <<>> THEN removed
     ELSE removed
            \cup {<<"repeated", i>> : i \in Repeated(args)}
            \cup {s \in Structural(args, active) :
                    /\ ~(s[1] = "count" /\ extra)
                    /\ ~(s[1] = "unknown" /\ <<"removed", s[2]>> \in removed)}
            \cup UNION {ValueIssues(args[i],
                                    active[ResolvedParameter(args, params, i)], i) :
                          i \in {i \in DOMAIN args :
                                   ResolvedParameter(args, params, i) # 0}}

\* _validate_builtin_call adds what the resolver does not look at.
UnsupportedIssues(args, params) ==
  {<<"unsupported", i>> :
     i \in {i \in DOMAIN args :
              /\ ResolvedParameter(args, params, i) # 0
              /\ Active(params)[ResolvedParameter(args, params, i)].unsupported}}

Unresolved(args, params) ==
  {i \in DOMAIN args : ResolvedParameter(args, params, i) = 0}

\* Structural errors weigh more than types, types more than qualifiers.
Score(args, params, extra) ==
  LET issues == EntryIssues(args, params, extra)
      Of(tags) == Cardinality({s \in issues : s[1] \in tags})
  IN <<Cardinality(issues) - Of({"type", "qualifier"}),
       Of({"type"}), Of({"qualifier"}), Cardinality(Unresolved(args, params))>>

Lower(s, t) ==
  \E k \in 1..4 : s[k] < t[k] /\ \A j \in 1..(k - 1) : s[j] = t[j]

\* A later candidate preferred when it scores the same or has fewer errors of
\* any one kind.
MutantBetterAnyKind(args, entry, k, j) ==
  \/ j = 0
  \/ \E n \in 1..4 :
       Score(args, CandidateEntries(entry)[k], entry.extra)[n]
         < Score(args, CandidateEntries(entry)[j], entry.extra)[n]

Better(args, entry, k, j) ==
  \/ j = 0
  \/ Lower(Score(args, CandidateEntries(entry)[k], entry.extra),
           Score(args, CandidateEntries(entry)[j], entry.extra))

-----------------------------------------------------------------------------
(***************************************************************************)
(* Declared callables: _validate_param_call and its twin for constructors. *)
(***************************************************************************)
\* Constructor calls that count named fields as positional ones.
MutantConstructorIssues(args, fields) ==
  Structural(args, fields) \ {<<"both", i>> : i \in DOMAIN args}

\* The fields of a type are the parameters of its new(); the checks are the
\* same ones in the same order.
ConstructorIssues(args, fields) ==
  Structural(args, fields) \cup TypeIssues(args, fields)

\* A method is looked up by its name; what is kept of the receiver it was
\* declared for is the base of its type.
ReceiverAccepted(declared, actual) == actual \in {"unknown", declared}

\* A method that shares its name with one of the actual collection's is left
\* to the collection rules.
MethodIssues(c) ==
  When(~ReceiverAccepted(c.declared, c.receiver), <<"receiver", 0>>)
    \cup IF c.collection THEN {} ELSE ParamCallIssues(c.args, c.entry.params)

DeclaredIssues(c) ==
  CASE c.callee = "function" -> ParamCallIssues(c.args, c.entry.params)
    [] c.callee = "constructor" -> ConstructorIssues(c.args, c.entry.params)
    [] c.callee = "method" -> MethodIssues(c)
    [] c.callee = "collection" -> CollectionIssues(c)

-----------------------------------------------------------------------------
(***************************************************************************)
(* The descriptions of a call that do not report.                          *)
(***************************************************************************)
\* frontend: the binding of a builtin is that of the resolver.
BuiltinBinding(args, params) ==
  [i \in DOMAIN args |-> ResolvedParameter(args, params, i)]

ConstructorFact(args, fields) ==
  [missing   |-> RequiredOf(fields) \ Supplied(args, fields),
   unknown   |-> {i \in Named(args) : args[i].name \notin NamesOf(fields)},
   duplicate |-> {i \in Named(args) :
                    /\ args[i].name \in NamesOf(fields)
                    /\ i \in Repeated(args)
                         \/ args[i].name \in PositionalNames(args, fields)},
   extra     |-> Cardinality(Positional(args)) > Len(fields)]

ConstructorRow(args, fields) ==
  [missing |-> RequiredOf(fields) \ Supplied(args, fields),
   unknown |-> {args[i].name : i \in Named(args)} \ NamesOf(fields),
   extra   |-> Cardinality(Positional(args)) > Len(fields)]

-----------------------------------------------------------------------------
(***************************************************************************)
(* The analysis of a call.                                                 *)
(***************************************************************************)
Init ==
  /\ call \in Callables
  /\ tried = 0
  /\ best = 0
  /\ diags = {}
  /\ pc = "bind"

\* The parser takes named and positional arguments in any order.
AddArgument ==
  /\ pc = "bind" /\ tried = 0
  /\ Len(call.args) < MaxArgs
  /\ \E a \in Offers(call) : call' = [call EXCEPT !.args = Append(@, a)]
  /\ UNCHANGED <<tried, best, diags, pc>>

\* resolve_builtin binds the next candidate and keeps it if it scores better.
TryCandidate ==
  /\ pc = "bind" /\ call.callee = "builtin"
  /\ tried < Len(CandidateEntries(call.entry))
  /\ tried' = tried + 1
  /\ best' = IF Better(call.args, call.entry, tried + 1, best)
             THEN tried + 1 ELSE best
  /\ UNCHANGED <<call, diags, pc>>

\* _validate_builtin_call reports what the best candidate lacks.
ReportBuiltin ==
  /\ pc = "bind" /\ call.callee = "builtin"
  /\ tried = Len(CandidateEntries(call.entry))
  /\ LET params == CandidateEntries(call.entry)[best]
     IN diags' = EntryIssues(call.args, params, call.entry.extra)
                   \cup UnsupportedIssues(call.args, params)
  /\ pc' = "order"
  /\ UNCHANGED <<call, tried, best>>

ReportDeclared ==
  /\ pc = "bind" /\ call.callee # "builtin"
  /\ diags' = DeclaredIssues(call)
  /\ pc' = "order"
  /\ UNCHANGED <<call, tried, best>>

CheckOrder ==
  /\ pc = "order"
  /\ diags' = diags \cup OrderIssues(call.args)
  /\ pc' = "done"
  /\ UNCHANGED <<call, tried, best>>

Next == AddArgument \/ TryCandidate \/ ReportBuiltin \/ ReportDeclared \/ CheckOrder

Spec == Init /\ [][Next]_vars

-----------------------------------------------------------------------------
(***************************************************************************)
(* Properties.                                                             *)
(***************************************************************************)
TypeOK ==
  /\ tried \in 0..IF call.callee = "builtin"
               THEN Len(CandidateEntries(call.entry)) ELSE 0
  /\ best \in 0..tried
  /\ diags \subseteq
       {"type", "bool_na", "qualifier", "removed", "repeated", "both",
        "unknown", "count", "missing", "receiver", "duplicate", "after_named",
        "unsupported"}
         \X (0..Len(call.args))
  /\ pc \in {"bind", "order", "done"}

Accepted == pc = "done" /\ diags = {}

\* The parameter list the call was judged by.
Judged ==
  CASE call.callee = "builtin" -> Active(CandidateEntries(call.entry)[best])
    [] call.callee = "method" -> IF call.collection THEN <<>> ELSE call.entry.params
    [] call.callee = "collection" -> IF Resolves(call) THEN Specs(call) ELSE <<>>
    [] OTHER -> call.entry.params

\* What binding means: a named argument goes to the parameter of its name, a
\* positional one to the parameter at its place; no parameter twice, and none
\* that is required is left out.
BindsOnce(binding, params) ==
  /\ \A i, j \in DOMAIN binding : binding[i] = binding[j] /\ i # j
                                    => binding[i] = 0
  /\ \A k \in DOMAIN params : params[k].required
                                => \E i \in DOMAIN binding : binding[i] = k

\* In a call that the analyzer accepts every required parameter gets one
\* argument and no parameter two (signatures.py:257, analyzer_validation_
\* calls.py:320: each loop counts positions its own way and leaves repeated or
\* misplaced names to others).
AcceptedCallsBindOnce ==
  Accepted /\ Judged # <<>> => BindsOnce(DeclaredBinding(call.args, Judged), Judged)

\* In a call that the analyzer accepts, the resolver, the frontend extractor
\* and the facts extractor give every argument the same parameter, though they
\* count positions differently (facts.py:522, helpers.py:312); so do the static
\* rules, which look at a builtin's own parameters only, if it has no overloads
\* (static_validation.py:237).
BindersAgree ==
  Accepted /\ Judged # <<>> =>
    LET binding == DeclaredBinding(call.args, Judged)
    IN /\ SpecBinding(call.args, Judged) = binding
       /\ call.callee = "builtin" =>
            BuiltinBinding(call.args, CandidateEntries(call.entry)[best]) = binding
       /\ call.callee = "builtin" /\ call.entry.overloads = <<>> =>
            \A i \in DOMAIN call.args :
              StaticNames(call.args, Active(call.entry.params))[i] =
                IF binding[i] = 0 THEN NoName ELSE Judged[binding[i]].name

\* A builtin is rejected only if no overload takes the arguments, and then for
\* a candidate with the fewest structural errors (signatures.py:120: the
\* candidates are compared one by one as they are bound).
RejectedByAllOverloads ==
  pc \in {"order", "done"} /\ call.callee = "builtin" =>
    \A k \in DOMAIN CandidateEntries(call.entry) :
      LET params == CandidateEntries(call.entry)[k]
      IN /\ EntryIssues(call.args, params, call.entry.extra) = {} =>
              \A d \in diags \ OrderIssues(call.args) : d[1] = "unsupported"
         /\ Score(call.args, CandidateEntries(call.entry)[best],
                  call.entry.extra)[1]
              <= Score(call.args, params, call.entry.extra)[1]

\* The choice among overloads, and the state it is made in (resolve_call).
ChoiceInvariant == TypeOK /\ RejectedByAllOverloads

\* What the two descriptions of a constructor call list as missing, unknown,
\* duplicate or too much is what the analyzer reports, for every call,
\* accepted or not (facts.py:290, types.py:62 and analyzer_validation_calls.py:
\* 86 compute it apart).
ConstructorFactsMatchDiagnostics ==
  pc = "done" /\ call.callee = "constructor" =>
    LET fact == ConstructorFact(call.args, call.entry.params)
        row  == ConstructorRow(call.args, call.entry.params)
        Reported(tag) == {s[2] : s \in {s \in diags : s[1] = tag}}
    IN /\ fact.missing # {} <=> Reported("missing") # {}
       /\ fact.unknown = Reported("unknown")
       /\ fact.extra <=> Reported("count") # {}
       /\ fact.duplicate =
            (Reported("duplicate") \cup Reported("both")) \ fact.unknown
       /\ row.missing = fact.missing /\ row.extra = fact.extra
       /\ row.unknown = {call.args[i].name : i \in fact.unknown}

\* The parameters a collection call is meant to have: those of the operation of
\* the kind it names, where every letter of the template is replaced by what it
\* stands for, and nothing else is.
Meant(kind, receiver) ==
  LET args == GenericArgs(receiver)
      letters == IF kind = "map" THEN <<"K", "V">> ELSE <<"T">>
  IN [l \in Range(letters) |->
        IF Len(args) < Len(letters) THEN Text("unknown")
        ELSE args[CHOOSE k \in DOMAIN letters : letters[k] = l]]

IntendedSpecs(c) ==
  LET kind == KindNamed(c)
      meant == Meant(kind, Receiver(c))
      InPlace(piece) == IF piece \in DOMAIN meant THEN meant[piece] ELSE <<piece>>
      templates == Templates[kind][c.op]
      specs == [k \in DOMAIN templates |->
                  [templates[k] EXCEPT
                     !.type = FlattenSeq([i \in DOMAIN @ |-> InPlace(@[i])])]]
  IN IF c.form = "method" THEN specs
     ELSE <<P("id", Text(kind), "id", TRUE)>> \o specs

WellTyped(c) ==
  LET params == IntendedSpecs(c)
      binding == DeclaredBinding(c.args, params)
  IN /\ BindsOnce(binding, params)
     /\ \A i \in DOMAIN c.args :
          /\ binding[i] # 0
          /\ ValueIssues(c.args[i], params[binding[i]], i) = {}
          /\ i \in Named(c.args) \/ \A j \in 1..(i - 1) : j \notin Named(c.args)

\* The receiver is the id, if it comes first.
IdFirst(c) ==
  c.form = "function" /\ c.args # <<>> => c.args[1].name \in {NoName, "id"}

\* A text of pieces none of which is a letter of the templates.
LetterFree(type) == type \in Seq(Range(type) \ {"K", "V", "T"})

\* What the two passes are not agreed upon: an id that does not come first or
\* has no known type, for which one of them knows no parameters, a name that is
\* in one table only, an array.get or array.set of a map, since the registry
\* does not describe them, a map without types, whose keys it takes for
\* strings, and types with a letter in their names, which the code replaces as
\* if it were the template's.
Comparable(c) ==
  /\ LetterFree(Receiver(c))
  /\ c.form = "function" =>
       /\ IdFirst(c)
       /\ KindOf(Receiver(c)) \notin {"unknown", "na"}
       /\ c.args # <<>> /\ KindOf(Receiver(c)) = "map" =>
            Len(GenericArgs(Receiver(c))) >= 2
       /\ c.kind = "array" /\ c.op \in {"get", "set"} => KindOf(Receiver(c)) = c.kind
       /\ \A i \in Named(c.args) : RegistryName(c, c.args[i].name) = c.args[i].name

\* A call of a collection operation is accepted exactly if its arguments fit
\* the operation's parameters with the element, key and value type of the
\* receiver put in for the letters of the template (collection_signatures.py:
\* 326 replaces one letter after the other in what the letters before have
\* become).
CollectionCallsWellTyped ==
  pc = "done" /\ call.callee = "collection" /\ Resolves(call) /\ Comparable(call)
    => (diags = {} <=> WellTyped(call))

\* The rows of an accepted collection call: a mutation has a row among the
\* mutations, any other operation one among the accesses, and only
\* map.remove both, with the same key; an argument with a role in a row is the
\* first bound to a parameter of that role, though some rows are made by place
\* (frontend/collections.py:139, 430): map.remove makes its second one so, and
\* is right if the id comes first.  And what SignatureResolver makes of the
\* receiver is what collection_signatures does (signatures.py:384), which also
\* replaces the letters it finds in the names of a map's types.
CollectionRowsMatchCall ==
  Accepted /\ call.callee = "collection" =>
    LET mutation == MutationRow(call)
        access   == AccessRow(call)
        removes  == KindNamed(call) = "map" /\ call.op = "remove"
        receiver == Receiver(call)
        Agrees(type, other) == type \in {NoType, other}
        clears   == call.op = "clear" /\ (call.form = "method" \/ call.args # <<>>)
    IN /\ mutation # NoRow <=> IsMutation(call) \/ clears
       /\ access # NoRow <=> IsAccess(call) \/ removes
       /\ removes /\ IdFirst(call) => access = mutation
       /\ \A row \in {mutation, IF removes THEN mutation ELSE access} \ {NoRow},
             role \in Roles :
            row[role] = IF Resolves(call) THEN RoleArgument(call, role) ELSE 0
       /\ Resolves(call) /\ call.form = "function" /\ KindOf(receiver) = call.kind =>
            /\ Agrees(ResolverReturn(receiver, call.op), ReturnType(receiver, call.op))
            /\ LetterFree(receiver) =>
                 \A k \in DOMAIN Specs(call) :
                   Specs(call)[k].name \in {"key", "value"} =>
                     Agrees(ResolverTypes(receiver, call.op)[Specs(call)[k].name],
                            Specs(call)[k].type)
=============================================================================
