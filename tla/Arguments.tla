------------------------------ MODULE Arguments ------------------------------
(***************************************************************************)
(* Arguments, parameters and types, and what every binder of arguments     *)
(* shares: Calls and Collections are built of these operators.             *)
(***************************************************************************)
EXTENDS Naturals, Sequences, FiniteSets, SequencesExt

CONSTANT PineVersion   \* 5 or 6

ASSUME PineVersionAssumption == PineVersion \in {5, 6}

NoName == ""
NoType == <<>>
NoLimit == "none"

(***************************************************************************)
(* Values: an argument is a record of its name, the type and qualifier of  *)
(* its value and whether the value may be na.  A parameter has a name, a   *)
(* type or NoType, the strongest qualifier it takes, whether it is         *)
(* required or known but unsupported, and the versions that added and      *)
(* removed it (0 for none).  Parameters of one list have distinct names.   *)
(*                                                                         *)
(* A type is a text: the sequence of the pieces of its name, so that       *)
(* map<string,int> is <<"map", "<", "string", ",", "int", ">">>.  The      *)
(* letters K, V and T are pieces of their own, wherever they occur.        *)
(***************************************************************************)
CollectionKinds == {"array", "matrix", "map"}

KindOf(type) == IF type = NoType THEN "none" ELSE type[1]

\* The arguments of a generic type, <<>> for any other.
GenericArgs(type) ==
  LET inner == SubSeq(type, 3, Len(type) - 1)
      commas == {i \in DOMAIN inner : inner[i] = ","}
  IN IF Len(type) < 4 \/ type[2] # "<" THEN <<>>
     ELSE IF commas = {} THEN <<inner>>
     ELSE LET c == CHOOSE c \in commas : TRUE
          IN <<SubSeq(inner, 1, c - 1), SubSeq(inner, c + 1, Len(inner))>>

Qualifiers == <<"const", "input", "simple", "series">>

Rank(q) == CHOOSE k \in 1..Len(Qualifiers) : Qualifiers[k] = q

AssignableValue(expected, actual) ==
  \/ expected \in {NoType, <<"unknown">>}
  \/ actual \in {<<"unknown">>, <<"na">>}
  \/ expected = actual
  \/ expected = <<"float">> /\ actual = <<"int">>

\* Collections are compared argument by argument; a bare kind takes any.
Assignable(expected, actual) ==
  LET wanted == GenericArgs(expected)
      given == GenericArgs(actual)
  IN \/ AssignableValue(expected, actual)
     \/ /\ KindOf(expected) \in CollectionKinds
        /\ KindOf(expected) = KindOf(actual)
        /\ \/ wanted = <<>> \/ given = <<>>
           \/ /\ Len(wanted) = Len(given)
              /\ \A k \in DOMAIN wanted : AssignableValue(wanted[k], given[k])

When(condition, issue) == IF condition THEN {issue} ELSE {}

\* How many members of a set of places are at most i.
CountUpTo(places, i) == Cardinality({j \in places : j <= i})

\* A set of places in order.
InOrder(places) ==
  [n \in 1..Cardinality(places) |-> CHOOSE k \in places : CountUpTo(places, k) = n]

\* Sequences one after the other.
Concat(pieces) ==
  LET front[n \in 0..Len(pieces)] ==
        IF n = 0 THEN <<>> ELSE front[n - 1] \o pieces[n]
  IN  front[Len(pieces)]

Named(args) == {i \in DOMAIN args : args[i].name # NoName}

Positional(args) == DOMAIN args \ Named(args)

NamesOf(params) == {params[k].name : k \in DOMAIN params}

RequiredOf(params) ==
  {params[k].name : k \in {k \in DOMAIN params : params[k].required}}

\* The index of the parameter called n, 0 if there is none.
ByName(params, n) ==
  IF n \in NamesOf(params)
  THEN CHOOSE k \in DOMAIN params :
         params[k].name = n /\ \A j \in 1..(k - 1) : params[j].name # n
  ELSE 0

\* How many positional arguments there are up to i.
PositionalRank(args, i) == CountUpTo(Positional(args), i)

\* The parameters that the positional arguments are taken to supply.
PositionalNames(args, params) ==
  {params[k].name : k \in {k \in DOMAIN params : k <= Cardinality(Positional(args))}}

Supplied(args, params) ==
  PositionalNames(args, params)
    \cup ({args[i].name : i \in Named(args)} \cap NamesOf(params))

\* Repeated names looked for in the preceding argument only.
MutantRepeatedInARow(args) ==
  {i \in Named(args) : i > 1 /\ args[i - 1].name = args[i].name}

Repeated(args) ==
  {i \in Named(args) : \E j \in 1..(i - 1) : args[j].name = args[i].name}

\* The parameter an argument is bound to (0: none), a positional argument by
\* its place among ALL the arguments ...
PlaceParameter(args, params, i) ==
  IF i \in Named(args) THEN ByName(params, args[i].name)
  ELSE IF i <= Len(params) THEN i ELSE 0

\* ... and by its place among the positional ones.
RankParameter(args, params, i) ==
  IF i \in Named(args) THEN ByName(params, args[i].name)
  ELSE IF PositionalRank(args, i) <= Len(params)
       THEN PositionalRank(args, i) ELSE 0

\* static rules: only the names, and an unknown name stands for itself.
StaticNames(args, params) ==
  [i \in DOMAIN args |->
     IF i \in Named(args) THEN args[i].name
     ELSE IF RankParameter(args, params, i) = 0 THEN NoName
     ELSE params[RankParameter(args, params, i)].name]

\* Positional arguments allowed anywhere.
MutantOrderOfNames(args) == {<<"duplicate", i>> : i \in Repeated(args)}

\* The last loop of _e_call_expr, for every kind of callee.
OrderIssues(args) ==
  {<<"duplicate", i>> : i \in Repeated(args)}
    \cup {<<"after_named", i>> :
            i \in {i \in DOMAIN args \ Named(args) :
                     \E j \in 1..(i - 1) : j \in Named(args)}}

ValueIssues(a, p, i) ==
  When(~Assignable(p.type, a.type), <<"type", i>>)
    \cup When(PineVersion >= 6 /\ p.type = <<"bool">> /\ a.na, <<"bool_na", i>>)
    \cup When(p.max # NoLimit /\ Rank(a.qual) > Rank(p.max), <<"qualifier", i>>)

\* What a list of arguments lacks or has too much of, for one parameter list.
\* The counts are taken as the positional arguments came first.
Structural(args, params) ==
  {<<"both", i>> : i \in {i \in Named(args) :
                            args[i].name \in PositionalNames(args, params)}}
    \cup {<<"unknown", i>> : i \in {i \in Named(args) :
                               args[i].name \notin NamesOf(params)}}
    \cup When(Cardinality(Positional(args)) > Len(params), <<"count", 0>>)
    \cup When(~(RequiredOf(params) \subseteq Supplied(args, params)),
              <<"missing", 0>>)

(***************************************************************************)
(* Declared callables: _validate_param_call.                               *)
(***************************************************************************)
TypeIssues(args, params) ==
  UNION {ValueIssues(args[i], [params[RankParameter(args, params, i)]
                                 EXCEPT !.max = NoLimit], i) :
           i \in {i \in DOMAIN args : RankParameter(args, params, i) # 0}}

ParamCallIssues(args, params) ==
  Structural(args, params) \cup TypeIssues(args, params)

\* frontend: positions among the positional arguments.
DeclaredBinding(args, params) ==
  [i \in DOMAIN args |-> RankParameter(args, params, i)]

\* facts: positions among all the arguments.
SpecBinding(args, params) ==
  [i \in DOMAIN args |-> PlaceParameter(args, params, i)]
=============================================================================
