---------------------------- MODULE CallsProofs ----------------------------
(***************************************************************************)
(* Proofs about Calls, for any callables, parameters and arguments: the    *)
(* resolver settles on a candidate that none scores lower than, so that a  *)
(* builtin is rejected only if every overload rejects the arguments; an    *)
(* accepted call gives no parameter two arguments and leaves no required   *)
(* one out, and the seven places that bind arguments agree on it; the      *)
(* facts about a constructor are what is reported of its call; a call of a *)
(* collection operation is accepted exactly if its arguments fit the       *)
(* operation, and its rows say which argument has which role.              *)
(*                                                                         *)
(* The choice.  Scores are compared from the left, which is a strict       *)
(* order; the candidate kept is minimal among those tried, since a new one *)
(* that is lower than it is lower than all that are not lower than the old *)
(* one.  A candidate without issues scores zero in the first three places, *)
(* and so does whatever is not above it; and the first three places count  *)
(* all issues.                                                             *)
(*                                                                         *)
(* The binding.  In an accepted call no name is repeated, unknown or also  *)
(* given by place, no place is beyond the parameters, and no positional    *)
(* argument follows a named one: so the place of a positional argument is  *)
(* its rank among them, which is different for different ones, and a name  *)
(* finds the one parameter that has it, behind the places taken.           *)
(*                                                                         *)
(* The collections.  No check objects to arguments exactly if they fit the *)
(* list of parameters that is checked.  The lists of the signature, of the *)
(* registry and of the operation as it is meant differ in their types      *)
(* only.  The signature's types are the intended ones: FlattenSeq adds one *)
(* text after the other, so that letters replaced one after the other come *)
(* to what they stand for, unless there is a letter in what is put in.     *)
(* The registry asks nothing but the kind of the id, if it is told what    *)
(* the keys of a map are.                                                  *)
(* Of arguments that fit, those of map.remove are the map and the key, in  *)
(* this order if the id comes first, as they are where they are counted.   *)
(*                                                                         *)
(* And about TypeFacts, for any programs: what the walk has left behind is *)
(* enough for the sections.  Of every program, the keys of the table are   *)
(* the names and members it has declared so far, each with a history of    *)
(* meanings, and what is global outlives every scope (ShapeInv).  As long  *)
(* as nothing has been reported, each name is declared once and means what *)
(* it was declared as (NamesInv), and every use that was seen still means  *)
(* what it meant (SightsInv): no later step touches a global owner, nor a  *)
(* local one that shares its name with nothing.  Their conjunction is      *)
(* FactsInv, and the sections follow from it at the end of the walk.       *)
(***************************************************************************)
EXTENDS Calls, TypeFacts, SequenceTheorems, FiniteSetTheorems,
        WellFoundedInduction, TLAPS

Reasons ==
  {"type", "bool_na", "qualifier", "removed", "repeated", "both",
   "unknown", "count", "missing", "receiver", "duplicate", "after_named",
   "unsupported"}

\* What may be reported of a call, 0 standing for the call as a whole.
Issues(args) == Reasons \X ({0} \cup DOMAIN args)

-----------------------------------------------------------------------------
(***************************************************************************)
(* Issues: each is about an argument or the whole call.                    *)
(***************************************************************************)
LEMMA ValueIssuesPlaced ==
  ASSUME NEW a, NEW p, NEW i
  PROVE  ValueIssues(a, p, i) \subseteq {"type", "bool_na", "qualifier"} \X {i}
BY DEF ValueIssues, When

LEMMA StructuralPlaced ==
  ASSUME NEW args, NEW params
  PROVE  Structural(args, params) \subseteq Issues(args)
BY DEF Structural, When, Issues, Reasons, Named

LEMMA RepeatedPlaced ==
  ASSUME NEW args
  PROVE  /\ {<<"repeated", i>> : i \in Repeated(args)} \subseteq Issues(args)
         /\ OrderIssues(args) \subseteq Issues(args)
BY DEF Repeated, Named, OrderIssues, Issues, Reasons

LEMMA EntryIssuesPlaced ==
  ASSUME NEW args, NEW params, NEW extra
  PROVE  EntryIssues(args, params, extra) \subseteq Issues(args)
<1> DEFINE active == Active(params)
           bound == {i \in DOMAIN args : ResolvedParameter(args, params, i) # 0}
           bindsTo(i) == active[ResolvedParameter(args, params, i)]
<1>1. RemovedIssues(args, params) \subseteq Issues(args)
  BY DEF RemovedIssues, Named, Issues, Reasons
<1>2. {<<"repeated", i>> : i \in Repeated(args)} \subseteq Issues(args)
  BY RepeatedPlaced
<1>3. Structural(args, active) \subseteq Issues(args)
  BY StructuralPlaced
<1>4. UNION {ValueIssues(args[i], bindsTo(i), i) : i \in bound} \subseteq Issues(args)
  <2> SUFFICES ASSUME NEW i \in bound, NEW s \in ValueIssues(args[i], bindsTo(i), i)
               PROVE  s \in Issues(args)
    OBVIOUS
  <2>1. s \in {"type", "bool_na", "qualifier"} \X {i}
    BY ValueIssuesPlaced
  <2> QED
    BY <2>1 DEF Issues, Reasons
<1> QED
  BY <1>1, <1>2, <1>3, <1>4 DEF EntryIssues

LEMMA BindingIssuesPlaced ==
  ASSUME NEW args, NEW params
  PROVE  BindingIssues(args, params) \subseteq Issues(args)
<1> DEFINE bound == {i \in DOMAIN args : PlaceParameter(args, params, i) # 0}
           bindsTo(i) == params[PlaceParameter(args, params, i)]
<1>1. UNION {ValueIssues(args[i], bindsTo(i), i) : i \in bound} \subseteq Issues(args)
  <2> SUFFICES ASSUME NEW i \in bound, NEW s \in ValueIssues(args[i], bindsTo(i), i)
               PROVE  s \in Issues(args)
    OBVIOUS
  <2>1. s \in {"type", "bool_na", "qualifier"} \X {i}
    BY ValueIssuesPlaced
  <2> QED
    BY <2>1 DEF Issues, Reasons
<1> QED
  BY <1>1, RepeatedPlaced, StructuralPlaced DEF BindingIssues

LEMMA ParamCallIssuesPlaced ==
  ASSUME NEW args, NEW params
  PROVE  /\ TypeIssues(args, params) \subseteq Issues(args)
         /\ ParamCallIssues(args, params) \subseteq Issues(args)
<1> DEFINE bound == {i \in DOMAIN args : RankParameter(args, params, i) # 0}
           bindsTo(i) == [params[RankParameter(args, params, i)] EXCEPT !.max = NoLimit]
<1>1. UNION {ValueIssues(args[i], bindsTo(i), i) : i \in bound} \subseteq Issues(args)
  <2> SUFFICES ASSUME NEW i \in bound, NEW s \in ValueIssues(args[i], bindsTo(i), i)
               PROVE  s \in Issues(args)
    OBVIOUS
  <2>1. s \in {"type", "bool_na", "qualifier"} \X {i}
    BY ValueIssuesPlaced
  <2> QED
    BY <2>1 DEF Issues, Reasons
<1> QED
  BY <1>1, StructuralPlaced DEF ParamCallIssues, TypeIssues

LEMMA DeclaredIssuesPlaced ==
  ASSUME NEW c, c.callee \in {"function", "constructor", "method", "collection"}
  PROVE  DeclaredIssues(c) \subseteq Issues(c.args)
<1>1. CASE c.callee = "function"
  BY <1>1, ParamCallIssuesPlaced DEF DeclaredIssues
<1>2. CASE c.callee = "constructor"
  BY <1>2, ParamCallIssuesPlaced, StructuralPlaced DEF DeclaredIssues, ConstructorIssues
<1>3. CASE c.callee = "method"
  BY <1>3, ParamCallIssuesPlaced
     DEF DeclaredIssues, MethodIssues, When, Issues, Reasons
<1>4. CASE c.callee = "collection"
  BY <1>4, BindingIssuesPlaced
     DEF DeclaredIssues, CollectionIssues, When, Issues, Reasons
<1> QED
  BY <1>1, <1>2, <1>3, <1>4

-----------------------------------------------------------------------------
(***************************************************************************)
(* Scores: they are compared as numbers with four digits.                  *)
(***************************************************************************)
IsScore(s) == \A k \in 1..4 : s[k] \in Int

LEMMA LowerByPlace ==
  ASSUME NEW s, NEW t
  PROVE  Lower(s, t) <=>
           \/ s[1] < t[1]
           \/ s[1] = t[1] /\ s[2] < t[2]
           \/ s[1] = t[1] /\ s[2] = t[2] /\ s[3] < t[3]
           \/ s[1] = t[1] /\ s[2] = t[2] /\ s[3] = t[3] /\ s[4] < t[4]
<1>1. 1..4 = {1, 2, 3, 4}
  OBVIOUS
<1>2. /\ 1..(1 - 1) = {} /\ 1..(2 - 1) = {1} /\ 1..(3 - 1) = {1, 2}
      /\ 1..(4 - 1) = {1, 2, 3}
  OBVIOUS
<1> QED
  BY <1>1, <1>2 DEF Lower

LEMMA LowerIsAnOrder ==
  ASSUME NEW s, NEW t, NEW u, IsScore(s), IsScore(t), IsScore(u)
  PROVE  /\ ~Lower(s, s)
         /\ Lower(s, t) /\ Lower(t, u) => Lower(s, u)
<1>1. /\ s[1] \in Int /\ s[2] \in Int /\ s[3] \in Int /\ s[4] \in Int
      /\ t[1] \in Int /\ t[2] \in Int /\ t[3] \in Int /\ t[4] \in Int
      /\ u[1] \in Int /\ u[2] \in Int /\ u[3] \in Int /\ u[4] \in Int
  BY DEF IsScore
<1>2. ~Lower(s, s)
  BY <1>1, LowerByPlace
<1>3. ASSUME Lower(s, t), Lower(t, u)
      PROVE  Lower(s, u)
  BY <1>1, <1>3, LowerByPlace
<1> QED
  BY <1>2, <1>3

IsArguments(args) == args \in Seq(Range(args))

LEMMA FourAreFinite ==
  ASSUME NEW a, NEW b, NEW c, NEW d
  PROVE  IsFiniteSet({a, b, c, d})
<1>1. IsFiniteSet({a})
  BY FS_Singleton
<1>2. IsFiniteSet({a} \cup {b})
  BY <1>1, FS_AddElement
<1>3. IsFiniteSet({a} \cup {b} \cup {c})
  BY <1>2, FS_AddElement
<1>4. IsFiniteSet({a} \cup {b} \cup {c} \cup {d})
  BY <1>3, FS_AddElement
<1>5. {a} \cup {b} \cup {c} \cup {d} = {a, b, c, d}
  OBVIOUS
<1> QED
  BY <1>4, <1>5

LEMMA IssuesFinite ==
  ASSUME NEW args, IsArguments(args), NEW S \in SUBSET Issues(args)
  PROVE  IsFiniteSet(S) /\ IsFiniteSet(DOMAIN args)
<1>1. DOMAIN args = 1..Len(args) /\ Len(args) \in Nat
  BY DEF IsArguments
<1>2. IsFiniteSet(DOMAIN args)
  BY <1>1, FS_Interval
<1>3. IsFiniteSet({0} \cup DOMAIN args)
  BY <1>2, FS_AddElement
<1>4. IsFiniteSet(Reasons)
  <2> DEFINE A == {"type", "bool_na", "qualifier", "removed"}
             B == {"repeated", "both", "unknown", "count"}
             C == {"missing", "receiver", "duplicate", "after_named"}
  <2>1. IsFiniteSet(A) /\ IsFiniteSet(B) /\ IsFiniteSet(C)
    BY FourAreFinite
  <2>2. Reasons = ((A \cup B) \cup C) \cup {"unsupported"}
    BY DEF Reasons
  <2> HIDE DEF A, B, C
  <2>3. IsFiniteSet((A \cup B) \cup C)
    BY <2>1, FS_Union
  <2> QED
    BY <2>2, <2>3, FS_AddElement
<1>5. IsFiniteSet(Issues(args))
  BY <1>3, <1>4, FS_Product DEF Issues
<1> QED
  BY <1>2, <1>5, FS_Subset

LEMMA ScoreCounts ==
  ASSUME NEW args, IsArguments(args), NEW params, NEW extra
  PROVE  LET found == EntryIssues(args, params, extra)
             score == Score(args, params, extra)
         IN /\ IsScore(score)
            /\ score[1] >= 0 /\ score[2] >= 0 /\ score[3] >= 0
            /\ found = {} => score[1] = 0 /\ score[2] = 0 /\ score[3] = 0
            /\ score[1] = 0 /\ score[2] = 0 /\ score[3] = 0 => found = {}
<1> DEFINE found == EntryIssues(args, params, extra)
           Of(tags) == {s \in found : s[1] \in tags}
           values == Of({"type", "qualifier"})
           types == Of({"type"})
           quals == Of({"qualifier"})
           score == Score(args, params, extra)
           open == Unresolved(args, params)
<1>1. IsFiniteSet(found)
  BY EntryIssuesPlaced, IssuesFinite
<1>2. /\ IsFiniteSet(values) /\ Cardinality(values) <= Cardinality(found)
      /\ IsFiniteSet(types) /\ IsFiniteSet(quals)
  BY <1>1, FS_Subset
<1>3. IsFiniteSet(open)
  BY IssuesFinite, FS_Subset DEF Unresolved
<1>4. /\ Cardinality(found) \in Nat /\ Cardinality(values) \in Nat
      /\ Cardinality(types) \in Nat /\ Cardinality(quals) \in Nat
      /\ Cardinality(open) \in Nat
  BY <1>1, <1>2, <1>3, FS_CardinalityType
<1>5. score = <<Cardinality(found) - Cardinality(values), Cardinality(types),
                Cardinality(quals), Cardinality(open)>>
  BY DEF Score
<1>6. /\ score[1] = Cardinality(found) - Cardinality(values)
      /\ score[2] = Cardinality(types) /\ score[3] = Cardinality(quals)
      /\ score[4] = Cardinality(open)
  BY <1>5
<1>7. IsScore(score) /\ score[1] >= 0 /\ score[2] >= 0 /\ score[3] >= 0
  BY <1>2, <1>4, <1>6 DEF IsScore
<1>8. ASSUME found = {}
      PROVE  score[1] = 0 /\ score[2] = 0 /\ score[3] = 0
  <2>1. values = {} /\ types = {} /\ quals = {}
    BY <1>8
  <2> QED
    BY <2>1, <1>6, <1>8, FS_EmptySet
<1>9. ASSUME score[1] = 0, score[2] = 0, score[3] = 0
      PROVE  found = {}
  <2>1. types = {} /\ quals = {}
    BY <1>2, <1>6, <1>9, FS_EmptySet
  <2>2. values = {}
    BY <2>1
  <2>3. Cardinality(values) = 0
    BY <2>2, FS_EmptySet
  <2>4. Cardinality(found) = 0
    <3> HIDE DEF found, values, score
    <3> QED
      BY <2>3, <1>4, <1>6, <1>9
  <2> QED
    BY <2>4, <1>1, FS_EmptySet
<1> QED
  BY <1>7, <1>8, <1>9

-----------------------------------------------------------------------------
(***************************************************************************)
(* The analysis of a call.                                                 *)
(***************************************************************************)
\* A call of a collection has a form, and the namespace knows its operation.
NamespaceKnows(c) ==
  /\ {"form", "kind", "op"} \subseteq DOMAIN c
  /\ c.form \in {"method", "function"}
  /\ c.form = "function" =>
       c.kind \in CollectionKinds /\ c.op \in Operations(c.kind) \cup {"clear"}

IsCall(c) ==
  /\ {"callee", "args"} \subseteq DOMAIN c /\ IsArguments(c.args)
  /\ c.callee \in {"builtin", "function", "constructor", "method", "collection"}
  /\ c.callee # "collection" =>
       "entry" \in DOMAIN c /\ ParameterList(c.entry.params)
  /\ c.callee = "builtin" =>
       /\ c.entry.overloads \in Seq(Range(c.entry.overloads))
       /\ \A k \in DOMAIN c.entry.overloads : ParameterList(c.entry.overloads[k])
  /\ c.callee = "collection" => NamespaceKnows(c)

Candidates == CandidateEntries(call.entry)

ScoreOf(k) == Score(call.args, Candidates[k], call.entry.extra)

\* The candidate that is kept is minimal among those that were tried.
BestSoFar ==
  call.callee = "builtin" =>
    /\ tried > 0 => best > 0
    /\ \A k \in 1..tried : ~Lower(ScoreOf(k), ScoreOf(best))

\* What the validation of a callable of its kind finds in the call.
Found ==
  IF call.callee = "builtin"
  THEN EntryIssues(call.args, Candidates[best], call.entry.extra)
         \cup UnsupportedIssues(call.args, Candidates[best])
  ELSE DeclaredIssues(call)

\* A builtin is reported when all candidates have been tried, with what its
\* best candidate lacks; any other call with what its callee lacks; and every
\* call, in the end, with what is wrong with the order of its arguments.
Reports ==
  pc # "bind" =>
    /\ call.callee = "builtin" => tried = Len(Candidates)
    /\ diags = Found \cup IF pc = "done" THEN OrderIssues(call.args) ELSE {}

ChoiceInv ==
  /\ IsCall(call)
  /\ TypeOK
  /\ pc = "bind" => diags = {}
  /\ BestSoFar
  /\ Reports

LEMMA CandidatesListed ==
  ASSUME NEW c, IsCall(c), c.callee = "builtin"
  PROVE  /\ DOMAIN CandidateEntries(c.entry) = 1..Len(CandidateEntries(c.entry))
         /\ Len(CandidateEntries(c.entry)) \in Nat \ {0}
<1> DEFINE o == c.entry.overloads
           p == c.entry.params
           S == Range(o) \cup {p}
<1>1. o \in Seq(S)
  <2>1. o \in Seq(Range(o))
    BY DEF IsCall
  <2> QED
    BY <2>1
<1>2. Append(o, p) \in Seq(S) /\ Len(Append(o, p)) = Len(o) + 1
  BY <1>1, AppendProperties
<1>3. Len(o) \in Nat
  BY <1>1
<1> QED
  BY <1>2, <1>3 DEF CandidateEntries

LEMMA ArgumentsGrow ==
  ASSUME NEW args, IsArguments(args), NEW a
  PROVE  IsArguments(Append(args, a))
<1> DEFINE S == Range(args) \cup {a}
           longer == Append(args, a)
<1>1. args \in Seq(S)
  <2>1. args \in Seq(Range(args))
    BY DEF IsArguments
  <2> QED
    BY <2>1
<1>2. longer \in Seq(S)
  BY <1>1, AppendProperties
<1> HIDE DEF longer, S
<1> QED
  BY <1>2, SeqOfRange DEF IsArguments, longer

\* A call remains one when it gets another argument.
LEMMA CallGrows ==
  ASSUME NEW c, IsCall(c), NEW a
  PROVE  LET longer == [c EXCEPT !.args = Append(@, a)]
         IN /\ IsCall(longer)
            /\ longer.callee = c.callee
            /\ longer.args = Append(c.args, a)
            /\ c.callee # "collection" => longer.entry = c.entry
<1> DEFINE args == Append(c.args, a)
           longer == [c EXCEPT !.args = args]
<1>1. {"callee", "args"} \subseteq DOMAIN c /\ IsArguments(args)
  BY ArgumentsGrow DEF IsCall
<1> HIDE DEF args
<1>2. /\ DOMAIN longer = DOMAIN c
      /\ longer.callee = c.callee /\ longer.args = args
      /\ "entry" \in DOMAIN c => longer.entry = c.entry
      /\ NamespaceKnows(c) => NamespaceKnows(longer)
  BY <1>1 DEF NamespaceKnows
<1> HIDE DEF longer
<1>3. IsCall(longer)
  BY <1>1, <1>2 DEF IsCall
<1> QED
  BY <1>2, <1>3 DEF IsCall, args, longer

-----------------------------------------------------------------------------
(***************************************************************************)
(* The invariant.                                                          *)
(***************************************************************************)
LEMMA Initially == Init => ChoiceInv
<1> SUFFICES ASSUME Init
             PROVE  ChoiceInv
  OBVIOUS
<1>1. IsCall(call)
  <2>1. call.args = <<>> /\ IsArguments(<<>>)
    BY CallablesAssumption DEF Init, IsArguments
  <2> QED
    BY <2>1, CallablesAssumption DEF Init, IsCall, NamespaceKnows
<1>2. call.callee = "builtin" => Len(Candidates) \in Nat
  BY <1>1, CandidatesListed DEF Candidates
<1>3. TypeOK
  BY <1>2 DEF Init, TypeOK, Candidates
<1> QED
  BY <1>1, <1>3 DEF Init, ChoiceInv, BestSoFar, Reports

\* Where the issues of a call are placed, in the words of TypeOK.
LEMMA PlacesListed ==
  ASSUME NEW args, IsArguments(args)
  PROVE  Issues(args) = Reasons \X (0..Len(args))
<1>1. Len(args) \in Nat /\ DOMAIN args = 1..Len(args)
  BY DEF IsArguments
<1>2. {0} \cup DOMAIN args = 0..Len(args)
  BY <1>1
<1> QED
  BY <1>2 DEF Issues

LEMMA ScoresOfCandidates ==
  ASSUME IsCall(call), NEW k
  PROVE  IsScore(ScoreOf(k))
BY ScoreCounts DEF IsCall, ScoreOf

LEMMA AnArgumentAdded ==
  ASSUME ChoiceInv, AddArgument
  PROVE  ChoiceInv'
<1>1. PICK a : call' = [call EXCEPT !.args = Append(@, a)]
  BY DEF AddArgument
<1>2. IsCall(call)
  BY DEF ChoiceInv
<1>3. IsCall(call')
  BY <1>1, <1>2, CallGrows
<1>4. pc' = "bind" /\ diags' = {} /\ tried' = 0 /\ best' = 0
  <2>1. best = 0
    BY DEF ChoiceInv, TypeOK, AddArgument
  <2> QED
    BY <2>1 DEF ChoiceInv, AddArgument
<1>5. call'.callee = "builtin" => Len(CandidateEntries(call'.entry)) \in Nat
  BY <1>3, CandidatesListed
<1>6. TypeOK'
  BY <1>4, <1>5 DEF TypeOK
<1> QED
  BY <1>3, <1>4, <1>6 DEF ChoiceInv, BestSoFar, Reports

\* The candidate kept stays minimal: the one tried is either not lower, or
\* lower than everything the old one was minimal among.
LEMMA ACandidateTried ==
  ASSUME ChoiceInv, TryCandidate
  PROVE  ChoiceInv'
<1> DEFINE k == tried + 1
<1>1. /\ IsCall(call) /\ call.callee = "builtin" /\ call' = call
      /\ pc' = "bind" /\ diags' = {} /\ tried' = k
  BY DEF ChoiceInv, TryCandidate
<1>2. /\ Len(Candidates) \in Nat /\ tried \in 0..Len(Candidates)
      /\ best \in 0..tried /\ tried < Len(Candidates)
      /\ Candidates' = Candidates
  BY <1>1, CandidatesListed DEF ChoiceInv, TypeOK, TryCandidate, Candidates
<1>3. /\ best' = k \/ best' = best
      /\ best = 0 => best' = k
      /\ best # 0 => (best' = k <=> Lower(ScoreOf(k), ScoreOf(best)))
  <2>1. Better(call.args, call.entry, k, best)
          <=> best = 0 \/ Lower(ScoreOf(k), ScoreOf(best))
    BY DEF Better, ScoreOf, Candidates
  <2>2. best' = IF Better(call.args, call.entry, k, best) THEN k ELSE best
    BY DEF TryCandidate
  <2>3. best # k
    BY <1>2
  <2> QED
    BY <2>1, <2>2, <2>3
<1>4. \A j : IsScore(ScoreOf(j))
  BY <1>1, ScoresOfCandidates
<1>5. \A j \in 1..k : ~Lower(ScoreOf(j), ScoreOf(best'))
  <2> SUFFICES ASSUME NEW j \in 1..k
               PROVE  ~Lower(ScoreOf(j), ScoreOf(best'))
    OBVIOUS
  <2>1. j = k \/ j \in 1..tried
    BY <1>2
  <2>2. \A i \in 1..tried : ~Lower(ScoreOf(i), ScoreOf(best))
    BY <1>1 DEF ChoiceInv, BestSoFar
  <2>3. tried > 0 => best > 0
    BY <1>1 DEF ChoiceInv, BestSoFar
  <2>4. CASE best' = k
    <3>1. CASE j = k
      BY <2>4, <3>1, <1>4, LowerIsAnOrder
    <3>2. CASE j \in 1..tried
      <4>1. best # 0 /\ Lower(ScoreOf(k), ScoreOf(best))
        BY <2>3, <2>4, <3>2, <1>2, <1>3
      <4>2. ~Lower(ScoreOf(j), ScoreOf(best))
        BY <2>2, <3>2
      <4>3. Lower(ScoreOf(j), ScoreOf(k)) => Lower(ScoreOf(j), ScoreOf(best))
        BY <4>1, <1>4, LowerIsAnOrder
      <4> QED
        BY <2>4, <4>2, <4>3
    <3> QED
      BY <2>1, <3>1, <3>2
  <2>5. CASE best' = best /\ best' # k
    <3>1. best # 0 /\ ~Lower(ScoreOf(k), ScoreOf(best))
      BY <2>5, <1>3
    <3> QED
      BY <2>1, <2>2, <2>5, <3>1
  <2> QED
    BY <2>4, <2>5, <1>3
<1>6. best' > 0 /\ best' \in 0..k
  BY <1>2, <1>3
<1>7. \A j : ScoreOf(j)' = Score(call'.args, Candidates'[j], call'.entry.extra)
  BY DEF ScoreOf
<1>8. BestSoFar'
  <2>1. \A j \in 1..tried' : ~Lower(ScoreOf(j), ScoreOf(best'))
    BY <1>1, <1>5
  <2>2. \A j \in 1..tried' :
          ~Lower(Score(call'.args, Candidates'[j], call'.entry.extra),
                 Score(call'.args, Candidates'[best'], call'.entry.extra))
    BY <1>1, <1>2, <2>1 DEF ScoreOf
  <2> QED
    BY <1>6, <2>2 DEF BestSoFar, ScoreOf
<1>9. TypeOK'
  <2>1. tried' \in 0..Len(Candidates) /\ best' \in 0..tried'
    BY <1>1, <1>2, <1>6
  <2> QED
    BY <1>1, <2>1 DEF TypeOK, Candidates
<1> QED
  BY <1>1, <1>8, <1>9 DEF ChoiceInv, Reports

LEMMA ABuiltinReported ==
  ASSUME ChoiceInv, ReportBuiltin
  PROVE  ChoiceInv'
<1> DEFINE params == Candidates[best]
           entry == EntryIssues(call.args, params, call.entry.extra)
           extra == UnsupportedIssues(call.args, params)
<1>1. /\ IsCall(call) /\ call.callee = "builtin" /\ tried = Len(Candidates)
      /\ UNCHANGED <<call, tried, best>>
      /\ pc' = "order" /\ diags' = entry \cup extra
  BY DEF ChoiceInv, ReportBuiltin, Candidates
<1>2. entry \subseteq Issues(call.args)
  BY EntryIssuesPlaced
<1>3. extra \subseteq Issues(call.args)
  BY DEF UnsupportedIssues, Issues, Reasons
<1> HIDE DEF params, entry, extra
<1>4. diags' \subseteq Reasons \X (0..Len(call.args))
  BY <1>1, <1>2, <1>3, PlacesListed DEF IsCall
<1>5. TypeOK'
  BY <1>1, <1>4 DEF ChoiceInv, TypeOK, Reasons
<1>6. BestSoFar'
  BY <1>1 DEF ChoiceInv, BestSoFar, ScoreOf, Candidates
<1>7. Reports'
  BY <1>1 DEF Reports, Found, Candidates, params, entry, extra
<1> QED
  BY <1>1, <1>5, <1>6, <1>7 DEF ChoiceInv

LEMMA ADeclaredCallReported ==
  ASSUME ChoiceInv, ReportDeclared
  PROVE  ChoiceInv'
<1>1. /\ IsCall(call) /\ call.callee # "builtin"
      /\ UNCHANGED <<call, tried, best>>
      /\ pc' = "order" /\ diags' = DeclaredIssues(call)
  BY DEF ChoiceInv, ReportDeclared
<1>2. diags' \subseteq Issues(call.args)
  BY <1>1, DeclaredIssuesPlaced DEF IsCall
<1>3. diags' \subseteq Reasons \X (0..Len(call.args))
  BY <1>1, <1>2, PlacesListed DEF IsCall
<1>4. TypeOK'
  BY <1>1, <1>3 DEF ChoiceInv, TypeOK, Reasons
<1> QED
  BY <1>1, <1>4 DEF ChoiceInv, BestSoFar, Reports, Found

LEMMA TheOrderChecked ==
  ASSUME ChoiceInv, CheckOrder
  PROVE  ChoiceInv'
<1>1. /\ IsCall(call) /\ UNCHANGED <<call, tried, best>>
      /\ pc = "order" /\ pc' = "done"
      /\ diags' = diags \cup OrderIssues(call.args)
  BY DEF ChoiceInv, CheckOrder
<1>2. OrderIssues(call.args) \subseteq Reasons \X (0..Len(call.args))
  BY <1>1, RepeatedPlaced, PlacesListed DEF IsCall
<1>3. TypeOK'
  BY <1>1, <1>2 DEF ChoiceInv, TypeOK, Reasons
<1>4. BestSoFar'
  BY <1>1 DEF ChoiceInv, BestSoFar, ScoreOf, Candidates
<1>5. Found' = Found
  BY <1>1 DEF Found, Candidates
<1>6. Reports'
  BY <1>1, <1>5 DEF ChoiceInv, Reports, Candidates
<1> QED
  BY <1>1, <1>3, <1>4, <1>6 DEF ChoiceInv

LEMMA EveryStep == ChoiceInv /\ [Next]_vars => ChoiceInv'
<1> SUFFICES ASSUME ChoiceInv, [Next]_vars
             PROVE  ChoiceInv'
  OBVIOUS
<1>1. CASE AddArgument
  BY <1>1, AnArgumentAdded
<1>2. CASE TryCandidate
  BY <1>2, ACandidateTried
<1>3. CASE ReportBuiltin
  BY <1>3, ABuiltinReported
<1>4. CASE ReportDeclared
  BY <1>4, ADeclaredCallReported
<1>5. CASE CheckOrder
  BY <1>5, TheOrderChecked
<1>6. CASE UNCHANGED vars
  BY <1>6 DEF vars, ChoiceInv, TypeOK, BestSoFar, Reports, Found, ScoreOf,
     Candidates
<1> QED
  BY <1>1, <1>2, <1>3, <1>4, <1>5, <1>6 DEF Next

-----------------------------------------------------------------------------
(***************************************************************************)
(* What the invariant says.                                                *)
(***************************************************************************)
LEMMA NoneIsLower == ChoiceInv => RejectedByAllOverloads
<1> SUFFICES ASSUME ChoiceInv, pc \in {"order", "done"}, call.callee = "builtin",
                    NEW k \in DOMAIN Candidates
             PROVE  /\ EntryIssues(call.args, Candidates[k], call.entry.extra) = {} =>
                         \A d \in diags \ OrderIssues(call.args) : d[1] = "unsupported"
                    /\ ScoreOf(best)[1] <= ScoreOf(k)[1]
  BY DEF RejectedByAllOverloads, ScoreOf, Candidates
<1>1. IsCall(call) /\ IsArguments(call.args)
  BY DEF ChoiceInv, IsCall
<1>2. k \in 1..tried
  BY <1>1, CandidatesListed DEF ChoiceInv, Reports, Candidates
<1>3. ~Lower(ScoreOf(k), ScoreOf(best))
  BY <1>2 DEF ChoiceInv, BestSoFar
<1>4. /\ IsScore(ScoreOf(k)) /\ IsScore(ScoreOf(best))
      /\ ScoreOf(best)[1] >= 0 /\ ScoreOf(best)[2] >= 0 /\ ScoreOf(best)[3] >= 0
  BY <1>1, ScoreCounts DEF ScoreOf
<1>5. /\ ScoreOf(k)[1] \in Int /\ ScoreOf(k)[2] \in Int /\ ScoreOf(k)[3] \in Int
      /\ ScoreOf(best)[1] \in Int /\ ScoreOf(best)[2] \in Int
      /\ ScoreOf(best)[3] \in Int
  BY <1>4 DEF IsScore
<1>6. ScoreOf(best)[1] <= ScoreOf(k)[1]
  BY <1>3, <1>5, LowerByPlace
<1>7. ASSUME EntryIssues(call.args, Candidates[k], call.entry.extra) = {}
      PROVE  \A d \in diags \ OrderIssues(call.args) : d[1] = "unsupported"
  <2>1. ScoreOf(k)[1] = 0 /\ ScoreOf(k)[2] = 0 /\ ScoreOf(k)[3] = 0
    BY <1>1, <1>7, ScoreCounts DEF ScoreOf
  <2>2. ScoreOf(best)[1] = 0 /\ ScoreOf(best)[2] = 0 /\ ScoreOf(best)[3] = 0
    BY <1>3, <1>4, <1>5, <2>1, LowerByPlace
  <2>3. EntryIssues(call.args, Candidates[best], call.entry.extra) = {}
    BY <1>1, <2>2, ScoreCounts DEF ScoreOf
  <2>4. diags \ OrderIssues(call.args)
          \subseteq UnsupportedIssues(call.args, Candidates[best])
    BY <2>3 DEF ChoiceInv, Reports, Found
  <2> QED
    BY <2>4 DEF UnsupportedIssues
<1> QED
  BY <1>6, <1>7

\* For any callables and arguments, a builtin is rejected only if no overload
\* takes the arguments, and it is reported for an overload with the fewest
\* structural errors; what is reported is about an argument or the whole call
\* (SignatureResolver.resolve_call keeps the best candidate as it tries them).
THEOREM CallsChoice == Spec => []ChoiceInvariant
<1>1. ChoiceInv => ChoiceInvariant
  BY NoneIsLower DEF ChoiceInv, ChoiceInvariant
<1> QED
  BY Initially, EveryStep, <1>1, PTL DEF Spec

-----------------------------------------------------------------------------
(***************************************************************************)
(* Constructor calls: the two descriptions and the report are made of the  *)
(* same sets.                                                              *)
(***************************************************************************)
Tagged(found, tag) == {s[2] : s \in {s \in found : s[1] = tag}}

LEMMA TaggedPairs ==
  ASSUME NEW args, NEW S \in SUBSET Issues(args), NEW tag, NEW x
  PROVE  x \in Tagged(S, tag) <=> <<tag, x>> \in S
<1>1. ASSUME x \in Tagged(S, tag)
      PROVE  <<tag, x>> \in S
  <2>1. PICK s \in S : s[1] = tag /\ x = s[2]
    BY <1>1 DEF Tagged
  <2>2. s = <<s[1], s[2]>>
    BY DEF Issues
  <2> QED
    BY <2>1, <2>2
<1>2. ASSUME <<tag, x>> \in S
      PROVE  x \in Tagged(S, tag)
  <2>1. <<tag, x>>[1] = tag /\ <<tag, x>>[2] = x
    OBVIOUS
  <2> DEFINE s == <<tag, x>>
  <2>2. s \in S /\ s[1] = tag /\ s[2] = x
    BY <1>2, <2>1
  <2> HIDE DEF s
  <2> QED
    BY <2>2 DEF Tagged
<1> QED
  BY <1>1, <1>2

\* What is wrong with a value carries a tag of its own.
LEMMA TypesApart ==
  ASSUME NEW args, NEW params, NEW x,
         NEW tag \in {"missing", "unknown", "count", "both", "duplicate",
                      "after_named"}
  PROVE  <<tag, x>> \notin TypeIssues(args, params)
<1> DEFINE bound == {i \in DOMAIN args : RankParameter(args, params, i) # 0}
           bindsTo(i) == [params[RankParameter(args, params, i)] EXCEPT !.max = NoLimit]
<1> SUFFICES ASSUME <<tag, x>> \in TypeIssues(args, params)
             PROVE  FALSE
  OBVIOUS
<1>1. PICK i \in bound : <<tag, x>> \in ValueIssues(args[i], bindsTo(i), i)
  BY DEF TypeIssues
<1>2. <<tag, x>> \in {"type", "bool_na", "qualifier"} \X {i}
  BY <1>1, ValueIssuesPlaced
<1> QED
  BY <1>2

\* What each tag of the structural issues stands for.
LEMMA StructuralTags ==
  ASSUME NEW args, NEW params
  PROVE  LET structural == Structural(args, params)
         IN /\ \A i : <<"both", i>> \in structural
                     <=> /\ i \in Named(args)
                         /\ args[i].name \in PositionalNames(args, params)
            /\ \A i : <<"unknown", i>> \in structural
                     <=> i \in Named(args) /\ args[i].name \notin NamesOf(params)
            /\ \A i : <<"count", i>> \in structural
                     <=> i = 0 /\ Cardinality(Positional(args)) > Len(params)
            /\ \A i : <<"missing", i>> \in structural
                     <=> /\ i = 0
                         /\ ~(RequiredOf(params) \subseteq Supplied(args, params))
            /\ \A i : <<"duplicate", i>> \notin structural
BY DEF Structural, When

LEMMA OrderTags ==
  ASSUME NEW args
  PROVE  /\ \A i : <<"duplicate", i>> \in OrderIssues(args) <=> i \in Repeated(args)
         /\ \A i : <<"after_named", i>> \in OrderIssues(args)
                  <=> /\ i \in DOMAIN args \ Named(args)
                      /\ \E j \in 1..(i - 1) : j \in Named(args)
         /\ \A i, tag : tag \in {"missing", "unknown", "count", "both"} =>
              <<tag, i>> \notin OrderIssues(args)
BY DEF OrderIssues

LEMMA FactsAreTheReport == ChoiceInv => ConstructorFactsMatchDiagnostics
<1> SUFFICES ASSUME ChoiceInv, pc = "done", call.callee = "constructor"
             PROVE  ConstructorFactsMatchDiagnostics
  BY DEF ConstructorFactsMatchDiagnostics
<1> DEFINE args == call.args
           fields == call.entry.params
           structural == Structural(args, fields)
           types == TypeIssues(args, fields)
           fact == ConstructorFact(args, fields)
           row == ConstructorRow(args, fields)
<1>1. diags = (structural \cup types) \cup OrderIssues(args)
  BY DEF ChoiceInv, Reports, Found, DeclaredIssues, ConstructorIssues
<1>2. diags \subseteq Issues(args)
  BY PlacesListed DEF ChoiceInv, IsCall, TypeOK, Reasons
<1>3. /\ Tagged(diags, "both") =
           {i \in Named(args) : args[i].name \in PositionalNames(args, fields)}
      /\ Tagged(diags, "unknown") =
           {i \in Named(args) : args[i].name \notin NamesOf(fields)}
      /\ Tagged(diags, "count") # {} <=> Cardinality(Positional(args)) > Len(fields)
      /\ Tagged(diags, "missing") # {}
           <=> ~(RequiredOf(fields) \subseteq Supplied(args, fields))
      /\ Tagged(diags, "duplicate") = Repeated(args)
  <2> DEFINE Many == Cardinality(Positional(args)) > Len(fields)
             Lacks == ~(RequiredOf(fields) \subseteq Supplied(args, fields))
  <2>1. \A tag, i : i \in Tagged(diags, tag) <=> <<tag, i>> \in diags
    BY <1>2, TaggedPairs
  <2>2. \A tag, i : <<tag, i>> \in diags
                     <=> \/ <<tag, i>> \in structural
                         \/ <<tag, i>> \in types
                         \/ <<tag, i>> \in OrderIssues(args)
    <3> HIDE DEF structural, types, args
    <3> QED
      BY <1>1
  <2>3. \A tag, i : tag \in {"missing", "unknown", "count", "both", "duplicate"} =>
          <<tag, i>> \notin types
    BY TypesApart
  <2>4. /\ \A i : i \in Tagged(diags, "both")
                  <=> /\ i \in Named(args)
                      /\ args[i].name \in PositionalNames(args, fields)
        /\ \A i : i \in Tagged(diags, "unknown")
                  <=> i \in Named(args) /\ args[i].name \notin NamesOf(fields)
        /\ \A i : i \in Tagged(diags, "duplicate") <=> i \in Repeated(args)
        /\ \A i : i \in Tagged(diags, "count") <=> i = 0 /\ Many
        /\ \A i : i \in Tagged(diags, "missing") <=> i = 0 /\ Lacks
    <3>1. /\ \A i : <<"both", i>> \in structural
                     <=> /\ i \in Named(args)
                         /\ args[i].name \in PositionalNames(args, fields)
          /\ \A i : <<"unknown", i>> \in structural
                     <=> i \in Named(args) /\ args[i].name \notin NamesOf(fields)
          /\ \A i : <<"count", i>> \in structural <=> i = 0 /\ Many
          /\ \A i : <<"missing", i>> \in structural <=> i = 0 /\ Lacks
          /\ \A i : <<"duplicate", i>> \notin structural
      BY StructuralTags
    <3>2. /\ \A i : <<"duplicate", i>> \in OrderIssues(args) <=> i \in Repeated(args)
          /\ \A i, tag : tag \in {"missing", "unknown", "count", "both"} =>
               <<tag, i>> \notin OrderIssues(args)
      BY OrderTags
    <3> HIDE DEF types, structural, args, fields, Many, Lacks
    <3>3. ASSUME NEW i, NEW tag \in {"missing", "unknown", "count", "both"}
          PROVE  i \in Tagged(diags, tag) <=> <<tag, i>> \in structural
      BY <2>1, <2>2, <2>3, <3>2
    <3>4. ASSUME NEW i
          PROVE  i \in Tagged(diags, "duplicate") <=> i \in Repeated(args)
      <4>1. i \in Tagged(diags, "duplicate") <=> <<"duplicate", i>> \in diags
        BY <2>1
      <4>2. <<"duplicate", i>> \in diags <=> <<"duplicate", i>> \in OrderIssues(args)
        BY <2>2, <2>3, <3>1
      <4> QED
        BY <4>1, <4>2, <3>2
    <3>5. ASSUME NEW i
          PROVE  /\ i \in Tagged(diags, "both") <=> <<"both", i>> \in structural
                 /\ i \in Tagged(diags, "unknown") <=> <<"unknown", i>> \in structural
                 /\ i \in Tagged(diags, "count") <=> <<"count", i>> \in structural
                 /\ i \in Tagged(diags, "missing") <=> <<"missing", i>> \in structural
      BY <3>3
    <3> QED
      BY <3>1, <3>4, <3>5
  <2> HIDE DEF args, fields, structural, types, Many, Lacks
  <2>5. /\ Tagged(diags, "count") # {} <=> Many
        /\ Tagged(diags, "missing") # {} <=> Lacks
    BY <2>4
  <2>6. /\ Tagged(diags, "both") =
             {i \in Named(args) : args[i].name \in PositionalNames(args, fields)}
        /\ Tagged(diags, "unknown") =
             {i \in Named(args) : args[i].name \notin NamesOf(fields)}
        /\ Tagged(diags, "duplicate") = Repeated(args)
    BY <2>4
  <2> QED
    BY <2>5, <2>6 DEF Many, Lacks
<1>4. /\ fact.missing = RequiredOf(fields) \ Supplied(args, fields)
      /\ fact.unknown = {i \in Named(args) : args[i].name \notin NamesOf(fields)}
      /\ fact.duplicate =
           {i \in Named(args) : /\ args[i].name \in NamesOf(fields)
                                /\ \/ i \in Repeated(args)
                                   \/ args[i].name \in PositionalNames(args, fields)}
      /\ fact.extra = (Cardinality(Positional(args)) > Len(fields))
  BY DEF ConstructorFact
<1>5. /\ row.missing = RequiredOf(fields) \ Supplied(args, fields)
      /\ row.unknown = {args[i].name : i \in Named(args)} \ NamesOf(fields)
      /\ row.extra = (Cardinality(Positional(args)) > Len(fields))
  BY DEF ConstructorRow
<1>6. Repeated(args) \subseteq Named(args)
  BY DEF Repeated
<1> HIDE DEF fact, row, args, fields
<1>7. fact.duplicate =
        (Tagged(diags, "duplicate") \cup Tagged(diags, "both")) \ fact.unknown
  BY <1>3, <1>4, <1>6
<1>8. row.unknown = {args[i].name : i \in fact.unknown}
  BY <1>4, <1>5
<1>9. /\ fact.missing # {} <=> Tagged(diags, "missing") # {}
      /\ fact.unknown = Tagged(diags, "unknown")
      /\ fact.extra <=> Tagged(diags, "count") # {}
      /\ row.missing = fact.missing /\ row.extra = fact.extra
  BY <1>3, <1>4, <1>5
<1> QED
  BY <1>7, <1>8, <1>9
     DEF ConstructorFactsMatchDiagnostics, Tagged, fact, row, args, fields

\* For any fields and arguments, accepted or not, what the facts for the
\* runtime and the constructor's row list of a constructor call as missing,
\* unknown, duplicate or too much is what the analyzer reports (facts.py:290,
\* types.py:62, _validate_udt_constructor_call).
THEOREM ConstructorFactsAreTheReport == Spec => []ConstructorFactsMatchDiagnostics
BY Initially, EveryStep, FactsAreTheReport, PTL DEF Spec

-----------------------------------------------------------------------------
(***************************************************************************)
(* Places: those of a set follow their order, from 1 to their number.      *)
(***************************************************************************)
LEMMA Places ==
  ASSUME NEW n \in Nat, NEW S \in SUBSET (1..n)
  PROVE  /\ Cardinality(S) \in 0..n
         /\ \A k \in S : CountUpTo(S, k) \in 1..Cardinality(S)
         /\ \A j, k \in S : CountUpTo(S, j) = CountUpTo(S, k) => j = k
         /\ \A m \in 1..Cardinality(S) : \E k \in S : CountUpTo(S, k) = m
<1> DEFINE Up(k) == {j \in S : j <= k}
           R == [k \in S |-> Cardinality(Up(k))]
<1>1. S \subseteq Int /\ IsFiniteSet(S) /\ Cardinality(S) \in 0..n
  <2>1. IsFiniteSet(1..n) /\ Cardinality(1..n) = n
    BY FS_Interval
  <2>2. IsFiniteSet(S) /\ Cardinality(S) <= n
    BY <2>1, FS_Subset
  <2> QED
    BY <2>2, FS_CardinalityType
<1>2. ASSUME NEW k \in S
      PROVE  IsFiniteSet(Up(k)) /\ Cardinality(Up(k)) \in 1..Cardinality(S)
  <2>1. IsFiniteSet(Up(k)) /\ Cardinality(Up(k)) <= Cardinality(S)
    BY <1>1, FS_Subset
  <2>2. Up(k) # {}
    BY <1>1
  <2> QED
    BY <1>1, <2>1, <2>2, FS_EmptySet, FS_CardinalityType
<1>3. ASSUME NEW j \in S, NEW k \in S, j < k
      PROVE  Cardinality(Up(j)) < Cardinality(Up(k))
  <2>1. \A i \in S : i <= j => i <= k
    BY <1>1, <1>3
  <2>2. ~(k <= j) /\ k <= k
    BY <1>1, <1>3
  <2>3. Up(j) \in SUBSET Up(k) /\ k \in Up(k) /\ k \notin Up(j)
    BY <2>1, <2>2, Zenon
  <2>4. /\ Cardinality(Up(j)) <= Cardinality(Up(k))
        /\ Cardinality(Up(j)) # Cardinality(Up(k))
    BY <2>3, <1>2, FS_Subset
  <2> QED
    BY <2>4, <1>2
<1> HIDE DEF Up
<1>4. \A k \in S : R[k] = Cardinality(Up(k)) /\ CountUpTo(S, k) = Cardinality(Up(k))
  BY DEF Up, CountUpTo
<1>5. \A j, k \in S : R[j] = R[k] => j = k
  <2> SUFFICES ASSUME NEW j \in S, NEW k \in S, R[j] = R[k]
               PROVE  j = k
    OBVIOUS
  <2>1. ~(j < k) /\ ~(k < j)
    BY <1>2, <1>3, <1>4
  <2> QED
    BY <2>1, <1>1
<1>6. R \in Injection(S, 1..Cardinality(S))
  <2>1. R \in [S -> 1..Cardinality(S)]
    BY <1>2, <1>4
  <2> QED
    BY <2>1, <1>5 DEF Injection, IsInjective
<1>7. IsFiniteSet(1..Cardinality(S)) /\ Cardinality(1..Cardinality(S)) = Cardinality(S)
  BY <1>1, FS_Interval
<1>8. R \in Surjection(S, 1..Cardinality(S))
  BY <1>6, <1>7, FS_Injection
<1> HIDE DEF R
<1>9. \A m \in 1..Cardinality(S) : \E k \in S : R[k] = m
  BY <1>8 DEF Surjection
<1> QED
  BY <1>1, <1>2, <1>4, <1>5, <1>9

\* The active parameters of a list are a list of parameters.
LEMMA ActiveListed ==
  ASSUME NEW params, ParameterList(params)
  PROVE  ParameterList(Active(params))
<1> DEFINE kept == {k \in DOMAIN params : ParamActive(params[k])}
           N == Cardinality(kept)
           At(n) == CHOOSE k \in kept : CountUpTo(kept, k) = n
           active == [n \in 1..N |-> params[At(n)]]
<1>1. Len(params) \in Nat /\ DOMAIN params = 1..Len(params)
  BY DEF ParameterList
<1>2. kept \in SUBSET (1..Len(params))
  BY <1>1
<1> HIDE DEF kept, N
<1>3. /\ N \in Nat
      /\ \A m \in 1..N : \E k \in kept : CountUpTo(kept, k) = m
  BY <1>1, <1>2, Places DEF N
<1>4. ASSUME NEW m \in 1..N
      PROVE  At(m) \in kept /\ CountUpTo(kept, At(m)) = m
  BY <1>3
<1> HIDE DEF At
<1>5. \A m \in 1..N : At(m) \in DOMAIN params
  BY <1>1, <1>2, <1>4
<1>6. ASSUME NEW j \in 1..N, NEW k \in 1..N, active[j].name = active[k].name
      PROVE  j = k
  <2>1. params[At(j)].name = params[At(k)].name
    BY <1>6
  <2>2. At(j) = At(k)
    BY <2>1, <1>5 DEF ParameterList
  <2> QED
    BY <2>2, <1>4
<1>7. DOMAIN active = 1..N
  OBVIOUS
<1>8. active \in Seq(Range(active))
  BY <1>3, <1>7 DEF Range
<1> HIDE DEF active
<1>9. ParameterList(active)
  BY <1>6, <1>7, <1>8 DEF ParameterList
<1> QED
  BY <1>9 DEF Active, active, At, N, kept

\* A name finds the parameter that has it.
LEMMA NameFindsParameter ==
  ASSUME NEW params, ParameterList(params), NEW n
  PROVE  /\ n \notin NamesOf(params) => ByName(params, n) = 0
         /\ \A k \in DOMAIN params : params[k].name = n => ByName(params, n) = k
         /\ n \in NamesOf(params) =>
              /\ ByName(params, n) \in DOMAIN params
              /\ params[ByName(params, n)].name = n
<1>1. ASSUME NEW k \in DOMAIN params, params[k].name = n
      PROVE  ByName(params, n) = k
  <2> DEFINE First(j) == params[j].name = n /\ \A i \in 1..(j - 1) : params[i].name # n
  <2>1. Len(params) \in Nat /\ DOMAIN params = 1..Len(params)
    BY DEF ParameterList
  <2>2. \A j \in 1..(k - 1) : j \in DOMAIN params /\ j # k
    BY <2>1
  <2>3. First(k)
    BY <1>1, <2>2 DEF ParameterList
  <2>4. \A j \in DOMAIN params : First(j) => j = k
    BY <1>1 DEF ParameterList
  <2>5. (CHOOSE j \in DOMAIN params : First(j)) = k
    <3> HIDE DEF First
    <3> QED
      BY <2>3, <2>4
  <2>6. n \in NamesOf(params)
    BY <1>1 DEF NamesOf
  <2> QED
    BY <2>5, <2>6 DEF ByName
<1>2. n \notin NamesOf(params) => ByName(params, n) = 0
  BY DEF ByName
<1>3. ASSUME n \in NamesOf(params)
      PROVE  \E k \in DOMAIN params : params[k].name = n
  BY <1>3 DEF NamesOf
<1> QED
  BY <1>1, <1>2, <1>3

\* The positional arguments are counted from 1 to their number.
LEMMA PositionalRanks ==
  ASSUME NEW args, IsArguments(args)
  PROVE  LET S == Positional(args)
         IN /\ Cardinality(S) \in Nat
            /\ \A i \in S : PositionalRank(args, i) \in 1..Cardinality(S)
            /\ \A i, j \in S : PositionalRank(args, i) = PositionalRank(args, j) => i = j
            /\ \A m \in 1..Cardinality(S) : \E i \in S : PositionalRank(args, i) = m
<1>1. Len(args) \in Nat /\ DOMAIN args = 1..Len(args)
  BY DEF IsArguments
<1>2. Positional(args) \in SUBSET (1..Len(args))
  BY <1>1 DEF Positional
<1>3. \A i : PositionalRank(args, i) = CountUpTo(Positional(args), i)
  BY DEF PositionalRank
<1> DEFINE S == Positional(args)
<1>4. /\ Cardinality(S) \in 0..Len(args)
      /\ \A i \in S : CountUpTo(S, i) \in 1..Cardinality(S)
      /\ \A i, j \in S : CountUpTo(S, i) = CountUpTo(S, j) => i = j
      /\ \A m \in 1..Cardinality(S) : \E i \in S : CountUpTo(S, i) = m
  <2> HIDE DEF S
  <2>1. S \in SUBSET (1..Len(args))
    BY <1>2 DEF S
  <2> QED
    BY <1>1, <2>1, Places
<1>5. Cardinality(S) \in Nat
  BY <1>1, <1>4
<1> HIDE DEF S
<1>6. \A i : PositionalRank(args, i) = CountUpTo(S, i)
  BY <1>3 DEF S
<1>7. /\ \A i \in S : PositionalRank(args, i) \in 1..Cardinality(S)
      /\ \A i, j \in S : PositionalRank(args, i) = PositionalRank(args, j) => i = j
      /\ \A m \in 1..Cardinality(S) : \E i \in S : PositionalRank(args, i) = m
  BY <1>4, <1>6
<1> QED
  BY <1>5, <1>7 DEF S

\* What none of the checks found wrong with the names of a call, for the list
\* of parameters it is bound to.
NamesInOrder(args, params) ==
  /\ Repeated(args) = {}
  /\ \A i \in DOMAIN args \ Named(args) : \A j \in 1..(i - 1) : j \notin Named(args)
  /\ \A i \in Named(args) : args[i].name \notin PositionalNames(args, params)
  /\ \A i \in Named(args) : args[i].name \in NamesOf(params)
  /\ RequiredOf(params) \subseteq Supplied(args, params)

\* Names that are not repeated are borne by one argument each.
LEMMA NamesBorneOnce ==
  ASSUME NEW args, IsArguments(args), Repeated(args) = {},
         NEW i \in Named(args), NEW j \in Named(args), args[i].name = args[j].name
  PROVE  i = j
<1>1. i \in 1..Len(args) /\ j \in 1..Len(args) /\ Len(args) \in Nat
  BY DEF Named, IsArguments
<1>2. ~(j \in 1..(i - 1)) /\ ~(i \in 1..(j - 1))
  BY DEF Repeated
<1> QED
  BY <1>1, <1>2

\* Where an argument is bound: a named one to the parameter of its name, a
\* positional one to the parameter of its rank.
LEMMA WhereBound ==
  ASSUME NEW args, IsArguments(args), NEW params, ParameterList(params),
         NEW i \in DOMAIN args
  PROVE  LET k == DeclaredBinding(args, params)[i]
         IN /\ i \in Named(args) => k = ByName(params, args[i].name)
            /\ i \notin Named(args) =>
                 k = IF PositionalRank(args, i) <= Len(params)
                     THEN PositionalRank(args, i) ELSE 0
            /\ i \notin Named(args) => i \in Positional(args)
BY DEF DeclaredBinding, RankParameter, Positional

LEMMA NoParameterTwice ==
  ASSUME NEW args, IsArguments(args), NEW params, ParameterList(params),
         NamesInOrder(args, params),
         NEW i \in DOMAIN args, NEW j \in DOMAIN args, i # j,
         DeclaredBinding(args, params)[i] = DeclaredBinding(args, params)[j]
  PROVE  DeclaredBinding(args, params)[i] = 0
<1> DEFINE k == DeclaredBinding(args, params)[i]
<1>1. Len(params) \in Nat /\ DOMAIN params = 1..Len(params)
  BY DEF ParameterList
<1>2. ASSUME NEW m \in Named(args), NEW p \in DOMAIN args \ Named(args),
             DeclaredBinding(args, params)[m] = DeclaredBinding(args, params)[p]
      PROVE  DeclaredBinding(args, params)[m] = 0
  <2> SUFFICES ASSUME DeclaredBinding(args, params)[m] # 0
               PROVE  FALSE
    OBVIOUS
  <2> DEFINE r == PositionalRank(args, p)
             n == args[m].name
  <2>1. m \in DOMAIN args
    BY DEF Named
  <2>2. /\ DeclaredBinding(args, params)[m] = ByName(params, n)
        /\ DeclaredBinding(args, params)[p] = IF r <= Len(params) THEN r ELSE 0
        /\ p \in Positional(args)
    BY <2>1, WhereBound
  <2>3. r <= Len(params) /\ ByName(params, n) = r /\ r # 0
    BY <1>2, <2>2
  <2>4. params[r].name = n /\ r \in DOMAIN params
    BY <2>3, NameFindsParameter
  <2>5. r <= Cardinality(Positional(args))
    BY <2>2, PositionalRanks
  <2>6. n \in PositionalNames(args, params)
    <3> HIDE DEF r, n
    <3> QED
      BY <2>4, <2>5 DEF PositionalNames
  <2> QED
    BY <2>6 DEF NamesInOrder
<1>3. CASE i \in Named(args) /\ j \in Named(args)
  <2>1. k = ByName(params, args[i].name) /\ k = ByName(params, args[j].name)
    BY <1>3, WhereBound
  <2>2. \A n : ByName(params, n) # 0 => params[ByName(params, n)].name = n
    BY NameFindsParameter
  <2> HIDE DEF k
  <2>3. k # 0 => params[k].name = args[i].name /\ params[k].name = args[j].name
    BY <2>1, <2>2
  <2>4. k # 0 => i = j
    BY <2>3, <1>3, NamesBorneOnce DEF NamesInOrder
  <2> QED
    BY <2>4 DEF k
<1>4. CASE i \notin Named(args) /\ j \notin Named(args)
  <2>1. /\ i \in Positional(args) /\ j \in Positional(args)
        /\ k = IF PositionalRank(args, i) <= Len(params)
               THEN PositionalRank(args, i) ELSE 0
        /\ k = IF PositionalRank(args, j) <= Len(params)
               THEN PositionalRank(args, j) ELSE 0
    BY <1>4, WhereBound
  <2>2. k # 0 => PositionalRank(args, i) = PositionalRank(args, j)
    BY <2>1
  <2> QED
    BY <2>1, <2>2, PositionalRanks
<1> QED
  BY <1>2, <1>3, <1>4

LEMMA NoneLeftOut ==
  ASSUME NEW args, IsArguments(args), NEW params, ParameterList(params),
         NamesInOrder(args, params),
         NEW k \in DOMAIN params, params[k].required
  PROVE  \E i \in DOMAIN args : DeclaredBinding(args, params)[i] = k
<1> DEFINE n == params[k].name
<1>1. Len(params) \in Nat /\ DOMAIN params = 1..Len(params)
  BY DEF ParameterList
<1>2. n \in Supplied(args, params)
  BY DEF RequiredOf, NamesInOrder
<1>3. CASE n \in PositionalNames(args, params)
  <2>1. PICK m \in DOMAIN params : m <= Cardinality(Positional(args)) /\ params[m].name = n
    BY <1>3 DEF PositionalNames
  <2>2. k <= Cardinality(Positional(args))
    BY <2>1 DEF ParameterList
  <2>3. k \in 1..Cardinality(Positional(args))
    BY <1>1, <2>2, PositionalRanks
  <2>4. PICK i \in Positional(args) : PositionalRank(args, i) = k
    BY <2>3, PositionalRanks
  <2>5. i \in DOMAIN args /\ i \notin Named(args)
    BY DEF Positional
  <2> QED
    BY <1>1, <2>4, <2>5, WhereBound
<1>4. CASE n \notin PositionalNames(args, params)
  <2>1. PICK i \in Named(args) : args[i].name = n
    BY <1>2, <1>4 DEF Supplied
  <2>2. i \in DOMAIN args
    BY DEF Named
  <2>3. ByName(params, args[i].name) = k
    BY <2>1, NameFindsParameter
  <2> QED
    BY <2>2, <2>3, WhereBound
<1> QED
  BY <1>3, <1>4

LEMMA BoundOnce ==
  ASSUME NEW args, IsArguments(args), NEW params, ParameterList(params),
         NamesInOrder(args, params)
  PROVE  BindsOnce(DeclaredBinding(args, params), params)
<1>1. DOMAIN DeclaredBinding(args, params) = DOMAIN args
  BY DEF DeclaredBinding
<1> QED
  BY <1>1, NoParameterTwice, NoneLeftOut DEF BindsOnce

\* When no name comes before a positional argument, its place is its rank, and
\* the binders that count one way or the other agree.
LEMMA PlaceIsRank ==
  ASSUME NEW args, IsArguments(args), NEW params,
         \A j \in DOMAIN args \ Named(args) : \A k \in 1..(j - 1) : k \notin Named(args),
         NEW i \in DOMAIN args
  PROVE  PlaceParameter(args, params, i) = RankParameter(args, params, i)
<1>1. Len(args) \in Nat /\ DOMAIN args = 1..Len(args)
  BY DEF IsArguments
<1>2. CASE i \in Named(args)
  BY <1>2 DEF PlaceParameter, RankParameter
<1>3. CASE i \notin Named(args)
  <2>1. \A j \in 1..i : j \in Positional(args)
    BY <1>1, <1>3 DEF Positional
  <2>2. {j \in Positional(args) : j <= i} = 1..i
    BY <1>1, <2>1 DEF Positional
  <2>3. PositionalRank(args, i) = Cardinality(1..i)
    BY <2>2, Zenon DEF PositionalRank, CountUpTo
  <2>4. Cardinality(1..i) = i
    <3>1. 1 \in Int /\ i \in Int /\ i >= 1
      BY <1>1
    <3> QED
      BY <3>1, FS_Interval
  <2>5. PositionalRank(args, i) = i
    BY <2>3, <2>4
  <2> QED
    BY <1>3, <2>5 DEF PlaceParameter, RankParameter
<1> QED
  BY <1>2, <1>3

-----------------------------------------------------------------------------
(***************************************************************************)
(* The parameters of a collection operation.                               *)
(***************************************************************************)
IsParameter(p) == p = [name |-> p.name, type |-> p.type, role |-> p.role,
                       required |-> p.required, max |-> p.max]

\* The parameters of an operation besides the id.
OperationList(params) ==
  /\ ParameterList(params)
  /\ \A k \in DOMAIN params : IsParameter(params[k]) /\ params[k].name # "id"

LEMMA ShortLists ==
  ASSUME NEW p, NEW q, NEW r, IsParameter(p), IsParameter(q), IsParameter(r),
         p.name # "id", q.name # "id", r.name # "id"
  PROVE  /\ OperationList(<<>>)
         /\ OperationList(<<p>>)
         /\ p.name # q.name => OperationList(<<p, q>>)
         /\ p.name # q.name /\ p.name # r.name /\ q.name # r.name =>
              OperationList(<<p, q, r>>)
<1>1. ParameterList(<<>>)
  BY DEF ParameterList, Range
<1>2. ParameterList(<<p>>)
  <2>1. <<p>> \in Seq(Range(<<p>>))
    BY DEF Range
  <2> QED
    BY <2>1 DEF ParameterList
<1>3. ASSUME p.name # q.name
      PROVE  ParameterList(<<p, q>>)
  <2>1. <<p, q>> \in Seq(Range(<<p, q>>))
    BY DEF Range
  <2> QED
    BY <2>1, <1>3 DEF ParameterList
<1>4. ASSUME p.name # q.name, p.name # r.name, q.name # r.name
      PROVE  ParameterList(<<p, q, r>>)
  <2>1. <<p, q, r>> \in Seq(Range(<<p, q, r>>))
    BY DEF Range
  <2> QED
    BY <2>1, <1>4 DEF ParameterList
<1> QED
  BY <1>1, <1>2, <1>3, <1>4 DEF OperationList

LEMMA ParametersMade ==
  ASSUME NEW name, NEW type, NEW role, NEW required
  PROVE  IsParameter(P(name, type, role, required)) /\ P(name, type, role, required).name = name
BY DEF IsParameter, P

LEMMA TemplatesListed ==
  ASSUME NEW kind \in CollectionKinds, NEW op \in DOMAIN Templates[kind]
  PROVE  OperationList(Templates[kind][op])
<1> DEFINE array1 == ElementArray(TRUE)
           array0 == ElementArray(FALSE)
           from1 == P("index_from", Text("int"), "index", TRUE)
           from0 == P("index_from", Text("int"), "index", FALSE)
           to1 == P("index_to", Text("int"), "index", TRUE)
           to0 == P("index_to", Text("int"), "index", FALSE)
           any == P("other", Text("unknown"), "other", TRUE)
           whole == P("other", <<"map", "<", "K", ",", "V", ">">>, "other", TRUE)
           valueV == P("value", Text("V"), "value", TRUE)
           t == Templates[kind][op]
<1>1. /\ IsParameter(Index) /\ Index.name = "index"
      /\ IsParameter(Key) /\ Key.name = "key"
      /\ IsParameter(Row) /\ Row.name = "row"
      /\ IsParameter(Column) /\ Column.name = "column"
      /\ IsParameter(Value) /\ Value.name = "value"
  BY DEF Index, Key, Row, Column, Value, P, IsParameter
<1>2. /\ IsParameter(array1) /\ array1.name = "array_id"
      /\ IsParameter(array0) /\ array0.name = "array_id"
      /\ IsParameter(from1) /\ from1.name = "index_from"
      /\ IsParameter(from0) /\ from0.name = "index_from"
      /\ IsParameter(to1) /\ to1.name = "index_to"
      /\ IsParameter(to0) /\ to0.name = "index_to"
      /\ IsParameter(any) /\ any.name = "other"
      /\ IsParameter(whole) /\ whole.name = "other"
      /\ IsParameter(valueV) /\ valueV.name = "value"
  BY DEF ElementArray, P, IsParameter
<1>3. CASE kind = "array"
  <2>1. /\ Templates["array"]["push"] = <<Value>>
        /\ Templates["array"]["includes"] = <<Value>>
        /\ Templates["array"]["set"] = <<Index, Value>>
        /\ Templates["array"]["get"] = <<Index>>
        /\ Templates["array"]["remove"] = <<Index>>
        /\ Templates["array"]["pop"] = <<>>
        /\ Templates["array"]["size"] = <<>>
        /\ Templates["array"]["copy"] = <<>>
        /\ Templates["array"]["clear"] = <<>>
        /\ Templates["array"]["concat"] = <<array1>>
        /\ Templates["array"]["slice"] = <<from1, to1>>
        /\ Templates["array"]["fill"] = <<Value, from0, to0>>
    BY DEF Templates
  <2>2. op \in {"push", "includes", "set", "get", "remove", "pop", "size",
              "copy", "clear", "concat", "slice", "fill"}
    BY <1>3 DEF Templates
  <2> HIDE DEF array1, array0, from1, from0, to1, to0, any, whole, valueV
  <2>3. /\ OperationList(<<Value>>)
        /\ OperationList(<<Index, Value>>)
        /\ OperationList(<<Index>>)
        /\ OperationList(<<>>)
        /\ OperationList(<<array1>>)
        /\ OperationList(<<from1, to1>>)
        /\ OperationList(<<Value, from0, to0>>)
    BY <1>1, <1>2, ShortLists
  <2> QED
    BY <1>3, <2>1, <2>2, <2>3
<1>4. CASE kind = "matrix"
  <2>1. /\ Templates["matrix"]["set"] = <<Row, Column, Value>>
        /\ Templates["matrix"]["get"] = <<Row, Column>>
        /\ Templates["matrix"]["rows"] = <<>>
        /\ Templates["matrix"]["row"] = <<Row>>
        /\ Templates["matrix"]["copy"] = <<>>
        /\ Templates["matrix"]["add_col"] = <<Column, array0>>
        /\ Templates["matrix"]["mult"] = <<any>>
    BY DEF Templates
  <2>2. op \in {"set", "get", "rows", "row", "copy", "add_col", "mult"}
    BY <1>4 DEF Templates
  <2> HIDE DEF array1, array0, from1, from0, to1, to0, any, whole, valueV
  <2>3. /\ OperationList(<<Row, Column, Value>>)
        /\ OperationList(<<Row, Column>>)
        /\ OperationList(<<>>)
        /\ OperationList(<<Row>>)
        /\ OperationList(<<Column, array0>>)
        /\ OperationList(<<any>>)
    BY <1>1, <1>2, ShortLists
  <2> QED
    BY <1>4, <2>1, <2>2, <2>3
<1>5. CASE kind = "map"
  <2>1. /\ Templates["map"]["put"] = <<Key, valueV>>
        /\ Templates["map"]["get"] = <<Key>>
        /\ Templates["map"]["put_all"] = <<whole>>
        /\ Templates["map"]["contains"] = <<Key>>
        /\ Templates["map"]["remove"] = <<Key>>
        /\ Templates["map"]["keys"] = <<>>
        /\ Templates["map"]["values"] = <<>>
        /\ Templates["map"]["copy"] = <<>>
        /\ Templates["map"]["clear"] = <<>>
    BY DEF Templates
  <2>2. op \in {"put", "get", "put_all", "contains", "remove", "keys",
              "values", "copy", "clear"}
    BY <1>5 DEF Templates
  <2> HIDE DEF array1, array0, from1, from0, to1, to0, any, whole, valueV
  <2>3. /\ OperationList(<<Key, valueV>>)
        /\ OperationList(<<Key>>)
        /\ OperationList(<<whole>>)
        /\ OperationList(<<>>)
    BY <1>1, <1>2, ShortLists
  <2> QED
    BY <1>5, <2>1, <2>2, <2>3
<1> QED
  BY <1>3, <1>4, <1>5 DEF CollectionKinds

LEMMA SameLength ==
  ASSUME NEW m \in Nat, NEW n \in Nat, 1..m = 1..n
  PROVE  m = n
<1>1. ~(m < n)
  <2> SUFFICES ASSUME m < n
               PROVE  FALSE
    OBVIOUS
  <2>1. n \in 1..n
    OBVIOUS
  <2>2. n \in 1..m
    BY <2>1
  <2> QED
    BY <2>2
<1>2. ~(n < m)
  <2> SUFFICES ASSUME n < m
               PROVE  FALSE
    OBVIOUS
  <2>1. m \in 1..m
    OBVIOUS
  <2>2. m \in 1..n
    BY <2>1
  <2> QED
    BY <2>2
<1> QED
  BY <1>1, <1>2

\* A list of parameters with other types.
Typed(t, types) == [k \in DOMAIN t |-> [t[k] EXCEPT !.type = types[k]]]

\* The list of an operation with other types, and with the id before it.
LEMMA ListTyped ==
  ASSUME NEW t, OperationList(t), NEW types
  PROVE  /\ OperationList(Typed(t, types))
         /\ DOMAIN Typed(t, types) = DOMAIN t /\ Len(Typed(t, types)) = Len(t)
         /\ \A k \in DOMAIN t :
              /\ Typed(t, types)[k].name = t[k].name
              /\ Typed(t, types)[k].role = t[k].role
              /\ Typed(t, types)[k].required = t[k].required
              /\ Typed(t, types)[k].max = t[k].max
              /\ Typed(t, types)[k].type = types[k]
<1> DEFINE p(k) == [t[k] EXCEPT !.type = types[k]]
           typed == [k \in DOMAIN t |-> p(k)]
<1>1. Len(t) \in Nat /\ DOMAIN t = 1..Len(t)
  BY DEF OperationList, ParameterList
<1>2. ASSUME NEW k \in DOMAIN t
      PROVE  /\ IsParameter(p(k))
             /\ p(k).name = t[k].name /\ p(k).role = t[k].role
             /\ p(k).required = t[k].required /\ p(k).max = t[k].max
             /\ p(k).type = types[k]
  <2>1. IsParameter(t[k])
    BY DEF OperationList
  <2> QED
    BY <2>1 DEF IsParameter
<1> HIDE DEF p
<1>3. /\ typed = [k \in 1..Len(t) |-> p(k)]
      /\ DOMAIN typed = 1..Len(t) /\ \A k \in 1..Len(t) : typed[k] = p(k)
  BY <1>1
<1> HIDE DEF typed
<1>4. typed \in Seq(Range(typed)) /\ Len(typed) = Len(t)
  <2>1. typed \in Seq(Range(typed))
    BY <1>1, <1>3 DEF Range
  <2>2. Len(typed) \in Nat /\ DOMAIN typed = 1..Len(typed)
    BY <2>1
  <2> QED
    BY <1>1, <1>3, <2>1, <2>2, SameLength
<1>5. OperationList(typed)
  BY <1>1, <1>2, <1>3, <1>4 DEF OperationList, ParameterList
<1>6. Typed(t, types) = typed
  BY DEF Typed, typed, p
<1> HIDE DEF typed
<1> QED
  BY <1>1, <1>2, <1>3, <1>4, <1>5, <1>6

LEMMA IdBefore ==
  ASSUME NEW specs, OperationList(specs), NEW type
  PROVE  LET id == P("id", type, "id", TRUE)
             longer == <<id>> \o specs
         IN /\ ParameterList(longer)
            /\ DOMAIN longer = 1..(Len(specs) + 1)
            /\ Len(specs) \in Nat /\ DOMAIN specs = 1..Len(specs)
            /\ longer[1] = id
            /\ \A k \in DOMAIN longer : k # 1 =>
                 k - 1 \in DOMAIN specs /\ longer[k] = specs[k - 1]
<1> DEFINE id == P("id", type, "id", TRUE)
           longer == <<id>> \o specs
           S == Range(specs) \cup {id}
<1>1. id.name = "id"
  BY ParametersMade
<1> HIDE DEF id
<1>2. specs \in Seq(S) /\ <<id>> \in Seq(S)
  <2>1. specs \in Seq(Range(specs))
    BY DEF OperationList, ParameterList
  <2> QED
    BY <2>1
<1>3. /\ longer \in Seq(S)
      /\ Len(longer) = Len(specs) + 1
      /\ \A k \in 1..Len(longer) :
           longer[k] = IF k = 1 THEN id ELSE specs[k - 1]
  <2> HIDE DEF S
  <2> QED
    BY <1>2
<1>4. longer \in Seq(Range(longer))
  BY <1>3, SeqOfRange
<1>5. Len(specs) \in Nat /\ DOMAIN specs = 1..Len(specs)
  BY <1>2
<1>6. DOMAIN longer = 1..Len(longer)
  BY <1>3
<1> HIDE DEF longer
<1>7. /\ Len(longer) = Len(specs) + 1 /\ longer[1] = id
      /\ \A k \in 1..Len(longer) : k # 1 =>
           k - 1 \in DOMAIN specs /\ longer[k] = specs[k - 1]
  BY <1>3, <1>5
<1>8. \A m \in DOMAIN specs : specs[m].name # "id"
  BY DEF OperationList
<1>9. ASSUME NEW j \in DOMAIN longer, NEW k \in DOMAIN longer,
             longer[j].name = longer[k].name
      PROVE  j = k
  <2>1. CASE j = 1 \/ k = 1
    BY <1>1, <1>6, <1>7, <1>8, <1>9, <2>1
  <2>2. CASE j # 1 /\ k # 1
    <3>1. /\ j - 1 \in DOMAIN specs /\ k - 1 \in DOMAIN specs
          /\ specs[j - 1].name = specs[k - 1].name
      BY <1>6, <1>7, <1>9, <2>2
    <3>2. j - 1 = k - 1
      BY <3>1 DEF OperationList, ParameterList
    <3>3. j \in Int /\ k \in Int
      BY <1>6
    <3> QED
      BY <3>2, <3>3
  <2> QED
    BY <2>1, <2>2
<1>10. ParameterList(longer)
  BY <1>4, <1>9 DEF ParameterList
<1> QED
  BY <1>5, <1>6, <1>7, <1>10 DEF longer, id

\* A specialization changes the types only.
LEMMA MethodListed ==
  ASSUME NEW r, NEW op
  PROVE  OperationList(MethodSpecs(r, op))
<1>1. CASE op \notin Operations(KindOf(r))
  <2>1. OperationList(<<>>)
    BY DEF OperationList, ParameterList, Range
  <2> QED
    BY <1>1, <2>1 DEF MethodSpecs
<1>2. CASE op \in Operations(KindOf(r))
  <2> DEFINE t == Templates[KindOf(r)][op]
             types == [k \in DOMAIN t |-> Substitute(t[k].type, Replacements(r))]
  <2>1. MethodSpecs(r, op) = Typed(t, types)
    BY <1>2 DEF MethodSpecs, Typed
  <2>2. OperationList(t)
    BY <1>2, TemplatesListed DEF Operations
  <2> HIDE DEF t, types
  <2> QED
    BY <2>1, <2>2, ListTyped
<1> QED
  BY <1>1, <1>2

LEMMA SpecsListed ==
  ASSUME NEW c
  PROVE  ParameterList(Specs(c))
<1> DEFINE receiver == Receiver(c)
           specs == MethodSpecs(receiver, c.op)
<1>1. OperationList(specs)
  BY MethodListed
<1>2. ParameterList(<<P("id", receiver, "id", TRUE)>> \o specs)
  <2> HIDE DEF specs
  <2> QED
    BY <1>1, IdBefore
<1> QED
  BY <1>1, <1>2 DEF Specs, OperationList

-----------------------------------------------------------------------------
(***************************************************************************)
(* Accepted calls: nothing is wrong with their names, for the list that    *)
(* they were judged by.                                                    *)
(***************************************************************************)
\* The structural issues that say so.
NamesRight(args, params) ==
  \A s \in Structural(args, params) : s[1] \notin {"both", "unknown", "missing"}

LEMMA RightNamesInOrder ==
  ASSUME NEW args, NEW params, NamesRight(args, params), OrderIssues(args) = {}
  PROVE  NamesInOrder(args, params)
<1> DEFINE structural == Structural(args, params)
<1>1. \A i : /\ <<"both", i>> \notin structural /\ <<"unknown", i>> \notin structural
             /\ <<"missing", i>> \notin structural
  BY DEF NamesRight
<1>2. /\ \A i \in Named(args) : args[i].name \notin PositionalNames(args, params)
      /\ \A i \in Named(args) : args[i].name \in NamesOf(params)
      /\ RequiredOf(params) \subseteq Supplied(args, params)
  BY <1>1, StructuralTags
<1>3. \A i : /\ i \notin Repeated(args)
             /\ ~(/\ i \in DOMAIN args \ Named(args)
                  /\ \E j \in 1..(i - 1) : j \in Named(args))
  <2>1. \A i : /\ <<"duplicate", i>> \notin OrderIssues(args)
               /\ <<"after_named", i>> \notin OrderIssues(args)
    OBVIOUS
  <2> QED
    BY <2>1, OrderTags
<1>4. /\ Repeated(args) = {}
      /\ \A i \in DOMAIN args \ Named(args) : \A j \in 1..(i - 1) : j \notin Named(args)
  BY <1>3
<1> QED
  BY <1>2, <1>4 DEF NamesInOrder

LEMMA CandidatesAreLists ==
  ASSUME NEW c, IsCall(c), c.callee = "builtin",
         NEW k \in 1..Len(CandidateEntries(c.entry))
  PROVE  ParameterList(CandidateEntries(c.entry)[k])
<1> DEFINE o == c.entry.overloads
           p == c.entry.params
           S == Range(o) \cup {p}
<1>1. ParameterList(p) /\ \A j \in DOMAIN o : ParameterList(o[j])
  BY DEF IsCall
<1>2. o \in Seq(S)
  <2>1. o \in Seq(Range(o))
    BY DEF IsCall
  <2> QED
    BY <2>1
<1> HIDE DEF o, p, S
<1>3. /\ Len(o) \in Nat /\ DOMAIN o = 1..Len(o)
      /\ Len(Append(o, p)) = Len(o) + 1
      /\ \A j \in 1..Len(o) : Append(o, p)[j] = o[j]
      /\ Append(o, p)[Len(o) + 1] = p
  <2>1. p \in S
    BY DEF S
  <2> QED
    BY <1>2, <2>1, AppendProperties
<1>4. k \in 1..Len(o) \/ k = Len(o) + 1
  BY <1>3 DEF CandidateEntries, o, p
<1>5. ParameterList(Append(o, p)[k])
  BY <1>1, <1>3, <1>4
<1> QED
  BY <1>5 DEF CandidateEntries, o, p

\* An entry without issues, unless all its parameters are inactive.
LEMMA EntryAccepts ==
  ASSUME NEW args, NEW params, NEW extra, EntryIssues(args, params, extra) = {},
         Active(params) # <<>>
  PROVE  NamesRight(args, Active(params))
<1> DEFINE active == Active(params)
           removed == RemovedIssues(args, params)
<1>1. /\ removed \subseteq EntryIssues(args, params, extra)
      /\ {s \in Structural(args, active) :
            /\ ~(s[1] = "count" /\ extra)
            /\ ~(s[1] = "unknown" /\ <<"removed", s[2]>> \in removed)}
           \subseteq EntryIssues(args, params, extra)
  BY DEF EntryIssues
<1>2. removed = {}
  BY <1>1
<1>3. \A s \in Structural(args, active) : s[1] = "count" /\ extra
  <2> HIDE DEF removed, active
  <2> QED
    BY <1>1, <1>2
<1> QED
  BY <1>3 DEF NamesRight

LEMMA AcceptedInOrder ==
  ASSUME ChoiceInv, Accepted, Judged # <<>>
  PROVE  /\ IsArguments(call.args)
         /\ ParameterList(Judged)
         /\ NamesInOrder(call.args, Judged)
<1>1. /\ IsCall(call) /\ IsArguments(call.args)
      /\ Found = {} /\ OrderIssues(call.args) = {}
      /\ call.callee = "builtin" => tried = Len(Candidates)
  BY DEF ChoiceInv, Accepted, Reports, IsCall
<1>2. CASE call.callee = "builtin"
  <2> DEFINE params == Candidates[best]
  <2>1. Judged = Active(params)
    BY <1>2 DEF Judged, Candidates
  <2>2. EntryIssues(call.args, params, call.entry.extra) = {}
    BY <1>1, <1>2 DEF Found
  <2>3. best \in 1..Len(Candidates)
    <3>1. Len(Candidates) \in Nat \ {0} /\ best \in 0..tried
      BY <1>1, <1>2, CandidatesListed DEF ChoiceInv, TypeOK, Candidates
    <3>2. best > 0
      BY <1>1, <1>2, <3>1 DEF ChoiceInv, BestSoFar
    <3> QED
      BY <1>1, <1>2, <3>1, <3>2
  <2>4. ParameterList(params)
    BY <1>1, <1>2, <2>3, CandidatesAreLists DEF Candidates
  <2> HIDE DEF params
  <2>5. ParameterList(Judged)
    BY <2>1, <2>4, ActiveListed
  <2>6. NamesRight(call.args, Judged)
    BY <2>1, <2>2, EntryAccepts
  <2> QED
    BY <1>1, <2>5, <2>6, RightNamesInOrder
<1>3. CASE call.callee \in {"function", "constructor"}
  <2>1. Judged = call.entry.params
    BY <1>3 DEF Judged
  <2>2. Structural(call.args, Judged) = {}
    BY <1>1, <1>3, <2>1
       DEF Found, DeclaredIssues, ParamCallIssues, ConstructorIssues
  <2>3. ParameterList(Judged)
    BY <1>1, <1>3, <2>1 DEF IsCall
  <2> QED
    BY <1>1, <2>2, <2>3, RightNamesInOrder DEF NamesRight
<1>4. CASE call.callee = "method"
  <2>1. ~call.collection /\ Judged = call.entry.params
    BY <1>4 DEF Judged
  <2>2. Structural(call.args, Judged) = {}
    <3>1. MethodIssues(call) = {}
      BY <1>1, <1>4 DEF Found, DeclaredIssues
    <3>2. ParamCallIssues(call.args, Judged) = {}
      BY <2>1, <3>1 DEF MethodIssues
    <3> QED
      BY <3>2 DEF ParamCallIssues
  <2>3. ParameterList(Judged)
    BY <1>1, <1>4, <2>1 DEF IsCall
  <2> QED
    BY <1>1, <2>2, <2>3, RightNamesInOrder DEF NamesRight
<1>5. CASE call.callee = "collection"
  <2>1. Resolves(call) /\ Judged = Specs(call)
    BY <1>5 DEF Judged
  <2>2. BindingIssues(call.args, Judged) = {}
    BY <1>1, <1>5, <2>1 DEF Found, DeclaredIssues, CollectionIssues
  <2>3. Structural(call.args, Judged) = {}
    BY <2>2 DEF BindingIssues
  <2>4. ParameterList(Judged)
    BY <2>1, SpecsListed
  <2> QED
    BY <1>1, <2>3, <2>4, RightNamesInOrder DEF NamesRight
<1> QED
  BY <1>1, <1>2, <1>3, <1>4, <1>5 DEF IsCall

LEMMA AcceptedBindOnce == ChoiceInv => AcceptedCallsBindOnce
BY AcceptedInOrder, BoundOnce DEF AcceptedCallsBindOnce

LEMMA AcceptedBindersAgree == ChoiceInv => BindersAgree
<1> SUFFICES ASSUME ChoiceInv, Accepted, Judged # <<>>
             PROVE  BindersAgree
  BY DEF BindersAgree
<1> DEFINE args == call.args
           binding == DeclaredBinding(args, Judged)
           names == StaticNames(args, Judged)
<1>1. /\ IsArguments(args) /\ ParameterList(Judged) /\ NamesInOrder(args, Judged)
  BY AcceptedInOrder
<1>2. \A i \in DOMAIN args :
        PlaceParameter(args, Judged, i) = RankParameter(args, Judged, i)
  BY <1>1, PlaceIsRank DEF NamesInOrder
<1>3. SpecBinding(args, Judged) = binding
  BY <1>2 DEF SpecBinding, DeclaredBinding
<1>4. ASSUME call.callee = "builtin"
      PROVE  BuiltinBinding(args, CandidateEntries(call.entry)[best]) = binding
  <2>1. Judged = Active(CandidateEntries(call.entry)[best])
    BY <1>4 DEF Judged
  <2> QED
    BY <1>2, <2>1 DEF BuiltinBinding, ResolvedParameter, DeclaredBinding
<1>5. ASSUME call.callee = "builtin", call.entry.overloads = <<>>
      PROVE  Judged = Active(call.entry.params)
  <2>1. CandidateEntries(call.entry) = <<call.entry.params>>
    BY <1>5 DEF CandidateEntries
  <2>2. tried = 1 /\ best \in 0..tried
    BY <1>5, <2>1 DEF ChoiceInv, Reports, Accepted, TypeOK, Candidates
  <2>3. best = 1
    BY <1>5, <2>2 DEF ChoiceInv, BestSoFar
  <2> QED
    BY <1>5, <2>1, <2>3 DEF Judged
<1>6. ASSUME NEW i \in DOMAIN args
      PROVE  names[i] = IF binding[i] = 0 THEN NoName ELSE Judged[binding[i]].name
  <2>1. binding[i] = RankParameter(args, Judged, i)
    BY DEF DeclaredBinding
  <2>2. CASE i \in Named(args)
    <3>1. names[i] = args[i].name
      BY <2>2 DEF StaticNames
    <3>2. binding[i] = ByName(Judged, args[i].name)
      BY <2>1, <2>2 DEF RankParameter
    <3>3. args[i].name \in NamesOf(Judged)
      BY <1>1, <2>2 DEF NamesInOrder
    <3>4. binding[i] \in DOMAIN Judged /\ Judged[binding[i]].name = args[i].name
      <4> HIDE DEF binding
      <4> QED
        BY <1>1, <3>2, <3>3, NameFindsParameter
    <3>5. binding[i] # 0
      BY <1>1, <3>4 DEF ParameterList
    <3> QED
      BY <3>1, <3>4, <3>5
  <2>3. CASE i \notin Named(args)
    BY <2>1, <2>3 DEF StaticNames
  <2> QED
    BY <2>2, <2>3
<1>7. ASSUME call.callee = "builtin", call.entry.overloads = <<>>
      PROVE  \A i \in DOMAIN args :
               StaticNames(args, Active(call.entry.params))[i] =
                 IF binding[i] = 0 THEN NoName ELSE Judged[binding[i]].name
  <2>1. Judged = Active(call.entry.params)
    BY <1>5, <1>7
  <2> HIDE DEF binding, args
  <2> QED
    BY <1>6, <2>1
<1> HIDE DEF binding
<1> QED
  BY <1>3, <1>4, <1>7 DEF BindersAgree, binding

\* For any callables, parameters with distinct names and arguments, a call
\* that is accepted gives every required parameter one argument and no
\* parameter two, though each loop leaves repeated or misplaced names to
\* others (SignatureResolver._bind_entry, _validate_param_call).
THEOREM AcceptedCallsAreBoundOnce == Spec => []AcceptedCallsBindOnce
BY Initially, EveryStep, AcceptedBindOnce, PTL DEF Spec

\* For any callables, parameters with distinct names and arguments, the
\* binders that count positions among all the arguments and those that count
\* them among the positional ones agree on an accepted call (facts.py:522,
\* helpers.py:312, static_validation.py:237).
THEOREM BindersOfAcceptedCallsAgree == Spec => []BindersAgree
BY Initially, EveryStep, AcceptedBindersAgree, PTL DEF Spec

-----------------------------------------------------------------------------
(***************************************************************************)
(* Sequences joined: FlattenSeq adds one sequence after the other.         *)
(***************************************************************************)

\* Induction over the sequences of a set, for the sets of sequences.
LEMMA AllSequences ==
  ASSUME NEW S, NEW G, <<>> \in G,
         \A s \in Seq(S), e \in S : s \in G => Append(s, e) \in G
  PROVE  Seq(S) \subseteq G
<1> DEFINE Lost(n) == \E s \in Seq(S) : Len(s) = n /\ s \notin G
           L == {n \in Nat : Lost(n)}
<1>1. SUFFICES ASSUME L # {}
               PROVE  FALSE
  <2>1. \A s \in Seq(S) : Len(s) \in Nat
    OBVIOUS
  <2> QED
    BY <2>1
<1>2. PICK n \in L : \A m \in L : ~(<<m, n>> \in OpToRel(<, Nat))
  <2>1. L \in SUBSET Nat
    OBVIOUS
  <2> HIDE DEF L
  <2> QED
    BY <1>1, <2>1, WFMin, NatLessThanWellFounded
<1>3. \A m \in L : ~(m < n)
  BY <1>2 DEF OpToRel
<1>4. PICK s \in Seq(S) : Len(s) = n /\ s \notin G
  OBVIOUS
<1>5. s # <<>>
  BY <1>4
<1>6. PICK t \in Seq(S), e \in S : s = Append(t, e)
  BY <1>5, SequenceEmptyOrAppend
<1>7. Len(t) \in Nat /\ Len(t) < n
  BY <1>4, <1>6, AppendProperties
<1>8. t \notin G
  BY <1>4, <1>6
<1> QED
  BY <1>3, <1>7, <1>8

\* What FlattenSeq chooses.
Flattens(f, seqs) ==
  f = [i \in 1..Len(seqs) |-> IF i = 1 THEN seqs[i] ELSE f[i - 1] \o seqs[i]]

LEMMA FlattenChooses ==
  ASSUME NEW seqs, Len(seqs) # 0, NEW g, Flattens(g, seqs)
  PROVE  \E f : Flattens(f, seqs) /\ FlattenSeq(seqs) = f[Len(seqs)]
<1>1. FlattenSeq(seqs) = (CHOOSE f : Flattens(f, seqs))[Len(seqs)]
  BY DEF FlattenSeq, Flattens
<1>2. Flattens(CHOOSE f : Flattens(f, seqs), seqs)
  OBVIOUS
<1> QED
  BY <1>1, <1>2

\* It is determined, and a sequence more adds its elements.
LEMMA FlattensOnce ==
  ASSUME NEW U, NEW seqs \in Seq(Seq(U)), NEW x \in Seq(U), NEW f, NEW g,
         Flattens(f, seqs), Flattens(g, Append(seqs, x))
  PROVE  \A i \in 1..Len(seqs) : f[i] = g[i]
<1> DEFINE longer == Append(seqs, x)
           L == {i \in Nat : i \in 1..Len(seqs) /\ f[i] # g[i]}
<1>0. /\ Len(seqs) \in Nat /\ Len(longer) = Len(seqs) + 1
      /\ \A i \in 1..Len(seqs) : longer[i] = seqs[i]
  BY AppendProperties
<1> HIDE DEF longer
<1>1. SUFFICES ASSUME L # {}
               PROVE  FALSE
  BY <1>0
<1>2. PICK n \in L : \A m \in L : ~(<<m, n>> \in OpToRel(<, Nat))
  <2>1. L \in SUBSET Nat
    OBVIOUS
  <2> HIDE DEF L
  <2> QED
    BY <1>1, <2>1, WFMin, NatLessThanWellFounded
<1>3. \A m \in L : ~(m < n)
  BY <1>2 DEF OpToRel
<1>4. /\ n \in 1..Len(seqs) /\ n \in 1..Len(longer)
      /\ f[n] = IF n = 1 THEN seqs[n] ELSE f[n - 1] \o seqs[n]
      /\ g[n] = IF n = 1 THEN longer[n] ELSE g[n - 1] \o longer[n]
  <2>1. n \in 1..Len(seqs) /\ n \in 1..Len(longer)
    BY <1>0
  <2>2. f = [i \in 1..Len(seqs) |-> IF i = 1 THEN seqs[i] ELSE f[i - 1] \o seqs[i]]
    BY DEF Flattens
  <2>3. g = [i \in 1..Len(longer) |-> IF i = 1 THEN longer[i] ELSE g[i - 1] \o longer[i]]
    BY DEF Flattens, longer
  <2>4. f[n] = [i \in 1..Len(seqs) |-> IF i = 1 THEN seqs[i] ELSE f[i - 1] \o seqs[i]][n]
    BY <2>2
  <2>5. g[n] = [i \in 1..Len(longer) |->
                  IF i = 1 THEN longer[i] ELSE g[i - 1] \o longer[i]][n]
    BY <2>3
  <2> QED
    BY <2>1, <2>4, <2>5
<1>5. n # 1 /\ f[n - 1] # g[n - 1]
  BY <1>0, <1>4
<1>6. n - 1 \in L /\ n - 1 < n
  BY <1>0, <1>4, <1>5
<1> QED
  BY <1>3, <1>6

LEMMA FlattenExtends ==
  ASSUME NEW U, NEW seqs \in Seq(Seq(U)), NEW x \in Seq(U), NEW f,
         seqs # <<>>, Flattens(f, seqs)
  PROVE  \E g : Flattens(g, Append(seqs, x))
<1> DEFINE n == Len(seqs)
           longer == Append(seqs, x)
           g == [i \in 1..(n + 1) |-> IF i = n + 1 THEN f[n] \o x ELSE f[i]]
<1>1. /\ n \in Nat /\ n # 0 /\ Len(longer) = n + 1 /\ longer[n + 1] = x
      /\ \A i \in 1..n : longer[i] = seqs[i]
  BY AppendProperties, EmptySeq
<1> HIDE DEF longer, n
<1>2. f = [i \in 1..n |-> IF i = 1 THEN seqs[i] ELSE f[i - 1] \o seqs[i]]
  BY DEF Flattens, n
<1>3. \A i \in 1..n : f[i] = IF i = 1 THEN seqs[i] ELSE f[i - 1] \o seqs[i]
  <2> TAKE i \in 1..n
  <2>1. f[i] = [k \in 1..n |-> IF k = 1 THEN seqs[k] ELSE f[k - 1] \o seqs[k]][i]
    BY <1>2
  <2> QED
    BY <2>1
<1>4. ASSUME NEW i \in 1..(n + 1)
      PROVE  g[i] = IF i = 1 THEN longer[i] ELSE g[i - 1] \o longer[i]
  <2>1. CASE i = n + 1
    <3>1. i # 1 /\ i - 1 = n /\ n \in 1..(n + 1) /\ n # n + 1
      BY <1>1, <2>1
    <3>2. g[i] = f[n] \o x /\ g[i - 1] = f[n]
      BY <3>1, <2>1
    <3> QED
      BY <1>1, <2>1, <3>1, <3>2
  <2>2. CASE i # n + 1 /\ i = 1
    BY <1>1, <1>3, <2>2
  <2>3. CASE i # n + 1 /\ i # 1
    <3>1. i \in 1..n /\ i - 1 \in 1..n /\ i - 1 # n + 1
      BY <1>1, <2>3
    <3>2. g[i] = f[i] /\ g[i - 1] = f[i - 1] /\ longer[i] = seqs[i]
      BY <1>1, <3>1, <2>3
    <3>3. f[i] = f[i - 1] \o seqs[i]
      BY <1>3, <3>1, <2>3
    <3> QED
      BY <3>2, <3>3, <2>3
  <2> QED
    BY <2>1, <2>2, <2>3
<1>5. g = [i \in 1..(n + 1) |-> g[i]]
  OBVIOUS
<1> HIDE DEF g
<1>6. g = [i \in 1..(n + 1) |-> IF i = 1 THEN longer[i] ELSE g[i - 1] \o longer[i]]
  BY <1>4, <1>5
<1>7. Flattens(g, longer)
  BY <1>1, <1>6 DEF Flattens
<1> QED
  BY <1>7 DEF longer

LEMMA FlattensExist ==
  ASSUME NEW U, NEW seqs \in Seq(Seq(U)), seqs # <<>>
  PROVE  \E g : Flattens(g, seqs)
<1> DEFINE G == {s \in Seq(Seq(U)) : s = <<>> \/ \E g : Flattens(g, s)}
<1>1. <<>> \in G
  OBVIOUS
<1>2. ASSUME NEW s \in Seq(Seq(U)), NEW x \in Seq(U), s \in G
      PROVE  Append(s, x) \in G
  <2>1. CASE s = <<>>
    <3> DEFINE one == Append(<<>>, x)
               g == [i \in 1..1 |-> x]
    <3>1. Len(one) = 1 /\ one[1] = x
      OBVIOUS
    <3>2. \A i \in 1..1 : i = 1
      OBVIOUS
    <3>3. g = [i \in 1..1 |-> IF i = 1 THEN one[i] ELSE g[i - 1] \o one[i]]
      <4> HIDE DEF one
      <4> QED
        BY <3>1, <3>2
    <3> HIDE DEF one, g
    <3>4. Flattens(g, one)
      BY <3>1, <3>3 DEF Flattens
    <3> QED
      BY <3>4, <2>1 DEF one
  <2>2. CASE s # <<>>
    <3>1. PICK f : Flattens(f, s)
      BY <1>2, <2>2
    <3>2. \E g : Flattens(g, Append(s, x))
      BY <2>2, <3>1, FlattenExtends
    <3> QED
      BY <3>2
  <2> QED
    BY <2>1, <2>2
<1> HIDE DEF G
<1>3. Seq(Seq(U)) \subseteq G
  BY <1>1, <1>2, AllSequences
<1> QED
  BY <1>3 DEF G

LEMMA FlattenAdds ==
  ASSUME NEW U, NEW seqs \in Seq(Seq(U)), NEW x \in Seq(U)
  PROVE  FlattenSeq(Append(seqs, x)) = FlattenSeq(seqs) \o x
<1> DEFINE n == Len(seqs)
           longer == Append(seqs, x)
<1>1. /\ n \in Nat /\ Len(longer) = n + 1 /\ longer[n + 1] = x
      /\ \A i \in 1..n : longer[i] = seqs[i]
      /\ longer \in Seq(Seq(U)) /\ longer # <<>>
      /\ n = 0 <=> seqs = <<>>
  BY AppendProperties, EmptySeq
<1>2. PICK g : Flattens(g, longer) /\ FlattenSeq(longer) = g[n + 1]
  <2> HIDE DEF longer
  <2>1. PICK g : Flattens(g, longer)
    BY <1>1, FlattensExist
  <2> QED
    BY <1>1, <2>1, FlattenChooses
<1>3. g[n + 1] = IF n + 1 = 1 THEN longer[n + 1] ELSE g[n] \o longer[n + 1]
  <2>1. g = [i \in 1..(n + 1) |-> IF i = 1 THEN longer[i] ELSE g[i - 1] \o longer[i]]
    BY <1>1, <1>2 DEF Flattens
  <2>2. g[n + 1] = [i \in 1..(n + 1) |->
                      IF i = 1 THEN longer[i] ELSE g[i - 1] \o longer[i]][n + 1]
    BY <2>1
  <2> HIDE DEF longer, n
  <2>3. n + 1 \in 1..(n + 1) /\ (n + 1) - 1 = n
    BY <1>1
  <2> QED
    BY <2>2, <2>3
<1>4. CASE seqs = <<>>
  <2>1. FlattenSeq(seqs) = <<>>
    BY <1>4 DEF FlattenSeq
  <2>2. FlattenSeq(longer) = x
    BY <1>1, <1>2, <1>3, <1>4
  <2>3. <<>> \o x = x
    BY ConcatEmptySeq
  <2> QED
    BY <2>1, <2>2, <2>3
<1>5. CASE seqs # <<>>
  <2>1. PICK f : Flattens(f, seqs) /\ FlattenSeq(seqs) = f[n]
    <3>1. PICK f : Flattens(f, seqs)
      BY <1>5, FlattensExist
    <3> QED
      BY <1>1, <1>5, <3>1, FlattenChooses
  <2>2. f[n] = g[n]
    <3>1. n \in 1..n
      BY <1>1, <1>5
    <3> QED
      BY <1>2, <2>1, <3>1, FlattensOnce
  <2> QED
    BY <1>1, <1>2, <1>3, <1>5, <2>1, <2>2
<1> QED
  BY <1>4, <1>5

-----------------------------------------------------------------------------
(***************************************************************************)
(* Texts spelled with other texts in place of their pieces.                *)
(***************************************************************************)

Spelled(text, spelling) == FlattenSeq([i \in DOMAIN text |-> spelling[text[i]]])

Spells(w, S, U) == w \in [S -> Seq(U)]

\* One spelling is that of two after another; one leaves some pieces alone.
Composes(both, w, v, S) == \A x \in S : both[x] = Spelled(w[x], v)

Leaves(w, Q, S, U) == Q \subseteq S /\ Q \subseteq U /\ \A x \in Q : w[x] = <<x>>

LEMMA NothingSpelled ==
  ASSUME NEW S, NEW w
  PROVE  Spelled(<<>>, w) = <<>> /\ <<>> \in Seq(S)
BY DEF Spelled, FlattenSeq

LEMMA SpellsPieces ==
  ASSUME NEW S, NEW U, NEW w, Spells(w, S, U)
  PROVE  \A x \in S : w[x] \in Seq(U)
BY DEF Spells

LEMMA Spelling ==
  ASSUME NEW S, NEW U, NEW w, Spells(w, S, U), NEW t \in Seq(S), NEW x \in S
  PROVE  /\ Append(t, x) \in Seq(S)
         /\ Spelled(Append(t, x), w) = Spelled(t, w) \o w[x]
<1> DEFINE seqs == [i \in DOMAIN t |-> w[t[i]]]
           longer == Append(t, x)
           more == [i \in DOMAIN longer |-> w[longer[i]]]
<1>2. /\ Len(t) \in Nat /\ DOMAIN t = 1..Len(t) /\ \A i \in 1..Len(t) : t[i] \in S
      /\ longer \in Seq(S) /\ Len(longer) = Len(t) + 1 /\ longer[Len(t) + 1] = x
      /\ DOMAIN longer = 1..(Len(t) + 1)
      /\ \A i \in 1..Len(t) : longer[i] = t[i]
  BY AppendProperties
<1> HIDE DEF longer
<1>3. /\ seqs \in Seq(Seq(U)) /\ Len(seqs) = Len(t)
      /\ \A i \in 1..Len(t) : seqs[i] = w[t[i]]
  BY <1>2, SpellsPieces
<1>4. /\ more \in Seq(Seq(U)) /\ Len(more) = Len(t) + 1
      /\ \A i \in 1..(Len(t) + 1) : more[i] = w[longer[i]]
  <2>1. \A i \in 1..(Len(t) + 1) : longer[i] \in S
    BY <1>2
  <2> QED
    BY <1>2, <2>1, SpellsPieces
<1> HIDE DEF seqs, more
<1>5. w[x] \in Seq(U)
  BY SpellsPieces
<1>6. more = Append(seqs, w[x])
  <2>1. /\ Append(seqs, w[x]) \in Seq(Seq(U)) /\ Len(Append(seqs, w[x])) = Len(t) + 1
        /\ \A i \in 1..Len(t) : Append(seqs, w[x])[i] = seqs[i]
        /\ Append(seqs, w[x])[Len(t) + 1] = w[x]
    BY <1>3, <1>5, AppendProperties
  <2>2. \A i \in 1..(Len(t) + 1) : i \in 1..Len(t) \/ i = Len(t) + 1
    BY <1>2
  <2>3. \A i \in 1..(Len(t) + 1) : more[i] = Append(seqs, w[x])[i]
    BY <1>2, <1>3, <1>4, <2>1, <2>2
  <2> QED
    BY <1>4, <2>1, <2>3, SeqEqual
<1>7. FlattenSeq(more) = FlattenSeq(seqs) \o w[x]
  BY <1>3, <1>5, <1>6, FlattenAdds
<1> QED
  BY <1>2, <1>7 DEF Spelled, seqs, more, longer

LEMMA SpellingOn ==
  ASSUME NEW S, NEW U, NEW w, Spells(w, S, U)
  PROVE  \A s \in Seq(S), y \in S :
           Append(s, y) \in Seq(S) /\ Spelled(Append(s, y), w) = Spelled(s, w) \o w[y]
BY Spelling

LEMMA SpelledOf ==
  ASSUME NEW S, NEW U, NEW w, Spells(w, S, U)
  PROVE  /\ \A t \in Seq(S) : Spelled(t, w) \in Seq(U)
         /\ \A x \in S : Spelled(<<x>>, w) = w[x]
<1> DEFINE G == {t \in Seq(S) : Spelled(t, w) \in Seq(U)}
<1>0. \A s \in Seq(S), y \in S :
        Append(s, y) \in Seq(S) /\ Spelled(Append(s, y), w) = Spelled(s, w) \o w[y]
  BY SpellingOn
<1>1. <<>> \in G
  BY NothingSpelled
<1>2. ASSUME NEW t \in Seq(S), NEW x \in S, t \in G
      PROVE  Append(t, x) \in G
  <2>1. Append(t, x) \in Seq(S) /\ Spelled(Append(t, x), w) = Spelled(t, w) \o w[x]
    BY <1>0
  <2>2. Spelled(t, w) \in Seq(U) /\ w[x] \in Seq(U)
    BY <1>2, SpellsPieces
  <2>3. Spelled(t, w) \o w[x] \in Seq(U)
    BY <2>2, ConcatProperties
  <2> QED
    BY <2>1, <2>3
<1> HIDE DEF G
<1>3. Seq(S) \subseteq G
  BY <1>1, <1>2, AllSequences
<1>4. ASSUME NEW x \in S
      PROVE  Spelled(<<x>>, w) = w[x]
  <2>1. Append(<<>>, x) = <<x>> /\ <<>> \in Seq(S)
    OBVIOUS
  <2>2. Spelled(Append(<<>>, x), w) = Spelled(<<>>, w) \o w[x]
    BY <1>0, <2>1
  <2>3. w[x] \in Seq(U)
    BY SpellsPieces
  <2> QED
    BY <2>1, <2>2, <2>3, NothingSpelled, ConcatEmptySeq
<1> QED
  BY <1>3, <1>4 DEF G

\* Two spellings one after the other are one.
LEMMA SpelledJoin ==
  ASSUME NEW S, NEW U, NEW w, Spells(w, S, U), NEW a \in Seq(S)
  PROVE  \A b \in Seq(S) : Spelled(a \o b, w) = Spelled(a, w) \o Spelled(b, w)
<1> DEFINE G == {b \in Seq(S) : Spelled(a \o b, w) = Spelled(a, w) \o Spelled(b, w)}
<1>0. Spelled(a, w) \in Seq(U)
  BY SpelledOf
<1>4. \A s \in Seq(S), y \in S :
        Append(s, y) \in Seq(S) /\ Spelled(Append(s, y), w) = Spelled(s, w) \o w[y]
  BY SpellingOn
<1>1. <<>> \in G
  <2>1. Spelled(<<>>, w) = <<>> /\ <<>> \in Seq(S)
    BY NothingSpelled
  <2>2. a \o <<>> = a /\ Spelled(a, w) \o <<>> = Spelled(a, w)
    BY <1>0, ConcatEmptySeq
  <2> QED
    BY <2>1, <2>2
<1>2. ASSUME NEW b \in Seq(S), NEW x \in S, b \in G
      PROVE  Append(b, x) \in G
  <2>1. a \o Append(b, x) = Append(a \o b, x) /\ a \o b \in Seq(S)
    <3>1. <<x>> \in Seq(S) /\ a \o b \in Seq(S)
      BY ConcatProperties
    <3>2. Append(b, x) = b \o <<x>> /\ Append(a \o b, x) = (a \o b) \o <<x>>
      BY <3>1, AppendIsConcat
    <3>3. (a \o b) \o <<x>> = a \o (b \o <<x>>)
      BY <3>1, ConcatAssociative
    <3> QED
      BY <3>1, <3>2, <3>3
  <2>2. Spelled(Append(a \o b, x), w) = Spelled(a \o b, w) \o w[x]
    BY <1>4, <2>1
  <2>3. Append(b, x) \in Seq(S) /\ Spelled(Append(b, x), w) = Spelled(b, w) \o w[x]
    BY Spelling
  <2>4. Spelled(b, w) \in Seq(U) /\ w[x] \in Seq(U)
    BY SpelledOf, SpellsPieces
  <2>5. (Spelled(a, w) \o Spelled(b, w)) \o w[x] = Spelled(a, w) \o (Spelled(b, w) \o w[x])
    <3>1. \A p, q, z \in Seq(U) : (p \o q) \o z = p \o (q \o z)
      BY ConcatAssociative
    <3> QED
      BY <1>0, <2>4, <3>1
  <2> QED
    BY <1>2, <2>1, <2>2, <2>3, <2>5
<1> HIDE DEF G
<1>3. Seq(S) \subseteq G
  BY <1>1, <1>2, AllSequences
<1> QED
  BY <1>3 DEF G

LEMMA SpelledTwice ==
  ASSUME NEW S, NEW U, NEW V, NEW w, Spells(w, S, U), NEW v, Spells(v, U, V),
         NEW both, Spells(both, S, V), Composes(both, w, v, S)
  PROVE  \A t \in Seq(S) : Spelled(Spelled(t, w), v) = Spelled(t, both)
<1> DEFINE G == {t \in Seq(S) : Spelled(Spelled(t, w), v) = Spelled(t, both)}
<1>4. \A s \in Seq(S), y \in S :
        Append(s, y) \in Seq(S) /\ Spelled(Append(s, y), w) = Spelled(s, w) \o w[y]
  BY SpellingOn
<1>5. \A s \in Seq(S), y \in S :
        Append(s, y) \in Seq(S) /\ Spelled(Append(s, y), both) = Spelled(s, both) \o both[y]
  BY SpellingOn
<1>1. <<>> \in G
  BY NothingSpelled
<1>2. ASSUME NEW t \in Seq(S), NEW x \in S, t \in G
      PROVE  Append(t, x) \in G
  <2>1. /\ Append(t, x) \in Seq(S)
        /\ Spelled(Append(t, x), w) = Spelled(t, w) \o w[x]
        /\ Spelled(Append(t, x), both) = Spelled(t, both) \o both[x]
    BY <1>4, <1>5
  <2>2. Spelled(t, w) \in Seq(U) /\ w[x] \in Seq(U)
    BY SpelledOf, SpellsPieces
  <2>3. Spelled(Spelled(t, w) \o w[x], v) = Spelled(Spelled(t, w), v) \o Spelled(w[x], v)
    <3>1. \A a, b \in Seq(U) : Spelled(a \o b, v) = Spelled(a, v) \o Spelled(b, v)
      BY SpelledJoin
    <3> QED
      BY <2>2, <3>1
  <2> QED
    BY <1>2, <2>1, <2>3 DEF Composes
<1> HIDE DEF G
<1>3. Seq(S) \subseteq G
  BY <1>1, <1>2, AllSequences
<1> QED
  BY <1>3 DEF G

\* A text that has none of the pieces that are spelled otherwise stays.
LEMMA SpelledSame ==
  ASSUME NEW S, NEW U, NEW w, Spells(w, S, U), NEW Q, Leaves(w, Q, S, U)
  PROVE  \A t \in Seq(Q) : Spelled(t, w) = t
<1> DEFINE G == {t \in Seq(Q) : Spelled(t, w) = t}
<1>1. <<>> \in G
  BY NothingSpelled
<1>2. ASSUME NEW t \in Seq(Q), NEW x \in Q, t \in G
      PROVE  Append(t, x) \in G
  <2>1. t \in Seq(S) /\ x \in S
    BY SeqMonotonic DEF Leaves
  <2>2. Spelled(Append(t, x), w) = Spelled(t, w) \o w[x]
    BY <2>1, Spelling
  <2>3. Append(t, x) = t \o <<x>>
    BY AppendIsConcat
  <2>4. Append(t, x) \in Seq(Q)
    BY AppendProperties
  <2> QED
    BY <1>2, <2>2, <2>3, <2>4 DEF Leaves
<1> HIDE DEF G
<1>3. Seq(Q) \subseteq G
  BY <1>1, <1>2, AllSequences
<1> QED
  BY <1>3 DEF G

-----------------------------------------------------------------------------
(***************************************************************************)
(* The letters of a template: replaced one after the other they come to    *)
(* what they stand for, if none of them is in what is put in.              *)
(***************************************************************************)

\* What stands for the types of a receiver in the types of a template.
TemplateLetters == {"K", "V", "T"}

\* The spelling that puts a text in place of one letter.
OneLetter(U, letter, by) == [x \in U |-> IF x = letter THEN by ELSE <<x>>]

\* The spelling that puts texts in place of all three at once.
AllLetters(U, by) ==
  [x \in U |-> IF x = "K" THEN by.K ELSE IF x = "V" THEN by.V
               ELSE IF x = "T" THEN by.T ELSE <<x>>]

LEMMA OneLetterSpelled ==
  ASSUME NEW U, NEW letter, NEW by \in Seq(U)
  PROVE  /\ Spells(OneLetter(U, letter, by), U, U)
         /\ \A t \in Seq(U) :
              /\ ReplaceLetter(t, letter, by) = Spelled(t, OneLetter(U, letter, by))
              /\ ReplaceLetter(t, letter, by) \in Seq(U)
<1> DEFINE w == OneLetter(U, letter, by)
<1>1. Spells(w, U, U) /\ \A x \in U : w[x] = IF x = letter THEN by ELSE <<x>>
  BY DEF OneLetter, Spells
<1> HIDE DEF w
<1>2. ASSUME NEW t \in Seq(U)
      PROVE  ReplaceLetter(t, letter, by) = Spelled(t, w)
  <2>1. \A i \in DOMAIN t : t[i] \in U
    OBVIOUS
  <2>2. \A i \in DOMAIN t : w[t[i]] = IF t[i] = letter THEN by ELSE <<t[i]>>
    BY <1>1, <2>1
  <2>3. [i \in DOMAIN t |-> w[t[i]]] =
          [i \in DOMAIN t |-> IF t[i] = letter THEN by ELSE <<t[i]>>]
    BY <2>2
  <2> QED
    BY <2>3 DEF ReplaceLetter, Spelled
<1>3. \A t \in Seq(U) : Spelled(t, w) \in Seq(U)
  BY <1>1, SpelledOf
<1> QED
  BY <1>1, <1>2, <1>3 DEF w

\* One letter after the other comes to the same as all at once, if what is put
\* in has none of them.
LEMMA SubstituteAtOnce ==
  ASSUME NEW U, NEW Q, Q \subseteq U \ TemplateLetters, NEW by,
         by.K \in Seq(Q), by.V \in Seq(Q), by.T \in Seq(Q)
  PROVE  /\ Spells(AllLetters(U, by), U, U)
         /\ \A t \in Seq(U) : Substitute(t, by) = Spelled(t, AllLetters(U, by))
<1> DEFINE wK == OneLetter(U, "K", by.K)
           wV == OneLetter(U, "V", by.V)
           wT == OneLetter(U, "T", by.T)
           two == [x \in U |-> IF x = "K" THEN by.K ELSE IF x = "V" THEN by.V ELSE <<x>>]
           all == AllLetters(U, by)
<1>1. by.K \in Seq(U) /\ by.V \in Seq(U) /\ by.T \in Seq(U) /\ Q \subseteq U
  <2>1. Q \subseteq U
    OBVIOUS
  <2> QED
    BY <2>1, SeqMonotonic
<1>2. /\ Spells(wK, U, U)
      /\ \A t \in Seq(U) : /\ ReplaceLetter(t, "K", by.K) = Spelled(t, wK)
                           /\ ReplaceLetter(t, "K", by.K) \in Seq(U)
  BY <1>1, OneLetterSpelled
<1>3. /\ Spells(wV, U, U)
      /\ \A t \in Seq(U) : /\ ReplaceLetter(t, "V", by.V) = Spelled(t, wV)
                           /\ ReplaceLetter(t, "V", by.V) \in Seq(U)
  BY <1>1, OneLetterSpelled
<1>4. /\ Spells(wT, U, U)
      /\ \A t \in Seq(U) : ReplaceLetter(t, "T", by.T) = Spelled(t, wT)
  BY <1>1, OneLetterSpelled
<1>5. /\ \A x \in U : wK[x] = IF x = "K" THEN by.K ELSE <<x>>
      /\ \A x \in U : wV[x] = IF x = "V" THEN by.V ELSE <<x>>
      /\ \A x \in U : wT[x] = IF x = "T" THEN by.T ELSE <<x>>
  BY DEF OneLetter
<1> HIDE DEF wK, wV, wT
<1>6. /\ Spells(two, U, U) /\ Spells(all, U, U)
      /\ \A x \in U : two[x] = IF x = "K" THEN by.K ELSE IF x = "V" THEN by.V ELSE <<x>>
      /\ \A x \in U : all[x] = IF x = "K" THEN by.K ELSE IF x = "V" THEN by.V
                               ELSE IF x = "T" THEN by.T ELSE <<x>>
  BY <1>1 DEF AllLetters, Spells
<1> HIDE DEF two, all
<1>7. /\ \A t \in Seq(Q) : Spelled(t, wV) = t
      /\ \A t \in Seq(Q) : Spelled(t, wT) = t
  <2>1. Leaves(wV, Q, U, U) /\ Leaves(wT, Q, U, U)
    BY <1>1, <1>5 DEF TemplateLetters, Leaves
  <2> QED
    BY <1>3, <1>4, <2>1, SpelledSame
<1>8. /\ \A x \in U : Spelled(<<x>>, wV) = wV[x]
      /\ \A x \in U : Spelled(<<x>>, wT) = wT[x]
  BY <1>3, <1>4, SpelledOf
<1>9. \A t \in Seq(U) : Spelled(Spelled(t, wK), wV) = Spelled(t, two)
  <2>1. Composes(two, wK, wV, U)
    BY <1>5, <1>6, <1>7, <1>8 DEF Composes
  <2> QED
    BY <1>2, <1>3, <1>6, <2>1, SpelledTwice
<1>10. \A t \in Seq(U) : Spelled(Spelled(t, two), wT) = Spelled(t, all)
  <2>1. Composes(all, two, wT, U)
    BY <1>5, <1>6, <1>7, <1>8 DEF Composes
  <2> QED
    BY <1>4, <1>6, <2>1, SpelledTwice
<1>11. ASSUME NEW t \in Seq(U)
       PROVE  Substitute(t, by) = Spelled(t, all)
  <2>1. ReplaceLetter(t, "K", by.K) = Spelled(t, wK) /\ Spelled(t, wK) \in Seq(U)
    BY <1>2
  <2>2. /\ ReplaceLetter(Spelled(t, wK), "V", by.V) = Spelled(t, two)
        /\ Spelled(t, two) \in Seq(U)
    BY <1>3, <1>9, <2>1
  <2>3. ReplaceLetter(Spelled(t, two), "T", by.T) = Spelled(t, all)
    BY <1>4, <1>10, <2>2
  <2> QED
    BY <2>1, <2>2, <2>3 DEF Substitute
<1> QED
  BY <1>6, <1>11 DEF all

\* The arguments of a generic type are texts of its pieces.
LEMMA GenericArgsOf ==
  ASSUME NEW R, NEW r \in Seq(R)
  PROVE  /\ Len(GenericArgs(r)) \in 0..2
         /\ GenericArgs(r) # <<>> <=> Len(GenericArgs(r)) # 0
         /\ \A k \in 1..Len(GenericArgs(r)) : GenericArgs(r)[k] \in Seq(R)
<1> DEFINE inner == SubSeq(r, 3, Len(r) - 1)
           commas == {i \in DOMAIN inner : inner[i] = ","}
           c == CHOOSE i \in commas : TRUE
<1>1. Len(r) \in Nat /\ \A i \in 1..Len(r) : r[i] \in R
  OBVIOUS
<1>2. inner \in Seq(R)
  <2>1. \A i \in 3..(Len(r) - 1) : r[i] \in R
    BY <1>1
  <2> HIDE DEF inner
  <2>2. 3 \in Int /\ Len(r) - 1 \in Int
    BY <1>1
  <2> QED
    BY <2>1, <2>2, SubSeqProperties DEF inner
<1> HIDE DEF inner
<1>3. ASSUME commas # {}
      PROVE  /\ SubSeq(inner, 1, c - 1) \in Seq(R)
             /\ SubSeq(inner, c + 1, Len(inner)) \in Seq(R)
  <2>1. c \in DOMAIN inner /\ Len(inner) \in Nat /\ DOMAIN inner = 1..Len(inner)
    <3>1. \E i \in commas : TRUE
      BY <1>3
    <3>2. c \in commas
      <4> HIDE DEF commas
      <4> QED
        BY <3>1
    <3>3. c \in DOMAIN inner
      <4> HIDE DEF c
      <4> QED
        BY <3>2
    <3> HIDE DEF c
    <3> QED
      BY <1>2, <3>3
  <2> HIDE DEF c
  <2>2. /\ \A i \in 1..(c - 1) : inner[i] \in R
        /\ \A i \in (c + 1)..Len(inner) : inner[i] \in R
        /\ c - 1 \in Int /\ c + 1 \in Int /\ 1 \in Int /\ Len(inner) \in Int
    BY <1>2, <2>1
  <2> QED
    BY <2>2, SubSeqProperties
<1>4. GenericArgs(r) = IF Len(r) < 4 \/ r[2] # "<" THEN <<>>
                       ELSE IF commas = {} THEN <<inner>>
                       ELSE <<SubSeq(inner, 1, c - 1), SubSeq(inner, c + 1, Len(inner))>>
  BY DEF GenericArgs, inner
<1> HIDE DEF commas, c
<1>5. CASE Len(r) < 4 \/ r[2] # "<"
  BY <1>4, <1>5
<1>6. CASE ~(Len(r) < 4 \/ r[2] # "<") /\ commas = {}
  BY <1>2, <1>4, <1>6
<1>7. CASE ~(Len(r) < 4 \/ r[2] # "<") /\ commas # {}
  <2> DEFINE a == SubSeq(inner, 1, c - 1)
             b == SubSeq(inner, c + 1, Len(inner))
  <2>1. GenericArgs(r) = <<a, b>> /\ a \in Seq(R) /\ b \in Seq(R)
    BY <1>3, <1>4, <1>7
  <2> HIDE DEF a, b
  <2> QED
    BY <2>1
<1> QED
  BY <1>5, <1>6, <1>7

\* The pieces of the types in the templates; those of a kind hold its letters
\* only.
TemplatePieces == {"K", "V", "T", "int", "unknown", "array", "map", "<", ",", ">"}

PiecesOf(kind) ==
  TemplatePieces \ (IF kind = "map" THEN {"T"} ELSE {"K", "V"})

TemplateOf(kind, p) ==
  /\ p.type \in Seq(PiecesOf(kind))
  /\ p.max = NoLimit
  /\ p.name \notin {"id1", "id2", "from"}
  /\ p.name = "key" => kind = "map" /\ p.type = <<"K">> /\ p.role = "key"
  /\ p.name = "value" => p.type = IF kind = "map" THEN <<"V">> ELSE <<"T">>

LEMMA TemplatesTyped ==
  ASSUME NEW kind \in CollectionKinds, NEW op \in DOMAIN Templates[kind]
  PROVE  \A k \in DOMAIN Templates[kind][op] : TemplateOf(kind, Templates[kind][op][k])
<1> DEFINE array1 == ElementArray(TRUE)
           array0 == ElementArray(FALSE)
           from1 == P("index_from", Text("int"), "index", TRUE)
           from0 == P("index_from", Text("int"), "index", FALSE)
           to1 == P("index_to", Text("int"), "index", TRUE)
           to0 == P("index_to", Text("int"), "index", FALSE)
           any == P("other", Text("unknown"), "other", TRUE)
           whole == P("other", <<"map", "<", "K", ",", "V", ">">>, "other", TRUE)
           valueV == P("value", Text("V"), "value", TRUE)
           Good(p) == TemplateOf(kind, p)
<1>1. ASSUME kind # "map"
      PROVE  /\ Good(Index) /\ Good(Row) /\ Good(Column) /\ Good(Value)
             /\ Good(array1) /\ Good(array0) /\ Good(from1) /\ Good(from0)
             /\ Good(to1) /\ Good(to0) /\ Good(any)
  <2> DEFINE S == PiecesOf(kind)
  <2>1. {"T", "int", "unknown", "array", "<", ">"} \subseteq S
    BY <1>1 DEF PiecesOf, TemplatePieces
  <2> HIDE DEF S
  <2>2. /\ <<"int">> \in Seq(S) /\ <<"T">> \in Seq(S) /\ <<"unknown">> \in Seq(S)
        /\ <<"array", "<", "T", ">">> \in Seq(S)
    BY <2>1
  <2> QED
    BY <1>1, <2>2 DEF TemplateOf, Index, Row, Column, Value, ElementArray, P, Text, S
<1>2. ASSUME kind = "map"
      PROVE  Good(Key) /\ Good(whole) /\ Good(valueV)
  <2> DEFINE S == PiecesOf(kind)
  <2>1. {"K", "V", "map", "<", ",", ">"} \subseteq S
    BY <1>2 DEF PiecesOf, TemplatePieces
  <2> HIDE DEF S
  <2>2. /\ <<"K">> \in Seq(S) /\ <<"V">> \in Seq(S)
        /\ <<"map", "<", "K", ",", "V", ">">> \in Seq(S)
    <3> DEFINE t == <<"map", "<", "K", ",", "V", ">">>
    <3>1. /\ t[1] \in S /\ t[2] \in S /\ t[3] \in S
          /\ t[4] \in S /\ t[5] \in S /\ t[6] \in S
      BY <2>1
    <3>2. t = [i \in 1..6 |-> t[i]]
      OBVIOUS
    <3> HIDE DEF t
    <3>3. \A i \in 1..6 : i = 1 \/ i = 2 \/ i = 3 \/ i = 4 \/ i = 5 \/ i = 6
      OBVIOUS
    <3>4. \A i \in 1..6 : t[i] \in S
      BY <3>1, <3>3
    <3>5. [i \in 1..6 |-> t[i]] \in Seq(S)
      BY <3>4
    <3>6. t \in Seq(S)
      BY <3>2, <3>5
    <3>7. "K" \in S /\ "V" \in S
      BY <2>1
    <3>9. \A x \in S : <<x>> \in Seq(S)
      OBVIOUS
    <3>8. <<"map", "<", "K", ",", "V", ">">> \in Seq(S)
      BY ONLY <3>6 DEF t
    <3> QED
      BY ONLY <3>7, <3>8, <3>9, Zenon
  <2> QED
    BY <1>2, <2>2 DEF TemplateOf, Key, P, Text, S
<1>3. CASE kind = "array"
  <2>1. /\ Templates["array"]["push"] = <<Value>>
        /\ Templates["array"]["includes"] = <<Value>>
        /\ Templates["array"]["set"] = <<Index, Value>>
        /\ Templates["array"]["get"] = <<Index>>
        /\ Templates["array"]["remove"] = <<Index>>
        /\ Templates["array"]["pop"] = <<>>
        /\ Templates["array"]["size"] = <<>>
        /\ Templates["array"]["copy"] = <<>>
        /\ Templates["array"]["clear"] = <<>>
        /\ Templates["array"]["concat"] = <<array1>>
        /\ Templates["array"]["slice"] = <<from1, to1>>
        /\ Templates["array"]["fill"] = <<Value, from0, to0>>
    BY DEF Templates
  <2>2. op \in {"push", "includes", "set", "get", "remove", "pop", "size",
              "copy", "clear", "concat", "slice", "fill"}
    BY <1>3 DEF Templates
  <2>3. kind # "map"
    BY <1>3
  <2> HIDE DEF array1, array0, from1, from0, to1, to0, any, whole, valueV, Good
  <2>4. \A k \in DOMAIN Templates["array"][op] : Good(Templates["array"][op][k])
    BY <1>1, <2>1, <2>2, <2>3
  <2> QED
    BY <1>3, <2>4 DEF Good
<1>4. CASE kind = "matrix"
  <2>1. /\ Templates["matrix"]["set"] = <<Row, Column, Value>>
        /\ Templates["matrix"]["get"] = <<Row, Column>>
        /\ Templates["matrix"]["rows"] = <<>>
        /\ Templates["matrix"]["row"] = <<Row>>
        /\ Templates["matrix"]["copy"] = <<>>
        /\ Templates["matrix"]["add_col"] = <<Column, array0>>
        /\ Templates["matrix"]["mult"] = <<any>>
    BY DEF Templates
  <2>2. op \in {"set", "get", "rows", "row", "copy", "add_col", "mult"}
    BY <1>4 DEF Templates
  <2>3. kind # "map"
    BY <1>4
  <2> HIDE DEF array1, array0, from1, from0, to1, to0, any, whole, valueV, Good
  <2>4. \A k \in DOMAIN Templates["matrix"][op] : Good(Templates["matrix"][op][k])
    BY <1>1, <2>1, <2>2, <2>3
  <2> QED
    BY <1>4, <2>4 DEF Good
<1>5. CASE kind = "map"
  <2>1. /\ Templates["map"]["put"] = <<Key, valueV>>
        /\ Templates["map"]["get"] = <<Key>>
        /\ Templates["map"]["put_all"] = <<whole>>
        /\ Templates["map"]["contains"] = <<Key>>
        /\ Templates["map"]["remove"] = <<Key>>
        /\ Templates["map"]["keys"] = <<>>
        /\ Templates["map"]["values"] = <<>>
        /\ Templates["map"]["copy"] = <<>>
        /\ Templates["map"]["clear"] = <<>>
    BY DEF Templates
  <2>2. op \in {"put", "get", "put_all", "contains", "remove", "keys",
              "values", "copy", "clear"}
    BY <1>5 DEF Templates
  <2> HIDE DEF array1, array0, from1, from0, to1, to0, any, whole, valueV, Good
  <2>3. \A k \in DOMAIN Templates["map"][op] : Good(Templates["map"][op][k])
    BY <1>2, <1>5, <2>1, <2>2
  <2> QED
    BY <1>5, <2>3 DEF Good
<1> QED
  BY <1>3, <1>4, <1>5 DEF CollectionKinds

\* What a letter stands for is the replacement of the receiver.
LEMMA MeantIsReplaced ==
  ASSUME NEW r, LetterFree(r), KindOf(r) \in CollectionKinds
  PROVE  LET by == Replacements(r)
             Q == (Range(r) \ TemplateLetters) \cup {"unknown"}
             m == Meant(KindOf(r), r)
         IN /\ by.K \in Seq(Q) /\ by.V \in Seq(Q) /\ by.T \in Seq(Q)
            /\ KindOf(r) = "map" =>
                 DOMAIN m = {"K", "V"} /\ m["K"] = by.K /\ m["V"] = by.V
            /\ KindOf(r) # "map" => DOMAIN m = {"T"} /\ m["T"] = by.T
<1> DEFINE R == Range(r) \ TemplateLetters
           Q == R \cup {"unknown"}
           args == GenericArgs(r)
           by == Replacements(r)
           unknown == <<"unknown">>
           m == Meant(KindOf(r), r)
<1>1. r \in Seq(R)
  BY DEF LetterFree, TemplateLetters
<1> HIDE DEF R
<1>2. /\ Len(args) \in 0..2 /\ (args # <<>> <=> Len(args) # 0)
      /\ \A k \in 1..Len(args) : args[k] \in Seq(R)
  BY <1>1, GenericArgsOf
<1> HIDE DEF args
<1>3. unknown \in Seq(Q) /\ \A k \in 1..Len(args) : args[k] \in Seq(Q)
  <2>1. \A s \in Seq(R) : s \in Seq(Q)
    BY SeqMonotonic
  <2>2. unknown \in Seq(Q)
    OBVIOUS
  <2> QED
    BY <1>2, <2>1, <2>2
<1> HIDE DEF Q
<1>4. by = IF KindOf(r) # "map" /\ Len(args) # 0
           THEN [T |-> args[1], K |-> unknown, V |-> unknown]
           ELSE IF KindOf(r) = "map" /\ Len(args) = 2
           THEN [T |-> unknown, K |-> args[1], V |-> args[2]]
           ELSE [T |-> unknown, K |-> unknown, V |-> unknown]
  BY <1>2 DEF Replacements, CollectionKinds, args, Text
<1>5. by.K \in Seq(Q) /\ by.V \in Seq(Q) /\ by.T \in Seq(Q)
  <2>1. Len(args) # 0 => args[1] \in Seq(Q)
    BY <1>2, <1>3
  <2>2. Len(args) = 2 => args[1] \in Seq(Q) /\ args[2] \in Seq(Q)
    BY <1>2, <1>3
  <2> HIDE DEF unknown, by
  <2> QED
    BY <1>3, <1>4, <2>1, <2>2
<1>6. ASSUME KindOf(r) = "map"
      PROVE  DOMAIN m = {"K", "V"} /\ m["K"] = by.K /\ m["V"] = by.V
  <2> DEFINE letters == <<"K", "V">>
             At(l) == CHOOSE k \in DOMAIN letters : letters[k] = l
  <2>1. Range(letters) = {"K", "V"} /\ Len(letters) = 2
    BY DEF Range
  <2>2. At("K") = 1 /\ At("V") = 2
    <3>1. DOMAIN letters = 1..2 /\ letters[1] = "K" /\ letters[2] = "V"
      OBVIOUS
    <3> HIDE DEF letters
    <3>2. DOMAIN letters = {1, 2}
      BY <3>1
    <3> QED
      BY <3>1, <3>2
  <2>3. m = [l \in Range(letters) |->
               IF Len(args) < Len(letters) THEN unknown
               ELSE args[At(l)]]
    BY <1>6 DEF Meant, Text, args
  <2> HIDE DEF letters, m, At
  <2>4. /\ DOMAIN m = {"K", "V"}
        /\ m["K"] = IF Len(args) < 2 THEN unknown ELSE args[1]
        /\ m["V"] = IF Len(args) < 2 THEN unknown ELSE args[2]
    BY <2>1, <2>2, <2>3
  <2>5. Len(args) < 2 <=> Len(args) # 2
    BY <1>2
  <2> HIDE DEF by, unknown
  <2> QED
    BY <1>4, <1>6, <2>4, <2>5
<1>7. ASSUME KindOf(r) # "map"
      PROVE  DOMAIN m = {"T"} /\ m["T"] = by.T
  <2> DEFINE letters == <<"T">>
             At(l) == CHOOSE k \in DOMAIN letters : letters[k] = l
  <2>1. Range(letters) = {"T"} /\ Len(letters) = 1
    BY DEF Range
  <2>2. At("T") = 1
    <3>1. DOMAIN letters = {1} /\ letters[1] = "T"
      OBVIOUS
    <3> HIDE DEF letters
    <3> QED
      BY <3>1
  <2>3. m = [l \in Range(letters) |->
               IF Len(args) < Len(letters) THEN unknown
               ELSE args[At(l)]]
    BY <1>7 DEF Meant, Text, args
  <2> HIDE DEF letters, m, At
  <2>4. /\ DOMAIN m = {"T"}
        /\ m["T"] = IF Len(args) < 1 THEN unknown ELSE args[1]
    BY <2>1, <2>2, <2>3
  <2>5. Len(args) < 1 <=> Len(args) = 0
    BY <1>2
  <2> HIDE DEF by, unknown
  <2> QED
    BY <1>4, <1>7, <2>4, <2>5
<1> QED
  BY <1>5, <1>6, <1>7 DEF Q, R

\* The parameters that an operation is meant to have besides the id.
MeantSpecs(kind, receiver, op) ==
  LET meant == Meant(kind, receiver)
      InPlace(piece) == IF piece \in DOMAIN meant THEN meant[piece] ELSE <<piece>>
      templates == Templates[kind][op]
  IN [k \in DOMAIN templates |->
        [templates[k] EXCEPT !.type = FlattenSeq([i \in DOMAIN @ |-> InPlace(@[i])])]]

LEMMA IntendedIsMeant ==
  ASSUME NEW c
  PROVE  IntendedSpecs(c) =
           IF c.form = "method" THEN MeantSpecs(KindNamed(c), Receiver(c), c.op)
           ELSE <<P("id", Text(KindNamed(c)), "id", TRUE)>>
                  \o MeantSpecs(KindNamed(c), Receiver(c), c.op)
BY DEF IntendedSpecs, MeantSpecs

LEMMA SpecsAsMeant ==
  ASSUME NEW r, LetterFree(r), KindOf(r) \in CollectionKinds,
         NEW op \in DOMAIN Templates[KindOf(r)]
  PROVE  MethodSpecs(r, op) = MeantSpecs(KindOf(r), r, op)
<1> DEFINE kind == KindOf(r)
           by == Replacements(r)
           Q == (Range(r) \ TemplateLetters) \cup {"unknown"}
           U == Range(r) \cup TemplatePieces
           m == Meant(kind, r)
           InPlace(piece) == IF piece \in DOMAIN m THEN m[piece] ELSE <<piece>>
           t == Templates[kind][op]
           all == AllLetters(U, by)
           Spelt(text) == FlattenSeq([i \in DOMAIN text |-> InPlace(text[i])])
<1>1. /\ by.K \in Seq(Q) /\ by.V \in Seq(Q) /\ by.T \in Seq(Q)
      /\ kind = "map" => DOMAIN m = {"K", "V"} /\ m["K"] = by.K /\ m["V"] = by.V
      /\ kind # "map" => DOMAIN m = {"T"} /\ m["T"] = by.T
  BY MeantIsReplaced
<1>2. Q \subseteq U \ TemplateLetters /\ PiecesOf(kind) \subseteq U
  BY DEF TemplatePieces, TemplateLetters, PiecesOf
<1>3. \A k \in DOMAIN t : TemplateOf(kind, t[k])
  BY TemplatesTyped
<1> HIDE DEF Q, U, m, t, by, kind
<1>4. \A text \in Seq(U) : Substitute(text, by) = Spelled(text, all)
  BY <1>1, <1>2, SubstituteAtOnce
<1>5. \A x \in PiecesOf(kind) : x \in U /\ all[x] = InPlace(x)
  <2>1. \A x \in U : all[x] = IF x = "K" THEN by.K ELSE IF x = "V" THEN by.V
                              ELSE IF x = "T" THEN by.T ELSE <<x>>
    BY DEF AllLetters
  <2> HIDE DEF all
  <2>2. CASE kind = "map"
    <3>1. \A x \in PiecesOf(kind) : x # "T"
      BY <2>2 DEF PiecesOf
    <3> QED
      BY <1>1, <1>2, <2>1, <2>2, <3>1
  <2>3. CASE kind # "map"
    <3>1. \A x \in PiecesOf(kind) : x # "K" /\ x # "V"
      BY <2>3 DEF PiecesOf
    <3> QED
      BY <1>1, <1>2, <2>1, <2>3, <3>1
  <2> QED
    BY <2>2, <2>3
<1> HIDE DEF all, InPlace
<1>6. ASSUME NEW k \in DOMAIN t
      PROVE  Substitute(t[k].type, by) = Spelt(t[k].type)
  <2> DEFINE text == t[k].type
  <2>1. text \in Seq(PiecesOf(kind))
    BY <1>3 DEF TemplateOf
  <2> HIDE DEF text
  <2>2. text \in Seq(U) /\ \A i \in DOMAIN text : text[i] \in PiecesOf(kind)
    <3>1. \A i \in DOMAIN text : text[i] \in PiecesOf(kind)
      BY <2>1
    <3>2. text \in Seq(U)
      BY <1>2, <2>1, SeqMonotonic
    <3> QED
      BY <3>1, <3>2
  <2>3. [i \in DOMAIN text |-> all[text[i]]] = [i \in DOMAIN text |-> InPlace(text[i])]
    BY <1>5, <2>2
  <2>4. Spelled(text, all) = Spelt(text)
    BY <2>3 DEF Spelled
  <2>5. Substitute(text, by) = Spelt(text)
    BY <1>4, <2>2, <2>4
  <2> QED
    BY <2>5 DEF text
<1>7. MethodSpecs(r, op) =
        [k \in DOMAIN t |-> [t[k] EXCEPT !.type = Substitute(t[k].type, by)]]
  BY DEF MethodSpecs, Operations, kind, t, by
<1>8. MeantSpecs(kind, r, op) =
        [k \in DOMAIN t |-> [t[k] EXCEPT !.type = Spelt(t[k].type)]]
  BY DEF MeantSpecs, t, m, InPlace
<1> HIDE DEF Spelt
<1>9. [k \in DOMAIN t |-> [t[k] EXCEPT !.type = Substitute(t[k].type, by)]] =
        [k \in DOMAIN t |-> [t[k] EXCEPT !.type = Spelt(t[k].type)]]
  BY <1>6
<1> QED
  BY <1>7, <1>8, <1>9 DEF kind

\* What the resolver makes of a map's or an array's receiver, and what the
\* parameters of an operation are called.
LEMMA ResolverAgrees ==
  ASSUME NEW r, LetterFree(r), KindOf(r) \in CollectionKinds,
         NEW op \in DOMAIN Templates[KindOf(r)]
  PROVE  \A k \in DOMAIN MethodSpecs(r, op) :
           MethodSpecs(r, op)[k].name \in {"key", "value"} =>
             ResolverTypes(r, op)[MethodSpecs(r, op)[k].name] \in
               {NoType, MethodSpecs(r, op)[k].type}
<1> DEFINE kind == KindOf(r)
           by == Replacements(r)
           Q == (Range(r) \ TemplateLetters) \cup {"unknown"}
           U == Range(r) \cup TemplatePieces
           t == Templates[kind][op]
           all == AllLetters(U, by)
           args == GenericArgs(r)
<1>1. by.K \in Seq(Q) /\ by.V \in Seq(Q) /\ by.T \in Seq(Q)
  BY MeantIsReplaced
<1>2. Q \subseteq U \ TemplateLetters /\ {"K", "V", "T"} \subseteq U
  BY DEF TemplatePieces, TemplateLetters
<1>3. \A k \in DOMAIN t : TemplateOf(kind, t[k])
  BY TemplatesTyped
<1>4. \A k \in DOMAIN t : IsParameter(t[k])
  BY TemplatesListed DEF OperationList
<1>5. kind \in CollectionKinds
  OBVIOUS
<1> HIDE DEF Q, U, t, kind
<1>6. /\ Spells(all, U, U)
      /\ \A text \in Seq(U) : Substitute(text, by) = Spelled(text, all)
  <2> HIDE DEF by
  <2> QED
    BY <1>1, <1>2, SubstituteAtOnce
<1>7. \A x \in {"K", "V", "T"} : Substitute(<<x>>, by) = all[x]
  <2>1. \A x \in U : <<x>> \in Seq(U)
    OBVIOUS
  <2> HIDE DEF all, by
  <2>2. \A x \in U : Spelled(<<x>>, all) = all[x]
    BY <1>6, SpelledOf
  <2> QED
    BY <1>2, <1>6, <2>1, <2>2
<1>8. all["K"] = by.K /\ all["V"] = by.V /\ all["T"] = by.T
  <2> HIDE DEF by
  <2> QED
    BY <1>2 DEF AllLetters
<1>9. MethodSpecs(r, op) =
        [k \in DOMAIN t |-> [t[k] EXCEPT !.type = Substitute(t[k].type, by)]]
  BY DEF MethodSpecs, Operations, kind, t
<1> HIDE DEF all
<1>10. ASSUME NEW k \in DOMAIN t
       PROVE  LET s == MethodSpecs(r, op)[k]
              IN /\ s.name = t[k].name
                 /\ s.name = "key" => s.type = by.K /\ kind = "map"
                 /\ s.name = "value" => s.type = IF kind = "map" THEN by.V ELSE by.T
  <2> DEFINE type == Substitute(t[k].type, by)
             s == [t[k] EXCEPT !.type = type]
  <2>1. /\ t[k].name = "key" => kind = "map" /\ t[k].type = <<"K">>
        /\ t[k].name = "value" => t[k].type = IF kind = "map" THEN <<"V">> ELSE <<"T">>
    BY <1>3 DEF TemplateOf
  <2> HIDE DEF by
  <2>2. /\ t[k].name = "key" => type = by.K
        /\ t[k].name = "value" => type = IF kind = "map" THEN by.V ELSE by.T
    BY <1>7, <1>8, <2>1
  <2>3. MethodSpecs(r, op)[k] = s
    BY <1>9
  <2> HIDE DEF type
  <2>4. s.name = t[k].name /\ s.type = type
    BY <1>4 DEF IsParameter
  <2> HIDE DEF s
  <2> QED
    BY <2>1, <2>2, <2>3, <2>4
<1>11. Len(args) \in 0..2 /\ (args # <<>> <=> Len(args) # 0)
  <2>1. r \in Seq(Range(r) \ {"K", "V", "T"})
    BY DEF LetterFree
  <2> QED
    BY <2>1, GenericArgsOf
<1>12. ASSUME NEW k \in DOMAIN t, t[k].name = "key"
       PROVE  ResolverTypes(r, op)["key"] \in {NoType, by.K}
  <2>1. kind = "map"
    BY <1>3, <1>12 DEF TemplateOf
  <2> HIDE DEF args
  <2> QED
    BY <1>11, <2>1 DEF ResolverTypes, Replacements, args, kind
<1>13. ASSUME NEW k \in DOMAIN t, t[k].name = "value"
       PROVE  ResolverTypes(r, op)["value"] \in {NoType, IF kind = "map" THEN by.V ELSE by.T}
  <2>1. CASE kind = "map" /\ Len(args) = 2
    <3> HIDE DEF args
    <3> QED
      BY <1>11, <2>1 DEF ResolverTypes, Replacements, args, kind
  <2>2. CASE kind = "map" /\ Len(args) # 2
    <3>1. op \notin {"push", "set"}
      BY <2>2 DEF Templates, kind
    <3> HIDE DEF args
    <3> QED
      BY <1>11, <2>2, <3>1 DEF ResolverTypes, Replacements, args, kind
  <2>3. CASE kind # "map"
    <3> HIDE DEF args
    <3> QED
      BY <1>5, <1>11, <2>3 DEF ResolverTypes, Replacements, CollectionKinds, args, kind
  <2> QED
    BY <1>11, <2>1, <2>2, <2>3
<1>14. DOMAIN MethodSpecs(r, op) = DOMAIN t
  BY <1>9
<1> HIDE DEF by
<1> QED
  BY <1>10, <1>12, <1>13, <1>14

-----------------------------------------------------------------------------
(***************************************************************************)
(* Arguments that fit a list of parameters are those without issues.       *)
(***************************************************************************)

\* What WellTyped says of arguments, for any list of parameters.
Fits(args, params) ==
  LET binding == DeclaredBinding(args, params)
  IN /\ BindsOnce(binding, params)
     /\ \A i \in DOMAIN args :
          /\ binding[i] # 0
          /\ ValueIssues(args[i], params[binding[i]], i) = {}
          /\ i \in Named(args) \/ \A j \in 1..(i - 1) : j \notin Named(args)

Unobjected(args, params) ==
  BindingIssues(args, params) = {} /\ OrderIssues(args) = {}

\* Arguments to which no check objects fit their parameters.
LEMMA UnobjectedFit ==
  ASSUME NEW args, IsArguments(args), NEW params, ParameterList(params),
         Unobjected(args, params)
  PROVE  Fits(args, params)
<1> DEFINE binding == DeclaredBinding(args, params)
           Of(i) == PlaceParameter(args, params, i)
<1>1. /\ Structural(args, params) = {} /\ OrderIssues(args) = {}
      /\ UNION {ValueIssues(args[i], params[Of(i)], i) :
                  i \in {i \in DOMAIN args : Of(i) # 0}} = {}
  BY DEF Unobjected, BindingIssues
<1>2. NamesInOrder(args, params)
  BY <1>1, RightNamesInOrder DEF NamesRight
<1>3. BindsOnce(binding, params)
  BY <1>2, BoundOnce
<1>4. ASSUME NEW i \in DOMAIN args
      PROVE  Of(i) = binding[i]
  BY <1>2, PlaceIsRank DEF NamesInOrder, DeclaredBinding
<1>5. ASSUME NEW i \in DOMAIN args
      PROVE  binding[i] # 0
  <2>1. Len(params) \in Nat /\ DOMAIN params = 1..Len(params)
    BY DEF ParameterList
  <2>2. CASE i \in Named(args)
    <3>1. args[i].name \in NamesOf(params)
      BY <1>2, <2>2 DEF NamesInOrder
    <3>2. binding[i] = ByName(params, args[i].name)
      BY <2>2, WhereBound
    <3>3. ByName(params, args[i].name) \in DOMAIN params
      BY <3>1, NameFindsParameter
    <3> HIDE DEF binding
    <3> QED
      BY <2>1, <3>2, <3>3
  <2>3. CASE i \notin Named(args)
    <3>1. <<"count", 0>> \notin Structural(args, params)
      BY <1>1
    <3>2. ~(Cardinality(Positional(args)) > Len(params))
      BY <3>1, StructuralTags
    <3>3. i \in Positional(args) /\ binding[i] = IF PositionalRank(args, i) <= Len(params)
                                                 THEN PositionalRank(args, i) ELSE 0
      BY <2>3, WhereBound
    <3>4. /\ Cardinality(Positional(args)) \in Nat
          /\ PositionalRank(args, i) \in 1..Cardinality(Positional(args))
      BY <3>3, PositionalRanks
    <3> HIDE DEF binding
    <3> QED
      BY <2>1, <3>2, <3>3, <3>4
  <2> QED
    BY <2>2, <2>3
<1>6. ASSUME NEW i \in DOMAIN args
      PROVE  ValueIssues(args[i], params[binding[i]], i) = {}
  <2> HIDE DEF binding, Of
  <2>1. Of(i) = binding[i] /\ Of(i) # 0
    BY <1>4, <1>5
  <2>2. ValueIssues(args[i], params[Of(i)], i) = {}
    BY <1>1, <2>1
  <2> QED
    BY <2>1, <2>2
<1>7. \A i \in DOMAIN args : i \in Named(args) \/ \A j \in 1..(i - 1) : j \notin Named(args)
  BY <1>2 DEF NamesInOrder
<1> HIDE DEF binding
<1> QED
  BY <1>3, <1>5, <1>6, <1>7 DEF Fits, binding

\* No check objects to arguments that fit.
LEMMA FittingUnobjected ==
  ASSUME NEW args, IsArguments(args), NEW params, ParameterList(params),
         Fits(args, params)
  PROVE  Unobjected(args, params)
<1> DEFINE binding == DeclaredBinding(args, params)
           structural == Structural(args, params)
           Of(i) == PlaceParameter(args, params, i)
<1>1. /\ BindsOnce(binding, params)
      /\ \A i \in DOMAIN args :
           /\ binding[i] # 0
           /\ ValueIssues(args[i], params[binding[i]], i) = {}
           /\ i \in Named(args) \/ \A j \in 1..(i - 1) : j \notin Named(args)
  BY DEF Fits
<1>2. DOMAIN binding = DOMAIN args
  BY DEF DeclaredBinding
<1>3. \A i, j \in DOMAIN args : binding[i] = binding[j] => i = j
  BY <1>1, <1>2 DEF BindsOnce
<1>4. \A i \in Named(args) : i \in DOMAIN args /\ binding[i] = ByName(params, args[i].name)
  BY WhereBound DEF Named
<1>5. \A i \in Positional(args) :
        /\ i \in DOMAIN args /\ i \notin Named(args)
        /\ binding[i] = PositionalRank(args, i)
        /\ PositionalRank(args, i) <= Len(params)
  <2> SUFFICES ASSUME NEW i \in Positional(args)
               PROVE  /\ i \in DOMAIN args /\ i \notin Named(args)
                      /\ binding[i] = PositionalRank(args, i)
                      /\ PositionalRank(args, i) <= Len(params)
    OBVIOUS
  <2>1. i \in DOMAIN args /\ i \notin Named(args)
    BY DEF Positional
  <2>2. binding[i] = IF PositionalRank(args, i) <= Len(params)
                     THEN PositionalRank(args, i) ELSE 0
    BY <2>1, WhereBound
  <2>3. binding[i] # 0
    BY <1>1, <2>1
  <2> HIDE DEF binding
  <2> QED
    BY <2>1, <2>2, <2>3
<1>6. Len(params) \in Nat /\ DOMAIN params = 1..Len(params)
  BY DEF ParameterList
<1> HIDE DEF binding
<1>7. Repeated(args) = {}
  <2> SUFFICES ASSUME NEW i \in Repeated(args)
               PROVE  FALSE
    OBVIOUS
  <2>1. i \in Named(args) /\ \E j \in 1..(i - 1) : args[j].name = args[i].name
    BY DEF Repeated
  <2>2. PICK j \in 1..(i - 1) : args[j].name = args[i].name
    BY <2>1
  <2>3. i \in 1..Len(args) /\ Len(args) \in Nat /\ DOMAIN args = 1..Len(args)
    BY <1>4, <2>1 DEF IsArguments
  <2>4. j \in DOMAIN args /\ j # i
    BY <2>3
  <2>5. j \in Named(args)
    BY <2>1, <2>2, <2>4 DEF Named
  <2> QED
    BY <1>3, <1>4, <2>1, <2>2, <2>4, <2>5
<1>8. \A i \in DOMAIN args \ Named(args) : \A j \in 1..(i - 1) : j \notin Named(args)
  BY <1>1
<1>9. OrderIssues(args) = {}
  BY <1>7, <1>8 DEF OrderIssues
<1>10. ASSUME NEW i \in Named(args)
       PROVE  args[i].name \in NamesOf(params)
  <2>1. ByName(params, args[i].name) # 0
    BY <1>1, <1>4
  <2> QED
    BY <2>1, NameFindsParameter
<1>11. /\ Cardinality(Positional(args)) \in Nat
       /\ \A m \in 1..Cardinality(Positional(args)) :
            \E p \in Positional(args) : PositionalRank(args, p) = m
       /\ \A p \in Positional(args) :
            PositionalRank(args, p) \in 1..Cardinality(Positional(args))
  BY PositionalRanks
<1>12. ASSUME NEW i \in Named(args)
       PROVE  args[i].name \notin PositionalNames(args, params)
  <2> SUFFICES ASSUME args[i].name \in PositionalNames(args, params)
               PROVE  FALSE
    OBVIOUS
  <2>1. PICK k \in DOMAIN params : /\ k <= Cardinality(Positional(args))
                                   /\ params[k].name = args[i].name
    BY DEF PositionalNames
  <2>2. k \in 1..Cardinality(Positional(args))
    BY <1>6, <1>11, <2>1
  <2>3. PICK p \in Positional(args) : PositionalRank(args, p) = k
    BY <1>11, <2>2
  <2>4. ByName(params, args[i].name) = k
    BY <2>1, NameFindsParameter
  <2> QED
    BY <1>3, <1>4, <1>5, <2>3, <2>4
<1>13. ~(Cardinality(Positional(args)) > Len(params))
  <2> SUFFICES ASSUME Cardinality(Positional(args)) > Len(params)
               PROVE  FALSE
    OBVIOUS
  <2>1. Cardinality(Positional(args)) \in 1..Cardinality(Positional(args))
    BY <1>6, <1>11
  <2>2. PICK p \in Positional(args) : PositionalRank(args, p) = Cardinality(Positional(args))
    BY <1>11, <2>1
  <2> QED
    BY <1>5, <1>6, <1>11, <2>2
<1>14. RequiredOf(params) \subseteq Supplied(args, params)
  <2> SUFFICES ASSUME NEW k \in DOMAIN params, params[k].required
               PROVE  params[k].name \in Supplied(args, params)
    BY DEF RequiredOf
  <2>1. PICK i \in DOMAIN args : binding[i] = k
    BY <1>1, <1>2 DEF BindsOnce
  <2>2. CASE i \in Named(args)
    <3>1. ByName(params, args[i].name) = k
      BY <1>4, <2>1, <2>2
    <3>2. params[k].name = args[i].name /\ args[i].name \in NamesOf(params)
      BY <1>10, <2>2, <3>1, NameFindsParameter
    <3> QED
      BY <2>2, <3>2 DEF Supplied
  <2>3. CASE i \notin Named(args)
    <3>1. i \in Positional(args)
      BY <2>3 DEF Positional
    <3>2. k <= Cardinality(Positional(args))
      BY <1>5, <1>11, <2>1, <3>1
    <3> QED
      BY <3>2 DEF Supplied, PositionalNames
  <2> QED
    BY <2>2, <2>3
<1>15. structural = {}
  BY <1>10, <1>12, <1>13, <1>14 DEF Structural, When
<1>16. ASSUME NEW i \in DOMAIN args
       PROVE  ValueIssues(args[i], params[Of(i)], i) = {}
  <2>1. Of(i) = binding[i]
    BY <1>8, PlaceIsRank DEF DeclaredBinding, binding
  <2> HIDE DEF Of
  <2> QED
    BY <1>1, <2>1
<1>17. UNION {ValueIssues(args[i], params[Of(i)], i) :
                i \in {i \in DOMAIN args : Of(i) # 0}} = {}
  <2> HIDE DEF Of
  <2> QED
    BY <1>16
<1> QED
  BY <1>7, <1>9, <1>15, <1>17 DEF Unobjected, BindingIssues

\* Arguments that fit one list of parameters fit another whose parameters at
\* the same places have the names that are used, are required alike and take
\* the same values.
LEMMA FitLikewise ==
  ASSUME NEW args, IsArguments(args), NEW params, ParameterList(params),
         NEW others, ParameterList(others), DOMAIN params = DOMAIN others,
         \A k \in DOMAIN params : params[k].required = others[k].required,
         \A i \in Named(args), k \in DOMAIN params :
           params[k].name = args[i].name => others[k].name = args[i].name,
         \A i \in DOMAIN args, k \in DOMAIN params :
           /\ DeclaredBinding(args, params)[i] = k
           /\ ValueIssues(args[i], params[k], i) = {}
           => ValueIssues(args[i], others[k], i) = {},
         Fits(args, params)
  PROVE  Fits(args, others)
<1> DEFINE binding == DeclaredBinding(args, params)
           other == DeclaredBinding(args, others)
<1>1. /\ BindsOnce(binding, params)
      /\ \A i \in DOMAIN args :
           /\ binding[i] # 0
           /\ ValueIssues(args[i], params[binding[i]], i) = {}
           /\ i \in Named(args) \/ \A j \in 1..(i - 1) : j \notin Named(args)
  BY DEF Fits
<1>2. /\ Len(params) \in Nat /\ DOMAIN params = 1..Len(params)
      /\ Len(others) \in Nat /\ DOMAIN others = 1..Len(others)
  BY DEF ParameterList
<1>3. Len(params) = Len(others)
  BY <1>2, SameLength
<1>4. ASSUME NEW i \in DOMAIN args
      PROVE  binding[i] \in DOMAIN params /\ other[i] = binding[i]
  <2>1. binding[i] # 0
    BY <1>1
  <2>2. CASE i \in Named(args)
    <3>1. /\ binding[i] = ByName(params, args[i].name)
          /\ other[i] = ByName(others, args[i].name)
      BY <2>2, WhereBound
    <3> DEFINE n == args[i].name
    <3>2. binding[i] \in DOMAIN params /\ params[binding[i]].name = n
      <4> HIDE DEF binding
      <4>1. n \in NamesOf(params)
        BY <2>1, <3>1, NameFindsParameter
      <4> QED
        BY <3>1, <4>1, NameFindsParameter
    <3>3. others[binding[i]].name = n
      BY <2>2, <3>2
    <3> HIDE DEF binding, other
    <3>4. ByName(others, n) = binding[i]
      BY <3>2, <3>3, NameFindsParameter
    <3> QED
      BY <3>1, <3>2, <3>4
  <2>3. CASE i \notin Named(args)
    <3>1. /\ binding[i] = IF PositionalRank(args, i) <= Len(params)
                          THEN PositionalRank(args, i) ELSE 0
          /\ other[i] = IF PositionalRank(args, i) <= Len(others)
                        THEN PositionalRank(args, i) ELSE 0
          /\ i \in Positional(args)
      BY <2>3, WhereBound
    <3>2. PositionalRank(args, i) \in 1..Cardinality(Positional(args))
          /\ Cardinality(Positional(args)) \in Nat
      BY <3>1, PositionalRanks
    <3> HIDE DEF binding, other
    <3> QED
      BY <1>2, <1>3, <2>1, <3>1, <3>2
  <2> QED
    BY <2>2, <2>3
<1>5. DOMAIN binding = DOMAIN args /\ DOMAIN other = DOMAIN args
  BY DEF DeclaredBinding
<1> HIDE DEF binding, other
<1>6. BindsOnce(other, others)
  BY <1>1, <1>4, <1>5 DEF BindsOnce
<1>7. ASSUME NEW i \in DOMAIN args
      PROVE  ValueIssues(args[i], others[other[i]], i) = {}
  <2>1. /\ binding[i] \in DOMAIN params /\ other[i] = binding[i]
        /\ ValueIssues(args[i], params[binding[i]], i) = {}
    BY <1>1, <1>4
  <2> QED
    BY <2>1 DEF binding
<1>8. \A i \in DOMAIN args : other[i] # 0
  BY <1>1, <1>4
<1> QED
  BY <1>1, <1>6, <1>7, <1>8 DEF Fits, other

\* The first argument is the id if it has no name or that of the id.
LEMMA FirstIsId ==
  ASSUME NEW args, IsArguments(args), args # <<>>, NEW params, ParameterList(params),
         1 \in DOMAIN params, args[1].name \in {NoName, params[1].name}
  PROVE  1 \in DOMAIN args /\ DeclaredBinding(args, params)[1] = 1
<1>1. /\ Len(params) \in Nat /\ DOMAIN params = 1..Len(params)
      /\ Len(args) \in Nat /\ DOMAIN args = 1..Len(args)
  BY DEF ParameterList, IsArguments
<1>2. 1 \in DOMAIN args
  <2>1. args \in Seq(Range(args))
    BY DEF IsArguments
  <2> QED
    BY <1>1, <2>1
<1>3. CASE 1 \in Named(args)
  <2>1. args[1].name = params[1].name
    BY <1>3 DEF Named
  <2>2. ByName(params, args[1].name) = 1
    BY <2>1, NameFindsParameter
  <2> QED
    BY <1>2, <1>3, <2>2, WhereBound
<1>4. CASE 1 \notin Named(args)
  <2>1. {j \in Positional(args) : j <= 1} = {1}
    BY <1>1, <1>2, <1>4 DEF Positional
  <2>2. PositionalRank(args, 1) = Cardinality({1})
    BY <2>1, Zenon DEF PositionalRank, CountUpTo
  <2>3. PositionalRank(args, 1) = 1
    BY <2>2, FS_Singleton
  <2>4. 1 <= Len(params)
    BY <1>1
  <2> QED
    BY <1>2, <1>4, <2>3, <2>4, WhereBound
<1> QED
  BY <1>2, <1>3, <1>4

-----------------------------------------------------------------------------
(***************************************************************************)
(* The two lists of a function call: the signature's and the registry's.   *)
(***************************************************************************)

\* No parameter of an operation has one of the names that the registry gives.
LEMMA RegistryNamesApart ==
  ASSUME NEW c, NEW a, NEW b,
         a \notin {"id1", "id2", "from"}, b \notin {"id1", "id2", "from"},
         RegistryName(c, a) = RegistryName(c, b)
  PROVE  a = b
<1>1. \A n : \/ RegistryName(c, n) = n
             \/ n = "id" /\ RegistryName(c, n) = "id1"
             \/ n \in {"array_id", "other"} /\ RegistryName(c, n) = "id2"
             \/ n = "other" /\ RegistryName(c, n) = "from"
  BY DEF RegistryName
<1>2. \A n : /\ n = "array_id" /\ RegistryName(c, n) # n => c.op = "concat"
             /\ n = "other" /\ RegistryName(c, n) = "id2" => c.op = "mult"
  BY DEF RegistryName
<1>3. /\ c.op = "concat" => RegistryName(c, "other") = "other"
      /\ c.op = "mult" => RegistryName(c, "array_id") = "array_id"
  BY DEF RegistryName
<1> QED
  BY <1>1, <1>2, <1>3

LEMMA FunctionSpecs ==
  ASSUME NEW c, c.form = "function", c.kind \in CollectionKinds,
         c.op \in DOMAIN Templates[c.kind]
  PROVE  LET t == Templates[c.kind][c.op]
             specs == IntendedSpecs(c)
         IN /\ OperationList(t)
            /\ ParameterList(specs)
            /\ DOMAIN specs = 1..(Len(t) + 1)
            /\ Len(t) \in Nat
            /\ specs[1] = P("id", Text(c.kind), "id", TRUE)
            /\ \A k \in DOMAIN specs : k # 1 =>
                 /\ k - 1 \in DOMAIN t
                 /\ specs[k].name = t[k - 1].name
                 /\ specs[k].required = t[k - 1].required
                 /\ specs[k].max = NoLimit
<1> DEFINE t == Templates[c.kind][c.op]
           m == Meant(c.kind, Receiver(c))
           InPlace(piece) == IF piece \in DOMAIN m THEN m[piece] ELSE <<piece>>
           types == [k \in DOMAIN t |->
                       FlattenSeq([i \in DOMAIN t[k].type |-> InPlace(t[k].type[i])])]
           typed == Typed(t, types)
           meant == MeantSpecs(c.kind, Receiver(c), c.op)
<1>1. meant = typed
  BY DEF MeantSpecs, Typed
<1>2. OperationList(t) /\ \A k \in DOMAIN t : TemplateOf(c.kind, t[k])
  BY TemplatesListed, TemplatesTyped
<1>3. IntendedSpecs(c) = <<P("id", Text(c.kind), "id", TRUE)>> \o meant
  BY IntendedIsMeant DEF KindNamed
<1> HIDE DEF types, t, meant
<1>4. /\ OperationList(meant) /\ DOMAIN meant = DOMAIN t /\ Len(meant) = Len(t)
      /\ \A k \in DOMAIN t : /\ meant[k].name = t[k].name
                             /\ meant[k].required = t[k].required
                             /\ meant[k].max = t[k].max
  <2>1. OperationList(t)
    BY <1>2
  <2>2. /\ OperationList(typed) /\ DOMAIN typed = DOMAIN t /\ Len(typed) = Len(t)
        /\ \A k \in DOMAIN t : /\ typed[k].name = t[k].name
                               /\ typed[k].required = t[k].required
                               /\ typed[k].max = t[k].max
    BY <2>1, ListTyped
  <2> HIDE DEF typed
  <2> QED
    BY <1>1, <2>2
<1>5. \A k \in DOMAIN t : t[k].max = NoLimit
  BY <1>2 DEF TemplateOf
<1> DEFINE id == P("id", Text(c.kind), "id", TRUE)
           longer == <<id>> \o meant
<1>6. /\ ParameterList(longer)
      /\ DOMAIN longer = 1..(Len(meant) + 1)
      /\ Len(meant) \in Nat /\ DOMAIN meant = 1..Len(meant)
      /\ longer[1] = id
      /\ \A k \in DOMAIN longer : k # 1 =>
           k - 1 \in DOMAIN meant /\ longer[k] = meant[k - 1]
  BY <1>4, IdBefore
<1>7. IntendedSpecs(c) = longer
  BY <1>3
<1> HIDE DEF longer, id
<1> QED
  BY <1>2, <1>4, <1>5, <1>6, <1>7 DEF t, id

LEMMA RegistrySpecs ==
  ASSUME NEW c, c.form = "function", c.kind \in CollectionKinds,
         c.op \in DOMAIN Templates[c.kind]
  PROVE  LET registry == RegistryParams(c)
             specs == IntendedSpecs(c)
         IN /\ registry = <<>> <=> c.kind = "array" /\ c.op \in {"get", "set"}
            /\ registry # <<>> =>
                 /\ ParameterList(registry) /\ DOMAIN registry = DOMAIN specs
                 /\ \A k \in DOMAIN specs :
                      /\ registry[k].name = RegistryName(c, specs[k].name)
                      /\ registry[k].required = specs[k].required
                      /\ registry[k].max = NoLimit
                      /\ registry[k].type = IF k = 1 THEN Text(c.kind)
                                            ELSE RegistryType(c, specs[k].name)
<1> DEFINE t == Templates[c.kind][c.op]
           id == P("id", Text(c.kind), "id", TRUE)
           longer == <<id>> \o t
           p(k) == [longer[k] EXCEPT !.name = RegistryName(c, @),
                                     !.type = IF k = 1 THEN @
                                              ELSE RegistryType(c, longer[k].name)]
           made == [k \in DOMAIN longer |-> p(k)]
           specs == IntendedSpecs(c)
<1>1. OperationList(t) /\ \A k \in DOMAIN t : TemplateOf(c.kind, t[k])
  BY TemplatesListed, TemplatesTyped
<1>2. /\ ParameterList(specs)
      /\ DOMAIN specs = 1..(Len(t) + 1)
      /\ specs[1] = id
      /\ \A k \in DOMAIN specs : k # 1 =>
           /\ k - 1 \in DOMAIN t
           /\ specs[k].name = t[k - 1].name
           /\ specs[k].required = t[k - 1].required
           /\ specs[k].max = NoLimit
  BY FunctionSpecs
<1>3. RegistryParams(c) = IF c.kind = "array" /\ c.op \in {"get", "set"} THEN <<>> ELSE made
  BY DEF RegistryParams
<1>4. IsParameter(id) /\ id.name = "id" /\ id.max = NoLimit /\ id.type = Text(c.kind)
  BY DEF IsParameter, P
<1> HIDE DEF t, id, specs
<1>5. /\ ParameterList(longer)
      /\ DOMAIN longer = 1..(Len(t) + 1) /\ Len(t) \in Nat
      /\ longer[1] = id
      /\ \A k \in DOMAIN longer : k # 1 =>
           k - 1 \in DOMAIN t /\ longer[k] = t[k - 1]
  BY <1>1, IdBefore DEF id
<1> HIDE DEF longer
<1>6. ASSUME NEW k \in DOMAIN longer
      PROVE  /\ IsParameter(longer[k])
             /\ longer[k].max = NoLimit
             /\ longer[k].name \notin {"id1", "id2", "from"}
             /\ longer[k].name = specs[k].name /\ longer[k].required = specs[k].required
             /\ k = 1 => longer[k].type = Text(c.kind)
  <2>1. CASE k = 1
    BY <1>2, <1>4, <1>5, <2>1
  <2>2. CASE k # 1
    <3>1. k - 1 \in DOMAIN t /\ longer[k] = t[k - 1]
      BY <1>5, <2>2
    <3>2. /\ IsParameter(t[k - 1]) /\ TemplateOf(c.kind, t[k - 1])
      BY <1>1, <3>1 DEF OperationList
    <3> QED
      BY <1>2, <1>5, <2>2, <3>1, <3>2 DEF TemplateOf
  <2> QED
    BY <2>1, <2>2
<1>7. ASSUME NEW k \in DOMAIN longer
      PROVE  /\ p(k).name = RegistryName(c, longer[k].name)
             /\ p(k).required = longer[k].required
             /\ p(k).max = NoLimit
             /\ p(k).type = IF k = 1 THEN Text(c.kind)
                            ELSE RegistryType(c, longer[k].name)
  <2> DEFINE q == longer[k]
             n == RegistryName(c, q.name)
             other == RegistryType(c, q.name)
             type == IF k = 1 THEN q.type ELSE other
  <2>1. p(k) = [[q EXCEPT !.name = n] EXCEPT !.type = type]
    BY <1>6 DEF IsParameter
  <2>2. IsParameter(q) /\ q.max = NoLimit /\ (k = 1 => q.type = Text(c.kind))
    BY <1>6
  <2> HIDE DEF p, q, n, other
  <2> QED
    BY <2>1, <2>2 DEF IsParameter, q, n, other
<1> HIDE DEF p
<1>8. /\ made = [k \in 1..(Len(t) + 1) |-> p(k)]
      /\ DOMAIN made = 1..(Len(t) + 1) /\ \A k \in 1..(Len(t) + 1) : made[k] = p(k)
  BY <1>5
<1> HIDE DEF made
<1>9. made \in Seq(Range(made)) /\ made # <<>>
  <2>1. made \in Seq(Range(made))
    BY <1>5, <1>8 DEF Range
  <2>2. 1 \in DOMAIN made
    BY <1>5, <1>8
  <2> QED
    BY <2>1, <2>2
<1>10. ASSUME NEW j \in DOMAIN made, NEW k \in DOMAIN made, made[j].name = made[k].name
       PROVE  j = k
  <2>1. /\ j \in DOMAIN longer /\ k \in DOMAIN longer
        /\ RegistryName(c, longer[j].name) = RegistryName(c, longer[k].name)
    BY <1>5, <1>7, <1>8, <1>10
  <2>2. longer[j].name = longer[k].name
    BY <1>6, <2>1, RegistryNamesApart
  <2> QED
    BY <1>5, <2>1, <2>2 DEF ParameterList
<1>11. ParameterList(made) /\ DOMAIN made = DOMAIN specs
  BY <1>2, <1>8, <1>9, <1>10 DEF ParameterList
<1>12. \A k \in DOMAIN specs :
         /\ made[k].name = RegistryName(c, specs[k].name)
         /\ made[k].required = specs[k].required
         /\ made[k].max = NoLimit
         /\ made[k].type = IF k = 1 THEN Text(c.kind)
                           ELSE RegistryType(c, specs[k].name)
  BY <1>2, <1>5, <1>6, <1>7, <1>8
<1> QED
  BY <1>3, <1>9, <1>11, <1>12 DEF specs

\* The bare kind of a collection takes that kind and no other.
LEMMA KindTaken ==
  ASSUME NEW kind \in CollectionKinds, NEW r
  PROVE  /\ KindOf(r) = kind => Assignable(Text(kind), r)
         /\ KindOf(r) \notin {kind, "unknown", "na"} => ~Assignable(Text(kind), r)
         /\ Text(kind) # <<"bool">> /\ KindOf(Text(kind)) = kind
<1>1. KindOf(Text(kind)) = kind
  BY DEF KindOf, Text, NoType
<1>2. GenericArgs(Text(kind)) = <<>>
  <2>1. Len(<<kind>>) = 1
    OBVIOUS
  <2> QED
    BY <2>1 DEF GenericArgs, Text
<1>3. /\ KindOf(<<"unknown">>) = "unknown" /\ KindOf(<<"na">>) = "na"
      /\ KindOf(<<"float">>) = "float" /\ KindOf(<<"bool">>) = "bool"
      /\ KindOf(NoType) = "none"
  BY DEF KindOf, NoType
<1>4. kind \notin {"unknown", "na", "float", "bool", "none"}
  BY DEF CollectionKinds
<1>5. KindOf(r) \notin {kind, "unknown", "na"} => ~AssignableValue(Text(kind), r)
  BY <1>1, <1>3, <1>4 DEF AssignableValue
<1> QED
  BY <1>1, <1>2, <1>3, <1>4, <1>5 DEF Assignable

LEMMA ValueTaken ==
  ASSUME NEW a, NEW p, NEW i
  PROVE  /\ p.max = NoLimit /\ p.type # <<"bool">> /\ Assignable(p.type, a.type) =>
              ValueIssues(a, p, i) = {}
         /\ ~Assignable(p.type, a.type) => ValueIssues(a, p, i) # {}
BY DEF ValueIssues, When

\* What only depends on a parameter's type and limit.
LEMMA ValueLikewise ==
  ASSUME NEW a, NEW p, NEW q, NEW i, p.type = q.type, p.max = q.max
  PROVE  ValueIssues(a, p, i) = ValueIssues(a, q, i)
BY DEF ValueIssues

\* A function call with an id of another kind is rejected by whoever looks at
\* the kind of the id.
LEMMA OtherKindUnfit ==
  ASSUME NEW args, IsArguments(args), args # <<>>, NEW params, ParameterList(params),
         1 \in DOMAIN params, args[1].name \in {NoName, params[1].name},
         NEW kind \in CollectionKinds, params[1].type = Text(kind),
         KindOf(args[1].type) \notin {kind, "unknown", "na"}
  PROVE  ~Fits(args, params)
<1>1. 1 \in DOMAIN args /\ DeclaredBinding(args, params)[1] = 1
  BY FirstIsId
<1>2. ValueIssues(args[1], params[1], 1) # {}
  BY KindTaken, ValueTaken
<1> QED
  BY <1>1, <1>2 DEF Fits

LEMMA NothingUnfit ==
  ASSUME NEW params, 1 \in DOMAIN params, params[1].required
  PROVE  ~Fits(<<>>, params)
<1>1. DOMAIN DeclaredBinding(<<>>, params) = {}
  BY DEF DeclaredBinding
<1> QED
  BY <1>1 DEF Fits, BindsOnce

\* The parameters that the pass has for the arguments of a function call.
LEMMA SameKindSpecs ==
  ASSUME NEW c, c.form = "function", c.kind \in CollectionKinds,
         c.op \in DOMAIN Templates[c.kind],
         KindOf(Receiver(c)) = c.kind, LetterFree(Receiver(c))
  PROVE  /\ DOMAIN Specs(c) = DOMAIN IntendedSpecs(c)
         /\ Specs(c)[1] = P("id", Receiver(c), "id", TRUE)
         /\ \A k \in DOMAIN Specs(c) : k # 1 => Specs(c)[k] = IntendedSpecs(c)[k]
<1> DEFINE r == Receiver(c)
           meant == MeantSpecs(c.kind, r, c.op)
           t == Templates[c.kind][c.op]
           m == Meant(c.kind, r)
           InPlace(piece) == IF piece \in DOMAIN m THEN m[piece] ELSE <<piece>>
           types == [k \in DOMAIN t |->
                       FlattenSeq([i \in DOMAIN t[k].type |-> InPlace(t[k].type[i])])]
<1>1. MethodSpecs(r, c.op) = meant
  BY SpecsAsMeant
<1>2. OperationList(meant)
  <2>1. meant = Typed(t, types)
    BY DEF MeantSpecs, Typed
  <2>2. OperationList(t)
    BY TemplatesListed
  <2> HIDE DEF t, types, meant
  <2> QED
    BY <2>1, <2>2, ListTyped
<1>3. /\ Specs(c) = <<P("id", r, "id", TRUE)>> \o meant
      /\ IntendedSpecs(c) = <<P("id", Text(c.kind), "id", TRUE)>> \o meant
  <2>1. Specs(c) = <<P("id", r, "id", TRUE)>> \o MethodSpecs(r, c.op)
    BY DEF Specs
  <2> HIDE DEF meant
  <2>2. IntendedSpecs(c) = <<P("id", Text(c.kind), "id", TRUE)>> \o meant
    BY IntendedIsMeant DEF KindNamed, meant
  <2> QED
    BY <1>1, <2>1, <2>2
<1> DEFINE longer == <<P("id", r, "id", TRUE)>> \o meant
           other == <<P("id", Text(c.kind), "id", TRUE)>> \o meant
<1> HIDE DEF meant, r
<1>4. /\ DOMAIN longer = 1..(Len(meant) + 1) /\ longer[1] = P("id", r, "id", TRUE)
      /\ \A k \in DOMAIN longer : k # 1 => longer[k] = meant[k - 1]
  BY <1>2, IdBefore
<1>5. /\ DOMAIN other = 1..(Len(meant) + 1)
      /\ \A k \in DOMAIN other : k # 1 => other[k] = meant[k - 1]
  BY <1>2, IdBefore
<1> HIDE DEF longer, other
<1> QED
  BY <1>3, <1>4, <1>5 DEF longer, other, r

\* Only the first argument is bound to the id.
LEMMA OneId ==
  ASSUME NEW args, IsArguments(args), args # <<>>, NEW params, ParameterList(params),
         1 \in DOMAIN params, args[1].name \in {NoName, params[1].name},
         Fits(args, params), NEW i \in DOMAIN args, DeclaredBinding(args, params)[i] = 1
  PROVE  i = 1
<1>1. 1 \in DOMAIN args /\ DeclaredBinding(args, params)[1] = 1
  BY FirstIsId
<1>2. DOMAIN DeclaredBinding(args, params) = DOMAIN args
  BY DEF DeclaredBinding
<1>3. BindsOnce(DeclaredBinding(args, params), params)
  BY DEF Fits
<1> DEFINE binding == DeclaredBinding(args, params)
<1> HIDE DEF binding
<1>4. \A j, k \in DOMAIN binding : binding[j] = binding[k] /\ j # k => binding[j] = 0
  BY <1>3 DEF BindsOnce, binding
<1> QED
  BY <1>1, <1>2, <1>4 DEF binding

\* Lists that differ in the type of the id only, for an id that both take.
LEMMA FitWithOtherId ==
  ASSUME NEW args, IsArguments(args), args # <<>>,
         NEW params, ParameterList(params), NEW others, ParameterList(others),
         NEW type, NEW other,
         1 \in DOMAIN params, DOMAIN params = DOMAIN others,
         params[1] = P("id", type, "id", TRUE), others[1] = P("id", other, "id", TRUE),
         \A k \in DOMAIN params : k # 1 => params[k] = others[k],
         args[1].name \in {NoName, "id"},
         Assignable(other, args[1].type), other # <<"bool">>,
         Fits(args, params)
  PROVE  Fits(args, others)
<1>1. /\ params[1].name = "id" /\ others[1].name = "id"
      /\ params[1].required /\ others[1].required
      /\ params[1].required = others[1].required
      /\ others[1].type = other /\ others[1].max = NoLimit
  BY DEF P
<1>2. \A k \in DOMAIN params : /\ params[k].name = others[k].name
                               /\ params[k].required = others[k].required
  BY <1>1
<1>3. ASSUME NEW i \in DOMAIN args, NEW k \in DOMAIN params,
             DeclaredBinding(args, params)[i] = k,
             ValueIssues(args[i], params[k], i) = {}
      PROVE  ValueIssues(args[i], others[k], i) = {}
  <2>1. CASE k # 1
    BY <1>3, <2>1
  <2>2. CASE k = 1
    <3>1. i = 1
      BY <1>1, <1>3, <2>2, OneId
    <3>2. ValueIssues(args[1], others[1], 1) = {}
      BY <1>1, ValueTaken
    <3> QED
      BY <2>2, <3>1, <3>2
  <2> QED
    BY <2>1, <2>2
<1>4. \A i \in Named(args), k \in DOMAIN params :
        params[k].name = args[i].name => others[k].name = args[i].name
  BY <1>2
<1> QED
  BY <1>2, <1>3, <1>4, FitLikewise

LEMMA RegistryFits ==
  ASSUME NEW c, c.form = "function", c.kind \in CollectionKinds,
         c.op \in DOMAIN Templates[c.kind], IsArguments(c.args),
         RegistryParams(c) # <<>>,
         KindOf(Receiver(c)) = c.kind,
         KindOf(Receiver(c)) = "map" => Len(GenericArgs(Receiver(c))) >= 2,
         \A i \in Named(c.args) : RegistryName(c, c.args[i].name) = c.args[i].name,
         Fits(c.args, IntendedSpecs(c))
  PROVE  Fits(c.args, RegistryParams(c))
<1> DEFINE args == c.args
           specs == IntendedSpecs(c)
           registry == RegistryParams(c)
<1>1. /\ ParameterList(registry) /\ DOMAIN registry = DOMAIN specs
      /\ \A k \in DOMAIN specs :
           /\ registry[k].name = RegistryName(c, specs[k].name)
           /\ registry[k].required = specs[k].required
           /\ registry[k].max = NoLimit
           /\ registry[k].type = IF k = 1 THEN Text(c.kind)
                                 ELSE RegistryType(c, specs[k].name)
  BY RegistrySpecs
<1>2. ParameterList(specs) /\ specs[1] = P("id", Text(c.kind), "id", TRUE)
  BY FunctionSpecs
<1>3. specs[1].type = Text(c.kind) /\ specs[1].max = NoLimit
  BY <1>2 DEF P
<1>4. ASSUME NEW k \in DOMAIN specs, k # 1
      PROVE  RegistryType(c, specs[k].name) = NoType
  <2> DEFINE t == Templates[c.kind][c.op]
  <2>1. k - 1 \in DOMAIN t /\ specs[k].name = t[k - 1].name
    BY <1>4, FunctionSpecs
  <2>2. TemplateOf(c.kind, t[k - 1])
    BY <2>1, TemplatesTyped
  <2> HIDE DEF t, specs
  <2>3. specs[k].name = "key" => c.kind = "map"
    BY <2>1, <2>2 DEF TemplateOf
  <2> QED
    BY <2>3 DEF RegistryType
<1>5. \A i \in Named(args) : RegistryName(c, args[i].name) = args[i].name
  OBVIOUS
<1> HIDE DEF args, specs, registry
<1>6. ASSUME NEW i \in DOMAIN args, NEW k \in DOMAIN specs,
             DeclaredBinding(args, specs)[i] = k,
             ValueIssues(args[i], specs[k], i) = {}
      PROVE  ValueIssues(args[i], registry[k], i) = {}
  <2>1. CASE k # 1
    <3>1. /\ registry[k].type = NoType /\ registry[k].max = NoLimit
          /\ Assignable(NoType, args[i].type) /\ NoType # <<"bool">>
      BY <1>1, <1>4, <2>1 DEF Assignable, AssignableValue, NoType
    <3> QED
      BY <3>1, ValueTaken
  <2>2. CASE k = 1
    <3>1. registry[1].type = specs[1].type /\ registry[1].max = specs[1].max
      BY <1>1, <1>3, <2>2
    <3> QED
      BY <1>6, <2>2, <3>1, ValueLikewise
  <2> QED
    BY <2>1, <2>2
<1>7. \A i \in Named(args), k \in DOMAIN specs :
        specs[k].name = args[i].name => registry[k].name = args[i].name
  BY <1>1, <1>5
<1>8. \A k \in DOMAIN specs : specs[k].required = registry[k].required
  BY <1>1
<1>9. Fits(args, specs) /\ IsArguments(args)
  BY DEF args, specs
<1> QED
  BY <1>1, <1>2, <1>6, <1>7, <1>8, <1>9, FitLikewise DEF args, registry

\* In function form the two checks together accept what the operation is
\* meant to take.
LEMMA FunctionJudged ==
  ASSUME NEW c, c.form = "function", c.kind \in CollectionKinds,
         c.op \in DOMAIN Templates[c.kind], IsArguments(c.args), Comparable(c)
  PROVE  (/\ Fits(c.args, Specs(c))
          /\ RegistryParams(c) # <<>> => Fits(c.args, RegistryParams(c)))
           <=> Fits(c.args, IntendedSpecs(c))
<1> DEFINE args == c.args
           kind == c.kind
           r == Receiver(c)
           specs == Specs(c)
           intended == IntendedSpecs(c)
           registry == RegistryParams(c)
<1>1. /\ LetterFree(r) /\ KindOf(r) \notin {"unknown", "na"}
      /\ args # <<>> /\ KindOf(r) = "map" => Len(GenericArgs(r)) >= 2
      /\ kind = "array" /\ c.op \in {"get", "set"} => KindOf(r) = kind
      /\ \A i \in Named(args) : RegistryName(c, args[i].name) = args[i].name
      /\ args # <<>> => args[1].name \in {NoName, "id"}
  BY DEF Comparable, IdFirst
<1>2. /\ ParameterList(intended)
      /\ 1 \in DOMAIN intended
      /\ intended[1] = P("id", Text(kind), "id", TRUE)
      /\ intended[1].name = "id" /\ intended[1].required /\ intended[1].type = Text(kind)
  <2>1. /\ ParameterList(intended)
        /\ DOMAIN intended = 1..(Len(Templates[kind][c.op]) + 1)
        /\ Len(Templates[kind][c.op]) \in Nat
        /\ intended[1] = P("id", Text(kind), "id", TRUE)
    BY FunctionSpecs
  <2>2. 1 \in 1..(Len(Templates[kind][c.op]) + 1)
    BY <2>1
  <2> HIDE DEF intended
  <2> QED
    BY <2>1, <2>2 DEF P
<1>3. ParameterList(specs)
  BY SpecsListed
<1>4. KindOf(r) = kind =>
        /\ DOMAIN specs = DOMAIN intended
        /\ specs[1] = P("id", r, "id", TRUE) /\ specs[1].required
        /\ \A k \in DOMAIN specs : k # 1 => specs[k] = intended[k]
  BY <1>1, SameKindSpecs DEF P
<1>5. CASE args = <<>>
  <2>1. KindOf(r) = kind
    <3>1. r = Text(kind)
      BY <1>5 DEF Receiver
    <3> QED
      BY <3>1, KindTaken
  <2> HIDE DEF specs, intended
  <2>2. ~Fits(args, specs) /\ ~Fits(args, intended)
    BY <1>2, <1>4, <1>5, <2>1, NothingUnfit
  <2> QED
    BY <2>2 DEF specs, intended
<1>6. CASE args # <<>> /\ KindOf(r) = kind
  <2>1. r = args[1].type
    BY <1>6 DEF Receiver
  <2>2. /\ Assignable(Text(kind), args[1].type) /\ Text(kind) # <<"bool">>
        /\ Assignable(r, args[1].type) /\ r # <<"bool">>
    <3>1. Assignable(Text(kind), args[1].type) /\ Text(kind) # <<"bool">>
      BY <1>6, <2>1, KindTaken
    <3>2. Assignable(r, args[1].type)
      BY <2>1 DEF Assignable, AssignableValue
    <3>3. KindOf(<<"bool">>) = "bool" /\ "bool" \notin CollectionKinds
      BY DEF KindOf, NoType, CollectionKinds
    <3> QED
      BY <1>6, <3>1, <3>2, <3>3
  <2>3. IsArguments(args) /\ args[1].name \in {NoName, "id"} /\ args # <<>>
    BY <1>1, <1>6
  <2> HIDE DEF specs, intended, args, r, kind
  <2>4. Fits(args, specs) => Fits(args, intended)
    BY <1>2, <1>3, <1>4, <1>6, <2>2, <2>3, FitWithOtherId
  <2>5. Fits(args, intended) => Fits(args, specs)
    BY <1>2, <1>3, <1>4, <1>6, <2>2, <2>3, FitWithOtherId
  <2>6. Fits(args, intended) /\ registry # <<>> => Fits(args, registry)
    BY <1>1, <1>6, RegistryFits DEF intended, args, r, kind
  <2> QED
    BY <2>4, <2>5, <2>6 DEF specs, intended, args
<1>7. CASE args # <<>> /\ KindOf(r) # kind
  <2>1. r = args[1].type
    BY <1>7 DEF Receiver
  <2>2. registry # <<>>
    BY <1>1, <1>7, RegistrySpecs
  <2>3. /\ ParameterList(registry) /\ DOMAIN registry = DOMAIN intended
        /\ registry[1].name = RegistryName(c, "id")
        /\ registry[1].type = Text(kind)
    BY <1>2, <2>2, RegistrySpecs
  <2>4. args[1].name = "id" => registry[1].name = "id"
    <3>1. ASSUME args[1].name = "id"
          PROVE  1 \in Named(args)
      <4>1. 1 \in DOMAIN args
        <5>1. args \in Seq(Range(args))
          BY DEF IsArguments
        <5> QED
          BY <1>7, <5>1
      <4> QED
        BY <3>1, <4>1 DEF Named, NoName
    <3> QED
      BY <1>1, <2>3, <3>1
  <2>5. args[1].name \in {NoName, "id"} /\ IsArguments(args)
    BY <1>1, <1>7
  <2> HIDE DEF registry, intended, args, r
  <2>6. ~Fits(args, intended)
    BY <1>1, <1>2, <1>7, <2>1, <2>5, OtherKindUnfit
  <2>7. ~Fits(args, registry)
    BY <1>1, <1>2, <1>7, <2>1, <2>3, <2>4, <2>5, OtherKindUnfit
  <2> QED
    BY <2>2, <2>6, <2>7 DEF registry, intended, args
<1> QED
  BY <1>5, <1>6, <1>7

LEMMA JudgedRight == ChoiceInv => CollectionCallsWellTyped
<1> SUFFICES ASSUME ChoiceInv, pc = "done", call.callee = "collection",
                    Resolves(call), Comparable(call)
             PROVE  diags = {} <=> WellTyped(call)
  BY DEF CollectionCallsWellTyped
<1> DEFINE args == call.args
           specs == Specs(call)
           registry == RegistryParams(call)
           intended == IntendedSpecs(call)
           kind == KindNamed(call)
<1>1. WellTyped(call) <=> Fits(args, intended)
  BY DEF WellTyped, Fits
<1>2. diags = {} <=> /\ Unobjected(args, specs)
                     /\ registry # <<>> => Unobjected(args, registry)
  <2>1. diags = CollectionIssues(call) \cup OrderIssues(args)
    BY DEF ChoiceInv, Reports, Found, DeclaredIssues
  <2>2. CollectionIssues(call) = BindingIssues(args, specs)
                                   \cup (IF registry = <<>> THEN {}
                                         ELSE BindingIssues(args, registry))
    BY DEF CollectionIssues
  <2> HIDE DEF args, specs, registry
  <2> QED
    BY <2>1, <2>2 DEF Unobjected
<1>3. IsArguments(args) /\ NamespaceKnows(call)
  BY DEF ChoiceInv, IsCall
<1>4. kind \in CollectionKinds /\ call.op \in DOMAIN Templates[kind]
  BY DEF Resolves, Operations
<1>5. Unobjected(args, specs) <=> Fits(args, specs)
  BY <1>3, SpecsListed, UnobjectedFit, FittingUnobjected
<1>6. CASE call.form = "method"
  <2>1. /\ Receiver(call) = call.receiver /\ kind = KindOf(Receiver(call))
        /\ specs = MethodSpecs(Receiver(call), call.op)
        /\ registry = <<>>
    BY <1>6 DEF Receiver, KindNamed, Specs, RegistryParams
  <2>2. LetterFree(Receiver(call))
    BY DEF Comparable
  <2>3. intended = MeantSpecs(kind, Receiver(call), call.op)
    BY <1>6, IntendedIsMeant
  <2>4. specs = intended
    <3> HIDE DEF specs, intended, kind
    <3>1. KindOf(Receiver(call)) \in CollectionKinds
          /\ call.op \in DOMAIN Templates[KindOf(Receiver(call))]
      BY <1>4, <2>1
    <3>2. MethodSpecs(Receiver(call), call.op)
            = MeantSpecs(KindOf(Receiver(call)), Receiver(call), call.op)
      BY <2>2, <3>1, SpecsAsMeant
    <3> QED
      BY <2>1, <2>3, <3>2
  <2> QED
    BY <1>1, <1>2, <1>5, <2>1, <2>4
<1>7. CASE call.form = "function"
  <2>1. kind = call.kind
    BY <1>7 DEF KindNamed
  <2>2. (Fits(args, specs) /\ (registry # <<>> => Fits(args, registry)))
           <=> Fits(args, intended)
    BY <1>3, <1>4, <1>7, <2>1, FunctionJudged
  <2>3. registry # <<>> => (Unobjected(args, registry) <=> Fits(args, registry))
    <3>1. registry # <<>> => ParameterList(registry)
      BY <1>4, <1>7, <2>1, RegistrySpecs
    <3> QED
      BY <1>3, <3>1, UnobjectedFit, FittingUnobjected
  <2> HIDE DEF args, specs, registry, intended
  <2> QED
    BY <1>1, <1>2, <1>5, <2>2, <2>3
<1> QED
  BY <1>3, <1>6, <1>7 DEF NamespaceKnows

\* For any callables, receivers and arguments, a call of a collection operation
\* is accepted exactly if its arguments fit the parameters of the operation
\* with the receiver's types in place of the letters, though the signature and
\* the registry are checked one after the other and by themselves
\* (collection_signatures.py:326, 610).
THEOREM CollectionCallsJudgedRight == Spec => []CollectionCallsWellTyped
BY Initially, EveryStep, JudgedRight, PTL DEF Spec

-----------------------------------------------------------------------------
(***************************************************************************)
(* The rows of a collection call.                                          *)
(***************************************************************************)

\* What SignatureResolver leaves as the type of a result is its type.
LEMMA ResultsAgree ==
  ASSUME NEW r, KindOf(r) \in CollectionKinds, NEW op \in DOMAIN Templates[KindOf(r)]
  PROVE  ResolverReturn(r, op) \in {NoType, ReturnType(r, op)}
<1> DEFINE kind == KindOf(r)
           args == GenericArgs(r)
           by == Replacements(r)
           ArrayOf(type) == <<"array", "<">> \o type \o <<">">>
<1>1. /\ kind \in {"array", "matrix"} /\ args # <<>> => by.T = args[1]
      /\ kind = "map" /\ Len(args) >= 2 => by.K = args[1] /\ by.V = args[2]
  BY DEF Replacements
<1>2. kind \in {"array", "matrix", "map"}
  BY DEF CollectionKinds
<1> HIDE DEF by, args, kind
<1>3. CASE op = "copy"
  <2>1. ReturnType(r, op) = r
    BY <1>3 DEF ReturnType
  <2>2. ResolverReturn(r, op) = IF args = <<>> THEN NoType ELSE r
    BY <1>3 DEF ResolverReturn, args
  <2> QED
    BY <2>1, <2>2
<1>4. CASE op # "copy" /\ kind # "map"
  <2>1. /\ op = "get" => ReturnType(r, op) = by.T
        /\ op = "pop" => ReturnType(r, op) = by.T
    BY <1>2, <1>4 DEF ReturnType, by, kind
  <2>2. ResolverReturn(r, op) =
          IF args # <<>> /\ (op = "get" \/ (kind = "array" /\ op = "pop"))
          THEN args[1] ELSE NoType
    <3>1. kind \in {"array", "matrix"} /\ kind # "map" /\ op # "copy"
      BY <1>2, <1>4
    <3>2. CASE args = <<>>
      BY <3>2 DEF ResolverReturn, args
    <3>3. CASE args # <<>> /\ op = "get"
      <4>1. ResolverReturn(r, op) = args[1]
        BY <3>1, <3>3 DEF ResolverReturn, args, kind
      <4> QED
        BY <3>3, <4>1
    <3>4. CASE args # <<>> /\ op # "get" /\ kind = "array" /\ op = "pop"
      BY <3>1, <3>4 DEF ResolverReturn, args, kind
    <3>5. CASE args # <<>> /\ op # "get" /\ ~(kind = "array" /\ op = "pop")
      <4>1. ResolverReturn(r, op) = NoType
        BY <3>1, <3>5 DEF ResolverReturn, args, kind
      <4> QED
        BY <3>5, <4>1
    <3> QED
      BY <3>2, <3>3, <3>4, <3>5
  <2> QED
    BY <1>1, <1>2, <1>4, <2>1, <2>2
<1>5. CASE op # "copy" /\ kind = "map"
  <2>1. /\ op \in {"get", "remove"} => ReturnType(r, op) = by.V
        /\ op = "keys" => ReturnType(r, op) = ArrayOf(by.K)
        /\ op = "values" => ReturnType(r, op) = ArrayOf(by.V)
    BY <1>5 DEF ReturnType, by, kind
  <2>2. ResolverReturn(r, op) \in
          {NoType} \cup (IF ~(Len(args) >= 2) THEN {}
                         ELSE IF op \in {"get", "remove"} THEN {args[2]}
                         ELSE IF op = "keys" THEN {ArrayOf(args[1])}
                         ELSE IF op = "values" THEN {ArrayOf(args[2])} ELSE {})
    BY <1>5 DEF ResolverReturn, args, kind
  <2> HIDE DEF ArrayOf
  <2> QED
    BY <1>1, <1>5, <2>1, <2>2
<1> QED
  BY <1>3, <1>4, <1>5

\* The operations the two tables know by name.
LEMMA NamedOperations ==
  ASSUME NEW kind \in CollectionKinds, NEW op \in DOMAIN Templates[kind]
  PROVE  /\ op = "clear" => op \in Mutations[kind]
         /\ op \notin Mutations[kind] =>
              kind \in DOMAIN NamedMutations /\ op \notin DOMAIN NamedMutations[kind]
         /\ op \in Mutations[kind] /\ ~(kind = "map" /\ op = "remove") =>
              kind \in DOMAIN NamedAccesses /\ op \notin DOMAIN NamedAccesses[kind]
<1>1. CASE kind = "array"
  <2>1. op \in {"push", "includes", "set", "get", "remove", "pop", "size",
              "copy", "clear", "concat", "slice", "fill"}
    BY <1>1 DEF Templates
  <2>2. Mutations[kind] = {"push", "set", "remove", "pop", "clear", "concat", "fill"}
    BY <1>1 DEF Mutations
  <2>3. /\ kind \in DOMAIN NamedMutations /\ kind \in DOMAIN NamedAccesses
        /\ DOMAIN NamedMutations[kind] = {"push", "unshift", "set", "clear"}
        /\ DOMAIN NamedAccesses[kind] =
             {"get", "includes", "indexof", "first", "last", "size", "copy"}
    BY <1>1 DEF NamedMutations, NamedAccesses
  <2> QED
    BY <1>1, <2>1, <2>2, <2>3
<1>2. CASE kind = "matrix"
  <2>1. op \in {"set", "get", "rows", "row", "copy", "add_col", "mult"}
    BY <1>2 DEF Templates
  <2>2. Mutations[kind] = {"set", "add_col"}
    BY <1>2 DEF Mutations
  <2>3. /\ kind \in DOMAIN NamedMutations /\ kind \in DOMAIN NamedAccesses
        /\ DOMAIN NamedMutations[kind] = {"set", "clear"}
        /\ DOMAIN NamedAccesses[kind] = {"get", "rows", "columns", "copy"}
    BY <1>2 DEF NamedMutations, NamedAccesses
  <2> QED
    BY <1>2, <2>1, <2>2, <2>3
<1>3. CASE kind = "map"
  <2>1. op \in {"put", "get", "put_all", "contains", "remove", "keys", "values",
              "copy", "clear"}
    BY <1>3 DEF Templates
  <2>2. Mutations[kind] = {"put", "put_all", "remove", "clear"}
    BY <1>3 DEF Mutations
  <2>3. /\ kind \in DOMAIN NamedMutations /\ kind \in DOMAIN NamedAccesses
        /\ DOMAIN NamedMutations[kind] = {"put", "remove", "clear"}
        /\ DOMAIN NamedAccesses[kind] =
             {"get", "contains", "remove", "keys", "values", "size", "copy"}
    BY <1>3 DEF NamedMutations, NamedAccesses
  <2> QED
    BY <1>3, <2>1, <2>2, <2>3
<1> QED
  BY <1>1, <1>2, <1>3 DEF CollectionKinds

\* A row without arguments, and one with a key alone.
EmptyRow == [role \in Roles |-> 0]

KeyRow(place) == [role \in Roles |-> IF role = "key" THEN place ELSE 0]

\* A row by name whose arguments must all be there.
NamedRow(c, table) == FromName(c, table, FALSE)

\* A row by name for an operation without roles, and for that of a key.
LEMMA RowByName ==
  ASSUME NEW c, c.form \in {"method", "function"}, IsArguments(c.args),
         NEW table, KindNamed(c) \in DOMAIN table, c.op \in DOMAIN table[KindNamed(c)],
         NEW first \in {0, 1}, c.form = "function" <=> first = 1,
         NEW place, place = first + 1
  PROVE  /\ table[KindNamed(c)][c.op] = <<>> /\ (first = 1 => c.args # <<>>) =>
              NamedRow(c, table) = EmptyRow
         /\ table[KindNamed(c)][c.op] = <<>> /\ first = 1 /\ c.args = <<>> =>
              NamedRow(c, table) = NoRow
         /\ table[KindNamed(c)][c.op] = <<"key">> /\ Len(c.args) = place =>
              NamedRow(c, table) = KeyRow(place)
<1> DEFINE roles == table[KindNamed(c)][c.op]
           start == IF c.form = "function" THEN 1 ELSE 0
           Place(role) == {k \in DOMAIN roles : roles[k] = role /\ start + k <= Len(c.args)}
           row == [role \in Roles |-> IF Place(role) = {} THEN 0
                                      ELSE start + CHOOSE k \in Place(role) : TRUE]
<1>1. NamedRow(c, table) =
        IF Len(c.args) < start + Len(roles) THEN NoRow ELSE row
  BY DEF FromName, NamedRow
<1>2. start = first
  OBVIOUS
<1>3. Len(c.args) \in Nat /\ (c.args # <<>> => Len(c.args) # 0)
      /\ (c.args = <<>> => Len(c.args) = 0)
  <2>1. c.args \in Seq(Range(c.args))
    BY DEF IsArguments
  <2> QED
    BY <2>1
<1> HIDE DEF start
<1>4. ASSUME roles = <<>>
      PROVE  row = EmptyRow /\ Len(roles) = 0
  <2>1. \A role : Place(role) = {}
    BY <1>4
  <2>2. Len(roles) = 0
    BY <1>4
  <2> HIDE DEF Place, roles
  <2> QED
    BY <2>1, <2>2 DEF EmptyRow
<1>5. ASSUME roles = <<"key">>, Len(c.args) = place
      PROVE  row = KeyRow(place)
             /\ Len(roles) = 1
  <2>1. DOMAIN roles = {1} /\ roles[1] = "key" /\ Len(roles) = 1
    BY <1>5
  <2>2. first + 1 <= Len(c.args)
    BY <1>5
  <2> HIDE DEF roles
  <2>3. Place("key") = {1} /\ \A role : role # "key" => Place(role) = {}
    BY <1>2, <2>1, <2>2
  <2> HIDE DEF Place
  <2>4. (CHOOSE k \in Place("key") : TRUE) = 1
    BY <2>3
  <2>5. \A role \in Roles : row[role] = IF role = "key" THEN place ELSE 0
    BY <1>2, <2>3, <2>4
  <2> QED
    BY <2>1, <2>5 DEF KeyRow
<1> HIDE DEF row, roles
<1>6. /\ roles = <<>> /\ (first = 1 => c.args # <<>>) =>
           NamedRow(c, table) = EmptyRow
      /\ roles = <<>> /\ first = 1 /\ c.args = <<>> => NamedRow(c, table) = NoRow
  <2>1. /\ roles = <<>> => row = EmptyRow /\ Len(roles) = 0
        /\ NamedRow(c, table) =
             IF Len(c.args) < first + Len(roles) THEN NoRow ELSE row
    BY <1>1, <1>2, <1>4
  <2>2. /\ first = 0 => ~(Len(c.args) < first + 0)
        /\ first = 1 /\ c.args # <<>> => ~(Len(c.args) < first + 0)
        /\ first = 1 /\ c.args = <<>> => Len(c.args) < first + 0
    BY <1>3
  <2> QED
    BY <2>1, <2>2
<1>7. roles = <<"key">> /\ Len(c.args) = place => NamedRow(c, table) = KeyRow(place)
  <2> SUFFICES ASSUME roles = <<"key">>, Len(c.args) = place
               PROVE  NamedRow(c, table) = KeyRow(place)
    OBVIOUS
  <2>1. /\ row = KeyRow(place)
        /\ Len(roles) = 1
    BY <1>5
  <2>2. NamedRow(c, table) =
          IF Len(c.args) < first + Len(roles) THEN NoRow ELSE row
    BY <1>1, <1>2
  <2>3. ~(Len(c.args) < first + 1)
    OBVIOUS
  <2>4. NamedRow(c, table) = row
    BY <2>1, <2>2, <2>3
  <2> QED
    BY <2>1, <2>4
<1> QED
  BY <1>6, <1>7 DEF roles

\* Arguments that fit are bound to parameters of the list, each to another.
LEMMA FittingBound ==
  ASSUME NEW args, IsArguments(args), NEW params, ParameterList(params),
         Fits(args, params)
  PROVE  LET binding == DeclaredBinding(args, params)
         IN /\ \A i \in DOMAIN args : /\ binding[i] \in DOMAIN params
                                      /\ PlaceParameter(args, params, i) = binding[i]
            /\ \A i, j \in DOMAIN args : binding[i] = binding[j] => i = j
            /\ \A k \in DOMAIN params : params[k].required =>
                 \E i \in DOMAIN args : binding[i] = k
<1> DEFINE binding == DeclaredBinding(args, params)
<1>1. /\ BindsOnce(binding, params)
      /\ \A i \in DOMAIN args :
           /\ binding[i] # 0
           /\ i \in Named(args) \/ \A j \in 1..(i - 1) : j \notin Named(args)
  BY DEF Fits
<1>2. DOMAIN binding = DOMAIN args
  BY DEF DeclaredBinding
<1>3. Len(params) \in Nat /\ DOMAIN params = 1..Len(params)
  BY DEF ParameterList
<1>4. ASSUME NEW i \in DOMAIN args
      PROVE  PlaceParameter(args, params, i) = binding[i]
  BY <1>1, PlaceIsRank DEF DeclaredBinding
<1>5. ASSUME NEW i \in DOMAIN args
      PROVE  binding[i] \in DOMAIN params
  <2>1. CASE i \in Named(args)
    <3>1. binding[i] = ByName(params, args[i].name) /\ binding[i] # 0
      BY <1>1, <2>1, WhereBound
    <3> HIDE DEF binding
    <3> QED
      BY <3>1, NameFindsParameter
  <2>2. CASE i \notin Named(args)
    <3>1. /\ binding[i] = IF PositionalRank(args, i) <= Len(params)
                          THEN PositionalRank(args, i) ELSE 0
          /\ i \in Positional(args) /\ binding[i] # 0
      BY <1>1, <2>2, WhereBound
    <3>2. /\ PositionalRank(args, i) \in 1..Cardinality(Positional(args))
          /\ Cardinality(Positional(args)) \in Nat
      BY <3>1, PositionalRanks
    <3> HIDE DEF binding
    <3> QED
      BY <1>3, <3>1, <3>2
  <2> QED
    BY <2>1, <2>2
<1> HIDE DEF binding
<1>6. /\ \A i, j \in DOMAIN args : binding[i] = binding[j] => i = j
      /\ \A k \in DOMAIN params : params[k].required =>
           \E i \in DOMAIN args : binding[i] = k
  BY <1>1, <1>2 DEF BindsOnce
<1> QED
  BY <1>4, <1>5, <1>6 DEF binding

\* One argument for one required parameter, two for two.
LEMMA OneFits ==
  ASSUME NEW args, IsArguments(args), NEW params, ParameterList(params),
         Fits(args, params), DOMAIN params = {1}, params[1].required
  PROVE  Len(args) = 1
<1> DEFINE binding == DeclaredBinding(args, params)
<1>1. /\ \A i \in DOMAIN args : binding[i] \in DOMAIN params
      /\ \A i, j \in DOMAIN args : binding[i] = binding[j] => i = j
      /\ \A k \in DOMAIN params : params[k].required =>
           \E i \in DOMAIN args : binding[i] = k
  BY FittingBound
<1>2. DOMAIN args = 1..Len(args) /\ Len(args) \in Nat
  BY DEF IsArguments
<1> HIDE DEF binding
<1>3. PICK i \in DOMAIN args : binding[i] = 1
  BY <1>1
<1>4. \A j \in DOMAIN args : j = i
  BY <1>1, <1>3
<1>5. 1 \in 1..Len(args) /\ Len(args) \in 1..Len(args)
  BY <1>2, <1>3
<1> QED
  BY <1>2, <1>4, <1>5

LEMMA TwoFit ==
  ASSUME NEW args, IsArguments(args), NEW params, ParameterList(params),
         Fits(args, params), DOMAIN params = {1, 2},
         params[1].required, params[2].required
  PROVE  Len(args) = 2
<1> DEFINE binding == DeclaredBinding(args, params)
<1>1. /\ \A i \in DOMAIN args : binding[i] \in DOMAIN params
      /\ \A i, j \in DOMAIN args : binding[i] = binding[j] => i = j
      /\ \A k \in DOMAIN params : params[k].required =>
           \E i \in DOMAIN args : binding[i] = k
  BY FittingBound
<1>2. DOMAIN args = 1..Len(args) /\ Len(args) \in Nat
  BY DEF IsArguments
<1> HIDE DEF binding
<1>3. PICK i \in DOMAIN args : binding[i] = 1
  BY <1>1
<1>4. PICK j \in DOMAIN args : binding[j] = 2
  BY <1>1
<1>5. i # j /\ \A k \in DOMAIN args : k = i \/ k = j
  BY <1>1, <1>3, <1>4
<1>6. ~(Len(args) >= 3)
  <2> SUFFICES ASSUME Len(args) >= 3
               PROVE  FALSE
    OBVIOUS
  <2>1. 1 \in DOMAIN args /\ 2 \in DOMAIN args /\ 3 \in DOMAIN args
    BY <1>2
  <2> QED
    BY <1>5, <2>1
<1>7. Len(args) >= 2
  BY <1>2, <1>5
<1> QED
  BY <1>2, <1>6, <1>7

\* The row of a resolved call.
RowOf(c) == [role \in Roles |-> RoleArgument(c, role)]

\* The roles when the arguments are the parameters one by one and the last of
\* them has the only role, that of the key.
LEMMA KeyArgument ==
  ASSUME NEW c, IsArguments(c.args), Fits(c.args, Specs(c)),
         NEW first \in {0, 1}, Len(c.args) = first + 1,
         DOMAIN Specs(c) = 1..(first + 1), Specs(c)[first + 1].role = "key",
         first = 1 => /\ Specs(c)[1].role = "id"
                      /\ DeclaredBinding(c.args, Specs(c))[1] = 1
  PROVE  RowOf(c) = KeyRow(first + 1)
<1> DEFINE args == c.args
           specs == Specs(c)
           binding == DeclaredBinding(args, specs)
           Of(i) == PlaceParameter(args, specs, i)
           having(role) == {i \in DOMAIN args : Of(i) # 0 /\ specs[Of(i)].role = role}
<1>1. ParameterList(specs)
  BY SpecsListed
<1>2. /\ \A i \in DOMAIN args : binding[i] \in DOMAIN specs /\ Of(i) = binding[i]
      /\ \A i, j \in DOMAIN args : binding[i] = binding[j] => i = j
  BY <1>1, FittingBound
<1>3. DOMAIN args = 1..(first + 1)
  BY DEF IsArguments
<1>4. \A role : RoleArgument(c, role) =
        IF having(role) = {} THEN 0
        ELSE CHOOSE i \in having(role) : \A j \in having(role) : i <= j
  BY DEF RoleArgument
<1>5. \A i \in DOMAIN args : Of(i) = i
  <2> HIDE DEF binding, Of
  <2>1. CASE first = 0
    BY <1>2, <1>3, <2>1
  <2>2. CASE first = 1
    <3>1. 1 \in DOMAIN args /\ 2 \in DOMAIN args /\ binding[1] = 1
      BY <1>3, <2>2 DEF binding
    <3>2. binding[2] \in 1..2 /\ binding[2] # 1
      BY <1>2, <2>2, <3>1
    <3> QED
      BY <1>2, <1>3, <2>2, <3>1, <3>2
  <2> QED
    BY <2>1, <2>2
<1>6. /\ specs[first + 1].role = "key"
      /\ first = 1 => specs[1].role = "id"
  OBVIOUS
<1> HIDE DEF args, specs, Of
<1>7. having("key") = {first + 1}
  BY <1>3, <1>5, <1>6
<1>8. ASSUME NEW role \in Roles, role # "key"
      PROVE  having(role) = {}
  <2>1. role # "id"
    BY DEF Roles
  <2> QED
    BY <1>3, <1>5, <1>6, <1>8, <2>1
<1> HIDE DEF having
<1>9. (CHOOSE i \in having("key") : \A j \in having("key") : i <= j) = first + 1
  BY <1>7
<1>10. \A role \in Roles : RoleArgument(c, role) = IF role = "key" THEN first + 1 ELSE 0
  BY <1>4, <1>7, <1>8, <1>9
<1> QED
  BY <1>10 DEF RowOf, KeyRow

LEMMA RemoveMethod ==
  ASSUME NEW r, KindOf(r) = "map"
  PROVE  /\ OperationList(MethodSpecs(r, "remove"))
         /\ DOMAIN MethodSpecs(r, "remove") = {1} /\ Len(MethodSpecs(r, "remove")) = 1
         /\ MethodSpecs(r, "remove")[1].role = "key"
         /\ MethodSpecs(r, "remove")[1].required
<1> DEFINE t == <<Key>>
           types == [k \in DOMAIN t |-> Substitute(t[k].type, Replacements(r))]
<1>1. Templates["map"]["remove"] = t /\ "remove" \in DOMAIN Templates["map"]
  BY DEF Templates
<1>2. MethodSpecs(r, "remove") = Typed(t, types)
  BY <1>1 DEF MethodSpecs, Operations, CollectionKinds, Typed
<1>3. OperationList(t)
  <2>1. "map" \in CollectionKinds
    BY DEF CollectionKinds
  <2> QED
    BY <1>1, <2>1, TemplatesListed
<1>4. DOMAIN t = {1} /\ Len(t) = 1 /\ t[1].role = "key" /\ t[1].required
  BY DEF Key, P
<1> HIDE DEF t, types
<1> QED
  BY <1>2, <1>3, <1>4, ListTyped

\* map.remove has its key behind the id, which both of its rows say.
LEMMA RemoveCall ==
  ASSUME NEW c, NamespaceKnows(c), IsArguments(c.args),
         KindNamed(c) = "map", c.op = "remove",
         Fits(c.args, Specs(c)),
         RegistryParams(c) # <<>> => Fits(c.args, RegistryParams(c)),
         NEW first \in {0, 1}, c.form = "function" <=> first = 1
  PROVE  /\ Len(c.args) = first + 1
         /\ IdFirst(c) =>
              RowOf(c) = KeyRow(first + 1)
<1> DEFINE args == c.args
           r == Receiver(c)
           specs == Specs(c)
           method == MethodSpecs(r, "remove")
           registry == RegistryParams(c)
           id == P("id", r, "id", TRUE)
<1>1. ParameterList(specs)
  BY SpecsListed
<1>2. CASE c.form = "method"
  <2>1. KindOf(r) = "map" /\ specs = method /\ first = 0
    BY <1>2 DEF KindNamed, Receiver, Specs
  <2>2. /\ DOMAIN specs = {1} /\ specs[1].role = "key" /\ specs[1].required
    BY <2>1, RemoveMethod
  <2>3. Len(args) = 1
    BY <1>1, <2>2, OneFits
  <2>4. DOMAIN specs = 1..(first + 1) /\ Len(args) = first + 1
        /\ specs[first + 1].role = "key"
    <3> HIDE DEF specs
    <3> QED
      BY <2>1, <2>2, <2>3
  <2> QED
    BY <2>1, <2>4, KeyArgument
<1>3. CASE c.form = "function"
  <2>1. c.kind = "map" /\ first = 1
    BY <1>3 DEF KindNamed
  <2>2. "map" \in CollectionKinds /\ "remove" \in DOMAIN Templates["map"]
        /\ Len(Templates["map"]["remove"]) = 1
        /\ Templates["map"]["remove"][1].required
    BY DEF CollectionKinds, Templates, Key, P
  <2>3. /\ DOMAIN IntendedSpecs(c) = {1, 2}
        /\ IntendedSpecs(c)[1].required /\ IntendedSpecs(c)[2].required
        /\ IntendedSpecs(c)[1].name = "id"
    <3>1. /\ DOMAIN IntendedSpecs(c) = 1..2
          /\ IntendedSpecs(c)[1] = P("id", Text("map"), "id", TRUE)
          /\ \A k \in DOMAIN IntendedSpecs(c) : k # 1 =>
               IntendedSpecs(c)[k].required = Templates["map"]["remove"][k - 1].required
      <4> DEFINE t == Templates[c.kind][c.op]
                 intended == IntendedSpecs(c)
      <4>1. t = Templates["map"]["remove"] /\ Len(t) = 1
        BY <2>1, <2>2
      <4>2. c.kind \in CollectionKinds /\ c.op \in DOMAIN Templates[c.kind]
        BY <2>1, <2>2
      <4>3. /\ DOMAIN intended = 1..(Len(t) + 1)
            /\ intended[1] = P("id", Text(c.kind), "id", TRUE)
            /\ \A k \in DOMAIN intended : k # 1 =>
                 intended[k].required = t[k - 1].required
        BY <1>3, <4>2, FunctionSpecs
      <4> HIDE DEF t, intended
      <4>4. Len(t) + 1 = 2
        BY <4>1
      <4> QED
        BY <2>1, <4>1, <4>3, <4>4 DEF intended
    <3>2. 2 \in 1..2 /\ 2 - 1 = 1
      OBVIOUS
    <3>3. IntendedSpecs(c)[2].required
      BY <2>2, <3>1, <3>2
    <3> QED
      BY <3>1, <3>3 DEF P
  <2>4. /\ registry # <<>> /\ ParameterList(registry)
        /\ DOMAIN registry = {1, 2}
        /\ registry[1].required /\ registry[2].required
        /\ registry[1].name = "id" /\ registry[1].type = Text("map")
    <3>1. registry # <<>>
      BY <1>3, <2>1, <2>2, RegistrySpecs
    <3>2. RegistryName(c, "id") = "id"
      BY DEF RegistryName
    <3>3. /\ ParameterList(registry) /\ DOMAIN registry = DOMAIN IntendedSpecs(c)
          /\ \A k \in DOMAIN IntendedSpecs(c) :
               /\ registry[k].name = RegistryName(c, IntendedSpecs(c)[k].name)
               /\ registry[k].required = IntendedSpecs(c)[k].required
               /\ k = 1 => registry[k].type = Text(c.kind)
      BY <1>3, <2>1, <2>2, <3>1, RegistrySpecs
    <3> HIDE DEF registry
    <3> QED
      BY <2>1, <2>3, <3>1, <3>2, <3>3
  <2>5. Fits(args, registry)
    BY <2>4
  <2>6. Len(args) = 2
    <3> HIDE DEF registry
    <3> QED
      BY <2>4, <2>5, TwoFit
  <2>7. ASSUME IdFirst(c)
        PROVE  RowOf(c) = KeyRow(first + 1)
    <3>1. args # <<>> /\ args[1].name \in {NoName, "id"} /\ r = args[1].type
      <4>1. args # <<>>
        BY <2>6
      <4> QED
        BY <1>3, <2>7, <4>1 DEF IdFirst, Receiver
    <3>2. KindOf(r) \in {"map", "unknown", "na"}
      <4> SUFFICES ASSUME KindOf(args[1].type) \notin {"map", "unknown", "na"}
                   PROVE  FALSE
        BY <3>1
      <4> HIDE DEF registry, args
      <4>1. ~Fits(args, registry)
        BY <2>2, <2>4, <3>1, OtherKindUnfit DEF args
      <4> QED
        BY <2>5, <4>1
    <3>3. specs = <<id>> \o method
      BY <1>3 DEF Specs
    <3>4. id.name = "id" /\ id.role = "id" /\ id.required
      BY DEF P
    <3>5. KindOf(r) = "map"
      <4> SUFFICES ASSUME KindOf(r) # "map"
                   PROVE  FALSE
        OBVIOUS
      <4>1. method = <<>>
        BY <3>2 DEF MethodSpecs, Operations, CollectionKinds
      <4>2. OperationList(<<>>)
        BY DEF OperationList, ParameterList, Range
      <4>3. DOMAIN specs = {1} /\ specs[1] = id
        BY <3>3, <4>1
      <4> HIDE DEF specs, args
      <4>4. Len(args) = 1
        BY <1>1, <3>4, <4>3, OneFits DEF specs, args
      <4> QED
        BY <2>6, <4>4
    <3>6. /\ OperationList(method) /\ DOMAIN method = {1} /\ Len(method) = 1
          /\ method[1].role = "key"
      BY <3>5, RemoveMethod
    <3> DEFINE longer == <<id>> \o method
    <3>7. /\ DOMAIN longer = 1..(Len(method) + 1) /\ longer[1] = id
          /\ \A k \in DOMAIN longer : k # 1 =>
               k - 1 \in DOMAIN method /\ longer[k] = method[k - 1]
      <4> HIDE DEF method
      <4> QED
        BY <3>6, IdBefore
    <3> HIDE DEF longer, method, id
    <3>8. DOMAIN longer = 1..2 /\ longer[1].role = "id" /\ longer[2].role = "key"
          /\ longer[1].name = "id"
      <4>1. DOMAIN longer = 1..2
        BY <3>6, <3>7
      <4>2. 2 \in DOMAIN longer
        BY <4>1
      <4>3. longer[2] = method[1]
        BY <3>7, <4>2
      <4> QED
        BY <3>4, <3>6, <3>7, <4>1, <4>3
    <3>9. /\ DOMAIN specs = 1..2 /\ specs[1].role = "id" /\ specs[2].role = "key"
          /\ specs[1].name = "id"
      BY <3>3, <3>8 DEF longer, id
    <3>10. DeclaredBinding(args, specs)[1] = 1
      <4>1. 1 \in DOMAIN specs
        BY <3>9
      <4> HIDE DEF specs
      <4> QED
        BY <1>1, <3>1, <3>9, <4>1, FirstIsId
    <3>11. /\ Len(args) = first + 1 /\ DOMAIN specs = 1..(first + 1)
           /\ specs[first + 1].role = "key"
      <4> HIDE DEF specs, args
      <4> QED
        BY <2>1, <2>6, <3>9
    <3> QED
      BY <3>9, <3>10, <3>11, KeyArgument
  <2> QED
    BY <2>1, <2>6, <2>7
<1> QED
  BY <1>2, <1>3 DEF NamespaceKnows

\* The rows of an accepted call without a resolution: matrix.clear.
LEMMA UnresolvedRows ==
  ASSUME NEW c, NamespaceKnows(c), IsArguments(c.args),
         ~Resolves(c), CollectionIssues(c) = {}
  PROVE  /\ ~(KindNamed(c) = "map" /\ c.op = "remove")
         /\ c.form = "function" /\ c.op = "clear"
         /\ AccessRow(c) = NoRow
         /\ c.args = <<>> => MutationRow(c) = NoRow
         /\ c.args # <<>> => MutationRow(c) = EmptyRow
<1>1. c.form = "function"
  BY DEF CollectionIssues, When, NamespaceKnows
<1>2. /\ KindNamed(c) = c.kind /\ c.kind \in CollectionKinds
      /\ c.op \notin DOMAIN Templates[c.kind] /\ c.op = "clear"
  BY <1>1 DEF NamespaceKnows, Operations, Resolves, KindNamed
<1>3. c.kind = "matrix"
  <2>1. "clear" \in DOMAIN Templates["array"] /\ "clear" \in DOMAIN Templates["map"]
    BY DEF Templates
  <2> QED
    BY <1>2, <2>1 DEF CollectionKinds
<1>4. /\ "matrix" \in DOMAIN NamedMutations
      /\ "clear" \in DOMAIN NamedMutations["matrix"]
      /\ NamedMutations["matrix"]["clear"] = <<>>
      /\ "matrix" \in DOMAIN NamedAccesses
      /\ "clear" \notin DOMAIN NamedAccesses["matrix"]
  BY DEF NamedMutations, NamedAccesses
<1>5. AccessRow(c) = FromName(c, NamedAccesses, KindNamed(c) = "array")
  BY DEF AccessRow, IsAccess
<1>6. AccessRow(c) = NoRow
  BY <1>2, <1>3, <1>4, <1>5 DEF FromName
<1>7. MutationRow(c) = NamedRow(c, NamedMutations)
  BY DEF MutationRow, IsMutation, NamedRow
<1> DEFINE first == 1
<1>8. /\ KindNamed(c) \in DOMAIN NamedMutations
      /\ c.op \in DOMAIN NamedMutations[KindNamed(c)]
      /\ NamedMutations[KindNamed(c)][c.op] = <<>>
      /\ first \in {0, 1} /\ (c.form = "function" <=> first = 1)
      /\ c.form \in {"method", "function"}
  BY <1>1, <1>2, <1>3, <1>4
<1>9. /\ c.args = <<>> => MutationRow(c) = NoRow
      /\ c.args # <<>> => MutationRow(c) = EmptyRow
  <2> DEFINE table == NamedMutations
             roles == table[KindNamed(c)][c.op]
  <2>1. first = 1 /\ roles = <<>>
    BY <1>8
  <2>2. /\ KindNamed(c) \in DOMAIN table /\ c.op \in DOMAIN table[KindNamed(c)]
        /\ first \in {0, 1} /\ (c.form = "function" <=> first = 1)
        /\ c.form \in {"method", "function"}
    BY <1>8
  <2>3. MutationRow(c) = NamedRow(c, table)
    BY <1>7
  <2> HIDE DEF first, table
  <2>4. /\ roles = <<>> /\ (first = 1 => c.args # <<>>) =>
             NamedRow(c, table) = EmptyRow
        /\ roles = <<>> /\ first = 1 /\ c.args = <<>> =>
             NamedRow(c, table) = NoRow
    <3>1. PICK place : place = first + 1
      OBVIOUS
    <3> QED
      BY <2>2, <3>1, RowByName
  <2> HIDE DEF roles
  <2> QED
    BY <2>1, <2>3, <2>4
<1> QED
  BY <1>1, <1>2, <1>3, <1>6, <1>9

\* The rows of an accepted call with one.
LEMMA ResolvedRows ==
  ASSUME NEW c, NamespaceKnows(c), IsArguments(c.args), Resolves(c),
         Fits(c.args, Specs(c)),
         RegistryParams(c) # <<>> => Fits(c.args, RegistryParams(c))
  PROVE  LET removes == KindNamed(c) = "map" /\ c.op = "remove"
             row == RowOf(c)
         IN /\ row # NoRow
            /\ c.op = "clear" => IsMutation(c)
            /\ IsMutation(c) => MutationRow(c) = row
            /\ ~IsMutation(c) => IsAccess(c) /\ AccessRow(c) = row /\ MutationRow(c) = NoRow
            /\ IsMutation(c) /\ ~removes => AccessRow(c) = NoRow
            /\ removes => /\ IsMutation(c) /\ AccessRow(c) # NoRow
                          /\ IdFirst(c) => AccessRow(c) = row
<1> DEFINE kind == KindNamed(c)
           row == RowOf(c)
           removes == kind = "map" /\ c.op = "remove"
<1>1. kind \in CollectionKinds /\ c.op \in DOMAIN Templates[kind]
  BY DEF Resolves, Operations
<1>2. /\ c.op = "clear" => c.op \in Mutations[kind]
      /\ c.op \notin Mutations[kind] =>
           kind \in DOMAIN NamedMutations /\ c.op \notin DOMAIN NamedMutations[kind]
      /\ c.op \in Mutations[kind] /\ ~removes =>
           kind \in DOMAIN NamedAccesses /\ c.op \notin DOMAIN NamedAccesses[kind]
  BY <1>1, NamedOperations
<1>3. /\ IsMutation(c) <=> c.op \in Mutations[kind]
      /\ IsAccess(c) <=> c.op \notin Mutations[kind]
  BY DEF IsMutation, IsAccess
<1>4. row # NoRow
  <2>1. DOMAIN NoRow = {} /\ DOMAIN row = Roles /\ "key" \in Roles
    BY DEF NoRow, Roles, RowOf
  <2> QED
    BY <2>1
<1>5. FromResolution(c) = row
  <2>1. ASSUME c.form = "function", c.args = <<>>
        PROVE  FALSE
    <3>1. Specs(c) = <<P("id", Receiver(c), "id", TRUE)>> \o MethodSpecs(Receiver(c), c.op)
      BY <2>1 DEF Specs
    <3> DEFINE id == P("id", Receiver(c), "id", TRUE)
               method == MethodSpecs(Receiver(c), c.op)
               longer == <<id>> \o method
    <3>2. /\ DOMAIN longer = 1..(Len(method) + 1) /\ Len(method) \in Nat
          /\ longer[1] = id
      <4>1. OperationList(method)
        BY MethodListed
      <4> HIDE DEF method
      <4> QED
        BY <4>1, IdBefore
    <3>3. id.required
      BY DEF P
    <3> HIDE DEF longer, id, method
    <3>4. 1 \in DOMAIN longer /\ longer[1].required
      BY <3>2, <3>3
    <3>5. ~Fits(<<>>, longer)
      BY <3>4, NothingUnfit
    <3> QED
      BY <2>1, <3>1, <3>5 DEF longer, id, method
  <2> QED
    BY <2>1 DEF FromResolution, RowOf
<1>6. ASSUME c.op \in Mutations[kind], ~removes
      PROVE  AccessRow(c) = NoRow
  BY <1>2, <1>3, <1>6 DEF AccessRow, FromName
<1>7. ASSUME c.op \notin Mutations[kind]
      PROVE  MutationRow(c) = NoRow
  BY <1>2, <1>3, <1>7 DEF MutationRow, FromName
<1>8. ASSUME removes
      PROVE  /\ IsMutation(c) /\ AccessRow(c) # NoRow
             /\ IdFirst(c) => AccessRow(c) = row
  <2> DEFINE first == IF c.form = "function" THEN 1 ELSE 0
             byName == KeyRow(first + 1)
  <2>1. first \in {0, 1} /\ (c.form = "function" <=> first = 1)
    OBVIOUS
  <2> HIDE DEF first
  <2>2. Len(c.args) = first + 1 /\ (IdFirst(c) => row = byName)
    BY <1>8, <2>1, RemoveCall
  <2>3. /\ "map" \in DOMAIN NamedAccesses /\ "remove" \in DOMAIN NamedAccesses["map"]
        /\ NamedAccesses["map"]["remove"] = <<"key">> /\ "remove" \in Mutations["map"]
    BY DEF NamedAccesses, Mutations
  <2>4. AccessRow(c) = NamedRow(c, NamedAccesses) /\ IsMutation(c)
    <3>1. kind = "map" /\ c.op = "remove" /\ (kind = "array") = FALSE
      BY <1>8
    <3>2. IsMutation(c) /\ ~IsAccess(c)
      BY <1>3, <2>3, <3>1
    <3> QED
      BY <3>1, <3>2 DEF AccessRow, NamedRow
  <2>5. NamedRow(c, NamedAccesses) = byName
    <3> DEFINE table == NamedAccesses
               roles == table[KindNamed(c)][c.op]
    <3>1. /\ KindNamed(c) \in DOMAIN table /\ c.op \in DOMAIN table[KindNamed(c)]
          /\ roles = <<"key">> /\ c.form \in {"method", "function"}
      BY <1>8, <2>3 DEF NamespaceKnows
    <3> HIDE DEF table
    <3>2. NamedRow(c, table) = KeyRow(first + 1)
      <4>1. PICK place : place = first + 1
        OBVIOUS
      <4>2. IsArguments(c.args) /\ Len(c.args) = place
        BY <2>2, <4>1
      <4>3. NamedRow(c, table) = KeyRow(place)
        BY ONLY <2>1, <3>1, <4>1, <4>2, RowByName
      <4> QED
        BY <4>1, <4>3
    <3>3. NamedRow(c, table) = byName
      BY <3>2
    <3> QED
      BY <3>3 DEF table
  <2>6. byName # NoRow
    <3>1. DOMAIN NoRow = {} /\ DOMAIN byName = Roles /\ "key" \in Roles
      BY DEF NoRow, Roles, KeyRow
    <3> QED
      BY <3>1
  <2> QED
    BY <2>2, <2>4, <2>5, <2>6
<1>9. /\ IsMutation(c) => MutationRow(c) = row
      /\ IsAccess(c) => AccessRow(c) = row
  BY <1>5 DEF MutationRow, AccessRow
<1> HIDE DEF row, kind
<1> QED
  BY <1>2, <1>3, <1>4, <1>6, <1>7, <1>8, <1>9 DEF row, kind

\* What the resolver says of the parameters of an operation called by its name.
LEMMA ParametersAgree ==
  ASSUME NEW c, c.form = "function", LetterFree(Receiver(c)),
         KindOf(Receiver(c)) \in CollectionKinds,
         c.op \in DOMAIN Templates[KindOf(Receiver(c))],
         NEW k \in DOMAIN Specs(c), Specs(c)[k].name \in {"key", "value"}
  PROVE  ResolverTypes(Receiver(c), c.op)[Specs(c)[k].name] \in {NoType, Specs(c)[k].type}
<1> DEFINE r == Receiver(c)
           method == MethodSpecs(r, c.op)
           id == P("id", r, "id", TRUE)
           longer == <<id>> \o method
<1>1. Specs(c) = longer
  BY DEF Specs
<1>2. OperationList(method)
  BY MethodListed
<1>3. \A j \in DOMAIN method :
        method[j].name \in {"key", "value"} =>
          ResolverTypes(r, c.op)[method[j].name] \in {NoType, method[j].type}
  BY ResolverAgrees
<1> HIDE DEF method
<1>4. /\ longer[1] = id
      /\ \A j \in DOMAIN longer : j # 1 => j - 1 \in DOMAIN method /\ longer[j] = method[j - 1]
  BY <1>2, IdBefore
<1>5. k # 1
  <2>1. id.name = "id"
    BY DEF P
  <2> HIDE DEF id, longer
  <2> QED
    BY <1>1, <1>4, <2>1
<1>6. k - 1 \in DOMAIN method /\ Specs(c)[k] = method[k - 1]
  <2> HIDE DEF longer
  <2> QED
    BY <1>1, <1>4, <1>5
<1> QED
  <2> HIDE DEF r
  <2>1. Specs(c)[k].name = method[k - 1].name /\ Specs(c)[k].type = method[k - 1].type
    BY <1>6
  <2> QED
    BY <1>3, <1>6, <2>1 DEF r

\* What the resolver says of an operation is what collection_signatures does.
SpecializedAlike(c) ==
  LET r == Receiver(c)
  IN Resolves(c) /\ c.form = "function" /\ KindOf(r) = c.kind =>
       /\ ResolverReturn(r, c.op) \in {NoType, ReturnType(r, c.op)}
       /\ LetterFree(r) =>
            \A k \in DOMAIN Specs(c) :
              Specs(c)[k].name \in {"key", "value"} =>
                ResolverTypes(r, c.op)[Specs(c)[k].name] \in {NoType, Specs(c)[k].type}

LEMMA SpecializationsAgree ==
  ASSUME NEW c, NamespaceKnows(c)
  PROVE  SpecializedAlike(c)
<1> SUFFICES ASSUME Resolves(c), c.form = "function", KindOf(Receiver(c)) = c.kind
             PROVE  SpecializedAlike(c)
  BY DEF SpecializedAlike
<1>1. /\ KindOf(Receiver(c)) \in CollectionKinds
      /\ c.op \in DOMAIN Templates[KindOf(Receiver(c))]
  BY DEF NamespaceKnows, Resolves, KindNamed, Operations
<1>2. ResolverReturn(Receiver(c), c.op) \in {NoType, ReturnType(Receiver(c), c.op)}
  BY <1>1, ResultsAgree
<1>3. ASSUME LetterFree(Receiver(c)), NEW k \in DOMAIN Specs(c),
             Specs(c)[k].name \in {"key", "value"}
      PROVE  ResolverTypes(Receiver(c), c.op)[Specs(c)[k].name] \in
               {NoType, Specs(c)[k].type}
  BY <1>1, <1>3, ParametersAgree
<1> QED
  BY <1>2, <1>3 DEF SpecializedAlike

\* Every role of a row has its argument, and what has a row is told by the call.
LEMMA RowsMatch == ChoiceInv => CollectionRowsMatchCall
<1> DEFINE mutation == MutationRow(call)
           access == AccessRow(call)
           removes == KindNamed(call) = "map" /\ call.op = "remove"
           clears == call.op = "clear" /\ (call.form = "method" \/ call.args # <<>>)
<1> SUFFICES ASSUME ChoiceInv, Accepted, call.callee = "collection"
             PROVE  /\ mutation # NoRow <=> IsMutation(call) \/ clears
                    /\ access # NoRow <=> IsAccess(call) \/ removes
                    /\ removes /\ IdFirst(call) => access = mutation
                    /\ \A row \in {mutation, IF removes THEN mutation ELSE access}
                                   \ {NoRow},
                          role \in Roles :
                         row[role] = IF Resolves(call) THEN RoleArgument(call, role)
                                     ELSE 0
                    /\ SpecializedAlike(call)
  BY DEF CollectionRowsMatchCall, SpecializedAlike
<1>1. NamespaceKnows(call) /\ IsArguments(call.args)
  BY DEF ChoiceInv, IsCall
<1>2. CollectionIssues(call) = {} /\ OrderIssues(call.args) = {}
  <2>1. diags = CollectionIssues(call) \cup OrderIssues(call.args) /\ diags = {}
    BY DEF ChoiceInv, Reports, Found, DeclaredIssues, Accepted
  <2> QED
    BY <2>1
<1>3. SpecializedAlike(call)
  BY <1>1, SpecializationsAgree
<1>4. CASE ~Resolves(call)
  <2>1. /\ ~removes /\ call.form = "function" /\ call.op = "clear"
        /\ access = NoRow
        /\ call.args = <<>> => mutation = NoRow
        /\ call.args # <<>> => mutation = EmptyRow
    BY <1>1, <1>2, <1>4, UnresolvedRows
  <2>2. ~IsMutation(call) /\ ~IsAccess(call)
    BY <1>4 DEF IsMutation, IsAccess
  <2>3. EmptyRow # NoRow /\ \A role \in Roles : EmptyRow[role] = 0
    <3>1. DOMAIN NoRow = {} /\ DOMAIN EmptyRow = Roles /\ "key" \in Roles
      BY DEF NoRow, Roles, EmptyRow
    <3> QED
      BY <3>1 DEF EmptyRow
  <2> HIDE DEF mutation, access, removes
  <2> QED
    BY <1>3, <1>4, <2>1, <2>2, <2>3
<1>5. CASE Resolves(call)
  <2> DEFINE specs == Specs(call)
             registry == RegistryParams(call)
             row == RowOf(call)
  <2>1. Fits(call.args, specs)
    <3>1. Unobjected(call.args, specs)
      BY <1>2, <1>5 DEF CollectionIssues, Unobjected
    <3> QED
      BY <1>1, <3>1, SpecsListed, UnobjectedFit
  <2>2. registry # <<>> => Fits(call.args, registry)
    <3> SUFFICES ASSUME registry # <<>>
                 PROVE  Fits(call.args, registry)
      OBVIOUS
    <3>1. Unobjected(call.args, registry)
      BY <1>2, <1>5 DEF CollectionIssues, Unobjected
    <3>2. call.form = "function"
      <4>1. call.form = "method" => RegistryParams(call) = <<>>
        BY DEF RegistryParams
      <4> QED
        BY <1>1, <4>1 DEF NamespaceKnows
    <3>3. call.kind \in CollectionKinds /\ call.op \in DOMAIN Templates[call.kind]
      BY <1>1, <1>5, <3>2 DEF NamespaceKnows, Resolves, KindNamed, Operations
    <3>4. ParameterList(registry)
      BY <3>2, <3>3, RegistrySpecs
    <3> QED
      BY <1>1, <3>1, <3>4, UnobjectedFit
  <2>3. /\ row # NoRow
        /\ call.op = "clear" => IsMutation(call)
        /\ IsMutation(call) => mutation = row
        /\ ~IsMutation(call) => IsAccess(call) /\ access = row /\ mutation = NoRow
        /\ IsMutation(call) /\ ~removes => access = NoRow
        /\ removes => /\ IsMutation(call) /\ access # NoRow
                      /\ IdFirst(call) => access = row
    BY <1>1, <1>5, <2>1, <2>2, ResolvedRows
  <2>4. IsMutation(call) => ~IsAccess(call)
    BY DEF IsMutation, IsAccess
  <2>5. \A role \in Roles : row[role] = RoleArgument(call, role)
    BY DEF RowOf
  <2> HIDE DEF mutation, access, removes, row
  <2>6. /\ mutation # NoRow <=> IsMutation(call) \/ clears
        /\ access # NoRow <=> IsAccess(call) \/ removes
        /\ removes /\ IdFirst(call) => access = mutation
    BY <2>3, <2>4
  <2>7. \A some \in {mutation, IF removes THEN mutation ELSE access} \ {NoRow} : some = row
    BY <2>3
  <2>8. \A some \in {mutation, IF removes THEN mutation ELSE access} \ {NoRow},
           role \in Roles :
          some[role] = IF Resolves(call) THEN RoleArgument(call, role) ELSE 0
    BY <1>5, <2>5, <2>7
  <2> QED
    BY <1>3, <2>6, <2>8
<1> QED
  BY <1>4, <1>5

\* For any callables, receivers and arguments, the rows of an accepted
\* collection call say of each role which argument has it, whether they are made
\* from the resolution or by name and place (frontend/collections.py:139, 430),
\* and the resolver agrees with collection_signatures (signatures.py:384).
THEOREM RowsOfAcceptedCalls == Spec => []CollectionRowsMatchCall
BY Initially, EveryStep, RowsMatch, PTL DEF Spec

-----------------------------------------------------------------------------
(***************************************************************************)
(* Types and methods: the table of symbols.                                *)
(***************************************************************************)
IsSymbol(x) ==
  /\ x = Symbol(x.kind, x.type, x.scope)
  /\ x.scope = "TYPE_DECL" => x.kind = "FIELD"
  /\ x.kind \in {"TYPE", "ENUM"} => x.scope = "GLOBAL"

\* What a key has named.
History(h) ==
  /\ h \in Seq(Range(h)) /\ h # <<>>
  /\ \A j \in DOMAIN h : IsSymbol(h[j])

IsTable(s) == \A key \in DOMAIN s : History(s[key])

Definitions(new) == \A key \in DOMAIN new : IsSymbol(new[key])

LEMMA HistoryListed ==
  ASSUME NEW h, History(h)
  PROVE  Len(h) \in Nat /\ DOMAIN h = 1..Len(h) /\ Len(h) >= 1 /\ IsSymbol(Last(h))
<1>1. h \in Seq(Range(h)) /\ h # <<>>
  BY DEF History
<1>2. Len(h) \in Nat /\ DOMAIN h = 1..Len(h)
  BY <1>1
<1>3. Len(h) # 0
  BY <1>1, <1>2
<1> QED
  BY <1>2, <1>3 DEF Last, History

\* A meaning more.
LEMMA Pushing ==
  ASSUME NEW h, History(h) \/ h = <<>>, NEW x, IsSymbol(x)
  PROVE  /\ History(Append(h, x)) /\ Last(Append(h, x)) = x
         /\ Front(Append(h, x)) = h
<1> DEFINE g == Append(h, x)
           R == Range(h) \cup {x}
<1>1. h \in Seq(R)
  <2>1. CASE h = <<>>
    BY <2>1
  <2>2. CASE History(h)
    <3>1. h \in Seq(Range(h))
      BY <2>2 DEF History
    <3> QED
      BY <3>1
  <2> QED
    BY <2>1, <2>2
<1>2. Len(h) \in Nat /\ DOMAIN h = 1..Len(h)
  BY <1>1
<1>3. /\ g \in Seq(R) /\ Len(g) = Len(h) + 1
      /\ \A j \in 1..Len(h) : g[j] = h[j]
      /\ g[Len(h) + 1] = x
  <2> HIDE DEF R
  <2>1. x \in R
    BY DEF R
  <2> QED
    BY <1>1, <2>1
<1>4. DOMAIN g = 1..(Len(h) + 1)
  BY <1>3
<1>5. \A j \in DOMAIN g : IsSymbol(g[j])
  BY <1>2, <1>3, <1>4 DEF History
<1>6. g \in Seq(Range(g))
  <2> HIDE DEF g
  <2>1. g = [j \in 1..Len(g) |-> g[j]] /\ Len(g) \in Nat
    BY <1>3
  <2>2. g \in [1..Len(g) -> Range(g)]
    BY <2>1 DEF Range
  <2> QED
    BY <2>1, <2>2
<1>7. g # <<>> /\ Last(g) = x
  BY <1>2, <1>3 DEF Last
<1>9. Front(g) = h
  <2>1. Front(g) = SubSeq(g, 1, Len(h))
    BY <1>2, <1>3 DEF Front
  <2> HIDE DEF g
  <2>2. SubSeq(g, 1, Len(h)) = [j \in 1..Len(h) |-> g[j]]
    BY <1>2, <1>3
  <2>3. [j \in 1..Len(h) |-> g[j]] = [j \in 1..Len(h) |-> h[j]]
    BY <1>3
  <2>4. h = [j \in 1..Len(h) |-> h[j]]
    BY <1>1
  <2> QED
    BY <2>1, <2>2, <2>3, <2>4
<1> QED
  BY <1>2, <1>3, <1>5, <1>6, <1>7, <1>9 DEF History

\* The meaning before.
LEMMA Popping ==
  ASSUME NEW h, History(h), Front(h) # <<>>
  PROVE  History(Front(h))
<1> DEFINE n == Len(h) - 1
<1>1. Len(h) \in Nat /\ Len(h) >= 1 /\ DOMAIN h = 1..Len(h) /\ h \in Seq(Range(h))
  BY HistoryListed DEF History
<1>2. n \in Nat /\ n # 0 /\ n <= Len(h)
  <2>1. CASE Len(h) = 1
    <3>1. Front(h) = SubSeq(h, 1, 0)
      BY <1>1, <2>1 DEF Front
    <3>2. SubSeq(h, 1, 0) = <<>>
      BY <1>1
    <3> QED
      BY <3>1, <3>2
  <2>2. CASE Len(h) # 1
    BY <1>1, <2>2
  <2> QED
    BY <2>1, <2>2
<1>3. Front(h) = [j \in 1..n |-> h[j]]
  BY <1>1, <1>2 DEF Front
<1> DEFINE f == Front(h)
<1> HIDE DEF n, f
<1>4. f = [j \in 1..n |-> h[j]]
  BY <1>3 DEF f
<1>5. f \in [1..n -> Range(f)]
  BY <1>4 DEF Range
<1>7. f \in Seq(Range(f)) /\ Len(f) = n
  BY <1>2, <1>4, <1>5
<1>6. \A j \in 1..n : IsSymbol(h[j])
  BY <1>1, <1>2 DEF History
<1> QED
  BY <1>2, <1>4, <1>6, <1>7 DEF History, f

\* Another last meaning.
LEMMA Changing ==
  ASSUME NEW h, History(h), NEW x, IsSymbol(x)
  PROVE  LET g == Append(Front(h), x)
         IN History(g) /\ Last(g) = x /\ Front(g) = Front(h)
BY Popping, Pushing

\* What the definitions of a scope make of the table.
Bound(s, new, b) ==
  /\ DOMAIN b = DOMAIN s \cup DOMAIN new
  /\ \A key \in DOMAIN new : /\ Last(b[key]) = new[key]
                             /\ Front(b[key]) = IF key \in DOMAIN s THEN s[key] ELSE <<>>
  /\ \A key \in DOMAIN s \ DOMAIN new : b[key] = s[key]

LEMMA Binding ==
  ASSUME NEW s, IsTable(s), NEW new, Definitions(new)
  PROVE  IsTable(Bind(s, new)) /\ Bound(s, new, Bind(s, new))
<1> DEFINE b == Bind(s, new)
<1>1. DOMAIN b = DOMAIN s \cup DOMAIN new
  BY DEF Bind
<1>2. ASSUME NEW key \in DOMAIN new
      PROVE  /\ History(b[key]) /\ Last(b[key]) = new[key]
             /\ Front(b[key]) = IF key \in DOMAIN s THEN s[key] ELSE <<>>
  <2> DEFINE h == IF key \in DOMAIN s THEN s[key] ELSE <<>>
  <2>1. b[key] = Append(h, new[key])
    BY <1>2 DEF Bind
  <2>2. History(h) \/ h = <<>>
    BY DEF IsTable
  <2>3. IsSymbol(new[key])
    BY <1>2 DEF Definitions
  <2> HIDE DEF h, b
  <2>4. History(Append(h, new[key])) /\ Last(Append(h, new[key])) = new[key]
        /\ Front(Append(h, new[key])) = h
    BY <2>2, <2>3, Pushing
  <2> QED
    BY <2>1, <2>4 DEF h
<1>3. ASSUME NEW key \in DOMAIN s \ DOMAIN new
      PROVE  b[key] = s[key]
  BY <1>3 DEF Bind
<1>4. IsTable(b)
  BY <1>1, <1>2, <1>3 DEF IsTable
<1> QED
  BY <1>1, <1>2, <1>3, <1>4 DEF Bound

\* The end of a scope.
LEMMA Unbinding ==
  ASSUME NEW s, IsTable(s), NEW keys
  PROVE  LET u == Unbind(s, keys)
         IN /\ IsTable(u) /\ DOMAIN u = DOMAIN s
            /\ \A key \in DOMAIN s :
                 u[key] = IF key \in keys /\ Front(s[key]) # <<>>
                          THEN Front(s[key]) ELSE s[key]
<1> DEFINE u == Unbind(s, keys)
<1>1. DOMAIN u = DOMAIN s
  BY DEF Unbind
<1>2. ASSUME NEW key \in DOMAIN s
      PROVE  u[key] = IF key \in keys /\ Front(s[key]) # <<>>
                      THEN Front(s[key]) ELSE s[key]
  BY <1>2 DEF Unbind
<1>3. ASSUME NEW key \in DOMAIN s
      PROVE  History(u[key])
  <2>1. History(s[key])
    BY <1>3 DEF IsTable
  <2>2. Front(s[key]) # <<>> => History(Front(s[key]))
    BY <2>1, Popping
  <2> QED
    BY <1>2, <2>1, <2>2
<1> HIDE DEF u
<1>4. IsTable(u)
  BY <1>1, <1>3 DEF IsTable
<1> QED
  BY <1>1, <1>2, <1>4 DEF u

\* Another type for the symbol of one name.
Retyped(s, key, r) ==
  /\ DOMAIN r = DOMAIN s
  /\ Front(r[key]) = Front(s[key])
  /\ Last(r[key]).kind = Last(s[key]).kind /\ Last(r[key]).scope = Last(s[key]).scope
  /\ \A k \in DOMAIN s \ {key} : r[k] = s[k]

LEMMA Resulting ==
  ASSUME NEW s, IsTable(s), NEW item, Text(item.name) \in DOMAIN s
  PROVE  IsTable(SetResult(s, item)) /\ Retyped(s, Text(item.name), SetResult(s, item))
<1> DEFINE key == Text(item.name)
           old == Last(s[key])
           x == [old EXCEPT !.type = ResultType(s, item)]
           r == SetResult(s, item)
<1>1. History(s[key])
  BY DEF IsTable
<1>2. IsSymbol(old)
  BY <1>1, HistoryListed
<1>3. IsSymbol(x) /\ x.kind = old.kind /\ x.scope = old.scope
  <2> HIDE DEF old
  <2>1. old = [kind |-> old.kind, type |-> old.type, scope |-> old.scope]
    BY <1>2 DEF IsSymbol, Symbol
  <2> HIDE DEF x
  <2>2. x = [kind |-> old.kind, type |-> ResultType(s, item), scope |-> old.scope]
    BY <2>1 DEF x
  <2>3. x = Symbol(old.kind, ResultType(s, item), old.scope)
    BY <2>2 DEF Symbol
  <2>4. x.kind = old.kind /\ x.scope = old.scope /\ x.type = ResultType(s, item)
    BY <2>2
  <2> QED
    BY <1>2, <2>3, <2>4 DEF IsSymbol
<1>4. r = [s EXCEPT ![key] = Append(Front(s[key]), x)]
  BY DEF SetResult
<1>5. DOMAIN r = DOMAIN s /\ r[key] = Append(Front(s[key]), x)
      /\ \A k \in DOMAIN s \ {key} : r[k] = s[k]
  <2> HIDE DEF key, x, r
  <2>1. key \in DOMAIN s
    BY DEF key
  <2> QED
    BY <1>4, <2>1
<1> HIDE DEF x, old, r
<1>6. History(r[key]) /\ Last(r[key]) = x /\ Front(r[key]) = Front(s[key])
  BY <1>1, <1>3, <1>5, Changing
<1>7. IsTable(r)
  <2> SUFFICES ASSUME NEW k \in DOMAIN s
               PROVE  History(r[k])
    BY <1>5 DEF IsTable
  <2> HIDE DEF key
  <2>1. CASE k = key
    BY <2>1, <1>6
  <2>2. CASE k # key
    BY <2>2, <1>5 DEF IsTable
  <2> QED
    BY <2>1, <2>2
<1> QED
  BY <1>3, <1>5, <1>6, <1>7 DEF Retyped, r, old

\* A scope that has ended: what it displaced is back, and what displaced
\* nothing stays.
Left(s, new, keys, u) ==
  /\ DOMAIN u = DOMAIN s \cup DOMAIN new
  /\ \A key \in DOMAIN s :
       (key \in keys \/ key \notin DOMAIN new) => Current(u, key) = Current(s, key)
  /\ \A key \in DOMAIN new :
       (key \notin keys \/ key \notin DOMAIN s) => Current(u, key) = new[key]

LEMMA Leaving ==
  ASSUME NEW s, IsTable(s), NEW new, Definitions(new), NEW keys,
         keys \subseteq DOMAIN new
  PROVE  LET u == Unbind(Bind(s, new), keys)
         IN IsTable(u) /\ Left(s, new, keys, u)
<1> DEFINE b == Bind(s, new)
           u == Unbind(b, keys)
<1>1. IsTable(b) /\ Bound(s, new, b)
  BY Binding
<1> HIDE DEF b
<1>2. /\ IsTable(u) /\ DOMAIN u = DOMAIN b
      /\ \A key \in DOMAIN b :
           u[key] = IF key \in keys /\ Front(b[key]) # <<>>
                    THEN Front(b[key]) ELSE b[key]
  BY <1>1, Unbinding
<1> HIDE DEF u
<1>3. DOMAIN u = DOMAIN s \cup DOMAIN new
  BY <1>1, <1>2 DEF Bound
<1>4. ASSUME NEW key \in DOMAIN s, key \in keys \/ key \notin DOMAIN new
      PROVE  Current(u, key) = Current(s, key)
  <2>1. u[key] = s[key]
    <3>1. CASE key \in keys
      <4>1. Front(b[key]) = s[key]
        BY <1>1, <1>4, <3>1 DEF Bound
      <4>2. s[key] # <<>>
        BY <1>4 DEF IsTable, History
      <4> QED
        BY <1>1, <1>2, <3>1, <4>1, <4>2 DEF Bound
    <3>2. CASE key \notin keys
      BY <1>1, <1>2, <1>4, <3>2 DEF Bound
    <3> QED
      BY <3>1, <3>2
  <2> QED
    BY <1>3, <2>1 DEF Current
<1>5. ASSUME NEW key \in DOMAIN new, key \notin keys \/ key \notin DOMAIN s
      PROVE  Current(u, key) = new[key]
  <2>1. u[key] = b[key]
    BY <1>1, <1>2, <1>5 DEF Bound
  <2>2. Last(b[key]) = new[key]
    BY <1>1 DEF Bound
  <2> QED
    BY <1>3, <2>1, <2>2 DEF Current
<1> QED
  BY <1>2, <1>3, <1>4, <1>5 DEF Left, u, b

\* A function's scope that has ended, its result set.
LeftRetyped(s, new, own, u) ==
  /\ DOMAIN u = DOMAIN s \cup DOMAIN new
  /\ \A key \in DOMAIN s :
       /\ Current(u, key).kind = Current(s, key).kind
       /\ Current(u, key).scope = Current(s, key).scope
       /\ key # own => Current(u, key) = Current(s, key)
  /\ \A key \in DOMAIN new \ DOMAIN s : Current(u, key) = new[key]

LEMMA LeavingCallable ==
  ASSUME NEW s, IsTable(s), NEW new, Definitions(new), NEW item,
         Text(item.name) \in DOMAIN s
  PROVE  LET u == Unbind(SetResult(Bind(s, new), item), DOMAIN new)
         IN IsTable(u) /\ LeftRetyped(s, new, Text(item.name), u)
<1> DEFINE b == Bind(s, new)
           r == SetResult(b, item)
           u == Unbind(r, DOMAIN new)
           own == Text(item.name)
<1>1. IsTable(b) /\ Bound(s, new, b)
  BY Binding
<1>2. own \in DOMAIN b
  BY <1>1 DEF Bound
<1> HIDE DEF b
<1>3. IsTable(r) /\ Retyped(b, own, r)
  BY <1>1, <1>2, Resulting
<1> HIDE DEF r, own
<1>4. /\ IsTable(u) /\ DOMAIN u = DOMAIN r
      /\ \A key \in DOMAIN r :
           u[key] = IF key \in DOMAIN new /\ Front(r[key]) # <<>>
                    THEN Front(r[key]) ELSE r[key]
  BY <1>3, Unbinding
<1> HIDE DEF u
<1>5. DOMAIN r = DOMAIN s \cup DOMAIN new
  BY <1>1, <1>3 DEF Bound, Retyped
<1>6. \A key \in DOMAIN r : Front(r[key]) = Front(b[key])
  BY <1>3 DEF Retyped
<1>7. ASSUME NEW key \in DOMAIN s
      PROVE  /\ Current(u, key).kind = Current(s, key).kind
             /\ Current(u, key).scope = Current(s, key).scope
             /\ key # own => Current(u, key) = Current(s, key)
  <2>1. CASE key \in DOMAIN new
    <3>1. Front(r[key]) = s[key]
      BY <1>1, <1>5, <1>6, <1>7, <2>1 DEF Bound
    <3>2. s[key] # <<>>
      BY <1>7 DEF IsTable, History
    <3>3. u[key] = s[key]
      BY <1>4, <1>5, <2>1, <3>1, <3>2
    <3> QED
      BY <1>4, <1>5, <3>3 DEF Current
  <2>2. CASE key \notin DOMAIN new
    <3>1. u[key] = r[key] /\ b[key] = s[key]
      BY <1>1, <1>4, <1>5, <1>7, <2>2 DEF Bound
    <3>2. Last(r[key]).kind = Last(s[key]).kind /\ Last(r[key]).scope = Last(s[key]).scope
          /\ (key # own => r[key] = s[key])
      <4>1. CASE key = own
        BY <1>3, <3>1, <4>1 DEF Retyped
      <4>2. CASE key # own
        <5>1. key \in DOMAIN b
          BY <1>1, <1>7 DEF Bound
        <5> QED
          BY <1>3, <3>1, <4>2, <5>1 DEF Retyped
      <4> QED
        BY <4>1, <4>2
    <3> QED
      BY <1>4, <1>5, <3>1, <3>2 DEF Current
  <2> QED
    BY <2>1, <2>2
<1>8. ASSUME NEW key \in DOMAIN new \ DOMAIN s
      PROVE  Current(u, key) = new[key]
  <2>1. Front(r[key]) = <<>>
    BY <1>1, <1>5, <1>6, <1>8 DEF Bound
  <2>2. u[key] = r[key]
    BY <1>4, <1>5, <1>8, <2>1
  <2>3. key # own
    BY <1>8 DEF own
  <2>4. r[key] = b[key]
    BY <1>1, <1>3, <1>8, <2>3 DEF Bound, Retyped
  <2>5. Last(b[key]) = new[key]
    BY <1>1, <1>8 DEF Bound
  <2> QED
    BY <1>4, <1>5, <1>8, <2>2, <2>4, <2>5 DEF Current
<1> QED
  BY <1>4, <1>5, <1>7, <1>8 DEF LeftRetyped, own, u, r, b

\* A scope that stays.
LEMMA Defining ==
  ASSUME NEW s, IsTable(s), NEW new, Definitions(new)
  PROVE  LET b == Bind(s, new)
         IN /\ IsTable(b) /\ DOMAIN b = DOMAIN s \cup DOMAIN new
            /\ \A key : Current(b, key) = IF key \in DOMAIN new THEN new[key]
                                          ELSE Current(s, key)
<1> DEFINE b == Bind(s, new)
<1>1. IsTable(b) /\ Bound(s, new, b)
  BY Binding
<1> HIDE DEF b
<1>2. ASSUME NEW key
      PROVE  Current(b, key) = IF key \in DOMAIN new THEN new[key] ELSE Current(s, key)
  <2>1. CASE key \in DOMAIN new
    BY <1>1, <2>1 DEF Bound, Current
  <2>2. CASE key \in DOMAIN s \ DOMAIN new
    BY <1>1, <2>2 DEF Bound, Current
  <2>3. CASE key \notin DOMAIN s \cup DOMAIN new
    BY <1>1, <2>3 DEF Bound, Current
  <2> QED
    BY <2>1, <2>2, <2>3
<1> QED
  BY <1>1, <1>2 DEF Bound, b

\* Plain and dotted keys.
LEMMA MemberKey ==
  ASSUME NEW a, NEW b
  PROVE  Member(Text(a), b) = <<a, b>>
<1> DEFINE g == <<a>> \o <<b>>
           A == {a, b}
<1>1. <<a>> \in Seq(A) /\ <<b>> \in Seq(A) /\ Len(<<a>>) = 1 /\ Len(<<b>>) = 1
  OBVIOUS
<1>2. g = [j \in 1..2 |-> IF j <= 1 THEN <<a>>[j] ELSE <<b>>[j - 1]]
  BY <1>1
<1>3. g[1] = a /\ g[2] = b
  <2> HIDE DEF g
  <2> QED
    BY <1>2
<1>4. <<a, b>> = [j \in 1..2 |-> IF j <= 1 THEN <<a>>[j] ELSE <<b>>[j - 1]]
  OBVIOUS
<1> QED
  BY <1>2, <1>4 DEF Member, Text

LEMMA KeysApart ==
  ASSUME NEW a, NEW b, NEW c, NEW d
  PROVE  /\ Text(a) = Text(b) => a = b
         /\ Text(a) # Member(Text(b), c)
         /\ Member(Text(a), b) = Member(Text(c), d) => a = c /\ b = d
         /\ Len(Text(a)) = 1 /\ Text(a)[1] = a
         /\ Len(Member(Text(a), b)) = 2 /\ Member(Text(a), b)[1] = a
         /\ Member(Text(a), b)[2] = b
         /\ Text(a) # NoType
<1>1. Member(Text(a), b) = <<a, b>> /\ Member(Text(c), d) = <<c, d>>
      /\ Member(Text(b), c) = <<b, c>>
  BY MemberKey
<1>2. Len(<<a>>) = 1 /\ Len(<<b>>) = 1 /\ Len(<<a, b>>) = 2 /\ Len(<<b, c>>) = 2
  OBVIOUS
<1>3. <<a>>[1] = a /\ <<b>>[1] = b /\ <<a, b>>[1] = a /\ <<a, b>>[2] = b
      /\ <<c, d>>[1] = c /\ <<c, d>>[2] = d
  OBVIOUS
<1>4. Text(a) = <<a>> /\ Text(b) = <<b>>
  BY DEF Text
<1>5. Len(Text(a)) = 1 /\ Text(a)[1] = a /\ Text(b)[1] = b
  BY <1>2, <1>3, <1>4
<1>6. /\ Len(Member(Text(a), b)) = 2 /\ Len(Member(Text(b), c)) = 2
      /\ Member(Text(a), b)[1] = a /\ Member(Text(a), b)[2] = b
      /\ Member(Text(c), d)[1] = c /\ Member(Text(c), d)[2] = d
  BY <1>1, <1>2, <1>3
<1>7. Text(a) # Member(Text(b), c)
  BY <1>5, <1>6
<1>8. Member(Text(a), b) = Member(Text(c), d) => a = c /\ b = d
  BY <1>6
<1>9. Text(a) # NoType
  BY <1>4 DEF NoType
<1> QED
  BY <1>5, <1>6, <1>7, <1>8, <1>9

LEMMA SymbolsMade ==
  ASSUME NEW kind, NEW type, NEW scope, scope # "TYPE_DECL" \/ kind = "FIELD",
         kind \notin {"TYPE", "ENUM"} \/ scope = "GLOBAL"
  PROVE  LET x == Symbol(kind, type, scope)
         IN IsSymbol(x) /\ x.kind = kind /\ x.type = type /\ x.scope = scope
BY DEF IsSymbol, Symbol

\* What a program declares.
LEMMA DeclarationsMade ==
  ASSUME NEW item, Declares(item)
  PROVE  LET x == Declaration(item)
         IN /\ IsSymbol(x) /\ x.scope = "GLOBAL"
            /\ x.kind \in {"TYPE", "ENUM", "METHOD", "FUNCTION"}
            /\ item.form = "type" <=> x.kind = "TYPE"
            /\ item.form = "enum" <=> x.kind = "ENUM"
            /\ item.form = "method" <=> x.kind = "METHOD"
BY SymbolsMade DEF Declares, Declaration

LEMMA MembersMade ==
  ASSUME NEW item
  PROVE  LET new == MemberSymbols(item)
         IN /\ DOMAIN new = {Member(Text(item.name), m) : m \in Range(item.members)}
            /\ Definitions(new)
            /\ \A key \in DOMAIN new : new[key].scope = "GLOBAL" /\ new[key].kind = "ENUM_MEMBER"
<1>1. \A key \in DOMAIN MemberSymbols(item) :
        MemberSymbols(item)[key] = Symbol("ENUM_MEMBER", Text(item.name), "GLOBAL")
  BY DEF MemberSymbols
<1> QED
  BY <1>1, SymbolsMade DEF MemberSymbols, Definitions

PlainFields(item) == {Text(n) : n \in NamesOf(item.fields)}
DottedFields(item) == {Member(Text(item.name), n) : n \in NamesOf(item.fields)}

LEMMA FieldsMade ==
  ASSUME NEW item
  PROVE  LET new == FieldSymbols(item)
         IN /\ DOMAIN new = PlainFields(item) \cup DottedFields(item)
            /\ Definitions(new)
            /\ \A key \in DOMAIN new : new[key].scope = "TYPE_DECL" /\ new[key].kind = "FIELD"
<1>1. DOMAIN FieldSymbols(item) = PlainFields(item) \cup DottedFields(item)
  BY DEF FieldSymbols, PlainFields, DottedFields
<1>2. ASSUME NEW key \in DOMAIN FieldSymbols(item)
      PROVE  \E type : FieldSymbols(item)[key] = Symbol("FIELD", type, "TYPE_DECL")
  BY <1>1, <1>2, Zenon DEF FieldSymbols, PlainFields, DottedFields
<1> QED
  BY <1>1, <1>2, SymbolsMade DEF Definitions

LEMMA LocalsMade ==
  ASSUME NEW item
  PROVE  LET new == Locals(item)
             all == Parameters(item)
         IN /\ DOMAIN new = {Text(n) : n \in NamesOf(all)}
            /\ Definitions(new)
            /\ \A key \in DOMAIN new :
                 /\ new[key].scope \in {"METHOD", "FUNCTION"}
                 /\ new[key].kind = "VARIABLE"
<1>1. DOMAIN Locals(item) = {Text(n) : n \in NamesOf(Parameters(item))}
  BY DEF Locals
<1>2. ASSUME NEW key \in DOMAIN Locals(item)
      PROVE  \E type, scope : /\ scope \in {"METHOD", "FUNCTION"}
                              /\ Locals(item)[key] = Symbol("VARIABLE", type, scope)
  <2> DEFINE scope == IF item.form = "method" THEN "METHOD" ELSE "FUNCTION"
  <2>1. Locals(item)[key] =
          Symbol("VARIABLE", Parameters(item)[ByName(Parameters(item), key[1])].type, scope)
    BY <1>1, <1>2 DEF Locals
  <2>2. scope \in {"METHOD", "FUNCTION"}
    OBVIOUS
  <2> HIDE DEF scope
  <2> QED
    BY <2>1, <2>2
<1> QED
  BY <1>1, <1>2, SymbolsMade DEF Definitions

-----------------------------------------------------------------------------
(***************************************************************************)
(* Types and methods: the passes.                                          *)
(***************************************************************************)
Predeclared(k) ==
  /\ k \in DOMAIN program
  /\ \/ pass = "predeclare" /\ k < next
     \/ pass \in {"visit", "collections", "done"}

Visited(k) ==
  /\ k \in DOMAIN program
  /\ \/ pass = "visit" /\ k < next
     \/ pass \in {"collections", "done"}

PassInv ==
  /\ program \in Seq(UNION ItemSets)
  /\ pass \in {"write", "predeclare", "visit", "collections", "done"}
  /\ IF pass \in {"predeclare", "visit"} THEN next \in DOMAIN program ELSE next = 1
  /\ pass \in {"write", "predeclare"} => seen = <<>>

LEMMA ProgramListed ==
  ASSUME PassInv
  PROVE  /\ Len(program) \in Nat /\ DOMAIN program = 1..Len(program)
         /\ \A k \in DOMAIN program : program[k] \in UNION ItemSets
BY DEF PassInv

LEMMA PredeclareAdvances ==
  ASSUME PassInv, pass = "predeclare", Advance("visit"), program' = program, seen' = seen
  PROVE  /\ PassInv'
         /\ \A k : Predeclared(k)' <=> Predeclared(k) \/ k = next
         /\ \A k : ~Visited(k) /\ ~Visited(k)'
<1>1. Len(program) \in Nat /\ DOMAIN program = 1..Len(program) /\ next \in DOMAIN program
  BY ProgramListed DEF PassInv
<1>2. CASE next < Len(program)
  <2>1. next' = next + 1 /\ pass' = pass
    BY <1>2 DEF Advance
  <2>2. PassInv'
    BY <1>1, <1>2, <2>1 DEF PassInv
  <2> QED
    BY <1>1, <1>2, <2>1, <2>2 DEF Predeclared, Visited
<1>3. CASE ~(next < Len(program))
  <2>1. next' = 1 /\ pass' = "visit"
    BY <1>3 DEF Advance
  <2>2. PassInv'
    BY <1>1, <1>3, <2>1 DEF PassInv
  <2> QED
    BY <1>1, <1>3, <2>1, <2>2 DEF Predeclared, Visited
<1> QED
  BY <1>2, <1>3

LEMMA VisitAdvances ==
  ASSUME PassInv, pass = "visit", Advance("collections"), program' = program
  PROVE  /\ PassInv'
         /\ \A k : Predeclared(k)' <=> Predeclared(k)
         /\ \A k : Visited(k)' <=> Visited(k) \/ k = next
         /\ \A k : Predeclared(k) <=> k \in DOMAIN program
         /\ next \in DOMAIN program /\ ~Visited(next)
         /\ \A k : Visited(k) => k <= next
         /\ pass' \in {"visit", "collections"}
<1>1. Len(program) \in Nat /\ DOMAIN program = 1..Len(program) /\ next \in DOMAIN program
  BY ProgramListed DEF PassInv
<1>2. CASE next < Len(program)
  <2>1. next' = next + 1 /\ pass' = pass
    BY <1>2 DEF Advance
  <2>2. PassInv'
    BY <1>1, <1>2, <2>1 DEF PassInv
  <2> QED
    BY <1>1, <1>2, <2>1, <2>2 DEF Predeclared, Visited
<1>3. CASE ~(next < Len(program))
  <2>1. next' = 1 /\ pass' = "collections"
    BY <1>3 DEF Advance
  <2>2. PassInv'
    BY <1>1, <1>3, <2>1 DEF PassInv
  <2> QED
    BY <1>1, <1>3, <2>1, <2>2 DEF Predeclared, Visited
<1> QED
  BY <1>2, <1>3

\* A step that defines new: what it takes over from others is over, and the
\* symbols of own may get another type.
Changed(new, over, own) ==
  /\ IsTable(symbols') /\ Definitions(new)
  /\ DOMAIN symbols' = DOMAIN symbols \cup DOMAIN new
  /\ over \subseteq DOMAIN new
  /\ \A key \in DOMAIN symbols \ over :
       /\ Current(symbols', key).kind = Current(symbols, key).kind
       /\ Current(symbols', key).scope = Current(symbols, key).scope
       /\ key \notin own => Current(symbols', key) = Current(symbols, key)
  /\ \A key \in over \cup (DOMAIN new \ DOMAIN symbols) : Current(symbols', key) = new[key]

LEMMA ScopeStays ==
  ASSUME IsTable(symbols), NEW new, Definitions(new), symbols' = Bind(symbols, new)
  PROVE  Changed(new, DOMAIN new, {})
<1>1. /\ IsTable(symbols') /\ DOMAIN symbols' = DOMAIN symbols \cup DOMAIN new
      /\ \A key : Current(symbols', key) =
                    IF key \in DOMAIN new THEN new[key] ELSE Current(symbols, key)
  <2> DEFINE b == Bind(symbols, new)
  <2>1. /\ IsTable(b) /\ DOMAIN b = DOMAIN symbols \cup DOMAIN new
        /\ \A key : Current(b, key) =
                      IF key \in DOMAIN new THEN new[key] ELSE Current(symbols, key)
    BY Defining
  <2> HIDE DEF b
  <2>2. symbols' = b
    BY DEF b
  <2> QED
    BY <2>1, <2>2
<1> QED
  BY <1>1 DEF Changed

LEMMA NoDomain == DOMAIN <<>> = {}
<1>1. <<>> \in Seq({}) /\ Len(<<>>) = 0
  OBVIOUS
<1>2. DOMAIN <<>> = 1..Len(<<>>)
  BY <1>1, LenProperties
<1> QED
  BY <1>1, <1>2

LEMMA NothingDefined ==
  ASSUME IsTable(symbols), symbols' = symbols
  PROVE  Changed(<<>>, {}, {})
<1>1. DOMAIN <<>> = {}
  BY NoDomain
<1> DEFINE none == <<>>
<1> HIDE DEF none
<1>2. DOMAIN none = {}
  BY <1>1 DEF none
<1>3. Changed(none, {}, {})
  BY <1>2 DEF Changed, Definitions
<1> QED
  BY <1>3 DEF none

OwnSymbols(item) ==
  [key \in When(Declares(item) /\ ~Redeclared(item), Text(item.name)) |-> Declaration(item)]

EnumSymbols(item) == IF item.form = "enum" THEN MemberSymbols(item) ELSE <<>>

PredeclaredSymbols(item) ==
  [key \in DOMAIN OwnSymbols(item) \cup DOMAIN EnumSymbols(item) |->
     IF key \in DOMAIN EnumSymbols(item) THEN EnumSymbols(item)[key]
     ELSE OwnSymbols(item)[key]]

LEMMA EnumSymbolsMade ==
  ASSUME NEW item
  PROVE  LET new == EnumSymbols(item)
         IN /\ Definitions(new)
            /\ DOMAIN new = IF item.form = "enum"
                            THEN {Member(Text(item.name), m) : m \in Range(item.members)} ELSE {}
            /\ \A key \in DOMAIN new : new[key].scope = "GLOBAL" /\ new[key].kind = "ENUM_MEMBER"
<1>1. CASE item.form = "enum"
  BY <1>1, MembersMade DEF EnumSymbols
<1>2. CASE item.form # "enum"
  BY <1>2 DEF EnumSymbols, Definitions
<1> QED
  BY <1>1, <1>2

LEMMA OwnSymbolsMade ==
  ASSUME NEW item
  PROVE  LET new == OwnSymbols(item)
         IN /\ Definitions(new)
            /\ DOMAIN new = When(Declares(item) /\ ~Redeclared(item), Text(item.name))
            /\ \A key \in DOMAIN new : /\ Declares(item) /\ ~Redeclared(item)
                                       /\ key = Text(item.name) /\ new[key] = Declaration(item)
<1>1. \A key \in DOMAIN OwnSymbols(item) :
        /\ Declares(item) /\ ~Redeclared(item)
        /\ key = Text(item.name) /\ OwnSymbols(item)[key] = Declaration(item)
  BY DEF OwnSymbols, When
<1> QED
  BY <1>1, DeclarationsMade DEF OwnSymbols, Definitions

LEMMA PredeclareChanges ==
  ASSUME IsTable(symbols), Predeclare
  PROVE  LET new == PredeclaredSymbols(program[next])
         IN /\ Changed(new, DOMAIN new, {})
            /\ globals' = globals \cup DOMAIN new
<1> DEFINE item == program[next]
           first == OwnSymbols(item)
           second == EnumSymbols(item)
           new == PredeclaredSymbols(item)
<1>1. symbols' = Bind(Bind(symbols, first), second)
  BY DEF Predeclare, OwnSymbols, EnumSymbols
<1>2. globals' = globals \cup DOMAIN first \cup DOMAIN second
  BY DEF Predeclare, OwnSymbols, EnumSymbols
<1>3. Definitions(first) /\ Definitions(second)
  BY OwnSymbolsMade, EnumSymbolsMade
<1>4. DOMAIN new = DOMAIN first \cup DOMAIN second
      /\ \A key \in DOMAIN new : new[key] = IF key \in DOMAIN second THEN second[key]
                                            ELSE first[key]
  BY DEF PredeclaredSymbols
<1> HIDE DEF first, second, new
<1>5. LET b == Bind(symbols, first)
      IN /\ IsTable(b) /\ DOMAIN b = DOMAIN symbols \cup DOMAIN first
         /\ \A key : Current(b, key) = IF key \in DOMAIN first THEN first[key]
                                       ELSE Current(symbols, key)
  BY <1>3, Defining
<1>6. /\ IsTable(symbols')
      /\ DOMAIN symbols' = DOMAIN Bind(symbols, first) \cup DOMAIN second
      /\ \A key : Current(symbols', key) = IF key \in DOMAIN second THEN second[key]
                                           ELSE Current(Bind(symbols, first), key)
  BY <1>1, <1>3, <1>5, Defining
<1>7. Definitions(new)
  BY <1>3, <1>4 DEF Definitions
<1>8. Changed(new, DOMAIN new, {})
  BY <1>4, <1>5, <1>6, <1>7 DEF Changed
<1> QED
  BY <1>2, <1>4, <1>8 DEF new

LEMMA TypeChanges ==
  ASSUME IsTable(symbols), VisitType, NEW item, item = program[next]
  PROVE  Changed(FieldSymbols(item), DottedFields(item), {})
<1> DEFINE new == FieldSymbols(item)
           keys == PlainFields(item)
<1>1. symbols' = Unbind(Bind(symbols, new), keys)
  <2>1. Range(NamesIn(item.fields)) = NamesOf(item.fields)
    BY DEF Range, NamesIn, NamesOf
  <2> QED
    BY <2>1 DEF VisitType, PlainFields
<1>2. Definitions(new) /\ DOMAIN new = keys \cup DottedFields(item)
  BY FieldsMade
<1>3. \A key \in DottedFields(item) : key \notin keys
  BY KeysApart DEF PlainFields, DottedFields
<1> HIDE DEF new, keys
<1>4. keys \subseteq DOMAIN new
  BY <1>2
<1>5. IsTable(symbols') /\ Left(symbols, new, keys, symbols')
  BY <1>1, <1>2, <1>4, Leaving
<1>6. Changed(new, DottedFields(item), {})
  BY <1>2, <1>3, <1>5 DEF Changed, Left
<1> QED
  BY <1>6 DEF new

LEMMA EnumChanges ==
  ASSUME IsTable(symbols), VisitEnum, NEW item, item = program[next]
  PROVE  LET new == MemberSymbols(item)
         IN Changed(new, DOMAIN new, {}) /\ globals' = globals \cup DOMAIN new
<1>1. symbols' = Bind(symbols, MemberSymbols(item))
      /\ globals' = globals \cup DOMAIN MemberSymbols(item)
  BY DEF VisitEnum
<1>2. Definitions(MemberSymbols(item))
  BY MembersMade
<1> QED
  BY <1>1, <1>2, ScopeStays

LEMMA CallableChanges ==
  ASSUME IsTable(symbols), VisitCallable, NEW item, item = program[next],
         Text(item.name) \in DOMAIN symbols
  PROVE  Changed(Locals(item), {}, {Text(item.name)})
<1> DEFINE new == Locals(item)
<1>1. symbols' = Unbind(SetResult(Bind(symbols, new), item), DOMAIN new)
  BY DEF VisitCallable
<1>2. Definitions(new)
  BY LocalsMade
<1> HIDE DEF new
<1>3. IsTable(symbols') /\ LeftRetyped(symbols, new, Text(item.name), symbols')
  <2> DEFINE u == Unbind(SetResult(Bind(symbols, new), item), DOMAIN new)
  <2>1. IsTable(u) /\ LeftRetyped(symbols, new, Text(item.name), u)
    BY <1>2, LeavingCallable
  <2> HIDE DEF u
  <2>2. symbols' = u
    BY <1>1 DEF u
  <2> QED
    BY <2>1, <2>2
<1>4. Changed(new, {}, {Text(item.name)})
  BY <1>2, <1>3 DEF Changed, LeftRetyped
<1> QED
  BY <1>4 DEF new

\* What a variable defines.
LetSymbols(item, type) ==
  IF Redeclared(item) THEN <<>>
  ELSE [key \in {Text(item.name)} |-> Symbol("VARIABLE", type, "GLOBAL")]

LEMMA LetSymbolsMade ==
  ASSUME NEW item, NEW type
  PROVE  LET new == LetSymbols(item, type)
         IN /\ Definitions(new)
            /\ \A key \in DOMAIN new :
                 /\ key = Text(item.name) /\ ~Redeclared(item)
                 /\ new[key].scope = "GLOBAL" /\ new[key].kind = "VARIABLE"
<1>1. CASE Redeclared(item)
  BY <1>1 DEF LetSymbols, Definitions
<1>2. CASE ~Redeclared(item)
  <2>1. \A key \in DOMAIN LetSymbols(item, type) :
          /\ key = Text(item.name)
          /\ LetSymbols(item, type)[key] = Symbol("VARIABLE", type, "GLOBAL")
    BY <1>2 DEF LetSymbols
  <2> QED
    BY <1>2, <2>1, SymbolsMade DEF Definitions
<1> QED
  BY <1>1, <1>2

LEMMA LetChanges ==
  ASSUME IsTable(symbols), VisitLet, NEW item, item = program[next]
  PROVE  \E type : LET new == LetSymbols(item, type)
                   IN Changed(new, DOMAIN new, {}) /\ globals' = globals \cup DOMAIN new
<1> DEFINE type == IF item.uses = <<>> THEN item.made ELSE UseType(symbols, item.uses[1])
           new == LetSymbols(item, type)
<1>1. Definitions(new)
  BY LetSymbolsMade
<1>2. CASE Redeclared(item)
  <2>1. symbols' = symbols /\ globals' = globals /\ new = <<>>
    BY <1>2 DEF VisitLet, LetSymbols
  <2>2. Changed(<<>>, {}, {})
    BY <2>1, NothingDefined
  <2>3. DOMAIN <<>> = {}
    BY NoDomain
  <2> HIDE DEF new
  <2>4. Changed(new, DOMAIN new, {}) /\ globals' = globals \cup DOMAIN new
    BY <2>1, <2>2, <2>3
  <2> QED
    BY <2>4 DEF new
<1>3. CASE ~Redeclared(item)
  <2>1. new = [key \in {Text(item.name)} |-> Symbol("VARIABLE", type, "GLOBAL")]
    BY <1>3 DEF LetSymbols
  <2>2. symbols' = Bind(symbols, new) /\ globals' = globals \cup {Text(item.name)}
    <3> HIDE DEF new
    <3> QED
      BY <1>3, <2>1 DEF VisitLet
  <2> HIDE DEF new
  <2>3. Changed(new, DOMAIN new, {}) /\ globals' = globals \cup DOMAIN new
    BY <1>1, <2>1, <2>2, ScopeStays
  <2> QED
    BY <2>3 DEF new
<1> QED
  BY <1>2, <1>3

-----------------------------------------------------------------------------
(***************************************************************************)
(* Types and methods: what holds of every program, accepted or not.        *)
(***************************************************************************)
NameKnown(n) ==
  \/ n \in BuiltinTypes
  \/ \E k : Predeclared(k) /\ Declares(program[k]) /\ program[k].name = n
  \/ \E k : Visited(k) /\ n \in NamesBy(program[k])

EnumKey(key) ==
  \E k : /\ Predeclared(k) /\ program[k].form = "enum"
         /\ \E m \in Range(program[k].members) : key = Member(Text(program[k].name), m)

FieldKey(key) ==
  \E k : /\ Visited(k) /\ program[k].form = "type"
         /\ \E m \in NamesOf(program[k].fields) : key = Member(Text(program[k].name), m)

PlainKey(key) == \E n : NameKnown(n) /\ key = Text(n)

KeyKnown(key) == PlainKey(key) \/ EnumKey(key) \/ FieldKey(key)

TableInv ==
  /\ IsTable(symbols)
  /\ \A key \in DOMAIN symbols : KeyKnown(key)

IsEnum(n) == \E k \in DOMAIN program : program[k].form = "enum" /\ program[k].name = n

GlobalInv ==
  /\ globals \subseteq DOMAIN symbols
  /\ \A key \in globals :
       \/ Current(symbols, key).scope = "GLOBAL" /\ PlainKey(key)
       \/ EnumKey(key)
  /\ \A key \in DOMAIN symbols : Current(symbols, key).scope = "GLOBAL" => key \in globals
  /\ \A key \in DOMAIN symbols :
       Current(symbols, key).kind = "ENUM" => \E n : IsEnum(n) /\ key = Text(n)
  /\ \A k : Predeclared(k) /\ Declares(program[k]) => Text(program[k].name) \in globals

ReceiverInv ==
  /\ DOMAIN userParams \subseteq DOMAIN receivers
  /\ \A n \in DOMAIN udtFields :
       \E k : Visited(k) /\ program[k].form = "type" /\ program[k].name = n

SeenInv ==
  /\ seen \in Seq(Range(seen))
  /\ \A k \in DOMAIN seen : Visited(seen[k].item)
  /\ \A j, k \in DOMAIN seen : j <= k => seen[j].item <= seen[k].item

ShapeInv == PassInv /\ TableInv /\ GlobalInv /\ ReceiverInv /\ SeenInv

\* The program stays and no item is less far than before.
Onward ==
  /\ program' = program
  /\ \A k : Predeclared(k) => Predeclared(k)'
  /\ \A k : Visited(k) => Visited(k)'

LEMMA KnownOnward ==
  ASSUME Onward, NEW key
  PROVE  /\ PlainKey(key) => PlainKey(key)'
         /\ EnumKey(key) => EnumKey(key)'
         /\ FieldKey(key) => FieldKey(key)'
         /\ KeyKnown(key) => KeyKnown(key)'
         /\ \A n : IsEnum(n)' <=> IsEnum(n)
<1>1. \A n : NameKnown(n) => NameKnown(n)'
  BY DEF Onward, NameKnown
<1>2. PlainKey(key) => PlainKey(key)'
  BY <1>1 DEF PlainKey
<1>3. EnumKey(key) => EnumKey(key)'
  BY DEF Onward, EnumKey
<1>4. FieldKey(key) => FieldKey(key)'
  BY DEF Onward, FieldKey
<1>5. \A n : IsEnum(n)' <=> IsEnum(n)
  BY DEF Onward, IsEnum
<1> QED
  BY <1>2, <1>3, <1>4, <1>5 DEF KeyKnown

LEMMA TableKept ==
  ASSUME TableInv, Onward, NEW new, NEW over, NEW own, Changed(new, over, own),
         \A key \in DOMAIN new : KeyKnown(key)'
  PROVE  TableInv'
<1>1. IsTable(symbols') /\ DOMAIN symbols' = DOMAIN symbols \cup DOMAIN new
  BY DEF Changed
<1>2. ASSUME NEW key \in DOMAIN symbols'
      PROVE  KeyKnown(key)'
  BY <1>1, <1>2, KnownOnward DEF TableInv
<1> QED
  BY <1>1, <1>2 DEF TableInv

\* What a step adds to the global scope.
Added(new, over) ==
  /\ globals \subseteq globals'
  /\ \A key \in globals' \ globals :
       /\ key \in DOMAIN new
       /\ (new[key].scope = "GLOBAL" /\ PlainKey(key)') \/ EnumKey(key)'
       /\ key \in over \/ key \notin DOMAIN symbols
  /\ \A key \in DOMAIN new : /\ new[key].scope = "GLOBAL" => key \in globals'
                             /\ new[key].kind = "ENUM" => \E n : IsEnum(n) /\ key = Text(n)
  /\ \A key \in over \cap globals : new[key].scope = "GLOBAL" \/ EnumKey(key)
  /\ \A k : Predeclared(k)' /\ Declares(program[k]) =>
              Predeclared(k) \/ Text(program[k].name) \in globals'

LEMMA GlobalsKept ==
  ASSUME GlobalInv, Onward, NEW new, NEW over, NEW own, Changed(new, over, own),
         Added(new, over)
  PROVE  GlobalInv'
<1>1. /\ DOMAIN symbols' = DOMAIN symbols \cup DOMAIN new
      /\ globals \subseteq globals' /\ over \subseteq DOMAIN new
  BY DEF Changed, Added
<1>2. globals' \subseteq DOMAIN symbols'
  BY <1>1 DEF GlobalInv, Added
<1>3. \A key \in over \cup (DOMAIN new \ DOMAIN symbols) : Current(symbols', key) = new[key]
  BY DEF Changed
<1>4. \A key \in DOMAIN symbols \ over :
        /\ Current(symbols', key).kind = Current(symbols, key).kind
        /\ Current(symbols', key).scope = Current(symbols, key).scope
  BY DEF Changed
<1>5. ASSUME NEW key \in globals'
      PROVE  \/ Current(symbols', key).scope = "GLOBAL" /\ PlainKey(key)'
             \/ EnumKey(key)'
  <2>1. CASE key \in globals /\ key \notin over
    BY <1>4, <2>1, KnownOnward DEF GlobalInv
  <2>2. CASE key \in globals /\ key \in over
    BY <1>3, <2>2, KnownOnward DEF GlobalInv, Added
  <2>3. CASE key \notin globals
    BY <1>3, <1>5, <2>3 DEF Added
  <2> QED
    BY <2>1, <2>2, <2>3
<1>6. ASSUME NEW key \in DOMAIN symbols', Current(symbols', key).scope = "GLOBAL"
      PROVE  key \in globals'
  <2>1. CASE key \in DOMAIN symbols \ over
    BY <1>1, <1>4, <1>6, <2>1 DEF GlobalInv
  <2>2. CASE key \notin DOMAIN symbols \ over
    BY <1>1, <1>3, <1>6, <2>2 DEF Added
  <2> QED
    BY <2>1, <2>2
<1>7. ASSUME NEW key \in DOMAIN symbols', Current(symbols', key).kind = "ENUM"
      PROVE  \E n : IsEnum(n)' /\ key = Text(n)
  <2>1. \E n : IsEnum(n) /\ key = Text(n)
    <3>1. CASE key \in DOMAIN symbols \ over
      BY <1>4, <1>7, <3>1 DEF GlobalInv
    <3>2. CASE key \notin DOMAIN symbols \ over
      BY <1>1, <1>3, <1>7, <3>2 DEF Added
    <3> QED
      BY <3>1, <3>2
  <2> QED
    BY <2>1, KnownOnward
<1>8. ASSUME NEW k, Predeclared(k)', Declares(program'[k])
      PROVE  Text(program'[k].name) \in globals'
  BY <1>1, <1>8 DEF GlobalInv, Added, Onward
<1> QED
  BY <1>2, <1>5, <1>6, <1>7, <1>8 DEF GlobalInv

LEMMA SeenKept ==
  ASSUME PassInv, SeenInv, pass = "visit", Advance("collections"), program' = program,
         NEW new, new \in Seq(Range(new)), \A k \in DOMAIN new : new[k].item = next,
         seen' = seen \o new
  PROVE  /\ SeenInv'
         /\ \A k \in DOMAIN seen' : (\E j \in DOMAIN seen : seen'[k] = seen[j])
                                    \/ \E j \in DOMAIN new : seen'[k] = new[j]
<1>1. /\ \A k : Visited(k)' <=> Visited(k) \/ k = next
      /\ next \in DOMAIN program /\ \A k : Visited(k) => k <= next
      /\ Len(program) \in Nat /\ DOMAIN program = 1..Len(program)
      /\ \A k : Visited(k) => k \in Nat
  BY VisitAdvances, ProgramListed DEF Visited
<1> DEFINE R == Range(seen) \cup Range(new)
<1>2. seen \in Seq(R) /\ new \in Seq(R)
  <2>1. seen \in Seq(Range(seen))
    BY DEF SeenInv
  <2> QED
    BY <2>1
<1> HIDE DEF R
<1>3. /\ seen' \in Seq(R) /\ Len(seen') = Len(seen) + Len(new)
      /\ Len(seen) \in Nat /\ Len(new) \in Nat
      /\ DOMAIN seen = 1..Len(seen) /\ DOMAIN new = 1..Len(new)
      /\ DOMAIN seen' = 1..(Len(seen) + Len(new))
      /\ \A k \in 1..Len(seen) : seen'[k] = seen[k]
      /\ \A k \in DOMAIN seen' \ (1..Len(seen)) : seen'[k] = new[k - Len(seen)]
  BY <1>2
<1>4. \A k \in DOMAIN seen' \ (1..Len(seen)) : k - Len(seen) \in DOMAIN new
  BY <1>3
<1>5. \A k \in DOMAIN seen' : (\E j \in DOMAIN seen : seen'[k] = seen[j])
                              \/ \E j \in DOMAIN new : seen'[k] = new[j]
  BY <1>3, <1>4
<1>6. seen' \in Seq(Range(seen'))
  <2> DEFINE f == seen'
  <2> HIDE DEF f
  <2>1. f \in Seq(R) /\ DOMAIN f = 1..Len(f) /\ Len(f) \in Nat
    BY <1>3 DEF f
  <2>2. f = [j \in 1..Len(f) |-> f[j]]
    BY <2>1
  <2>3. f \in [1..Len(f) -> Range(f)]
    BY <2>2 DEF Range
  <2>4. f \in Seq(Range(f))
    BY <2>1, <2>3
  <2>5. f = seen'
    BY DEF f
  <2> QED
    BY <2>4, <2>5 DEF Range
<1>7. \A k \in DOMAIN seen' : IF k \in 1..Len(seen) THEN Visited(seen'[k].item)
                              ELSE seen'[k].item = next
  BY <1>3, <1>4 DEF SeenInv
<1>8. \A k \in DOMAIN seen' : Visited(seen[k].item)'
  BY <1>1, <1>7
<1>9. ASSUME NEW j \in DOMAIN seen', NEW k \in DOMAIN seen', j <= k
      PROVE  seen'[j].item <= seen'[k].item
  <2>1. CASE k \in 1..Len(seen)
    <3>1. j \in 1..Len(seen)
      BY <1>3, <1>9, <2>1
    <3> QED
      BY <1>3, <1>9, <2>1, <3>1 DEF SeenInv
  <2>2. CASE k \notin 1..Len(seen)
    <3>1. seen'[k].item = next
      BY <1>7, <2>2
    <3>2. seen'[j].item <= next
      <4>1. next <= next
        BY <1>1
      <4> QED
        BY <1>1, <1>7, <4>1
    <3> QED
      BY <3>1, <3>2
  <2> QED
    BY <2>1, <2>2
<1> QED
  BY <1>5, <1>6, <1>8, <1>9 DEF SeenInv

LEMMA SightsListed ==
  ASSUME NEW uses, uses \in Seq(Range(uses)), NEW s, NEW bound
  PROVE  LET new == Sights(s, bound, uses)
         IN /\ new \in Seq(Range(new)) /\ DOMAIN new = DOMAIN uses
            /\ \A k \in DOMAIN new : new[k] = Sight(s, bound, uses[k]) /\ new[k].item = next
<1> DEFINE new == Sights(s, bound, uses)
<1>1. Len(uses) \in Nat /\ DOMAIN uses = 1..Len(uses)
  OBVIOUS
<1>2. new = [k \in 1..Len(uses) |-> Sight(s, bound, uses[k])]
  BY <1>1 DEF Sights
<1> HIDE DEF new
<1>3. new \in [1..Len(uses) -> Range(new)]
  BY <1>2 DEF Range
<1>4. new \in Seq(Range(new))
  BY <1>1, <1>3
<1>5. \A k \in DOMAIN new : new[k].item = next
  BY <1>2 DEF Sight
<1> QED
  BY <1>1, <1>2, <1>4, <1>5 DEF new

LEMMA ShapeInit == FactsInit => ShapeInv
<1> SUFFICES ASSUME FactsInit PROVE ShapeInv
  OBVIOUS
<1> DEFINE x == Symbol("BUILTIN", NoType, "GLOBAL")
<1>1. /\ program = <<>> /\ pass = "write" /\ next = 1 /\ seen = <<>>
      /\ globals = DOMAIN symbols /\ userParams = <<>> /\ udtFields = <<>>
      /\ symbols = [key \in {Text(t) : t \in BuiltinTypes} |-> <<x>>]
  BY DEF FactsInit
<1>2. DOMAIN <<>> = {}
  BY NoDomain
<1>3. PassInv
  <2>1. <<>> \in Seq(UNION ItemSets)
    OBVIOUS
  <2> QED
    BY <1>1, <2>1 DEF PassInv
<1>4. IsSymbol(x) /\ x.kind = "BUILTIN" /\ x.scope = "GLOBAL"
  BY SymbolsMade
<1> HIDE DEF x
<1>5. History(<<x>>) /\ Last(<<x>>) = x
  <2>1. <<x>> \in Seq(Range(<<x>>)) /\ Len(<<x>>) = 1 /\ <<x>>[1] = x /\ DOMAIN <<x>> = 1..1
    BY DEF Range
  <2>2. <<x>> # <<>>
    BY <2>1
  <2> QED
    BY <1>4, <2>1, <2>2 DEF History, Last
<1>6. DOMAIN symbols = {Text(t) : t \in BuiltinTypes}
      /\ \A key \in DOMAIN symbols : symbols[key] = <<x>>
  BY <1>1
<1>7. \A key \in DOMAIN symbols : Current(symbols, key) = x /\ PlainKey(key)
  BY <1>5, <1>6 DEF Current, PlainKey, NameKnown
<1>8. TableInv
  BY <1>5, <1>6, <1>7 DEF TableInv, IsTable, KeyKnown
<1>9. GlobalInv
  <2>1. \A k : ~Predeclared(k)
    BY <1>1, <1>2 DEF Predeclared
  <2> QED
    BY <1>1, <1>4, <1>7, <2>1 DEF GlobalInv
<1>10. ReceiverInv
  BY <1>1, <1>2 DEF ReceiverInv
<1>11. SeenInv
  <2>1. seen \in Seq(Range(seen))
    BY <1>1
  <2> QED
    BY <1>1, <1>2, <2>1 DEF SeenInv
<1> QED
  BY <1>3, <1>8, <1>9, <1>10, <1>11 DEF ShapeInv

LEMMA ShapeWrite == ShapeInv /\ Write => ShapeInv'
<1> SUFFICES ASSUME ShapeInv, Write PROVE ShapeInv'
  OBVIOUS
<1>1. PICK items \in ItemSets, item \in UNION ItemSets : program' = Append(program, item)
  BY DEF Write
<1>2. /\ pass = "write" /\ pass' = pass /\ next' = next /\ seen' = seen /\ symbols' = symbols
      /\ globals' = globals /\ userParams' = userParams /\ receivers' = receivers
      /\ udtFields' = udtFields
  BY DEF Write
<1>3. PassInv /\ TableInv /\ GlobalInv /\ ReceiverInv /\ SeenInv
  BY DEF ShapeInv
<1>4. /\ program' \in Seq(UNION ItemSets)
      /\ \A k \in DOMAIN program : k \in DOMAIN program' /\ program'[k] = program[k]
  <2>1. program \in Seq(UNION ItemSets)
    BY <1>3 DEF PassInv
  <2> QED
    BY <1>1, <2>1
<1>5. \A k : ~Predeclared(k) /\ ~Predeclared(k)' /\ ~Visited(k) /\ ~Visited(k)'
  BY <1>2 DEF Predeclared, Visited
<1>6. PassInv'
  BY <1>2, <1>3, <1>4 DEF PassInv
<1>7. \A key : PlainKey(key) => PlainKey(key)'
  BY <1>5 DEF PlainKey, NameKnown
<1>8. TableInv'
  BY <1>2, <1>3, <1>5, <1>7 DEF TableInv, KeyKnown, EnumKey, FieldKey
<1>9. \A n : IsEnum(n) => IsEnum(n)'
  BY <1>4 DEF IsEnum
<1>10. GlobalInv'
  BY <1>2, <1>3, <1>5, <1>7, <1>9 DEF GlobalInv, EnumKey
<1>11. ReceiverInv'
  BY <1>2, <1>3, <1>5 DEF ReceiverInv
<1>12. SeenInv'
  BY <1>2, <1>3, <1>5 DEF SeenInv
<1> QED
  BY <1>6, <1>8, <1>10, <1>11, <1>12 DEF ShapeInv

\* Nothing but the pass.
LEMMA ShapeNextPass ==
  ASSUME ShapeInv, PassInv', Onward, \A k : Predeclared(k)' => Predeclared(k),
         UNCHANGED <<symbols, globals, userParams, receivers, udtFields, seen>>
  PROVE  ShapeInv'
<1>1. PassInv /\ TableInv /\ GlobalInv /\ ReceiverInv /\ SeenInv
  BY DEF ShapeInv
<1>2. Changed(<<>>, {}, {})
  BY <1>1, NothingDefined DEF TableInv
<1>3. DOMAIN <<>> = {}
  BY NoDomain
<1>4. TableInv'
  BY <1>1, <1>2, <1>3, TableKept
<1>5. Added(<<>>, {})
  BY <1>3 DEF Added
<1>6. GlobalInv'
  BY <1>1, <1>2, <1>5, GlobalsKept
<1>7. ReceiverInv'
  BY <1>1 DEF ReceiverInv, Onward
<1>8. SeenInv'
  BY <1>1 DEF SeenInv, Onward
<1> QED
  BY <1>4, <1>6, <1>7, <1>8 DEF ShapeInv

LEMMA ShapeAnalyze == ShapeInv /\ Analyze => ShapeInv'
<1> SUFFICES ASSUME ShapeInv, Analyze PROVE ShapeInv'
  OBVIOUS
<1>1. /\ pass = "write" /\ pass' = "predeclare" /\ program # <<>> /\ program' = program
      /\ next' = next /\ seen' = seen
  BY DEF Analyze
<1>2. PassInv
  BY DEF ShapeInv
<1>3. next = 1 /\ next \in DOMAIN program /\ DOMAIN program = 1..Len(program)
      /\ Len(program) \in Nat
  <2>1. Len(program) \in Nat /\ DOMAIN program = 1..Len(program)
    BY <1>2, ProgramListed
  <2>2. Len(program) # 0
    BY <1>1, <1>2 DEF PassInv
  <2> QED
    BY <1>1, <1>2, <2>1, <2>2 DEF PassInv
<1>4. PassInv'
  BY <1>1, <1>2, <1>3 DEF PassInv
<1>5. \A k : ~Predeclared(k) /\ ~Predeclared(k)' /\ ~Visited(k)
  BY <1>1, <1>3 DEF Predeclared, Visited
<1>6. Onward
  BY <1>1, <1>5 DEF Onward
<1> QED
  BY <1>4, <1>5, <1>6, ShapeNextPass DEF Analyze

LEMMA ShapeValidate == ShapeInv /\ ValidateCollections => ShapeInv'
<1> SUFFICES ASSUME ShapeInv, ValidateCollections PROVE ShapeInv'
  OBVIOUS
<1>1. /\ pass = "collections" /\ pass' = "done" /\ program' = program
      /\ next' = next /\ seen' = seen
  BY DEF ValidateCollections
<1>2. PassInv'
  BY <1>1 DEF ShapeInv, PassInv
<1>3. Onward /\ \A k : Predeclared(k)' => Predeclared(k)
  BY <1>1 DEF Onward, Predeclared, Visited
<1> QED
  BY <1>2, <1>3, ShapeNextPass DEF ValidateCollections

LEMMA PredeclaredSymbolsMade ==
  ASSUME NEW item
  PROVE  LET new == PredeclaredSymbols(item)
         IN \A key \in DOMAIN new :
              /\ new[key].scope = "GLOBAL"
              /\ \/ /\ key = Text(item.name) /\ Declares(item) /\ ~Redeclared(item)
                    /\ new[key] = Declaration(item)
                 \/ /\ item.form = "enum" /\ new[key].kind = "ENUM_MEMBER"
                    /\ \E m \in Range(item.members) : key = Member(Text(item.name), m)
<1> DEFINE first == OwnSymbols(item)
           second == EnumSymbols(item)
           new == PredeclaredSymbols(item)
<1>1. DOMAIN new = DOMAIN first \cup DOMAIN second
      /\ \A key \in DOMAIN new : new[key] = IF key \in DOMAIN second THEN second[key]
                                            ELSE first[key]
  BY DEF PredeclaredSymbols
<1>2. \A key \in DOMAIN first : /\ Declares(item) /\ ~Redeclared(item)
                                /\ key = Text(item.name) /\ first[key] = Declaration(item)
  BY OwnSymbolsMade
<1>3. \A key \in DOMAIN second :
        /\ item.form = "enum" /\ second[key].scope = "GLOBAL"
        /\ second[key].kind = "ENUM_MEMBER"
        /\ \E m \in Range(item.members) : key = Member(Text(item.name), m)
  <2>1. /\ DOMAIN second = IF item.form = "enum"
                           THEN {Member(Text(item.name), m) : m \in Range(item.members)} ELSE {}
        /\ \A key \in DOMAIN second : /\ second[key].scope = "GLOBAL"
                                      /\ second[key].kind = "ENUM_MEMBER"
    BY EnumSymbolsMade
  <2> HIDE DEF second
  <2> QED
    BY <2>1
<1>4. Declares(item) => Declaration(item).scope = "GLOBAL"
  BY DeclarationsMade
<1> HIDE DEF first, second, new
<1>5. \A key \in DOMAIN new :
              /\ new[key].scope = "GLOBAL"
              /\ \/ /\ key = Text(item.name) /\ Declares(item) /\ ~Redeclared(item)
                    /\ new[key] = Declaration(item)
                 \/ /\ item.form = "enum" /\ new[key].kind = "ENUM_MEMBER"
                    /\ \E m \in Range(item.members) : key = Member(Text(item.name), m)
  BY <1>1, <1>2, <1>3, <1>4
<1> QED
  BY <1>5 DEF new

LEMMA OwnNameTaken ==
  ASSUME NEW item, Declares(item), ~Redeclared(item)
  PROVE  Text(item.name) \in DOMAIN PredeclaredSymbols(item)
BY DEF PredeclaredSymbols, OwnSymbols, When

LEMMA ShapePredeclare == ShapeInv /\ Predeclare => ShapeInv'
<1> SUFFICES ASSUME ShapeInv, Predeclare PROVE ShapeInv'
  OBVIOUS
<1>1. PassInv /\ TableInv /\ GlobalInv /\ ReceiverInv /\ SeenInv
  BY DEF ShapeInv
<1>2. pass = "predeclare" /\ Advance("visit") /\ program' = program /\ seen' = seen
      /\ udtFields' = udtFields
  BY DEF Predeclare
<1>3. /\ PassInv'
      /\ \A k : Predeclared(k)' <=> Predeclared(k) \/ k = next
      /\ \A k : ~Visited(k) /\ ~Visited(k)'
  BY <1>1, <1>2, PredeclareAdvances
<1>4. Onward
  BY <1>2, <1>3 DEF Onward
<1> DEFINE item == program[next]
           new == PredeclaredSymbols(item)
<1>5. Changed(new, DOMAIN new, {}) /\ globals' = globals \cup DOMAIN new
  BY <1>1, PredeclareChanges DEF TableInv
<1>6. \A key \in DOMAIN new :
        /\ new[key].scope = "GLOBAL"
        /\ \/ /\ key = Text(item.name) /\ Declares(item) /\ ~Redeclared(item)
              /\ new[key] = Declaration(item)
           \/ /\ item.form = "enum" /\ new[key].kind = "ENUM_MEMBER"
              /\ \E m \in Range(item.members) : key = Member(Text(item.name), m)
  BY PredeclaredSymbolsMade
<1>7. Declares(item) /\ ~Redeclared(item) => Text(item.name) \in DOMAIN new
  BY OwnNameTaken
<1>8. Declares(item) => (item.form = "enum" <=> Declaration(item).kind = "ENUM")
  BY DeclarationsMade
<1>9. next \in DOMAIN program
  BY <1>1, <1>2 DEF PassInv
<1> HIDE DEF new
<1>10. ASSUME NEW key \in DOMAIN new
       PROVE  PlainKey(key)' \/ EnumKey(key)'
  <2> PICK place : place = next
    OBVIOUS
  <2>1. Predeclared(place)' /\ program'[place] = item
    BY <1>2, <1>3
  <2>2. CASE key = Text(item.name) /\ Declares(item)
    <3> HIDE DEF item
    <3> QED
      BY <2>1, <2>2 DEF PlainKey, NameKnown
  <2>3. CASE /\ item.form = "enum"
             /\ \E m \in Range(item.members) : key = Member(Text(item.name), m)
    <3> HIDE DEF item
    <3> QED
      BY <2>1, <2>3 DEF EnumKey
  <2> QED
    BY <1>6, <2>2, <2>3
<1>11. TableInv'
  BY <1>1, <1>4, <1>5, <1>10, TableKept DEF KeyKnown
<1>12. \A key \in DOMAIN new : new[key].kind = "ENUM" => \E n : IsEnum(n) /\ key = Text(n)
  BY <1>6, <1>8, <1>9 DEF IsEnum
<1>13. \A k : Predeclared(k)' /\ Declares(program[k]) =>
              Predeclared(k) \/ Text(program[k].name) \in globals'
  BY <1>3, <1>5, <1>7 DEF Redeclared
<1>14. Added(new, DOMAIN new)
  BY <1>5, <1>6, <1>10, <1>12, <1>13 DEF Added
<1>15. GlobalInv'
  BY <1>1, <1>4, <1>5, <1>14, GlobalsKept
<1>16. ReceiverInv'
  <2>1. DOMAIN userParams' \subseteq DOMAIN receivers'
    <3> DEFINE method == (Declares(item) /\ ~Redeclared(item)) /\ item.form = "method"
               kinds == {KindOf(item.receiver.type)}
    <3>1. /\ receivers' = IF method THEN Put(receivers, item.name, kinds) ELSE receivers
          /\ userParams' = IF method THEN Put(userParams, item.name, item.params)
                           ELSE userParams
      BY SMTT(30) DEF Predeclare
    <3>2. DOMAIN userParams \subseteq DOMAIN receivers
      BY <1>1 DEF ReceiverInv
    <3> HIDE DEF method, kinds
    <3>3. DOMAIN Put(receivers, item.name, kinds) = DOMAIN receivers \cup {item.name}
          /\ DOMAIN Put(userParams, item.name, item.params) = DOMAIN userParams \cup {item.name}
      BY DEF Put
    <3>4. CASE method
      <4>1. receivers' = Put(receivers, item.name, kinds)
            /\ userParams' = Put(userParams, item.name, item.params)
        BY <3>1, <3>4
      <4>2. DOMAIN receivers' = DOMAIN receivers \cup {item.name}
            /\ DOMAIN userParams' = DOMAIN userParams \cup {item.name}
        BY <3>3, <4>1, Zenon
      <4> QED
        BY <3>2, <4>2
    <3>5. CASE ~method
      <4>1. receivers' = receivers /\ userParams' = userParams
        BY <3>1, <3>5
      <4> QED
        BY <3>2, <4>1
    <3> QED
      BY <3>4, <3>5
  <2> QED
    BY <1>1, <1>2, <1>3, <2>1 DEF ReceiverInv
<1>17. SeenInv'
  BY <1>1, <1>2, <1>3 DEF SeenInv
<1> QED
  BY <1>3, <1>11, <1>15, <1>16, <1>17 DEF ShapeInv

LEMMA VisitOnward ==
  ASSUME PassInv, pass = "visit", Advance("collections"), program' = program
  PROVE  Onward /\ PassInv' /\ next \in DOMAIN program
         /\ \A k : k = next => Visited(k)' /\ Predeclared(k) /\ Predeclared(k)'
BY VisitAdvances DEF Onward

\* What is left of the invariant when an item is visited.
LEMMA ShapeVisit ==
  ASSUME ShapeInv, pass = "visit", Advance("collections"), program' = program,
         NEW new, NEW over, NEW own, Changed(new, over, own),
         \A key \in DOMAIN new : KeyKnown(key)',
         globals \subseteq globals',
         \A key \in globals' \ globals :
           /\ key \in DOMAIN new /\ new[key].scope = "GLOBAL"
           /\ PlainKey(key)' \/ EnumKey(key)'
           /\ key \in over \/ key \notin DOMAIN symbols,
         \A key \in DOMAIN new : /\ new[key].scope = "GLOBAL" => key \in globals'
                                 /\ new[key].kind # "ENUM",
         \A key \in over \cap globals : new[key].scope = "GLOBAL" \/ EnumKey(key),
         ReceiverInv', SeenInv'
  PROVE  ShapeInv'
<1>1. PassInv /\ TableInv /\ GlobalInv
  BY DEF ShapeInv
<1>2. Onward /\ PassInv' /\ \A k : Predeclared(k)' => Predeclared(k)
  BY <1>1, VisitOnward, VisitAdvances
<1>3. TableInv'
  BY <1>1, <1>2, TableKept
<1>4. Added(new, over)
  BY <1>2 DEF Added
<1>5. GlobalInv'
  BY <1>1, <1>2, <1>4, GlobalsKept
<1> QED
  BY <1>2, <1>3, <1>5 DEF ShapeInv

LEMMA ShapeType == ShapeInv /\ VisitType => ShapeInv'
<1> SUFFICES ASSUME ShapeInv, VisitType PROVE ShapeInv'
  OBVIOUS
<1>1. PassInv /\ TableInv /\ GlobalInv /\ ReceiverInv /\ SeenInv
  BY DEF ShapeInv
<1>2. /\ pass = "visit" /\ Advance("collections") /\ program' = program
      /\ program[next].form = "type" /\ globals' = globals /\ seen' = seen
      /\ userParams' = userParams /\ receivers' = receivers
      /\ udtFields' = Put(udtFields, program[next].name, program[next].fields)
  BY DEF VisitType
<1>3. PICK place : place = next
  OBVIOUS
<1>4. PICK item : item = program[next]
  OBVIOUS
<1>5. Onward /\ Visited(place)' /\ Predeclared(place)
  BY <1>1, <1>2, <1>3, VisitOnward
<1> DEFINE new == FieldSymbols(item)
<1>6. Changed(new, DottedFields(item), {})
  BY <1>1, <1>4, TypeChanges DEF TableInv
<1>7. /\ DOMAIN new = PlainFields(item) \cup DottedFields(item)
      /\ \A key \in DOMAIN new : new[key].scope = "TYPE_DECL" /\ new[key].kind = "FIELD"
  BY FieldsMade
<1> HIDE DEF new
<1>8. program'[place] = item /\ item.form = "type" /\ program[place] = item
  BY <1>2, <1>3, <1>4
<1>9. ASSUME NEW key \in DOMAIN new
      PROVE  KeyKnown(key)'
  <2>1. CASE key \in PlainFields(item)
    <3>1. PICK n \in NamesOf(item.fields) : key = Text(n)
      BY <2>1 DEF PlainFields
    <3>2. n \in NamesBy(item)
      BY <1>8, <3>1 DEF NamesBy
    <3>3. NameKnown(n)'
      BY <1>5, <1>8, <3>2 DEF NameKnown
    <3> QED
      BY <3>1, <3>3 DEF KeyKnown, PlainKey
  <2>2. CASE key \in DottedFields(item)
    BY <1>5, <1>8, <2>2 DEF KeyKnown, FieldKey, DottedFields
  <2> QED
    BY <1>7, <2>1, <2>2
<1>10. ASSUME NEW key \in DottedFields(item) \cap globals
       PROVE  EnumKey(key)
  <2>1. \A n : key # Text(n)
    BY <1>10, KeysApart DEF DottedFields
  <2> QED
    BY <1>1, <1>10, <2>1 DEF GlobalInv, PlainKey
<1>11. ReceiverInv'
  <2>1. DOMAIN udtFields' = DOMAIN udtFields \cup {item.name}
    BY <1>2, <1>4 DEF Put
  <2>2. ASSUME NEW n \in DOMAIN udtFields'
        PROVE  \E k : Visited(k)' /\ program'[k].form = "type" /\ program'[k].name = n
    <3>1. CASE n = item.name
      BY <1>5, <1>8, <3>1
    <3>2. CASE n # item.name
      BY <1>1, <1>2, <1>5, <2>1, <3>2 DEF ReceiverInv, Onward
    <3> QED
      BY <3>1, <3>2
  <2>3. DOMAIN userParams' \subseteq DOMAIN receivers'
    BY <1>1, <1>2 DEF ReceiverInv
  <2> QED
    BY <2>2, <2>3 DEF ReceiverInv
<1>12. SeenInv'
  BY <1>1, <1>2, <1>5 DEF SeenInv, Onward
<1> QED
  BY <1>2, <1>6, <1>7, <1>9, <1>10, <1>11, <1>12, ShapeVisit

LEMMA ShapeEnum == ShapeInv /\ VisitEnum => ShapeInv'
<1> SUFFICES ASSUME ShapeInv, VisitEnum PROVE ShapeInv'
  OBVIOUS
<1>1. PassInv /\ TableInv /\ GlobalInv /\ ReceiverInv /\ SeenInv
  BY DEF ShapeInv
<1>2. /\ pass = "visit" /\ Advance("collections") /\ program' = program
      /\ program[next].form = "enum" /\ seen' = seen
      /\ userParams' = userParams /\ receivers' = receivers /\ udtFields' = udtFields
  BY DEF VisitEnum
<1>3. PICK place : place = next
  OBVIOUS
<1>4. PICK item : item = program[next]
  OBVIOUS
<1>5. Onward /\ Visited(place)' /\ Predeclared(place)'
  BY <1>1, <1>2, <1>3, VisitOnward
<1> DEFINE new == MemberSymbols(item)
<1>6. Changed(new, DOMAIN new, {}) /\ globals' = globals \cup DOMAIN new
  BY <1>1, <1>4, EnumChanges DEF TableInv
<1>7. /\ DOMAIN new = {Member(Text(item.name), m) : m \in Range(item.members)}
      /\ \A key \in DOMAIN new : new[key].scope = "GLOBAL" /\ new[key].kind = "ENUM_MEMBER"
  BY MembersMade
<1> HIDE DEF new
<1>8. program'[place] = item /\ item.form = "enum"
  BY <1>2, <1>3, <1>4
<1>9. \A key \in DOMAIN new : EnumKey(key)'
  BY <1>5, <1>7, <1>8 DEF EnumKey
<1>10. ReceiverInv'
  BY <1>1, <1>2, <1>5 DEF ReceiverInv, Onward
<1>11. SeenInv'
  BY <1>1, <1>2, <1>5 DEF SeenInv, Onward
<1> QED
  BY <1>2, <1>6, <1>7, <1>9, <1>10, <1>11, ShapeVisit DEF KeyKnown

SeenMore(s, bound, uses) ==
  \A k \in DOMAIN seen' :
    \/ \E j \in DOMAIN seen : seen'[k] = seen[j]
    \/ \E j \in DOMAIN uses : seen'[k] = Sight(s, bound, uses[j])

\* The uses of an item are seen in the item.
LEMMA SeenVisit ==
  ASSUME PassInv, SeenInv, pass = "visit", Advance("collections"), program' = program,
         NEW s, NEW bound,
         program[next].form \in {"method", "function", "let", "do"},
         seen' = seen \o Sights(s, bound, program[next].uses)
  PROVE  SeenInv' /\ SeenMore(s, bound, program[next].uses)
<1>1. program[next] \in UNION ItemSets
  BY ProgramListed DEF PassInv
<1> DEFINE uses == program[next].uses
           new == Sights(s, bound, uses)
<1>2. uses \in Seq(Range(uses))
  BY <1>1, ItemsAssumption
<1> HIDE DEF uses
<1>3. /\ new \in Seq(Range(new)) /\ DOMAIN new = DOMAIN uses
      /\ \A k \in DOMAIN new : new[k] = Sight(s, bound, uses[k]) /\ new[k].item = next
  BY <1>2, SightsListed
<1> HIDE DEF new
<1>4. seen' = seen \o new
  BY DEF new, uses
<1>5. /\ SeenInv'
      /\ \A k \in DOMAIN seen' : (\E j \in DOMAIN seen : seen'[k] = seen[j])
                                 \/ \E j \in DOMAIN new : seen'[k] = new[j]
  BY <1>3, <1>4, SeenKept
<1> QED
  BY <1>3, <1>5 DEF uses, SeenMore

LEMMA ShapeCallable == ShapeInv /\ VisitCallable => ShapeInv'
<1> SUFFICES ASSUME ShapeInv, VisitCallable PROVE ShapeInv'
  OBVIOUS
<1>1. PassInv /\ TableInv /\ GlobalInv /\ ReceiverInv /\ SeenInv
  BY DEF ShapeInv
<1>2. PICK item : item = program[next]
  OBVIOUS
<1>3. /\ pass = "visit" /\ Advance("collections") /\ program' = program
      /\ item.form \in {"method", "function"}
      /\ globals' = globals /\ userParams' = userParams /\ udtFields' = udtFields
      /\ seen' = seen \o Sights(Bind(symbols, Locals(item)), globals \cup DOMAIN Locals(item),
                                item.uses)
  BY <1>2 DEF VisitCallable
<1>4. PICK place : place = next
  OBVIOUS
<1>5. Onward /\ Visited(place)' /\ Predeclared(place)
  BY <1>1, <1>3, <1>4, VisitOnward
<1>6. Text(item.name) \in DOMAIN symbols
  <2>1. Declares(program[place]) /\ program[place] = item
    BY <1>2, <1>3, <1>4 DEF Declares
  <2> QED
    BY <1>1, <1>5, <2>1 DEF GlobalInv
<1> DEFINE new == Locals(item)
<1>7. Changed(new, {}, {Text(item.name)})
  BY <1>1, <1>2, <1>6, CallableChanges DEF TableInv
<1>8. /\ DOMAIN new = {Text(n) : n \in NamesOf(Parameters(item))}
      /\ \A key \in DOMAIN new : /\ new[key].scope \in {"METHOD", "FUNCTION"}
                                 /\ new[key].kind = "VARIABLE"
  BY LocalsMade
<1>9. SeenInv'
  <2> PICK s, bound : s = Bind(symbols, new) /\ bound = globals \cup DOMAIN new
    OBVIOUS
  <2>1. seen' = seen \o Sights(s, bound, program[next].uses)
    BY <1>2, <1>3
  <2>2. program[next].form \in {"method", "function", "let", "do"}
    BY <1>2, <1>3
  <2>3. PassInv /\ SeenInv /\ pass = "visit" /\ Advance("collections") /\ program' = program
    BY <1>1, <1>3
  <2> QED
    BY ONLY <2>1, <2>2, <2>3, SeenVisit
<1> HIDE DEF new
<1>10. program'[place] = item
  BY <1>2, <1>3, <1>4
<1>11. \A key \in DOMAIN new : KeyKnown(key)'
  <2>1. NamesBy(item) = NamesOf(Parameters(item))
    BY <1>3 DEF NamesBy
  <2>2. \A n \in NamesOf(Parameters(item)) : NameKnown(n)'
    BY <1>5, <1>10, <2>1 DEF NameKnown
  <2> QED
    BY <1>8, <2>2 DEF KeyKnown, PlainKey
<1>12. ReceiverInv'
  <2>1. DOMAIN receivers \subseteq DOMAIN receivers'
    BY DEF VisitCallable, Put
  <2> QED
    BY <1>1, <1>3, <1>5, <2>1 DEF ReceiverInv, Onward
<1> QED
  BY <1>3, <1>7, <1>8, <1>9, <1>11, <1>12, ShapeVisit

LEMMA ShapeLet == ShapeInv /\ VisitLet => ShapeInv'
<1> SUFFICES ASSUME ShapeInv, VisitLet PROVE ShapeInv'
  OBVIOUS
<1>1. PassInv /\ TableInv /\ GlobalInv /\ ReceiverInv /\ SeenInv
  BY DEF ShapeInv
<1>2. PICK item : item = program[next]
  OBVIOUS
<1>3. /\ pass = "visit" /\ Advance("collections") /\ program' = program
      /\ item.form = "let" /\ userParams' = userParams /\ udtFields' = udtFields
      /\ receivers' = receivers /\ seen' = seen \o Sights(symbols, globals, item.uses)
  BY <1>2 DEF VisitLet
<1>4. PICK place : place = next
  OBVIOUS
<1>5. Onward /\ Visited(place)' /\ program'[place] = item
  BY <1>1, <1>2, <1>3, <1>4, VisitOnward
<1>6. PICK type : LET new == LetSymbols(item, type)
                  IN Changed(new, DOMAIN new, {}) /\ globals' = globals \cup DOMAIN new
  BY <1>1, <1>2, LetChanges DEF TableInv
<1> DEFINE new == LetSymbols(item, type)
<1>7. \A key \in DOMAIN new :
        /\ key = Text(item.name)
        /\ new[key].scope = "GLOBAL" /\ new[key].kind = "VARIABLE"
  BY LetSymbolsMade
<1>8. Changed(new, DOMAIN new, {}) /\ globals' = globals \cup DOMAIN new
  BY <1>6
<1> HIDE DEF new
<1>9. SeenInv'
  BY <1>1, <1>2, <1>3, SeenVisit
<1>10. \A key \in DOMAIN new : PlainKey(key)'
  <2>1. NameKnown(item.name)'
    BY <1>3, <1>5 DEF NameKnown, NamesBy
  <2> QED
    BY <1>7, <2>1 DEF PlainKey
<1>11. ReceiverInv'
  BY <1>1, <1>3, <1>5 DEF ReceiverInv, Onward
<1> QED
  BY <1>3, <1>7, <1>8, <1>9, <1>10, <1>11, ShapeVisit DEF KeyKnown

LEMMA ShapeDo == ShapeInv /\ VisitDo => ShapeInv'
<1> SUFFICES ASSUME ShapeInv, VisitDo PROVE ShapeInv'
  OBVIOUS
<1>1. PassInv /\ TableInv /\ GlobalInv /\ ReceiverInv /\ SeenInv
  BY DEF ShapeInv
<1>2. /\ pass = "visit" /\ Advance("collections") /\ program' = program
      /\ program[next].form = "do" /\ userParams' = userParams /\ udtFields' = udtFields
      /\ receivers' = receivers /\ symbols' = symbols /\ globals' = globals
      /\ seen' = seen \o Sights(symbols, globals, program[next].uses)
  BY DEF VisitDo
<1>3. Onward
  BY <1>1, <1>2, VisitOnward
<1>4. Changed(<<>>, {}, {})
  BY <1>1, <1>2, NothingDefined DEF TableInv
<1>5. DOMAIN <<>> = {}
  BY NoDomain
<1>6. SeenInv'
  <2>1. /\ PassInv /\ SeenInv /\ pass = "visit" /\ Advance("collections") /\ program' = program
        /\ program[next].form \in {"method", "function", "let", "do"}
        /\ seen' = seen \o Sights(symbols, globals, program[next].uses)
    BY <1>1, <1>2
  <2> QED
    BY ONLY <2>1, SeenVisit
<1>7. ReceiverInv'
  BY <1>1, <1>2, <1>3 DEF ReceiverInv, Onward
<1> QED
  BY <1>2, <1>4, <1>5, <1>6, <1>7, ShapeVisit

LEMMA ShapeStep == ShapeInv /\ [FactsNext]_factsVars => ShapeInv'
<1> SUFFICES ASSUME ShapeInv, [FactsNext]_factsVars PROVE ShapeInv'
  OBVIOUS
<1>1. CASE UNCHANGED factsVars
  <2>1. \A k : (Predeclared(k)' <=> Predeclared(k)) /\ (Visited(k)' <=> Visited(k))
    BY <1>1 DEF factsVars, Predeclared, Visited
  <2>2. PassInv'
    BY <1>1 DEF ShapeInv, PassInv, factsVars
  <2>3. Onward
    BY <1>1, <2>1 DEF Onward, factsVars
  <2> QED
    BY <1>1, <2>1, <2>2, <2>3, ShapeNextPass DEF factsVars
<1> QED
  BY <1>1, ShapeWrite, ShapeAnalyze, ShapePredeclare, ShapeType, ShapeEnum, ShapeCallable,
     ShapeLet, ShapeDo, ShapeValidate DEF FactsNext

-----------------------------------------------------------------------------
(***************************************************************************)
(* Types and methods: what holds as long as nothing has been reported.     *)
(***************************************************************************)
DeclaredAt(k) == Predeclared(k) /\ Declares(program[k])

\* A type that has been visited is described by its fields.
FieldsDefined(item) ==
  /\ item.name \in DOMAIN udtFields /\ udtFields[item.name] = item.fields
  /\ Distinct(NamesIn(item.fields))
  /\ \A m \in NamesOf(item.fields) :
       Current(symbols, Member(Text(item.name), m)) =
         Symbol("FIELD", item.fields[ByName(item.fields, m)].type, "TYPE_DECL")

NamesInv ==
  /\ \A k : DeclaredAt(k) =>
       /\ k \in predeclared
       /\ Current(symbols, Text(program[k].name)).kind = Declaration(program[k]).kind
  /\ \A j, k : DeclaredAt(j) /\ DeclaredAt(k) /\ program[j].name = program[k].name => j = k
  /\ \A k : Predeclared(k) /\ program[k].form = "method" =>
       /\ program[k].name \in DOMAIN receivers
       /\ receivers[program[k].name] = {KindOf(program[k].receiver.type)}
  /\ \A k : Predeclared(k) /\ program[k].form = "enum" =>
       \A m \in Range(program[k].members) :
         Current(symbols, Member(Text(program[k].name), m)).scope = "GLOBAL"
  /\ \A k : Visited(k) /\ program[k].form = "type" => FieldsDefined(program[k])

LEMMA NothingReported ==
  ASSUME NEW before, NEW reasons, before \cup Reported(reasons) = {}
  PROVE  before = {} /\ reasons = {}
BY DEF Reported

LEMMA NotWhen ==
  ASSUME NEW condition, NEW x, When(condition, x) = {}
  PROVE  ~condition
BY DEF When

LEMMA InTable ==
  ASSUME NEW s, NEW key
  PROVE  /\ Current(s, key).scope = "GLOBAL" => key \in DOMAIN s
         /\ Current(s, key) # NoSymbol => key \in DOMAIN s
         /\ Current(s, key).kind \in {"TYPE", "ENUM", "VARIABLE", "METHOD", "FIELD"} =>
              key \in DOMAIN s
         /\ Current(s, key).scope = "TYPE_DECL" => key \in DOMAIN s
BY SymbolsMade DEF Current, NoSymbol

\* A visit leaves what is declared alone.
LEMMA NamesKept ==
  ASSUME ShapeInv, NamesInv, pass = "visit", Advance("collections"), program' = program,
         predeclared' = predeclared, receivers' = receivers,
         NEW new, NEW over, NEW own, Changed(new, over, own),
         \A k : DeclaredAt(k) => Text(program[k].name) \notin over,
         \A k : Predeclared(k) /\ program[k].form = "enum" =>
           \A m \in Range(program[k].members) :
             LET key == Member(Text(program[k].name), m)
             IN key \in over => new[key].scope = "GLOBAL",
         \A k : Visited(k) /\ program[k].form = "type" =>
           /\ \A m \in NamesOf(program[k].fields) :
                Member(Text(program[k].name), m) \notin over \cup own
           /\ program[k].name \in DOMAIN udtFields'
           /\ udtFields'[program[k].name] = udtFields[program[k].name],
         \A k : k = next /\ program[k].form = "type" => FieldsDefined(program[k])'
  PROVE  NamesInv'
<1>1. PassInv /\ TableInv /\ GlobalInv
  BY DEF ShapeInv
<1>2. /\ \A k : Predeclared(k)' <=> Predeclared(k)
      /\ \A k : Visited(k)' <=> Visited(k) \/ k = next
  BY <1>1, VisitAdvances
<1>3. \A k : DeclaredAt(k)' <=> DeclaredAt(k)
  BY <1>2 DEF DeclaredAt
<1>4. \A key \in DOMAIN symbols \ over :
        /\ Current(symbols', key).kind = Current(symbols, key).kind
        /\ Current(symbols', key).scope = Current(symbols, key).scope
        /\ key \notin own => Current(symbols', key) = Current(symbols, key)
  BY DEF Changed
<1>5. \A key \in over : Current(symbols', key) = new[key]
  BY DEF Changed
<1>6. ASSUME NEW k, DeclaredAt(k)
      PROVE  /\ k \in predeclared
             /\ Current(symbols', Text(program[k].name)).kind = Declaration(program[k]).kind
  <2>1. Text(program[k].name) \in DOMAIN symbols \ over
    BY <1>1, <1>6 DEF GlobalInv, DeclaredAt
  <2> QED
    BY <1>4, <1>6, <2>1 DEF NamesInv
<1>7. ASSUME NEW k, Predeclared(k), program[k].form = "enum",
             NEW m \in Range(program[k].members)
      PROVE  Current(symbols', Member(Text(program[k].name), m)).scope = "GLOBAL"
  <2> DEFINE key == Member(Text(program[k].name), m)
  <2>1. Current(symbols, key).scope = "GLOBAL"
    BY <1>7 DEF NamesInv
  <2>2. key \in DOMAIN symbols
    BY <2>1, InTable
  <2>3. key \in over => new[key].scope = "GLOBAL"
    BY <1>7
  <2> HIDE DEF key
  <2>4. Current(symbols', key).scope = "GLOBAL"
    BY <1>4, <1>5, <2>1, <2>2, <2>3
  <2> QED
    BY <2>4 DEF key
<1>8. ASSUME NEW k, Visited(k), program[k].form = "type"
      PROVE  FieldsDefined(program[k])'
  <2> PICK item : item = program[k]
    OBVIOUS
  <2>1. FieldsDefined(item)
    BY <1>8 DEF NamesInv
  <2>2. ASSUME NEW m \in NamesOf(item.fields)
        PROVE  Current(symbols', Member(Text(item.name), m)) =
                 Symbol("FIELD", item.fields[ByName(item.fields, m)].type, "TYPE_DECL")
    <3> DEFINE key == Member(Text(item.name), m)
    <3>1. Current(symbols, key) =
            Symbol("FIELD", item.fields[ByName(item.fields, m)].type, "TYPE_DECL")
      BY <2>1 DEF FieldsDefined
    <3>2. Current(symbols, key).kind = "FIELD"
      BY <3>1, SymbolsMade
    <3>3. key \in DOMAIN symbols /\ key \notin over \cup own
      BY <1>8, <3>2, InTable
    <3> HIDE DEF key
    <3>4. Current(symbols', key) = Current(symbols, key)
      BY <1>4, <3>3
    <3> QED
      BY <3>1, <3>4 DEF key
  <2>3. item.name \in DOMAIN udtFields' /\ udtFields'[item.name] = item.fields
    BY <1>8, <2>1 DEF FieldsDefined
  <2>4. FieldsDefined(item)'
    BY <2>1, <2>2, <2>3 DEF FieldsDefined
  <2>5. program'[k] = item
    OBVIOUS
  <2> QED
    BY <2>4, <2>5
<1>9. ASSUME NEW k, Visited(k)', program'[k].form = "type"
      PROVE  FieldsDefined(program[k])'
  <2>1. CASE k = next
    BY <1>9, <2>1
  <2>2. CASE k # next
    BY <1>2, <1>8, <1>9, <2>2
  <2> QED
    BY <2>1, <2>2
<1> QED
  BY <1>2, <1>3, <1>6, <1>7, <1>9 DEF NamesInv

\* What is declared is in the global scope, each name once.
LEMMA DeclaredOnce ==
  ASSUME ShapeInv, NamesInv, NEW k, DeclaredAt(k)
  PROVE  /\ Text(program[k].name) \in globals
         /\ Current(symbols, Text(program[k].name)).kind \in {"TYPE", "ENUM", "METHOD", "FUNCTION"}
         /\ \A j : DeclaredAt(j) /\ program[j].name = program[k].name => j = k
         /\ program[k].form = "type" <=> Current(symbols, Text(program[k].name)).kind = "TYPE"
         /\ program[k].form = "enum" <=> Current(symbols, Text(program[k].name)).kind = "ENUM"
         /\ program[k].form = "method" <=> Current(symbols, Text(program[k].name)).kind = "METHOD"
<1>1. Predeclared(k) /\ Declares(program[k])
  BY DEF DeclaredAt
<1>2. Text(program[k].name) \in globals
  BY <1>1 DEF ShapeInv, GlobalInv
<1>3. Current(symbols, Text(program[k].name)).kind = Declaration(program[k]).kind
      /\ \A j : DeclaredAt(j) /\ program[j].name = program[k].name => j = k
  BY DEF NamesInv
<1> QED
  BY <1>1, <1>2, <1>3, DeclarationsMade

LEMMA FormsDeclared ==
  ASSUME NEW k
  PROVE  /\ Predeclared(k) /\ program[k].form \in {"type", "enum", "method", "function"} =>
              DeclaredAt(k)
         /\ Visited(k) => Predeclared(k)
BY DEF DeclaredAt, Declares, Visited, Predeclared

LEMMA NamesPredeclare ==
  ASSUME ShapeInv, NamesInv, Predeclare, issues' = {}
  PROVE  NamesInv'
<1>1. PassInv /\ TableInv /\ GlobalInv
  BY DEF ShapeInv
<1>2. pass = "predeclare" /\ Advance("visit") /\ program' = program /\ seen' = seen
  BY DEF Predeclare
<1>3. /\ \A k : Predeclared(k)' <=> Predeclared(k) \/ k = next
      /\ \A k : ~Visited(k) /\ ~Visited(k)'
  BY <1>1, <1>2, PredeclareAdvances
<1>4. PICK item : item = program[next]
  OBVIOUS
<1>5. PICK place : place = next
  OBVIOUS
<1>6. Declares(item) => ~Redeclared(item)
  <2>1. When(Declares(item) /\ ~(Declares(item) /\ ~Redeclared(item)), <<"redeclared", next>>) = {}
    BY <1>4 DEF Predeclare
  <2> QED
    BY <2>1, NotWhen
<1> DEFINE new == PredeclaredSymbols(item)
<1>7. Changed(new, DOMAIN new, {})
  BY <1>1, <1>4, PredeclareChanges DEF TableInv
<1>8. \A key \in DOMAIN new :
        /\ new[key].scope = "GLOBAL"
        /\ \/ /\ key = Text(item.name) /\ Declares(item) /\ ~Redeclared(item)
              /\ new[key] = Declaration(item)
           \/ /\ item.form = "enum" /\ new[key].kind = "ENUM_MEMBER"
              /\ \E m \in Range(item.members) : key = Member(Text(item.name), m)
  BY PredeclaredSymbolsMade
<1>9. Declares(item) => Text(item.name) \in DOMAIN new
  BY <1>6, OwnNameTaken
<1> HIDE DEF new
<1>10. \A key \in DOMAIN new : Current(symbols', key) = new[key]
  BY <1>7 DEF Changed
<1>11. \A key \in DOMAIN symbols \ DOMAIN new :
         /\ Current(symbols', key).kind = Current(symbols, key).kind
         /\ Current(symbols', key).scope = Current(symbols, key).scope
  BY <1>7 DEF Changed
<1>12. ASSUME NEW k, DeclaredAt(k)
       PROVE  /\ Text(program[k].name) \in DOMAIN symbols \ DOMAIN new
              /\ Declares(item) => program[k].name # item.name
  <2>1. Text(program[k].name) \in globals
    BY <1>12, DeclaredOnce
  <2>2. Declares(item) => Text(item.name) \notin globals
    BY <1>6 DEF Redeclared, Declares
  <2>3. \A a, m : Text(program[k].name) # Member(Text(a), m)
    BY KeysApart
  <2> QED
    BY <1>1, <1>8, <2>1, <2>2, <2>3 DEF GlobalInv
<1>13. \A k : DeclaredAt(k)' <=> DeclaredAt(k) \/ (k = place /\ Declares(item))
  BY <1>2, <1>3, <1>4, <1>5 DEF DeclaredAt
<1>14. program'[place] = item /\ program[place] = item
  BY <1>2, <1>4, <1>5
<1>15. ASSUME NEW k, DeclaredAt(k)'
       PROVE  /\ k \in predeclared'
              /\ Current(symbols', Text(program'[k].name)).kind = Declaration(program'[k]).kind
  <2>1. CASE DeclaredAt(k)
    <3>1. Current(symbols, Text(program[k].name)).kind = Declaration(program[k]).kind
          /\ k \in predeclared
      BY <2>1 DEF NamesInv
    <3>2. predeclared \subseteq predeclared'
      BY DEF Predeclare
    <3> QED
      BY <1>2, <1>11, <1>12, <2>1, <3>1, <3>2
  <2>2. CASE k = place /\ Declares(item)
    <3>1. Text(item.name) \in DOMAIN new
      BY <1>9, <2>2
    <3>2. \A a, m : Text(item.name) # Member(Text(a), m)
      BY KeysApart
    <3>3. new[Text(item.name)] = Declaration(item)
      BY <1>8, <3>1, <3>2
    <3>4. predeclared' = predeclared \cup When(Declares(item) /\ ~Redeclared(item), next)
      BY <1>4 DEF Predeclare
    <3>5. place \in predeclared'
      BY <1>5, <1>6, <2>2, <3>4 DEF When
    <3> QED
      BY <1>10, <1>14, <2>2, <3>1, <3>3, <3>5
  <2> QED
    BY <1>13, <1>15, <2>1, <2>2
<1>16. \A j, k : DeclaredAt(j)' /\ DeclaredAt(k)' /\ program'[j].name = program'[k].name => j = k
  BY <1>2, <1>12, <1>13, <1>14 DEF NamesInv
<1>17. ASSUME NEW k, Predeclared(k)', program'[k].form = "method"
       PROVE  /\ program'[k].name \in DOMAIN receivers'
              /\ receivers'[program'[k].name] = {KindOf(program'[k].receiver.type)}
  <2>1. receivers' = IF (Declares(item) /\ ~Redeclared(item)) /\ item.form = "method"
                     THEN Put(receivers, item.name, {KindOf(item.receiver.type)})
                     ELSE receivers
    BY <1>4 DEF Predeclare
  <2>2. CASE k = place
    <3>1. item.form = "method" /\ Declares(item) /\ ~Redeclared(item)
      BY <1>6, <1>14, <1>17, <2>2 DEF Declares
    <3>2. receivers' = Put(receivers, item.name, {KindOf(item.receiver.type)})
      BY <2>1, <3>1
    <3> QED
      BY <1>14, <2>2, <3>2 DEF Put
  <2>3. CASE k # place
    <3>1. Predeclared(k) /\ program[k].form = "method"
      BY <1>2, <1>3, <1>5, <1>17, <2>3
    <3>2. program[k].name \in DOMAIN receivers
          /\ receivers[program[k].name] = {KindOf(program[k].receiver.type)}
      BY <3>1 DEF NamesInv
    <3>3. Declares(item) => program[k].name # item.name
      BY <1>12, <3>1, FormsDeclared
    <3> QED
      BY <1>2, <2>1, <3>2, <3>3 DEF Put
  <2> QED
    BY <2>2, <2>3
<1>18. ASSUME NEW k, Predeclared(k)', program'[k].form = "enum",
              NEW m \in Range(program'[k].members)
       PROVE  Current(symbols', Member(Text(program'[k].name), m)).scope = "GLOBAL"
  <2> DEFINE key == Member(Text(program[k].name), m)
  <2>1. key \in DOMAIN new \/ (key \in DOMAIN symbols /\ Current(symbols, key).scope = "GLOBAL")
    <3>1. CASE k = place
      <4>1. item.form = "enum" /\ key = Member(Text(item.name), m) /\ m \in Range(item.members)
        BY <1>14, <1>18, <3>1
      <4>2. key \in DOMAIN EnumSymbols(item)
        BY <4>1, EnumSymbolsMade
      <4>3. key \in DOMAIN new
        BY <4>2 DEF new, PredeclaredSymbols
      <4> QED
        BY <4>3
    <3>2. CASE k # place
      <4>1. Predeclared(k)
        BY <1>3, <1>5, <1>18, <3>2
      <4>2. Current(symbols, key).scope = "GLOBAL"
        BY <1>2, <1>18, <4>1 DEF NamesInv
      <4> QED
        BY <4>2, InTable
    <3> QED
      BY <3>1, <3>2
  <2> HIDE DEF key
  <2>2. Current(symbols', key).scope = "GLOBAL"
    BY <1>8, <1>10, <1>11, <2>1
  <2> QED
    BY <1>2, <2>2 DEF key
<1> QED
  BY <1>3, <1>15, <1>16, <1>17, <1>18 DEF NamesInv

\* The handler's own report.
LEMMA NamesType ==
  ASSUME ShapeInv, NamesInv, VisitType, issues' = {}
  PROVE  NamesInv'
<1>1. PassInv /\ TableInv /\ GlobalInv
  BY DEF ShapeInv
<1>2. PICK item : item = program[next]
  OBVIOUS
<1>3. /\ pass = "visit" /\ Advance("collections") /\ program' = program
      /\ item.form = "type" /\ predeclared' = predeclared /\ receivers' = receivers
      /\ udtFields' = Put(udtFields, item.name, item.fields)
  BY <1>2 DEF VisitType
<1>4. PICK place : place = next
  OBVIOUS
<1>5. Predeclared(place) /\ program[place] = item /\ DeclaredAt(place) /\ ~Visited(place)
  <2>1. Predeclared(place) /\ ~Visited(place)
    BY <1>1, <1>3, <1>4, VisitAdvances
  <2> QED
    BY <1>2, <1>3, <1>4, <2>1, FormsDeclared
<1>6. Distinct(NamesIn(item.fields))
  <2>1. PICK others : issues' = issues \cup Reported(
                        When(~Distinct(NamesIn(item.fields)), "duplicate") \cup others)
    BY <1>2 DEF VisitType
  <2>2. When(~Distinct(NamesIn(item.fields)), "duplicate") \cup others = {}
    BY <2>1, NothingReported
  <2>3. When(~Distinct(NamesIn(item.fields)), "duplicate") = {}
    BY <2>2
  <2> QED
    BY <2>3, NotWhen
<1> DEFINE new == FieldSymbols(item)
           over == DottedFields(item)
<1>7. Changed(new, over, {})
  BY <1>1, <1>2, TypeChanges DEF TableInv
<1>8. ASSUME NEW m \in NamesOf(item.fields)
      PROVE  Current(symbols', Member(Text(item.name), m)) =
               Symbol("FIELD", item.fields[ByName(item.fields, m)].type, "TYPE_DECL")
  <2> DEFINE key == Member(Text(item.name), m)
             Final(name) == CHOOSE k \in DOMAIN item.fields :
                      /\ item.fields[k].name = name
                      /\ \A j \in DOMAIN item.fields : item.fields[j].name = name => j <= k
  <2>1. key \in over
    BY DEF DottedFields
  <2>2. Current(symbols', key) = new[key]
    <3> HIDE DEF new, over, key
    <3> QED
      BY <1>7, <2>1 DEF Changed
  <2>3. Len(key) # 1 /\ key[2] = m
    BY KeysApart
  <2>4. new[key] = Symbol("FIELD", item.fields[Final(m)].type, "TYPE_DECL")
    <3>1. key \in DOMAIN new
      BY <2>1, FieldsMade
    <3> HIDE DEF key
    <3> QED
      BY <2>3, <3>1 DEF FieldSymbols
  <2>5. Final(m) = ByName(item.fields, m)
    <3>1. PICK k \in DOMAIN item.fields : item.fields[k].name = m
      BY DEF NamesOf
    <3>2. \A j \in DOMAIN item.fields : item.fields[j].name = m => j = k
      BY <1>6, <3>1 DEF Distinct, NamesIn
    <3>3. item.fields \in Seq(Range(item.fields))
      <4>1. item \in UNION ItemSets
        BY <1>1, <1>2, <1>3, ProgramListed DEF PassInv
      <4> QED
        BY <1>3, <4>1, ItemsAssumption
    <3>4. DOMAIN item.fields = 1..Len(item.fields) /\ Len(item.fields) \in Nat
      BY <3>3
    <3>5. Final(m) = k
      <4>1. k <= k
        BY <3>4
      <4> QED
        BY <3>1, <3>2, <4>1
    <3>6. ByName(item.fields, m) = k
      <4>1. \A j \in 1..(k - 1) : j \in DOMAIN item.fields /\ j # k
        BY <3>4
      <4>2. \A j \in 1..(k - 1) : item.fields[j].name # m
        BY <3>2, <4>1
      <4> QED
        BY <3>1, <3>2, <4>2 DEF ByName
    <3> QED
      BY <3>5, <3>6
  <2> QED
    BY <2>2, <2>4, <2>5
<1>9. FieldsDefined(item)'
  <2>1. item.name \in DOMAIN udtFields' /\ udtFields'[item.name] = item.fields
    BY <1>3 DEF Put
  <2> QED
    BY <1>6, <1>8, <2>1 DEF FieldsDefined
<1>10. \A k : DeclaredAt(k) => Text(program[k].name) \notin over
  BY KeysApart DEF DottedFields
<1>11. ASSUME NEW k, DeclaredAt(k), k # place, NEW m
       PROVE  Member(Text(program[k].name), m) \notin over /\ program[k].name # item.name
  <2>1. program[k].name # item.name
    BY <1>5, <1>11 DEF NamesInv
  <2> QED
    BY <2>1, KeysApart DEF DottedFields
<1>12. \A k : Predeclared(k) /\ program[k].form = "enum" => DeclaredAt(k) /\ k # place
  BY <1>3, <1>5, FormsDeclared
<1>13. \A k : Visited(k) /\ program[k].form = "type" => DeclaredAt(k) /\ k # place
  BY <1>5, FormsDeclared
<1> HIDE DEF new, over
<1>14. \A k : Visited(k) /\ program[k].form = "type" =>
         /\ \A m \in NamesOf(program[k].fields) :
              Member(Text(program[k].name), m) \notin over \cup {}
         /\ program[k].name \in DOMAIN udtFields'
         /\ udtFields'[program[k].name] = udtFields[program[k].name]
  <2> SUFFICES ASSUME NEW k, Visited(k), program[k].form = "type"
               PROVE  /\ program[k].name \in DOMAIN udtFields'
                      /\ udtFields'[program[k].name] = udtFields[program[k].name]
    BY <1>11, <1>13
  <2>1. program[k].name \in DOMAIN udtFields /\ program[k].name # item.name
    BY <1>11, <1>13 DEF NamesInv, FieldsDefined
  <2> QED
    BY <1>3, <2>1 DEF Put
<1>15. \A k : Predeclared(k) /\ program[k].form = "enum" =>
         \A m \in Range(program[k].members) :
           LET key == Member(Text(program[k].name), m)
           IN key \in over => new[key].scope = "GLOBAL"
  BY <1>11, <1>12
<1>16. \A k : k = next /\ program[k].form = "type" => FieldsDefined(program[k])'
  BY <1>3, <1>4, <1>5, <1>9
<1> QED
  BY <1>3, <1>7, <1>10, <1>14, <1>15, <1>16, NamesKept

LEMMA NamesEnum ==
  ASSUME ShapeInv, NamesInv, VisitEnum, issues' = {}
  PROVE  NamesInv'
<1>1. PassInv /\ TableInv /\ GlobalInv
  BY DEF ShapeInv
<1>2. PICK item : item = program[next]
  OBVIOUS
<1>3. /\ pass = "visit" /\ Advance("collections") /\ program' = program
      /\ item.form = "enum" /\ predeclared' = predeclared /\ receivers' = receivers
      /\ udtFields' = udtFields
  BY <1>2 DEF VisitEnum
<1>4. PICK place : place = next
  OBVIOUS
<1>5. Predeclared(place) /\ program[place] = item /\ DeclaredAt(place)
  <2>1. Predeclared(place)
    BY <1>1, <1>3, <1>4, VisitAdvances
  <2> QED
    BY <1>2, <1>3, <1>4, <2>1, FormsDeclared
<1> DEFINE new == MemberSymbols(item)
           over == DOMAIN new
<1>6. Changed(new, over, {})
  BY <1>1, <1>2, EnumChanges DEF TableInv
<1>7. /\ over = {Member(Text(item.name), m) : m \in Range(item.members)}
      /\ \A key \in over : new[key].scope = "GLOBAL"
  BY MembersMade
<1> HIDE DEF new, over
<1>8. \A k : DeclaredAt(k) => Text(program[k].name) \notin over
  <2>1. \A n, a, m : Text(n) # Member(Text(a), m)
    BY KeysApart
  <2> QED
    BY <1>7, <2>1
<1>9. ASSUME NEW k, Visited(k), program[k].form = "type"
      PROVE  /\ \A m \in NamesOf(program[k].fields) :
                  Member(Text(program[k].name), m) \notin over \cup {}
             /\ program[k].name \in DOMAIN udtFields'
             /\ udtFields'[program[k].name] = udtFields[program[k].name]
  <2>1. DeclaredAt(k) /\ k # place
    BY <1>3, <1>5, <1>9, FormsDeclared
  <2>2. program[k].name # item.name
    BY <1>5, <2>1 DEF NamesInv
  <2>3. \A m : Member(Text(program[k].name), m) \notin over
    <3>1. \A a, m, c : Member(Text(program[k].name), m) = Member(Text(a), c) => program[k].name = a
      BY KeysApart
    <3> QED
      BY <1>7, <2>2, <3>1
  <2>4. program[k].name \in DOMAIN udtFields
    BY <1>9 DEF NamesInv, FieldsDefined
  <2> QED
    BY <1>3, <2>3, <2>4
<1>10. \A k : k = next /\ program[k].form = "type" => FieldsDefined(program[k])'
  BY <1>2, <1>3
<1>11. \A k : Predeclared(k) /\ program[k].form = "enum" =>
         \A m \in Range(program[k].members) :
           LET key == Member(Text(program[k].name), m)
           IN key \in over => new[key].scope = "GLOBAL"
  BY <1>7
<1> QED
  BY <1>3, <1>6, <1>8, <1>9, <1>10, <1>11, NamesKept

\* Nothing is taken over, and what may get another type is a plain name.
LEMMA NamesPlain ==
  ASSUME ShapeInv, NamesInv, pass = "visit", Advance("collections"), program' = program,
         predeclared' = predeclared, receivers' = receivers, udtFields' = udtFields,
         program[next].form # "type",
         NEW new, NEW over, NEW own, Changed(new, over, own),
         \A key \in over \cup own : \E n : key = Text(n),
         \A k : DeclaredAt(k) => Text(program[k].name) \notin over
  PROVE  NamesInv'
<1>1. \A a, m : Member(Text(a), m) \notin over \cup own
  <2>1. \A n, a, m : Text(n) # Member(Text(a), m)
    BY KeysApart
  <2> QED
    BY <2>1
<1>2. \A k : Visited(k) /\ program[k].form = "type" =>
        /\ \A m \in NamesOf(program[k].fields) :
             Member(Text(program[k].name), m) \notin over \cup own
        /\ program[k].name \in DOMAIN udtFields'
        /\ udtFields'[program[k].name] = udtFields[program[k].name]
  BY <1>1 DEF NamesInv, FieldsDefined
<1>3. \A k : k = next /\ program[k].form = "type" => FieldsDefined(program[k])'
  OBVIOUS
<1>4. \A k : Predeclared(k) /\ program[k].form = "enum" =>
        \A m \in Range(program[k].members) :
          LET key == Member(Text(program[k].name), m)
          IN key \in over => new[key].scope = "GLOBAL"
  BY <1>1
<1> QED
  BY <1>2, <1>3, <1>4, NamesKept

LEMMA CallableInTime ==
  ASSUME ShapeInv, NamesInv, VisitCallable
  PROVE  /\ receivers' = receivers /\ DeclaredAt(next)
         /\ Text(program[next].name) \in DOMAIN symbols
<1>1. PassInv /\ pass = "visit" /\ program[next].form \in {"method", "function"}
  BY DEF ShapeInv, VisitCallable
<1>2. next \in DOMAIN program
  BY <1>1 DEF PassInv
<1>3. DeclaredAt(next)
  BY <1>1, <1>2 DEF DeclaredAt, Predeclared, Declares
<1>4. next \in predeclared
  BY <1>3 DEF NamesInv
<1>5. Text(program[next].name) \in DOMAIN symbols
  BY <1>3 DEF ShapeInv, GlobalInv, DeclaredAt
<1> QED
  BY <1>3, <1>4, <1>5 DEF VisitCallable

LEMMA NamesCallable ==
  ASSUME ShapeInv, NamesInv, VisitCallable, issues' = {}
  PROVE  NamesInv'
<1>1. PICK item : item = program[next]
  OBVIOUS
<1>2. receivers' = receivers /\ Text(item.name) \in DOMAIN symbols
  BY <1>1, CallableInTime
<1>3. Changed(Locals(item), {}, {Text(item.name)})
  BY <1>1, <1>2, CallableChanges DEF ShapeInv, TableInv
<1>4. /\ pass = "visit" /\ Advance("collections") /\ program' = program
      /\ program[next].form # "type" /\ predeclared' = predeclared /\ udtFields' = udtFields
  BY DEF VisitCallable
<1>5. \A key \in {} \cup {Text(item.name)} : \E n : key = Text(n)
  OBVIOUS
<1> QED
  BY <1>2, <1>3, <1>4, <1>5, NamesPlain

\* A variable takes no declared name.
LEMMA LetApart ==
  ASSUME ShapeInv, NamesInv, NEW item, item.form = "let", ~Redeclared(item),
         NEW k, DeclaredAt(k)
  PROVE  Text(program[k].name) # Text(item.name)
BY DeclaredOnce DEF Redeclared

LEMMA NamesLet ==
  ASSUME ShapeInv, NamesInv, VisitLet, issues' = {}
  PROVE  NamesInv'
<1>1. PICK item : item = program[next]
  OBVIOUS
<1>2. PICK type : LET new == LetSymbols(item, type)
                  IN Changed(new, DOMAIN new, {})
  BY <1>1, LetChanges DEF ShapeInv, TableInv
<1>3. /\ pass = "visit" /\ Advance("collections") /\ program' = program
      /\ program[next].form = "let" /\ predeclared' = predeclared /\ udtFields' = udtFields
      /\ receivers' = receivers
  BY DEF VisitLet
<1> DEFINE new == LetSymbols(item, type)
           over == DOMAIN new
<1>4. \A key \in over : key = Text(item.name) /\ ~Redeclared(item)
  BY LetSymbolsMade
<1>5. Changed(new, over, {})
  BY <1>2
<1> HIDE DEF new, over
<1>6. \A k : DeclaredAt(k) => Text(program[k].name) \notin over
  BY <1>1, <1>3, <1>4, LetApart
<1>7. \A key \in over \cup {} : \E n : key = Text(n)
  BY <1>4
<1> QED
  BY <1>3, <1>5, <1>6, <1>7, NamesPlain

LEMMA NamesDo ==
  ASSUME ShapeInv, NamesInv, VisitDo
  PROVE  NamesInv'
<1>1. Changed(<<>>, {}, {})
  BY NothingDefined DEF ShapeInv, TableInv, VisitDo
<1>2. /\ pass = "visit" /\ Advance("collections") /\ program' = program
      /\ program[next].form # "type" /\ predeclared' = predeclared /\ udtFields' = udtFields
      /\ receivers' = receivers
  BY DEF VisitDo
<1>3. (\A key \in {} \cup {} : \E n : key = Text(n))
      /\ \A k : DeclaredAt(k) => Text(program[k].name) \notin {}
  OBVIOUS
<1> QED
  BY <1>1, <1>2, <1>3, NamesPlain

\* The steps that visit nothing.
LEMMA NamesRest ==
  ASSUME ShapeInv, NamesInv,
         \/ Write \/ Analyze \/ ValidateCollections \/ UNCHANGED factsVars
  PROVE  NamesInv'
<1>1. /\ symbols' = symbols /\ receivers' = receivers /\ predeclared' = predeclared
      /\ udtFields' = udtFields
  BY DEF Write, Analyze, ValidateCollections, factsVars
<1>2. CASE Write \/ Analyze
  <2>1. \A k : ~Predeclared(k)' /\ ~Visited(k)'
    <3>1. CASE Write
      BY <3>1 DEF Write, Predeclared, Visited
    <3>2. CASE Analyze
      <4>1. next = 1 /\ program' = program /\ pass' = "predeclare" /\ next' = next
        BY <3>2 DEF Analyze, ShapeInv, PassInv
      <4>2. \A k \in DOMAIN program : k \in Nat /\ k >= 1
        BY ProgramListed DEF ShapeInv
      <4> QED
        BY <4>1, <4>2 DEF Predeclared, Visited
    <3> QED
      BY <1>2, <3>1, <3>2
  <2> QED
    BY <2>1 DEF NamesInv, DeclaredAt
<1>3. CASE ValidateCollections \/ UNCHANGED factsVars
  <2>1. /\ program' = program
        /\ \A k : (Predeclared(k)' <=> Predeclared(k)) /\ (Visited(k)' <=> Visited(k))
    BY <1>3 DEF ValidateCollections, factsVars, Predeclared, Visited
  <2>2. \A k : DeclaredAt(k)' <=> DeclaredAt(k)
    BY <2>1 DEF DeclaredAt
  <2>3. ASSUME NEW item
        PROVE  FieldsDefined(item)' <=> FieldsDefined(item)
    BY <1>1 DEF FieldsDefined
  <2> QED
    BY <1>1, <2>1, <2>2, <2>3 DEF NamesInv
<1> QED
  BY <1>2, <1>3

-----------------------------------------------------------------------------
(***************************************************************************)
(* Types and methods: the uses the walk has accepted.                      *)
(***************************************************************************)
\* The table inside the scope of a callable; locals is empty outside.
Inside(s, bound, locals) ==
  /\ DOMAIN s = DOMAIN symbols \cup DOMAIN locals
  /\ \A key : Current(s, key) = IF key \in DOMAIN locals THEN locals[key]
                                ELSE Current(symbols, key)
  /\ bound = globals \cup DOMAIN locals
  /\ \A key \in DOMAIN locals :
       /\ \E n : key = Text(n)
       /\ locals[key].scope \in {"METHOD", "FUNCTION"} /\ locals[key].kind = "VARIABLE"

\* The owner still means what it meant.
GlobalSeen(g) ==
  g.kind \in {"TYPE", "ENUM", "VARIABLE"} /\ ~g.local =>
    /\ Text(g.use.owner) \in globals
    /\ Current(symbols, Text(g.use.owner)).kind = g.kind
    /\ TypeIn(symbols, g.use.owner) = g.type

LocalSeen(g) ==
  /\ g.local => g.kind \notin {"TYPE", "ENUM"}
  /\ g.kind = "VARIABLE" /\ g.local /\ ~Shared(g.use.owner) =>
       /\ g.use.owner \in NamesBy(program[g.item])
       /\ TypeIn(symbols, g.use.owner) = g.type

CallSeen(g) ==
  /\ g.use.args \in Seq(Range(g.use.args))
  /\ g.use.called =>
       /\ OrderIssues(g.use.args) = {}
       /\ g.use.member \in DOMAIN receivers =>
            g.type = Unknown \/ KindOf(g.type) \in receivers[g.use.member]

EnumSeen(g) ==
  ~g.use.called /\ IsEnum(g.use.owner) /\ ~g.local =>
    Member(Text(g.use.owner), g.use.member) \in DOMAIN symbols

IsFieldOf(item, g) ==
  /\ g.type = Text(item.name) /\ g.use.member \in NamesOf(item.fields)
  /\ g.member = item.fields[ByName(item.fields, g.use.member)].type

FieldSeen(g) ==
  ~g.use.called /\ g.visited /\ ~IsEnum(g.use.owner) =>
    \E k : Visited(k) /\ program[k].form = "type" /\ IsFieldOf(program[k], g)

MadeSeen(g) ==
  g.use.called /\ g.use.member = "new" /\ ~g.local =>
    \/ g.fields = <<>>
    \/ /\ g.use.owner \in DOMAIN udtFields
       /\ RequiredOf(udtFields[g.use.owner]) \subseteq Supplied(g.use.args, udtFields[g.use.owner])

SightFits(g) == GlobalSeen(g) /\ CallSeen(g) /\ EnumSeen(g) /\ FieldSeen(g) /\ MadeSeen(g)

LEMMA Outside == Inside(symbols, globals, <<>>)
BY NoDomain DEF Inside

LEMMA InsideCallable ==
  ASSUME IsTable(symbols), NEW item, NEW s, NEW bound, s = Bind(symbols, Locals(item)),
         bound = globals \cup DOMAIN Locals(item)
  PROVE  Inside(s, bound, Locals(item))
<1> DEFINE new == Locals(item)
<1>1. /\ Definitions(new) /\ DOMAIN new = {Text(n) : n \in NamesOf(Parameters(item))}
      /\ \A key \in DOMAIN new : /\ new[key].scope \in {"METHOD", "FUNCTION"}
                                 /\ new[key].kind = "VARIABLE"
  BY LocalsMade
<1>2. s = Bind(symbols, new) /\ bound = globals \cup DOMAIN new
  OBVIOUS
<1> HIDE DEF new
<1>3. DOMAIN s = DOMAIN symbols \cup DOMAIN new
      /\ \A key : Current(s, key) = IF key \in DOMAIN new THEN new[key] ELSE Current(symbols, key)
  <2>1. /\ DOMAIN Bind(symbols, new) = DOMAIN symbols \cup DOMAIN new
        /\ \A key : Current(Bind(symbols, new), key) =
                      IF key \in DOMAIN new THEN new[key] ELSE Current(symbols, key)
    BY <1>1, Defining
  <2> QED
    BY <1>2, <2>1
<1>4. Inside(s, bound, new)
  BY <1>1, <1>2, <1>3 DEF Inside
<1> QED
  BY <1>4 DEF new

\* A use without a report.
LEMMA SightParts ==
  ASSUME NEW s, NEW bound, NEW use
  PROVE  LET g == Sight(s, bound, use)
         IN /\ g.item = next /\ g.use = use
            /\ g.kind = Current(s, Text(use.owner)).kind
            /\ g.local = (Current(s, Text(use.owner)).scope # "GLOBAL")
            /\ g.type = TypeIn(s, use.owner)
            /\ g.visited = HasFields(OwnerSymbol(s, bound, use).type)
            /\ g.fields = FieldsOf(use.owner)
            /\ g.member = FieldOf(s, bound, use).type
BY DEF Sight

LEMMA OwnerFound ==
  ASSUME NEW s, NEW bound, NEW use, UseIssues(s, bound, use) = {}
  PROVE  /\ OwnerSymbol(s, bound, use) = Current(s, Text(use.owner))
         /\ OwnerSymbol(s, bound, use) # NoSymbol
         /\ use.called => /\ ConstructorCallIssues(s, bound, use) = {}
                          /\ MethodCallIssues(s, use) = {}
                          /\ OrderIssues(use.args) = {}
         /\ ~use.called => AccessIssues(s, bound, use) = {}
<1>1. When(OwnerSymbol(s, bound, use) = NoSymbol, "undeclared") = {}
  BY DEF UseIssues
<1>2. OwnerSymbol(s, bound, use) # NoSymbol
  BY <1>1, NotWhen
<1>3. OwnerSymbol(s, bound, use) = Current(s, Text(use.owner))
  BY <1>2 DEF OwnerSymbol, Resolve
<1>4. ASSUME use.called
      PROVE  /\ ConstructorCallIssues(s, bound, use) = {}
             /\ MethodCallIssues(s, use) = {}
             /\ OrderIssues(use.args) = {}
  <2>1. /\ ConstructorCallIssues(s, bound, use) = {}
        /\ MethodCallIssues(s, use) = {}
        /\ When(OrderIssues(use.args) # {}, "order") = {}
    BY <1>4 DEF UseIssues
  <2> QED
    BY <2>1, NotWhen
<1>5. ~use.called => AccessIssues(s, bound, use) = {}
  BY DEF UseIssues
<1> QED
  BY <1>2, <1>3, <1>4, <1>5

\* A global owner is the one outside.
LEMMA GlobalOwner ==
  ASSUME ShapeInv, NEW s, NEW bound, NEW locals, Inside(s, bound, locals), NEW n,
         Current(s, Text(n)).scope = "GLOBAL"
  PROVE  /\ Text(n) \in globals /\ Current(s, Text(n)) = Current(symbols, Text(n))
         /\ TypeIn(s, n) = TypeIn(symbols, n)
<1>1. Text(n) \notin DOMAIN locals
  BY DEF Inside
<1>2. Current(s, Text(n)) = Current(symbols, Text(n))
  BY <1>1 DEF Inside
<1>3. Text(n) \in DOMAIN symbols
  BY <1>2, InTable
<1> QED
  BY <1>2, <1>3 DEF ShapeInv, GlobalInv, TypeIn

\* A local owner is one of the locals: what other functions have left behind
\* is not visible.
LEMMA LocalOwner ==
  ASSUME ShapeInv, NEW s, NEW bound, NEW locals, Inside(s, bound, locals), NEW use,
         UseIssues(s, bound, use) = {},
         Current(s, Text(use.owner)).kind = "VARIABLE",
         Current(s, Text(use.owner)).scope # "GLOBAL"
  PROVE  Text(use.owner) \in DOMAIN locals
<1> DEFINE own == Text(use.owner)
           left == Current(s, own)
<1> SUFFICES ASSUME own \notin DOMAIN locals PROVE FALSE
  OBVIOUS
<1>1. left = Current(symbols, own)
  BY DEF Inside
<1>2. own \in DOMAIN symbols
  BY <1>1, InTable
<1>3. IsSymbol(left)
  <2>1. History(symbols[own])
    BY <1>2 DEF ShapeInv, TableInv, IsTable
  <2>2. left = Last(symbols[own])
    BY <1>1, <1>2 DEF Current
  <2> QED
    BY <2>1, <2>2, HistoryListed
<1>4. left.scope # "TYPE_DECL"
  BY <1>3 DEF IsSymbol
<1>5. own \notin globals
  <2>1. ~EnumKey(own)
    BY KeysApart DEF EnumKey
  <2> QED
    BY <1>1, <2>1 DEF ShapeInv, GlobalInv
<1>6. own \notin bound
  BY <1>5 DEF Inside
<1>7. OwnerSymbol(s, bound, use) = NoSymbol
  <2>1. left.kind \notin AlwaysVisible /\ left.scope \notin {"GLOBAL", "TYPE_DECL"}
    BY <1>4 DEF AlwaysVisible
  <2> QED
    BY <1>6, <2>1 DEF OwnerSymbol, Resolve
<1> QED
  BY <1>7, OwnerFound

LEMMA EnumUses ==
  ASSUME ShapeInv, NamesInv, pass = "visit", NEW s, NEW bound, NEW locals,
         Inside(s, bound, locals), NEW use, UseIssues(s, bound, use) = {}, ~use.called,
         IsEnum(use.owner), Current(s, Text(use.owner)).scope = "GLOBAL"
  PROVE  Member(Text(use.owner), use.member) \in DOMAIN symbols
<1>1. PICK k \in DOMAIN program : program[k].form = "enum" /\ program[k].name = use.owner
  BY DEF IsEnum
<1>2. DeclaredAt(k)
  BY <1>1, FormsDeclared DEF Predeclared
<1>3. Current(symbols, Text(use.owner)).kind = "ENUM"
  BY <1>1, <1>2, DeclaredOnce
<1>4. OwnerSymbol(s, bound, use).kind = "ENUM"
  BY <1>3, GlobalOwner, OwnerFound
<1> DEFINE key == Member(Text(use.owner), use.member)
<1>5. When(key \notin DOMAIN s, "member") = {}
  BY <1>4, OwnerFound DEF AccessIssues
<1>6. key \in DOMAIN s
  BY <1>5, NotWhen
<1>7. \A n : key # Text(n)
  BY KeysApart
<1> QED
  BY <1>6, <1>7 DEF Inside

\* A type is visited once, and no enum has its name.
LEMMA FieldsKnownOf ==
  ASSUME ShapeInv, NamesInv, NEW t \in DOMAIN udtFields, NEW m,
         Member(Text(t), m) \in DOMAIN symbols
  PROVE  \E k : /\ Visited(k) /\ program[k].form = "type" /\ program[k].name = t
                /\ m \in NamesOf(program[k].fields)
                /\ Current(symbols, Member(Text(t), m)).type =
                     program[k].fields[ByName(program[k].fields, m)].type
<1>1. PICK place : Visited(place) /\ program[place].form = "type" /\ program[place].name = t
  BY DEF ShapeInv, ReceiverInv
<1>2. DeclaredAt(place)
  BY <1>1, FormsDeclared
<1> DEFINE key == Member(Text(t), m)
<1>3. KeyKnown(key)
  BY DEF ShapeInv, TableInv
<1>4. ~PlainKey(key)
  BY KeysApart DEF PlainKey
<1>5. ~EnumKey(key)
  <2> SUFFICES ASSUME NEW k, Predeclared(k), program[k].form = "enum",
                      NEW c, key = Member(Text(program[k].name), c)
               PROVE  FALSE
    BY DEF EnumKey
  <2>1. program[k].name = t
    BY KeysApart
  <2>2. DeclaredAt(k)
    BY FormsDeclared
  <2>3. k = place
    BY <1>1, <1>2, <2>1, <2>2 DEF NamesInv
  <2> QED
    BY <1>1, <2>3
<1>6. PICK k, c : /\ Visited(k) /\ program[k].form = "type" /\ c \in NamesOf(program[k].fields)
                  /\ key = Member(Text(program[k].name), c)
  BY <1>3, <1>4, <1>5 DEF KeyKnown, FieldKey
<1>7. program[k].name = t /\ c = m
  BY <1>6, KeysApart
<1>8. FieldsDefined(program[k])
  BY <1>6 DEF NamesInv
<1>9. Current(symbols, key) =
        Symbol("FIELD", program[k].fields[ByName(program[k].fields, m)].type, "TYPE_DECL")
  BY <1>6, <1>7, <1>8 DEF FieldsDefined
<1>10. Current(symbols, key).type = program[k].fields[ByName(program[k].fields, m)].type
  BY <1>9, SymbolsMade
<1> QED
  BY <1>6, <1>7, <1>10

LEMMA FieldUses ==
  ASSUME ShapeInv, NamesInv, NEW s, NEW bound, NEW locals,
         Inside(s, bound, locals), NEW use, UseIssues(s, bound, use) = {}, ~use.called,
         HasFields(OwnerSymbol(s, bound, use).type), ~IsEnum(use.owner)
  PROVE  \E k : Visited(k) /\ program[k].form = "type"
                /\ IsFieldOf(program[k], Sight(s, bound, use))
<1> DEFINE g == Sight(s, bound, use)
           left == Current(s, Text(use.owner))
<1>1. OwnerSymbol(s, bound, use) = left
  BY OwnerFound
<1>2. PICK t \in DOMAIN udtFields : left.type = Text(t)
  BY <1>1 DEF HasFields
<1> DEFINE key == Member(Text(t), use.member)
<1>3. left.kind # "ENUM"
  <2> SUFFICES ASSUME left.kind = "ENUM" PROVE FALSE
    OBVIOUS
  <2>1. Text(use.owner) \notin DOMAIN locals
    BY DEF Inside
  <2>2. Current(symbols, Text(use.owner)).kind = "ENUM"
    BY <2>1 DEF Inside
  <2>3. Text(use.owner) \in DOMAIN symbols
    BY <2>2, InTable
  <2>4. PICK n : IsEnum(n) /\ Text(use.owner) = Text(n)
    BY <2>2, <2>3 DEF ShapeInv, GlobalInv
  <2> QED
    BY <2>4, KeysApart
<1>4. FieldOf(s, bound, use) # NoSymbol
  <2>1. When(HasFields(OwnerSymbol(s, bound, use).type) /\ FieldOf(s, bound, use) = NoSymbol,
             "member") = {}
    BY <1>1, <1>3, OwnerFound DEF AccessIssues
  <2> QED
    BY <2>1, NotWhen
<1>5. FieldOf(s, bound, use) = Current(s, key)
  BY <1>1, <1>2, <1>4 DEF FieldOf, Resolve
<1>6. \A n : key # Text(n)
  BY KeysApart
<1>7. Current(s, key) = Current(symbols, key) /\ key \in DOMAIN symbols
  <2>1. key \in DOMAIN s
    BY <1>4, <1>5, InTable
  <2> QED
    BY <1>6, <2>1 DEF Inside
<1>8. PICK k : /\ Visited(k) /\ program[k].form = "type" /\ program[k].name = t
               /\ use.member \in NamesOf(program[k].fields)
               /\ Current(symbols, key).type =
                    program[k].fields[ByName(program[k].fields, use.member)].type
  BY <1>7, FieldsKnownOf
<1>9. g.use = use /\ g.type = Text(t) /\ g.member = Current(symbols, key).type
  <2>1. TypeIn(s, use.owner) = Text(t)
    BY <1>2, KeysApart DEF TypeIn
  <2> QED
    BY <1>5, <1>7, <2>1, SightParts
<1> QED
  BY <1>8, <1>9 DEF IsFieldOf

LEMMA ConstructorUses ==
  ASSUME ShapeInv, NamesInv, NEW s, NEW bound, NEW locals,
         Inside(s, bound, locals), NEW use, UseIssues(s, bound, use) = {}, use.called,
         use.member = "new", Current(s, Text(use.owner)).scope = "GLOBAL"
  PROVE  \/ FieldsOf(use.owner) = <<>>
         \/ /\ use.owner \in DOMAIN udtFields
            /\ RequiredOf(udtFields[use.owner]) \subseteq Supplied(use.args, udtFields[use.owner])
<1>1. CASE use.owner \notin DOMAIN udtFields
  BY <1>1 DEF FieldsOf
<1>2. CASE use.owner \in DOMAIN udtFields
  <2>1. PICK k : Visited(k) /\ program[k].form = "type" /\ program[k].name = use.owner
    BY <1>2 DEF ShapeInv, ReceiverInv
  <2>2. Current(symbols, Text(use.owner)).kind = "TYPE"
    BY <2>1, FormsDeclared, DeclaredOnce
  <2>3. OwnerSymbol(s, bound, use).kind = "TYPE"
    BY <2>2, GlobalOwner, OwnerFound
  <2> DEFINE fields == udtFields[use.owner]
  <2>4. FieldsOf(use.owner) = fields
    BY <1>2 DEF FieldsOf
  <2>5. ConstructorCallIssues(s, bound, use) = {}
    BY OwnerFound
  <2>6. ParamCallIssues(use.args, fields) = {}
    <3>1. When(/\ use.member = "new"
               /\ OwnerSymbol(s, bound, use).kind = "TYPE"
               /\ ParamCallIssues(use.args, FieldsOf(use.owner)) # {}, "arguments") = {}
      BY <2>5 DEF ConstructorCallIssues
    <3>2. ~(/\ use.member = "new"
            /\ OwnerSymbol(s, bound, use).kind = "TYPE"
            /\ ParamCallIssues(use.args, FieldsOf(use.owner)) # {})
      BY <3>1, NotWhen
    <3> QED
      BY <2>3, <2>4, <3>2
  <2> HIDE DEF fields
  <2>7. Structural(use.args, fields) = {}
    BY <2>6 DEF ParamCallIssues
  <2>8. When(~(RequiredOf(fields) \subseteq Supplied(use.args, fields)), <<"missing", 0>>) = {}
    BY <2>7 DEF Structural
  <2>9. RequiredOf(fields) \subseteq Supplied(use.args, fields)
    BY <2>8, NotWhen
  <2> QED
    BY <1>2, <2>9 DEF fields
<1> QED
  BY <1>1, <1>2

\* Of a use without a report the walk has seen what holds.
LEMMA NewSight ==
  ASSUME ShapeInv, NamesInv, pass = "visit", NEW s, NEW bound, NEW locals,
         Inside(s, bound, locals), NEW use, UseIssues(s, bound, use) = {},
         use.args \in Seq(Range(use.args))
  PROVE  LET g == Sight(s, bound, use)
         IN /\ SightFits(g) /\ g.item = next
            /\ g.kind = "VARIABLE" /\ g.local =>
                 Text(g.use.owner) \in DOMAIN locals /\ g.type = TypeIn(s, g.use.owner)
            /\ g.local => g.kind \notin {"TYPE", "ENUM"}
<1> DEFINE g == Sight(s, bound, use)
           left == Current(s, Text(use.owner))
<1>1. /\ g.item = next /\ g.use = use /\ g.kind = left.kind
      /\ g.local = (left.scope # "GLOBAL") /\ g.type = TypeIn(s, use.owner)
      /\ g.visited = HasFields(OwnerSymbol(s, bound, use).type)
      /\ g.fields = FieldsOf(use.owner)
  BY SightParts
<1>2. GlobalSeen(g)
  <2>1. ASSUME left.scope = "GLOBAL"
        PROVE  /\ Text(use.owner) \in globals /\ left = Current(symbols, Text(use.owner))
               /\ TypeIn(s, use.owner) = TypeIn(symbols, use.owner)
    BY <2>1, GlobalOwner
  <2> HIDE DEF left, g
  <2> QED
    BY <1>1, <2>1 DEF GlobalSeen
<1>3. CallSeen(g)
  <2> SUFFICES ASSUME use.called
               PROVE  /\ OrderIssues(use.args) = {}
                      /\ use.member \in DOMAIN receivers =>
                           g.type = Unknown \/ KindOf(g.type) \in receivers[use.member]
    BY <1>1 DEF CallSeen
  <2>1. MethodCallIssues(s, use) = {} /\ OrderIssues(use.args) = {}
    BY OwnerFound
  <2>2. ASSUME use.member \in DOMAIN receivers
        PROVE  g.type = Unknown \/ KindOf(g.type) \in receivers[use.member]
    <3> DEFINE actual == TypeIn(s, use.owner)
    <3>1. When(~(actual = Unknown \/ KindOf(actual) \in receivers[use.member]), "receiver") = {}
      BY <2>1, <2>2 DEF MethodCallIssues
    <3>2. actual = Unknown \/ KindOf(actual) \in receivers[use.member]
      BY <3>1, NotWhen
    <3> QED
      BY <1>1, <3>2
  <2> QED
    BY <2>1, <2>2
<1>4. EnumSeen(g)
  BY <1>1, EnumUses DEF EnumSeen
<1>5. FieldSeen(g)
  BY <1>1, FieldUses DEF FieldSeen
<1>6. MadeSeen(g)
  BY <1>1, ConstructorUses DEF MadeSeen
<1>7. g.kind = "VARIABLE" /\ g.local => Text(use.owner) \in DOMAIN locals
  BY <1>1, LocalOwner
<1>9. left.kind \in {"TYPE", "ENUM"} => left.scope = "GLOBAL"
  <2>1. CASE Text(use.owner) \in DOMAIN locals
    BY <2>1 DEF Inside
  <2>2. CASE Text(use.owner) \notin DOMAIN locals
    <3>1. left = Current(symbols, Text(use.owner))
      BY <2>2 DEF Inside
    <3>2. ASSUME Text(use.owner) \in DOMAIN symbols
          PROVE  IsSymbol(left)
      <4>1. History(symbols[Text(use.owner)])
        BY <3>2 DEF ShapeInv, TableInv, IsTable
      <4>2. left = Last(symbols[Text(use.owner)])
        BY <3>1, <3>2 DEF Current
      <4> QED
        BY <4>1, <4>2, HistoryListed
    <3> QED
      BY <3>1, <3>2, InTable DEF IsSymbol
  <2> QED
    BY <2>1, <2>2
<1>10. g.local => g.kind \notin {"TYPE", "ENUM"}
  <2> HIDE DEF g, left
  <2> QED
    BY <1>1, <1>9
<1> HIDE DEF g
<1>8. SightFits(g)
  BY <1>2, <1>3, <1>4, <1>5, <1>6 DEF SightFits
<1> QED
  BY <1>1, <1>7, <1>8, <1>10 DEF g

SightsInv == \A k \in DOMAIN seen : SightFits(seen[k]) /\ LocalSeen(seen[k])

\* A visit that leaves global meanings and the names of other items alone.
Spares(new, over, own) ==
  /\ \A n : Text(n) \in globals \cap (over \cup own) =>
       Current(symbols, Text(n)).kind \notin {"TYPE", "ENUM", "VARIABLE"}
  /\ \A n : Text(n) \in DOMAIN new \cup own =>
       n \in NamesBy(program[next]) \cup DeclaredNames
  /\ \A n \in DOMAIN udtFields : n \in DOMAIN udtFields' /\ udtFields'[n] = udtFields[n]
  /\ receivers' = receivers /\ globals \subseteq globals'

LEMMA SightKept ==
  ASSUME ShapeInv, Onward, NEW new, NEW over, NEW own, Changed(new, over, own),
         Spares(new, over, own), NEW g, SightFits(g)
  PROVE  SightFits(g)'
<1>1. GlobalSeen(g)'
  <2> SUFFICES ASSUME g.kind \in {"TYPE", "ENUM", "VARIABLE"} /\ ~g.local
               PROVE  /\ Text(g.use.owner) \in globals'
                      /\ Current(symbols', Text(g.use.owner)).kind = g.kind
                      /\ TypeIn(symbols', g.use.owner) = g.type
    BY DEF GlobalSeen
  <2> DEFINE key == Text(g.use.owner)
  <2>1. key \in globals /\ Current(symbols, key).kind = g.kind
        /\ TypeIn(symbols, g.use.owner) = g.type
    BY DEF SightFits, GlobalSeen
  <2>2. key \in DOMAIN symbols /\ key \in globals'
    BY <2>1 DEF ShapeInv, GlobalInv, Spares
  <2>3. key \notin over \cup own
    BY <2>1 DEF Spares
  <2> HIDE DEF key
  <2>4. Current(symbols', key) = Current(symbols, key)
    BY <2>2, <2>3 DEF Changed
  <2>5. TypeIn(symbols', g.use.owner) = TypeIn(symbols, g.use.owner)
    BY <2>4 DEF TypeIn, key
  <2> QED
    BY <2>1, <2>2, <2>4, <2>5 DEF key
<1>2. CallSeen(g)'
  BY DEF SightFits, CallSeen, Spares
<1>3. EnumSeen(g)'
  BY KnownOnward DEF SightFits, EnumSeen, Changed
<1>4. FieldSeen(g)'
  BY KnownOnward DEF SightFits, FieldSeen, Onward
<1>5. MadeSeen(g)'
  BY DEF SightFits, MadeSeen, Spares
<1> QED
  BY <1>1, <1>2, <1>3, <1>4, <1>5 DEF SightFits

LEMMA LocalKept ==
  ASSUME ShapeInv, pass = "visit", program' = program,
         NEW new, NEW over, NEW own, Changed(new, over, own),
         Spares(new, over, own), NEW g, LocalSeen(g), Visited(g.item)
  PROVE  LocalSeen(g)'
<1> SUFFICES ASSUME g.kind = "VARIABLE" /\ g.local /\ ~Shared(g.use.owner)
             PROVE  /\ g.use.owner \in NamesBy(program[g.item])
                    /\ TypeIn(symbols', g.use.owner) = g.type
  BY DEF LocalSeen, Shared, DeclaredNames
<1> DEFINE key == Text(g.use.owner)
<1>1. g.use.owner \in NamesBy(program[g.item]) /\ TypeIn(symbols, g.use.owner) = g.type
  BY DEF LocalSeen
<1>2. g.item \in DOMAIN program /\ next \in DOMAIN program /\ g.item # next
  <2>1. g.item \in DOMAIN program /\ g.item < next /\ next \in DOMAIN program
    BY DEF Visited, ShapeInv, PassInv
  <2>2. DOMAIN program = 1..Len(program) /\ Len(program) \in Nat
    BY ProgramListed DEF ShapeInv
  <2> QED
    BY <2>1, <2>2
<1>3. g.use.owner \notin NamesBy(program[next]) \cup DeclaredNames
  BY <1>1, <1>2 DEF Shared
<1>4. key \notin DOMAIN new \cup own
  BY <1>3 DEF Spares
<1> HIDE DEF key
<1>5. Current(symbols', key) = Current(symbols, key)
  <2>1. CASE key \in DOMAIN symbols
    BY <1>4, <2>1 DEF Changed
  <2>2. CASE key \notin DOMAIN symbols
    BY <1>4, <2>2 DEF Changed, Current
  <2> QED
    BY <2>1, <2>2
<1>6. TypeIn(symbols', g.use.owner) = TypeIn(symbols, g.use.owner)
  BY <1>5 DEF TypeIn, key
<1> QED
  BY <1>1, <1>6

\* A parameter that shares its name with nothing has no symbol before.
LEMMA LocalNew ==
  ASSUME ShapeInv, pass = "visit", NEW n, n \in NamesBy(program[next]), ~Shared(n)
  PROVE  Text(n) \notin DOMAIN symbols
<1> SUFFICES ASSUME Text(n) \in DOMAIN symbols PROVE FALSE
  OBVIOUS
<1>1. PlainKey(Text(n))
  <2>1. KeyKnown(Text(n))
    BY DEF ShapeInv, TableInv
  <2>2. ~EnumKey(Text(n)) /\ ~FieldKey(Text(n))
    BY KeysApart DEF EnumKey, FieldKey
  <2> QED
    BY <2>1, <2>2 DEF KeyKnown
<1>2. NameKnown(n)
  BY <1>1, KeysApart DEF PlainKey
<1>3. n \notin BuiltinTypes /\ n \notin DeclaredNames
  BY DEF Shared
<1>4. PICK k : Visited(k) /\ n \in NamesBy(program[k])
  BY <1>2, <1>3 DEF NameKnown, DeclaredNames, Predeclared
<1>5. k \in DOMAIN program /\ next \in DOMAIN program /\ k # next
  <2>1. k \in DOMAIN program /\ k < next /\ next \in DOMAIN program
    BY <1>4 DEF Visited, ShapeInv, PassInv
  <2>2. DOMAIN program = 1..Len(program) /\ Len(program) \in Nat
    BY ProgramListed DEF ShapeInv
  <2> QED
    BY <2>1, <2>2
<1> QED
  BY <1>4, <1>5 DEF Shared

LEMMA SightsKept ==
  ASSUME ShapeInv, SightsInv, pass = "visit", Advance("collections"), program' = program,
         NEW new, NEW over, NEW own, Changed(new, over, own), Spares(new, over, own),
         seen' = seen
  PROVE  SightsInv'
<1>1. Onward
  BY VisitOnward DEF ShapeInv
<1>2. ASSUME NEW k \in DOMAIN seen
      PROVE  SightFits(seen[k])' /\ LocalSeen(seen[k])'
  <2> PICK g : g = seen[k]
    OBVIOUS
  <2>1. Visited(g.item) /\ SightFits(g) /\ LocalSeen(g)
    BY <1>2 DEF ShapeInv, SeenInv, SightsInv
  <2>2. SightFits(g)' /\ LocalSeen(g)'
    BY <1>1, <2>1, SightKept, LocalKept
  <2>3. seen'[k] = g
    OBVIOUS
  <2> QED
    BY <2>2, <2>3
<1> QED
  BY <1>2 DEF SightsInv

LEMMA SightsAdded ==
  ASSUME ShapeInv, NamesInv, SightsInv, pass = "visit", Advance("collections"),
         program' = program, NEW new, NEW over, NEW own, Changed(new, over, own),
         Spares(new, over, own),
         program[next].form \in {"method", "function", "let", "do"},
         NEW s, NEW bound, NEW locals, Inside(s, bound, locals),
         seen' = seen \o Sights(s, bound, program[next].uses),
         WalkIssues(s, bound, program[next].uses) = {},
         \A n : Text(n) \in DOMAIN locals =>
           /\ n \in NamesBy(program[next])
           /\ Text(n) \notin DOMAIN symbols => Current(symbols', Text(n)) = locals[Text(n)]
  PROVE  SightsInv'
<1>1. Onward
  BY VisitOnward DEF ShapeInv
<1>2. \A k \in DOMAIN seen' :
        \/ \E j \in DOMAIN seen : seen'[k] = seen[j]
        \/ \E j \in DOMAIN program[next].uses :
             seen'[k] = Sight(s, bound, program[next].uses[j])
  <2>1. /\ PassInv /\ SeenInv /\ pass = "visit" /\ Advance("collections") /\ program' = program
        /\ program[next].form \in {"method", "function", "let", "do"}
        /\ seen' = seen \o Sights(s, bound, program[next].uses)
    BY DEF ShapeInv
  <2>2. SeenMore(s, bound, program[next].uses)
    BY ONLY <2>1, SeenVisit
  <2> QED
    BY <2>2 DEF SeenMore
<1>3. ASSUME NEW j \in DOMAIN seen, NEW g, g = seen[j]
      PROVE  SightFits(g)' /\ LocalSeen(g)'
  <2>1. Visited(g.item) /\ SightFits(g) /\ LocalSeen(g)
    BY <1>3 DEF ShapeInv, SeenInv, SightsInv
  <2> QED
    BY <1>1, <2>1, SightKept, LocalKept
<1>4. ASSUME NEW j \in DOMAIN program[next].uses, NEW g,
             g = Sight(s, bound, program[next].uses[j])
      PROVE  SightFits(g)' /\ LocalSeen(g)'
  <2> PICK use : use = program[next].uses[j]
    OBVIOUS
  <2>1. UseIssues(s, bound, use) = {}
    BY DEF WalkIssues
  <2>5. use.args \in Seq(Range(use.args))
    <3> PICK item : item = program[next]
      OBVIOUS
    <3>1. /\ item \in UNION ItemSets
          /\ item.form \in {"method", "function", "let", "do"}
      BY ProgramListed DEF ShapeInv, PassInv
    <3>2. \A i \in DOMAIN item.uses : item.uses[i].args \in Seq(Range(item.uses[i].args))
      BY ONLY <3>1, ItemsAssumption
    <3>3. item.uses[j].args \in Seq(Range(item.uses[j].args))
      BY <1>4, <3>2
    <3>4. use = item.uses[j]
      OBVIOUS
    <3> QED
      BY ONLY <3>3, <3>4
  <2>2. /\ SightFits(g) /\ g.item = next
        /\ g.kind = "VARIABLE" /\ g.local =>
             Text(g.use.owner) \in DOMAIN locals /\ g.type = TypeIn(s, g.use.owner)
        /\ g.local => g.kind \notin {"TYPE", "ENUM"}
    <3>1. g = Sight(s, bound, use)
      BY <1>4
    <3>2. /\ ShapeInv /\ NamesInv /\ pass = "visit" /\ Inside(s, bound, locals)
      OBVIOUS
    <3> QED
      BY ONLY <2>1, <2>5, <3>1, <3>2, NewSight
  <2>3. SightFits(g)'
    BY <1>1, <2>2, SightKept
  <2>4. LocalSeen(g)'
    <3> SUFFICES ASSUME g.kind = "VARIABLE" /\ g.local /\ ~Shared(g.use.owner)
                 PROVE  /\ g.use.owner \in NamesBy(program[g.item])
                        /\ TypeIn(symbols', g.use.owner) = g.type
      BY <2>2 DEF LocalSeen, Shared, DeclaredNames
    <3>1. Text(g.use.owner) \in DOMAIN locals /\ g.type = TypeIn(s, g.use.owner)
          /\ g.use.owner \in NamesBy(program[next])
      BY <2>2
    <3>2. Text(g.use.owner) \notin DOMAIN symbols
      BY <3>1, LocalNew
    <3>3. Current(symbols', Text(g.use.owner)) = Current(s, Text(g.use.owner))
      BY <3>1, <3>2 DEF Inside
    <3>4. TypeIn(symbols', g.use.owner) = TypeIn(s, g.use.owner)
      BY <3>3 DEF TypeIn
    <3> QED
      BY <2>2, <3>1, <3>4
  <2> QED
    BY <2>3, <2>4
<1>5. ASSUME NEW k \in DOMAIN seen'
      PROVE  SightFits(seen[k])' /\ LocalSeen(seen[k])'
  <2> PICK g : g = seen'[k]
    OBVIOUS
  <2>1. SightFits(g)' /\ LocalSeen(g)'
    BY <1>2, <1>3, <1>4
  <2> QED
    BY <2>1
<1> QED
  BY <1>5 DEF SightsInv

LEMMA SightsType ==
  ASSUME ShapeInv, NamesInv, SightsInv, VisitType
  PROVE  SightsInv'
<1>1. PICK item : item = program[next]
  OBVIOUS
<1>2. /\ pass = "visit" /\ Advance("collections") /\ program' = program /\ seen' = seen
      /\ item.form = "type" /\ globals' = globals /\ receivers' = receivers
      /\ udtFields' = Put(udtFields, item.name, item.fields)
  BY <1>1 DEF VisitType
<1> DEFINE new == FieldSymbols(item)
           over == DottedFields(item)
<1>3. Changed(new, over, {})
  BY <1>1, TypeChanges DEF ShapeInv, TableInv
<1>4. \A n : Text(n) \notin over
  BY KeysApart DEF DottedFields
<1>5. ASSUME NEW n, Text(n) \in DOMAIN new
      PROVE  n \in NamesBy(program[next])
  <2>1. Text(n) \in PlainFields(item)
    BY <1>4, <1>5, FieldsMade
  <2>2. n \in NamesOf(item.fields)
    <3>1. PICK m \in NamesOf(item.fields) : Text(n) = Text(m)
      BY <2>1 DEF PlainFields
    <3> QED
      BY <3>1, KeysApart
  <2> QED
    BY <1>1, <1>2, <2>2 DEF NamesBy
<1>6. item.name \notin DOMAIN udtFields
  <2> SUFFICES ASSUME item.name \in DOMAIN udtFields PROVE FALSE
    OBVIOUS
  <2>1. PICK k : Visited(k) /\ program[k].form = "type" /\ program[k].name = item.name
    BY DEF ShapeInv, ReceiverInv
  <2>2. PICK place : place = next
    OBVIOUS
  <2>3. Predeclared(place) /\ ~Visited(place)
    BY <1>2, <2>2, VisitAdvances DEF ShapeInv
  <2>4. DeclaredAt(place) /\ DeclaredAt(k)
    BY <1>1, <1>2, <2>1, <2>2, <2>3, FormsDeclared
  <2>5. k = place
    BY <1>1, <2>1, <2>2, <2>4 DEF NamesInv
  <2> QED
    BY <2>1, <2>3, <2>5
<1>7. \A n \in DOMAIN udtFields : n \in DOMAIN udtFields' /\ udtFields'[n] = udtFields[n]
  BY <1>2, <1>6 DEF Put
<1> HIDE DEF new, over
<1>8. Spares(new, over, {})
  BY <1>2, <1>4, <1>5, <1>7 DEF Spares
<1> QED
  BY <1>2, <1>3, <1>8, SightsKept

LEMMA SightsEnum ==
  ASSUME ShapeInv, NamesInv, SightsInv, VisitEnum
  PROVE  SightsInv'
<1>1. PICK item : item = program[next]
  OBVIOUS
<1> DEFINE new == MemberSymbols(item)
           over == DOMAIN new
<1>2. /\ pass = "visit" /\ Advance("collections") /\ program' = program /\ seen' = seen
      /\ receivers' = receivers /\ udtFields' = udtFields
  BY DEF VisitEnum
<1>3. Changed(new, over, {}) /\ globals' = globals \cup over
  BY <1>1, EnumChanges DEF ShapeInv, TableInv
<1>4. \A n : Text(n) \notin over
  <2>1. over = {Member(Text(item.name), m) : m \in Range(item.members)}
    BY MembersMade
  <2>2. \A n, a, m : Text(n) # Member(Text(a), m)
    BY KeysApart
  <2> QED
    BY <2>1, <2>2
<1> HIDE DEF new
<1>5. Spares(new, over, {})
  BY <1>2, <1>3, <1>4 DEF Spares
<1> QED
  BY <1>2, <1>3, <1>5, SightsKept

LEMMA SightsCallable ==
  ASSUME ShapeInv, NamesInv, SightsInv, VisitCallable, issues' = {}
  PROVE  SightsInv'
<1>1. PICK item : item = program[next]
  OBVIOUS
<1> DEFINE new == Locals(item)
<1>2. PICK s, bound : s = Bind(symbols, new) /\ bound = globals \cup DOMAIN new
  OBVIOUS
<1>3. /\ pass = "visit" /\ Advance("collections") /\ program' = program
      /\ item.form \in {"method", "function"}
      /\ globals' = globals /\ udtFields' = udtFields
  BY <1>1 DEF VisitCallable
<1>4. /\ DeclaredAt(next) /\ receivers' = receivers /\ Text(item.name) \in DOMAIN symbols
  BY <1>1, CallableInTime
<1>5. Changed(new, {}, {Text(item.name)})
  BY <1>1, <1>4, CallableChanges DEF ShapeInv, TableInv
<1>6. Inside(s, bound, new)
  BY <1>2, InsideCallable DEF ShapeInv, TableInv
<1>7. /\ DOMAIN new = {Text(n) : n \in NamesOf(Parameters(item))}
      /\ NamesBy(item) = NamesOf(Parameters(item))
  BY <1>3, LocalsMade DEF NamesBy
<1>8. ASSUME NEW n, Text(n) \in DOMAIN new
      PROVE  n \in NamesBy(program[next])
  <2>1. PICK m \in NamesOf(Parameters(item)) : Text(n) = Text(m)
    BY <1>7, <1>8
  <2> QED
    BY <1>1, <1>7, <2>1, KeysApart
<1>9. /\ seen' = seen \o Sights(s, bound, program[next].uses)
      /\ WalkIssues(s, bound, program[next].uses) = {}
  <2>1. seen' = seen \o Sights(s, bound, program[next].uses)
    BY <1>1, <1>2 DEF VisitCallable
  <2>2. PICK others : issues' = issues \cup Reported(
                        others \cup WalkIssues(s, bound, program[next].uses))
    BY <1>1, <1>2 DEF VisitCallable
  <2>3. others \cup WalkIssues(s, bound, program[next].uses) = {}
    BY <2>2, NothingReported
  <2> QED
    BY <2>1, <2>3
<1> HIDE DEF new
<1>10. item.name \in DeclaredNames
  BY <1>1, <1>4 DEF DeclaredNames, DeclaredAt, Predeclared
<1>11. ASSUME NEW n, Text(n) = Text(item.name)
       PROVE  /\ n \in DeclaredNames
              /\ Current(symbols, Text(n)).kind \notin {"TYPE", "ENUM", "VARIABLE"}
  <2>1. PICK place : place = next
    OBVIOUS
  <2>2. DeclaredAt(place) /\ program[place] = item
    BY <1>1, <1>4, <2>1
  <2>3. Current(symbols, Text(item.name)).kind \in {"METHOD", "FUNCTION"}
    BY <1>3, <2>2, DeclaredOnce
  <2>4. n = item.name
    BY <1>11, KeysApart
  <2> QED
    BY <1>10, <1>11, <2>3, <2>4
<1>12. Spares(new, {}, {Text(item.name)})
  BY <1>3, <1>4, <1>8, <1>11 DEF Spares
<1>13. \A n : Text(n) \in DOMAIN new =>
         /\ n \in NamesBy(program[next])
         /\ Text(n) \notin DOMAIN symbols => Current(symbols', Text(n)) = new[Text(n)]
  BY <1>5, <1>8 DEF Changed
<1>14. program[next].form \in {"method", "function", "let", "do"}
  BY <1>1, <1>3
<1> QED
  BY <1>3, <1>5, <1>6, <1>9, <1>12, <1>13, <1>14, SightsAdded

\* Outside of callables there are no locals.
LEMMA SightsPlain ==
  ASSUME ShapeInv, NamesInv, SightsInv, pass = "visit", Advance("collections"),
         program' = program, NEW new, NEW over, Changed(new, over, {}),
         Spares(new, over, {}),
         program[next].form \in {"let", "do"},
         seen' = seen \o Sights(symbols, globals, program[next].uses),
         WalkIssues(symbols, globals, program[next].uses) = {}
  PROVE  SightsInv'
<1>1. PICK s, bound, locals, own : s = symbols /\ bound = globals /\ locals = <<>> /\ own = {}
  OBVIOUS
<1>2. Inside(s, bound, locals) /\ DOMAIN locals = {}
  BY <1>1, Outside, NoDomain
<1>3. /\ seen' = seen \o Sights(s, bound, program[next].uses)
      /\ WalkIssues(s, bound, program[next].uses) = {}
      /\ Changed(new, over, own) /\ Spares(new, over, own)
  BY <1>1
<1>4. program[next].form \in {"method", "function", "let", "do"}
  OBVIOUS
<1>5. \A n : Text(n) \in DOMAIN locals =>
        /\ n \in NamesBy(program[next])
        /\ Text(n) \notin DOMAIN symbols => Current(symbols', Text(n)) = locals[Text(n)]
  BY <1>2
<1> QED
  BY <1>2, <1>3, <1>4, <1>5, SightsAdded

LEMMA SightsLet ==
  ASSUME ShapeInv, NamesInv, SightsInv, VisitLet, issues' = {}
  PROVE  SightsInv'
<1>1. PICK item : item = program[next]
  OBVIOUS
<1>2. PICK type : LET new == LetSymbols(item, type)
                  IN Changed(new, DOMAIN new, {}) /\ globals' = globals \cup DOMAIN new
  BY <1>1, LetChanges DEF ShapeInv, TableInv
<1>3. /\ pass = "visit" /\ Advance("collections") /\ program' = program
      /\ item.form = "let" /\ udtFields' = udtFields
      /\ receivers' = receivers /\ seen' = seen \o Sights(symbols, globals, item.uses)
  BY <1>1 DEF VisitLet
<1> DEFINE new == LetSymbols(item, type)
           over == DOMAIN new
<1>4. \A key \in over : key = Text(item.name) /\ ~Redeclared(item)
  BY LetSymbolsMade
<1>5. Changed(new, over, {}) /\ globals' = globals \cup over
  BY <1>2
<1> HIDE DEF new
<1>6. \A n : Text(n) \in over => n \in NamesBy(program[next])
  <2>1. NamesBy(item) = {item.name}
    BY <1>3 DEF NamesBy
  <2>2. \A n : Text(n) = Text(item.name) => n = item.name
    BY KeysApart
  <2> QED
    BY <1>1, <1>4, <2>1, <2>2
<1>7. \A n : Text(n) \in globals \cap over =>
        Current(symbols, Text(n)).kind \notin {"TYPE", "ENUM", "VARIABLE"}
  BY <1>3, <1>4 DEF Redeclared
<1>8. Spares(new, over, {})
  BY <1>3, <1>5, <1>6, <1>7 DEF Spares
<1>9. WalkIssues(symbols, globals, program[next].uses) = {}
  <2>1. PICK others : issues' = issues \cup Reported(
                        WalkIssues(symbols, globals, program[next].uses) \cup others)
    BY DEF VisitLet
  <2>2. WalkIssues(symbols, globals, program[next].uses) \cup others = {}
    BY <2>1, NothingReported
  <2> QED
    BY <2>2
<1> QED
  BY <1>1, <1>3, <1>5, <1>8, <1>9, SightsPlain

LEMMA SightsDo ==
  ASSUME ShapeInv, NamesInv, SightsInv, VisitDo, issues' = {}
  PROVE  SightsInv'
<1>1. /\ pass = "visit" /\ Advance("collections") /\ program' = program
      /\ program[next].form \in {"let", "do"} /\ udtFields' = udtFields
      /\ receivers' = receivers /\ globals' = globals
      /\ seen' = seen \o Sights(symbols, globals, program[next].uses)
  BY DEF VisitDo
<1>2. PICK new : new = <<>>
  OBVIOUS
<1>3. Changed(new, {}, {}) /\ DOMAIN new = {}
  BY <1>2, NoDomain, NothingDefined DEF ShapeInv, TableInv, VisitDo
<1>4. Spares(new, {}, {})
  BY <1>1, <1>3 DEF Spares
<1>5. WalkIssues(symbols, globals, program[next].uses) = {}
  <2>1. issues' = issues \cup Reported(WalkIssues(symbols, globals, program[next].uses))
    BY DEF VisitDo
  <2> QED
    BY <2>1, NothingReported
<1> QED
  BY <1>1, <1>3, <1>4, <1>5, SightsPlain

LEMMA SightsRest ==
  ASSUME ShapeInv, SightsInv,
         \/ Write \/ Analyze \/ Predeclare \/ ValidateCollections \/ UNCHANGED factsVars
  PROVE  SightsInv'
<1>1. CASE Write \/ Analyze \/ Predeclare
  <2>1. seen = <<>> /\ seen' = seen
    BY <1>1 DEF ShapeInv, PassInv, Write, Analyze, Predeclare
  <2> QED
    BY <2>1, NoDomain DEF SightsInv
<1>2. CASE ValidateCollections \/ UNCHANGED factsVars
  <2>1. /\ program' = program /\ symbols' = symbols /\ globals' = globals
        /\ udtFields' = udtFields /\ receivers' = receivers /\ seen' = seen
        /\ \A k : Visited(k)' <=> Visited(k)
    BY <1>2 DEF ValidateCollections, factsVars, Visited
  <2>2. ASSUME NEW g, SightFits(g)
        PROVE  SightFits(g)'
    BY <2>1, <2>2 DEF SightFits, GlobalSeen, CallSeen, EnumSeen, FieldSeen, MadeSeen, IsEnum
  <2>3. ASSUME NEW g, LocalSeen(g)
        PROVE  LocalSeen(g)'
    BY <2>1, <2>3 DEF LocalSeen, Shared, DeclaredNames
  <2> QED
    BY <2>1, <2>2, <2>3 DEF SightsInv
<1> QED
  BY <1>1, <1>2

-----------------------------------------------------------------------------
\* The invariant of types and methods.
FactsInv == ShapeInv /\ (issues = {} => NamesInv /\ SightsInv)

LEMMA FactsInitially == FactsInit => FactsInv
<1> SUFFICES ASSUME FactsInit PROVE FactsInv
  OBVIOUS
<1>1. ShapeInv
  BY ShapeInit
<1>2. SightsInv
  BY NoDomain DEF FactsInit, SightsInv
<1>3. \A k : ~Predeclared(k) /\ ~Visited(k)
  BY DEF FactsInit, Predeclared, Visited
<1>4. NamesInv
  BY <1>3 DEF NamesInv, DeclaredAt
<1> QED
  BY <1>1, <1>2, <1>4 DEF FactsInv

LEMMA FactsStep == FactsInv /\ [FactsNext]_factsVars => FactsInv'
<1> SUFFICES ASSUME FactsInv, [FactsNext]_factsVars PROVE FactsInv'
  OBVIOUS
<1>1. ShapeInv /\ ShapeInv'
  BY ShapeStep DEF FactsInv
<1> SUFFICES ASSUME issues' = {} PROVE NamesInv' /\ SightsInv'
  BY <1>1 DEF FactsInv
<1>2. issues \subseteq issues'
  BY DEF FactsNext, Write, Analyze, Predeclare, VisitType, VisitEnum, VisitCallable, VisitLet,
         VisitDo, ValidateCollections, factsVars
<1>3. NamesInv /\ SightsInv
  BY <1>2 DEF FactsInv
<1>4. CASE Predeclare
  BY <1>1, <1>3, <1>4, NamesPredeclare, SightsRest
<1>5. CASE VisitType
  BY <1>1, <1>3, <1>5, NamesType, SightsType
<1>6. CASE VisitEnum
  BY <1>1, <1>3, <1>6, NamesEnum, SightsEnum
<1>7. CASE VisitCallable
  BY <1>1, <1>3, <1>7, NamesCallable, SightsCallable
<1>8. CASE VisitLet
  BY <1>1, <1>3, <1>8, NamesLet, SightsLet
<1>9. CASE VisitDo
  BY <1>1, <1>3, <1>9, NamesDo, SightsDo
<1>10. CASE Write \/ Analyze \/ ValidateCollections \/ UNCHANGED factsVars
  BY <1>1, <1>3, <1>10, NamesRest, SightsRest
<1> QED
  BY <1>4, <1>5, <1>6, <1>7, <1>8, <1>9, <1>10 DEF FactsNext

\* An argument after whose name no positional one comes has its rank for place,
\* whatever the parameters: the sections bind such arguments alike.
LEMMA PlacesAreRanks ==
  ASSUME NEW args, args \in Seq(Range(args)), OrderIssues(args) = {}, NEW params
  PROVE  SpecBinding(args, params) = DeclaredBinding(args, params)
<1>1. \A i \in DOMAIN args \ Named(args) : \A j \in 1..(i - 1) : j \notin Named(args)
  BY DEF OrderIssues
<1>2. \A i \in DOMAIN args : PlaceParameter(args, params, i) = RankParameter(args, params, i)
  BY <1>1, PlaceIsRank DEF IsArguments
<1> QED
  BY <1>2, Zenon DEF SpecBinding, DeclaredBinding

-----------------------------------------------------------------------------
(***************************************************************************)
(* Types and methods: the sections.                                        *)
(***************************************************************************)
LEMMA RowMade ==
  ASSUME NEW method, NEW binding, NEW returns
  PROVE  LET row == CallRow(method, binding, returns)
         IN /\ row # <<>> /\ row[1].method = method
            /\ row[1].binding = binding /\ row[1].returns = returns
<1> DEFINE r == [method |-> method, binding |-> binding, returns |-> returns]
<1>1. r.method = method /\ r.binding = binding /\ r.returns = returns
  OBVIOUS
<1> HIDE DEF r
<1>2. <<r>> # <<>> /\ <<r>>[1] = r
  OBVIOUS
<1> QED
  BY <1>1, <1>2 DEF CallRow, r

\* Of an accepted program every item is declared and visited, each name once.
LEMMA AcceptedNames ==
  ASSUME FactsInv, ProgramAccepted
  PROVE  /\ ShapeInv /\ NamesInv /\ SightsInv
         /\ \A k \in DOMAIN program : k \in Nat /\ Predeclared(k) /\ Visited(k)
         /\ \A k \in DOMAIN program : Declares(program[k]) => DeclaredAt(k)
<1>1. ShapeInv /\ NamesInv /\ SightsInv /\ PassInv
  BY DEF FactsInv, ProgramAccepted, ShapeInv
<1>2. \A k \in DOMAIN program : k \in Nat
  BY <1>1, ProgramListed
<1>3. \A k \in DOMAIN program : Predeclared(k) /\ Visited(k)
  BY DEF ProgramAccepted, Predeclared, Visited
<1> QED
  BY <1>1, <1>2, <1>3 DEF DeclaredAt

LEMMA OneItem ==
  ASSUME FactsInv, ProgramAccepted, NEW form \in {"type", "enum", "method"},
         NEW k \in DOMAIN program, program[k].form = form
  PROVE  Items(form, program[k].name) = {k}
<1>1. DeclaredAt(k)
  BY AcceptedNames DEF Declares
<1>2. ASSUME NEW j \in Items(form, program[k].name)
      PROVE  j = k
  <2>1. j \in DOMAIN program /\ program[j].form = form /\ program[j].name = program[k].name
    BY <1>2 DEF Items
  <2>2. DeclaredAt(j)
    BY <2>1, AcceptedNames DEF Declares
  <2> QED
    BY <1>1, <2>1, <2>2, AcceptedNames DEF NamesInv
<1>3. k \in Items(form, program[k].name)
  BY DEF Items
<1> QED
  BY <1>2, <1>3

LEMMA ItemAtOne ==
  ASSUME NEW k \in Nat
  PROVE  ItemAt({k}) = <<program[k]>>
<1>1. (CHOOSE i \in {k} : \A j \in {k} : i <= j) = k
  OBVIOUS
<1> QED
  BY <1>1 DEF ItemAt

LEMMA ItemAtNone == ItemAt({}) = <<>>
BY DEF ItemAt

LEMMA NoMethod ==
  ASSUME NEW use, Items("method", use.member) = {}
  PROVE  /\ MethodFact(use) # <<>> => MethodFact(use)[1].method = <<>>
         /\ TypesRow(use) # <<>> => TypesRow(use)[1].method = <<>>
         /\ CallablesRow(use) = <<>>
<1> DEFINE type == TypeIn(symbols, use.owner)
<1>1. MatchingMethod(use.member, type) = <<>>
  <2>1. {k \in Items("method", use.member) :
           ReceiverMatches(type, program[k].receiver.type)} = {}
    OBVIOUS
  <2> QED
    BY <2>1, ItemAtNone DEF MatchingMethod
<1>2. Candidate(use.member, type) = <<>>
  <2>1. {k \in Items("method", use.member) : program[k].receiver.type = type} = {}
    OBVIOUS
  <2> QED
    BY <2>1, ItemAtNone DEF Candidate
<1>3. MethodFact(use) # <<>> => MethodFact(use)[1].method = <<>>
  BY <1>1, RowMade DEF MethodFact
<1>4. TypesRow(use) # <<>> => TypesRow(use)[1].method = <<>>
  BY <1>2, RowMade DEF TypesRow
<1>5. CallablesRow(use) = <<>>
  BY <1>2 DEF CallablesRow
<1> QED
  BY <1>3, <1>4, <1>5

LEMMA OneMethod ==
  ASSUME NEW use, NEW k \in Nat, Items("method", use.member) = {k},
         use.member # "new"
  PROVE  LET type == TypeIn(symbols, use.owner)
             matches == ReceiverMatches(type, program[k].receiver.type)
         IN /\ ~use.called => MethodFact(use) = <<>> /\ TypesRow(use) = <<>>
                              /\ CallablesRow(use) = <<>>
            /\ use.called =>
                 /\ TypesRow(use) = CallRow(<<program[k]>>,
                      DeclaredBinding(use.args, program[k].params), UseType(symbols, use))
                 /\ CallablesRow(use) = TypesRow(use)
                 /\ matches =>
                      MethodFact(use) = CallRow(<<program[k]>>,
                        SpecBinding(use.args, program[k].params), MethodReturn(use.member))
                 /\ ~matches /\ MethodFact(use) # <<>> => MethodFact(use)[1].method = <<>>
<1> DEFINE type == TypeIn(symbols, use.owner)
           matches == ReceiverMatches(type, program[k].receiver.type)
<1>1. <<program[k]>> # <<>> /\ <<program[k]>>[1] = program[k]
  OBVIOUS
<1>2. Candidate(use.member, type) = <<program[k]>>
  <2> DEFINE exact == {i \in {k} : program[i].receiver.type = type}
  <2>1. exact = {k} \/ exact = {}
    OBVIOUS
  <2>2. Candidate(use.member, type) = ItemAt(IF exact # {} THEN exact ELSE {k})
    BY DEF Candidate
  <2> HIDE DEF exact
  <2>3. Candidate(use.member, type) = ItemAt({k})
    BY <2>1, <2>2
  <2> QED
    BY <2>3, ItemAtOne
<1>3. MatchingMethod(use.member, type) = IF matches THEN <<program[k]>> ELSE <<>>
  <2> DEFINE fit == {i \in {k} : ReceiverMatches(type, program[i].receiver.type)}
  <2>1. IF matches THEN fit = {k} ELSE fit = {}
    OBVIOUS
  <2>2. MatchingMethod(use.member, type) = ItemAt(fit)
    BY DEF MatchingMethod
  <2> HIDE DEF fit, matches
  <2> QED
    BY <2>1, <2>2, ItemAtOne, ItemAtNone
<1> HIDE DEF type, matches
<1>4. ~use.called => MethodFact(use) = <<>> /\ TypesRow(use) = <<>> /\ CallablesRow(use) = <<>>
  BY DEF MethodFact, TypesRow, CallablesRow
<1>5. ASSUME use.called
      PROVE  /\ TypesRow(use) = CallRow(<<program[k]>>,
                  DeclaredBinding(use.args, program[k].params), UseType(symbols, use))
             /\ CallablesRow(use) = TypesRow(use)
  BY <1>1, <1>2, <1>5 DEF TypesRow, CallablesRow, type
<1>6. ASSUME use.called, matches
      PROVE  MethodFact(use) = CallRow(<<program[k]>>,
               SpecBinding(use.args, program[k].params), MethodReturn(use.member))
  BY <1>1, <1>3, <1>6 DEF MethodFact, type
<1>7. ASSUME ~matches, MethodFact(use) # <<>>
      PROVE  MethodFact(use)[1].method = <<>>
  BY <1>3, <1>7, RowMade DEF MethodFact, type
<1> QED
  BY <1>4, <1>5, <1>6, <1>7 DEF type, matches

LEMMA ReturnsAgree ==
  ASSUME FactsInv, ProgramAccepted, NEW use, NEW k \in DOMAIN program,
         program[k].form = "method", program[k].name = use.member,
         use.called, use.member # "new",
         ~IsOperation(TypeIn(symbols, use.owner), use.member),
         MethodReturn(use.member) # NoType
  PROVE  UseType(symbols, use) = MethodReturn(use.member)
<1> DEFINE method == Current(symbols, Text(use.member))
<1>1. method.kind = "METHOD"
  <2>1. DeclaredAt(k)
    BY AcceptedNames DEF Declares
  <2> QED
    BY <2>1, AcceptedNames, DeclaredOnce
<1>2. ~IsConstructor(symbols, use)
  BY DEF IsConstructor
<1>3. UseType(symbols, use) = UserReturn(symbols, use.member)
  BY <1>2 DEF UseType, CallType
<1>4. /\ method.type \notin {NoType, Text("method"), Text("function"), Unknown}
      /\ MethodReturn(use.member) = method.type
  BY DEF MethodReturn
<1> QED
  BY <1>1, <1>3, <1>4 DEF UserReturn

SectionsAgree(g) ==
  LET use == g.use
      type == TypeIn(symbols, use.owner)
      fact == MethodFact(use)
      row == TypesRow(use)
      described == row # <<>> /\ row[1].method # <<>>
      user == fact # <<>> /\ fact[1].method # <<>>
  IN type = g.type /\ use.member # "new" =>
     /\ user => /\ described
                /\ row[1].method = fact[1].method
                /\ row[1].binding = fact[1].binding
                /\ ~IsOperation(type, use.member) /\ fact[1].returns # NoType
                     => row[1].returns = fact[1].returns
     /\ described /\ ~user =>
          LET declared == row[1].method[1].receiver.type
          IN /\ KindOf(declared) = KindOf(type)
             /\ Len(declared) # 1 /\ declared # type
     /\ CallablesRow(use) # <<>> <=> described
     /\ described => CallablesRow(use)[1].method = row[1].method

LEMMA SectionsWithoutMethod ==
  ASSUME NEW g, Items("method", g.use.member) = {}
  PROVE  SectionsAgree(g)
BY NoMethod DEF SectionsAgree

LEMMA SectionsWithMethod ==
  ASSUME FactsInv, ProgramAccepted, NEW g, CallSeen(g), NEW k \in DOMAIN program,
         program[k].form = "method", program[k].name = g.use.member
  PROVE  SectionsAgree(g)
<1> DEFINE use == g.use
           type == TypeIn(symbols, use.owner)
           declared == program[k].receiver.type
           fact == MethodFact(use)
           row == TypesRow(use)
           described == row # <<>> /\ row[1].method # <<>>
           user == fact # <<>> /\ fact[1].method # <<>>
<1> SUFFICES ASSUME type = g.type, use.member # "new"
             PROVE  /\ user => /\ described
                               /\ row[1].method = fact[1].method
                               /\ row[1].binding = fact[1].binding
                               /\ ~IsOperation(type, use.member) /\ fact[1].returns # NoType
                                    => row[1].returns = fact[1].returns
                    /\ described /\ ~user =>
                         LET of == row[1].method[1].receiver.type
                         IN /\ KindOf(of) = KindOf(type)
                            /\ Len(of) # 1 /\ of # type
                    /\ CallablesRow(use) # <<>> <=> described
                    /\ described => CallablesRow(use)[1].method = row[1].method
  BY DEF SectionsAgree
<1>1. Items("method", use.member) = {k} /\ k \in Nat
  BY OneItem, AcceptedNames
<1>2. CASE ~use.called
  <2>1. fact = <<>> /\ row = <<>> /\ CallablesRow(use) = <<>>
    BY <1>1, <1>2, OneMethod
  <2> QED
    BY <2>1
<1>3. CASE use.called
  <2>1. /\ row = CallRow(<<program[k]>>, DeclaredBinding(use.args, program[k].params),
                         UseType(symbols, use))
        /\ CallablesRow(use) = row
        /\ ReceiverMatches(type, declared) =>
             fact = CallRow(<<program[k]>>, SpecBinding(use.args, program[k].params),
                            MethodReturn(use.member))
        /\ ~ReceiverMatches(type, declared) /\ fact # <<>> => fact[1].method = <<>>
    BY <1>1, <1>3, OneMethod
  <2>2. <<program[k]>> # <<>> /\ <<program[k]>>[1] = program[k]
    OBVIOUS
  <2>3. /\ row # <<>> /\ row[1].method = <<program[k]>>
        /\ row[1].binding = DeclaredBinding(use.args, program[k].params)
        /\ row[1].returns = UseType(symbols, use)
    BY <2>1, RowMade
  <2>4. SpecBinding(use.args, program[k].params) = DeclaredBinding(use.args, program[k].params)
    BY <1>3, PlacesAreRanks DEF CallSeen
  <2>5. ~IsOperation(type, use.member) /\ MethodReturn(use.member) # NoType
          => UseType(symbols, use) = MethodReturn(use.member)
    BY <1>3, ReturnsAgree
  <2>6. CASE ReceiverMatches(type, declared)
    <3>1. /\ fact # <<>> /\ fact[1].method = <<program[k]>>
          /\ fact[1].binding = SpecBinding(use.args, program[k].params)
          /\ fact[1].returns = MethodReturn(use.member)
      BY <2>1, <2>6, RowMade
    <3> HIDE DEF fact, row
    <3> QED
      BY <2>1, <2>2, <2>3, <2>4, <2>5, <3>1
  <2>7. CASE ~ReceiverMatches(type, declared)
    <3>1. ~user
      BY <2>1, <2>7
    <3>2. type # Unknown /\ type # declared
          /\ ~(KindOf(type) = KindOf(declared) /\ Len(declared) = 1)
      BY <2>7 DEF ReceiverMatches
    <3>3. use.member \in DOMAIN receivers /\ receivers[use.member] = {KindOf(declared)}
      BY AcceptedNames DEF NamesInv
    <3>4. KindOf(type) = KindOf(declared)
      BY <1>3, <3>2, <3>3 DEF CallSeen
    <3> HIDE DEF fact, row, declared
    <3>5. row[1].method[1].receiver.type = declared
      BY <2>2, <2>3 DEF declared
    <3> QED
      BY <2>1, <2>2, <2>3, <3>1, <3>2, <3>4, <3>5
  <2> QED
    BY <2>6, <2>7
<1> QED
  BY <1>2, <1>3

LEMMA SectionsFollow == FactsInv => SectionsNameTheSameMethod
<1> SUFFICES ASSUME FactsInv, ProgramAccepted, NEW k \in DOMAIN seen
             PROVE  SectionsAgree(seen[k])
  BY DEF SectionsNameTheSameMethod, SectionsAgree
<1> PICK g : g = seen[k]
  OBVIOUS
<1>1. CallSeen(g)
  BY AcceptedNames DEF SightsInv, SightFits
<1>2. CASE Items("method", g.use.member) = {}
  BY <1>2, SectionsWithoutMethod
<1>3. CASE Items("method", g.use.member) # {}
  <2>1. PICK j \in DOMAIN program : program[j].form = "method" /\ program[j].name = g.use.member
    BY <1>3 DEF Items
  <2> QED
    BY <1>1, <2>1, SectionsWithMethod
<1> QED
  BY <1>2, <1>3

LEMMA TablesFollow == FactsInv => TablesOK
<1> SUFFICES ASSUME FactsInv PROVE TablesOK
  OBVIOUS
<1>1. ShapeInv /\ PassInv /\ TableInv /\ GlobalInv /\ ReceiverInv /\ SeenInv
  BY DEF FactsInv, ShapeInv
<1>2. Len(program) \in Nat /\ DOMAIN program = 1..Len(program)
  BY <1>1, ProgramListed
<1>3. next \in 1..(Len(program) + 1)
  BY <1>1, <1>2 DEF PassInv
<1>4. \A key \in DOMAIN symbols : symbols[key] # <<>>
  BY <1>1 DEF TableInv, IsTable, History
<1>5. ASSUME NEW key \in globals, Len(key) = 1 \/ issues = {}
      PROVE  Current(symbols, key).scope = "GLOBAL"
  <2>1. CASE EnumKey(key)
    <3>1. PICK k, m : /\ Predeclared(k) /\ program[k].form = "enum"
                      /\ m \in Range(program[k].members)
                      /\ key = Member(Text(program[k].name), m)
      BY <2>1 DEF EnumKey
    <3>2. Len(key) = 2
      BY <3>1, KeysApart
    <3>3. NamesInv
      BY <1>5, <3>2 DEF FactsInv
    <3> QED
      BY <3>1, <3>3 DEF NamesInv
  <2> QED
    BY <1>1, <2>1 DEF GlobalInv
<1>6. ASSUME NEW k \in DOMAIN seen
      PROVE  /\ seen[k].item <= Len(program)
             /\ k > 1 => seen[k - 1].item <= seen[k].item
  <2>1. Visited(seen[k].item)
    BY <1>1 DEF SeenInv
  <2>2. seen[k].item \in DOMAIN program
    BY <2>1 DEF Visited
  <2>3. Len(seen) \in Nat /\ DOMAIN seen = 1..Len(seen)
    BY <1>1 DEF SeenInv
  <2>4. k > 1 => k - 1 \in DOMAIN seen /\ k - 1 <= k
    BY <2>3
  <2> QED
    BY <1>1, <1>2, <2>2, <2>4 DEF SeenInv
<1> QED
  BY <1>1, <1>3, <1>4, <1>5, <1>6 DEF TablesOK, PassInv, GlobalInv, ReceiverInv

LEMMA TypesFollow == FactsInv => TypesOutliveTheWalk
<1> SUFFICES ASSUME FactsInv, ProgramAccepted, NEW k \in DOMAIN seen,
                    seen[k].kind \in {"TYPE", "ENUM", "VARIABLE"},
                    seen[k].local => ~Shared(seen[k].use.owner)
             PROVE  TypeIn(symbols, seen[k].use.owner) = seen[k].type
  BY DEF TypesOutliveTheWalk
<1>1. GlobalSeen(seen[k]) /\ LocalSeen(seen[k])
  BY AcceptedNames DEF SightsInv, SightFits
<1> QED
  BY <1>1 DEF GlobalSeen, LocalSeen

LEMMA EnumsFollow ==
  ASSUME FactsInv, ProgramAccepted, NEW g, EnumSeen(g),
         ~g.use.called, g.use.owner \in EnumNames, ~g.local
  PROVE  EnumFactKnown(g.use) /\ EnumRowKnown(g.use)
<1> DEFINE key == Member(Text(g.use.owner), g.use.member)
<1>1. PICK k \in DOMAIN program : program[k].form = "enum" /\ program[k].name = g.use.owner
  BY DEF EnumNames
<1>2. key \in DOMAIN symbols
  BY <1>1 DEF EnumSeen, IsEnum
<1>3. DeclaredAt(k) /\ Items("enum", g.use.owner) = {k} /\ k \in Nat
  BY <1>1, AcceptedNames, OneItem DEF Declares
<1>4. EnumKey(key)
  <2>1. KeyKnown(key)
    BY <1>2, AcceptedNames DEF ShapeInv, TableInv
  <2>2. ~PlainKey(key)
    BY KeysApart DEF PlainKey
  <2>3. ASSUME FieldKey(key)
        PROVE  FALSE
    <3>1. PICK j, m : /\ Visited(j) /\ program[j].form = "type"
                      /\ key = Member(Text(program[j].name), m)
      BY <2>3 DEF FieldKey
    <3>2. program[j].name = g.use.owner
      BY <3>1, KeysApart
    <3>3. DeclaredAt(j)
      BY <3>1, FormsDeclared
    <3>4. j = k
      BY <1>1, <1>3, <3>2, <3>3, AcceptedNames DEF NamesInv
    <3> QED
      BY <1>1, <3>1, <3>4
  <2> QED
    BY <2>1, <2>2, <2>3 DEF KeyKnown
<1>5. g.use.member \in Range(program[k].members)
  <2>1. PICK j, m : /\ Predeclared(j) /\ program[j].form = "enum"
                    /\ m \in Range(program[j].members)
                    /\ key = Member(Text(program[j].name), m)
    BY <1>4 DEF EnumKey
  <2>2. program[j].name = g.use.owner /\ m = g.use.member
    BY <2>1, KeysApart
  <2>3. DeclaredAt(j)
    BY <2>1, FormsDeclared
  <2>4. j = k
    BY <1>1, <1>3, <2>2, <2>3, AcceptedNames DEF NamesInv
  <2> QED
    BY <2>1, <2>2, <2>4
<1>6. EnumRowKnown(g.use)
  BY <1>3, <1>5 DEF EnumRowKnown
<1> QED
  BY <1>2, <1>6 DEF EnumFactKnown

LEMMA FieldsFollow ==
  ASSUME FactsInv, ProgramAccepted, NEW g, FieldSeen(g), ~g.use.called, g.visited,
         IsFieldRead(g.use), TypeIn(symbols, g.use.owner) = g.type
  PROVE  FieldFact(g.use) # <<>> /\ FieldFact(g.use)[1].type = g.member
<1>1. ~IsEnum(g.use.owner)
  BY DEF IsFieldRead, EnumNames, IsEnum
<1>2. PICK k : Visited(k) /\ program[k].form = "type" /\ IsFieldOf(program[k], g)
  BY <1>1 DEF FieldSeen
<1>3. k \in DOMAIN program /\ k \in Nat
  BY <1>2, AcceptedNames DEF Visited
<1> DEFINE item == program[k]
           fields == item.fields
           n == g.use.member
           j == ByName(fields, n)
<1>4. /\ g.type = Text(item.name) /\ n \in NamesOf(fields) /\ g.member = fields[j].type
  BY <1>2 DEF IsFieldOf
<1>5. KindOf(TypeIn(symbols, g.use.owner)) = item.name
  BY <1>4, KeysApart DEF KindOf
<1>6. TypeMap(item.name) = <<item>>
  <2>1. Items("type", item.name) = {k}
    BY <1>2, <1>3, OneItem
  <2>2. {i \in {k} : \A h \in {k} : h <= i} = {k}
    BY <1>3
  <2> QED
    BY <1>3, <2>1, <2>2, ItemAtOne DEF TypeMap
<1>7. ParameterList(fields)
  <2>1. fields \in Seq(Range(fields))
    <3>1. item \in UNION ItemSets
      BY <1>3, AcceptedNames, ProgramListed DEF ShapeInv
    <3> QED
      BY <1>2, <3>1, ItemsAssumption
  <2>2. Distinct(NamesIn(fields))
    BY <1>2, AcceptedNames DEF NamesInv, FieldsDefined
  <2>3. \A a, b \in DOMAIN fields : fields[a].name = fields[b].name => a = b
    BY <2>2 DEF Distinct, NamesIn
  <2> QED
    BY <2>1, <2>3 DEF ParameterList
<1>8. j \in DOMAIN fields /\ j # 0
  <2>1. j \in DOMAIN fields
    BY <1>4, <1>7, NameFindsParameter
  <2>2. DOMAIN fields = 1..Len(fields)
    BY <1>7 DEF ParameterList
  <2> QED
    BY <2>1, <2>2
<1>9. FieldFact(g.use) = <<fields[j]>>
  <2>1. <<item>>[1] = item
    OBVIOUS
  <2> QED
    BY <1>5, <1>6, <1>8, <2>1 DEF FieldFact
<1>10. <<fields[j]>> # <<>> /\ <<fields[j]>>[1] = fields[j]
  OBVIOUS
<1> HIDE DEF fields, j
<1> QED
  BY <1>4, <1>9, <1>10

LEMMA ReferencesFollow == FactsInv => ReferencesKnown
<1> SUFFICES ASSUME FactsInv, ProgramAccepted, NEW k \in DOMAIN seen, NEW g, g = seen[k]
             PROVE  /\ ~g.use.called /\ g.use.owner \in EnumNames /\ ~g.local =>
                         EnumFactKnown(g.use) /\ EnumRowKnown(g.use)
                    /\ ~g.use.called /\ g.visited /\ IsFieldRead(g.use)
                         /\ TypeIn(symbols, g.use.owner) = g.type
                         => FieldFact(g.use) # <<>> /\ FieldFact(g.use)[1].type = g.member
                    /\ g.use.called /\ g.use.member = "new" /\ ~g.local
                         /\ g.use.owner \in DOMAIN udtFields =>
                         \/ g.fields = <<>>
                         \/ RequiredOf(udtFields[g.use.owner])
                              \subseteq Supplied(g.use.args, udtFields[g.use.owner])
  BY DEF ReferencesKnown
<1>1. SightFits(g)
  BY AcceptedNames DEF SightsInv
<1>2. EnumSeen(g) /\ FieldSeen(g) /\ MadeSeen(g)
  BY <1>1 DEF SightFits
<1> QED
  BY <1>2, EnumsFollow, FieldsFollow DEF MadeSeen

\* For any programs, accepted or not, the global scope has a symbol for every
\* key, and a global one for every name: what a type, a method or a function
\* displaces is back when its scope ends (_push_scope and _pop_scope); every
\* use belongs to an item, in the order of the items.
THEOREM TablesAreKept == FactsSpec => []TablesOK
<1> QED
  BY FactsInitially, FactsStep, TablesFollow, PTL DEF FactsSpec

\* For any programs, a use in an accepted one has the same type after the walk
\* as in it if its owner is a type, an enum, a global variable or a parameter
\* that shares its name with nothing, though one table serves all scopes
\* (analyzer_scope.py:252).
THEOREM TypesSurvive == FactsSpec => []TypesOutliveTheWalk
<1> QED
  BY FactsInitially, FactsStep, TypesFollow, PTL DEF FactsSpec

\* For any programs, the methods, types and callables sections take a call of an
\* accepted one for the same method with the same binding, if they see the
\* receiver as the walk did; the methods section leaves out only a method
\* declared for another instance of the receiver's type (facts.py:570,
\* types.py:99, callables.py:66).
THEOREM SectionsAlike == FactsSpec => []SectionsNameTheSameMethod
<1> QED
  BY FactsInitially, FactsStep, SectionsFollow, PTL DEF FactsSpec

\* For any programs, the members and fields that an accepted one reads exist with
\* the type the walk found, and its constructors give what is required, for types
\* that come before their use (_validate_member_access,
\* _validate_udt_constructor_call).
THEOREM ReferencesFound == FactsSpec => []ReferencesKnown
<1> QED
  BY FactsInitially, FactsStep, ReferencesFollow, PTL DEF FactsSpec
=============================================================================
