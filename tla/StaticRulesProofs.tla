------------------------- MODULE StaticRulesProofs -------------------------
(***************************************************************************)
(* Proofs about StaticRules, for any programs, signatures, records and     *)
(* bounds: that the walk with a stack finds the calls the recursive walks  *)
(* find, in the same contexts, and that the report of the rules and the    *)
(* contracts made of the facts say the same of requests, strategies, sorts *)
(* and loops.                                                              *)
(*                                                                         *)
(* The argument.  Nodes follow their parents, so what is above a node and  *)
(* around it is defined, and of the children of a node at most one is      *)
(* above another node.  Hence the nodes under two places of the stack are  *)
(* different, none of them has been visited, and a call that has not been  *)
(* found is under a place of the stack (Walking); replacing a node by its  *)
(* children keeps that.  When the stack is empty each call of the program  *)
(* has been found once, with the context of the other walk, and the rest   *)
(* of the invariant (RulesInv) says of counters, issues and rows what they *)
(* are in terms of the program alone: each family of rules adds issues of  *)
(* its own and leaves what is said of the others.  That the two ways to    *)
(* name an argument agree where named arguments come last is NamesAgree;   *)
(* that a selector is accepted if it selects one field is SortAccepts;     *)
(* what a loop counts is IterationsCounted.                                *)
(***************************************************************************)
EXTENDS StaticRules, FiniteSetTheorems, WellFoundedInduction, SequenceTheorems,
        TLAPS

-----------------------------------------------------------------------------
(***************************************************************************)
(* Programs: what is above a node and around it.                           *)
(***************************************************************************)
Tree(prog) ==
  /\ Len(prog) \in Nat /\ DOMAIN prog = 1..Len(prog)
  /\ \A n \in DOMAIN prog : prog[n].parent \in 0..(n - 1)

Ancestors(prog) ==
  LET U[n \in DOMAIN prog] ==
        {n} \cup (IF prog[n].parent = 0 THEN {} ELSE U[prog[n].parent])
  IN U

ContextIn(prog) ==
  LET C[n \in DOMAIN prog] ==
        IF prog[n].parent = 0 THEN <<>>
        ELSE C[prog[n].parent]
               \o (IF prog[prog[n].parent].kind \in Markers
                   THEN <<prog[prog[n].parent].kind>> ELSE <<>>)
  IN C

\* What is above a node and around it, as functions of the program, ...
LEMMA UnderIs == Under = Ancestors(program) /\ Context = ContextIn(program)
BY Zenon DEF Under, Ancestors, Context, ContextIn, Marker

\* ... before a step and after it.
LEMMA UnderNext == Under' = Ancestors(program') /\ Context' = ContextIn(program')
BY Zenon DEF Under, Ancestors, Context, ContextIn, Marker

\* The recursion over the parents has a solution: nodes follow their parents.
LEMMA AncestorsRecur ==
  ASSUME NEW prog, Tree(prog)
  PROVE  /\ DOMAIN Ancestors(prog) = DOMAIN prog
         /\ \A n \in DOMAIN prog : Ancestors(prog)[n] =
              {n} \cup (IF prog[n].parent = 0 THEN {} ELSE Ancestors(prog)[prog[n].parent])
<1> DEFINE N == Len(prog)
           Value(g, n) == {n} \cup (IF prog[n].parent = 0 THEN {} ELSE g[prog[n].parent])
           Solves(k, g) == g = [n \in 1..k |-> Value(g, n)]
           Missing == {k \in Nat : k <= N /\ ~ \E g : Solves(k, g)}
<1>1. N \in Nat /\ DOMAIN prog = 1..N /\ \A n \in 1..N : prog[n].parent \in 0..(n - 1)
  BY DEF Tree
<1>2. Missing = {}
  <2>1. SUFFICES ASSUME Missing # {} PROVE FALSE
    OBVIOUS
  <2>2. PICK d \in Missing : \A y \in Missing : ~ (<<y, d>> \in OpToRel(<, Nat))
    BY <2>1, WFMin, NatLessThanWellFounded
  <2>3. d \in Nat /\ d <= N /\ ~ (\E g : Solves(d, g)) /\ \A y \in Missing : ~ (y < d)
    BY <2>2 DEF OpToRel
  <2>4. CASE d = 0
    <3> DEFINE g == [n \in 1..0 |-> {}]
    <3>1. g = [n \in 1..0 |-> Value(g, n)]
      OBVIOUS
    <3> QED
      BY <3>1, <2>3, <2>4
  <2>5. CASE d > 0
    <3>1. d - 1 \in Nat /\ d - 1 <= N /\ d - 1 < d
      BY <2>3, <2>5, <1>1
    <3>2. PICK g : Solves(d - 1, g)
      BY <3>1, <2>3
    <3> DEFINE h == [n \in 1..d |-> IF n = d THEN Value(g, d) ELSE g[n]]
    <3>3. \A n \in 1..d : Value(h, n) = Value(g, n)
      <4> SUFFICES ASSUME NEW n \in 1..d, prog[n].parent # 0
                   PROVE  h[prog[n].parent] = g[prog[n].parent]
        OBVIOUS
      <4> QED
        BY <2>3, <1>1
    <3>4. \A n \in 1..(d - 1) : g[n] = Value(g, n)
      BY <3>2
    <3> HIDE DEF Value
    <3>5. \A n \in 1..d : h[n] = Value(h, n)
      BY <3>3, <3>4, <2>3
    <3>6. h = [n \in 1..d |-> Value(h, n)]
      BY <3>5
    <3> QED
      BY <3>6, <2>3
  <2> QED
    BY <2>3, <2>4, <2>5
<1>3. \E g : Solves(N, g)
  <2> HIDE DEF Solves
  <2>1. N \notin Missing /\ N <= N
    BY <1>1, <1>2
  <2> QED
    BY <1>1, <2>1
<1>4. Ancestors(prog) = CHOOSE g : g = [n \in DOMAIN prog |-> Value(g, n)]
  BY DEF Ancestors
<1> HIDE DEF Value
<1>5. Ancestors(prog) = [n \in DOMAIN prog |-> Value(Ancestors(prog), n)]
  BY <1>1, <1>3, <1>4
<1> USE DEF Value
<1> QED
  BY <1>1, <1>5

\* So has the recursion that gives the contexts.
LEMMA ContextRecurs ==
  ASSUME NEW prog, Tree(prog)
  PROVE  /\ DOMAIN ContextIn(prog) = DOMAIN prog
         /\ \A n \in DOMAIN prog : ContextIn(prog)[n] =
              IF prog[n].parent = 0 THEN <<>>
              ELSE ContextIn(prog)[prog[n].parent]
                     \o (IF prog[prog[n].parent].kind \in Markers
                         THEN <<prog[prog[n].parent].kind>> ELSE <<>>)
<1> DEFINE N == Len(prog)
           Mark(p) == IF prog[p].kind \in Markers THEN <<prog[p].kind>> ELSE <<>>
           Join(context, p) == context \o Mark(p)
           Value(g, n) == IF prog[n].parent = 0 THEN <<>>
                          ELSE Join(g[prog[n].parent], prog[n].parent)
           Solves(k, g) == g = [n \in 1..k |-> Value(g, n)]
           Missing == {k \in Nat : k <= N /\ ~ \E g : Solves(k, g)}
<1>1. N \in Nat /\ DOMAIN prog = 1..N /\ \A n \in 1..N : prog[n].parent \in 0..(n - 1)
  BY DEF Tree
<1> HIDE DEF Join
<1>2. Missing = {}
  <2>1. SUFFICES ASSUME Missing # {} PROVE FALSE
    OBVIOUS
  <2>2. PICK d \in Missing : \A y \in Missing : ~ (<<y, d>> \in OpToRel(<, Nat))
    BY <2>1, WFMin, NatLessThanWellFounded
  <2>3. d \in Nat /\ d <= N /\ ~ (\E g : Solves(d, g)) /\ \A y \in Missing : ~ (y < d)
    BY <2>2 DEF OpToRel
  <2>4. CASE d = 0
    <3> DEFINE g == [n \in 1..0 |-> {}]
    <3>1. g = [n \in 1..0 |-> Value(g, n)]
      OBVIOUS
    <3> QED
      BY <3>1, <2>3, <2>4
  <2>5. CASE d > 0
    <3>1. d - 1 \in Nat /\ d - 1 <= N /\ d - 1 < d
      BY <2>3, <2>5, <1>1
    <3>2. PICK g : Solves(d - 1, g)
      BY <3>1, <2>3
    <3> DEFINE h == [n \in 1..d |-> IF n = d THEN Value(g, d) ELSE g[n]]
    <3>3. \A n \in 1..d : Value(h, n) = Value(g, n)
      <4> SUFFICES ASSUME NEW n \in 1..d, prog[n].parent # 0
                   PROVE  h[prog[n].parent] = g[prog[n].parent]
        OBVIOUS
      <4> QED
        BY <2>3, <1>1
    <3>4. \A n \in 1..(d - 1) : g[n] = Value(g, n)
      BY <3>2
    <3> HIDE DEF Value
    <3>5. \A n \in 1..d : h[n] = Value(h, n)
      BY <3>3, <3>4, <2>3
    <3>6. h = [n \in 1..d |-> Value(h, n)]
      BY <3>5
    <3> QED
      BY <3>6, <2>3
  <2> QED
    BY <2>3, <2>4, <2>5
<1>3. \E g : Solves(N, g)
  <2> HIDE DEF Solves
  <2>1. N \notin Missing /\ N <= N
    BY <1>1, <1>2
  <2> QED
    BY <1>1, <2>1
<1>4. ContextIn(prog) = CHOOSE g : g = [n \in DOMAIN prog |-> Value(g, n)]
  BY DEF ContextIn, Join
<1> HIDE DEF Value
<1>5. ContextIn(prog) = [n \in DOMAIN prog |-> Value(ContextIn(prog), n)]
  BY <1>1, <1>3, <1>4
<1>6. \A n \in DOMAIN prog : ContextIn(prog)[n] = Value(ContextIn(prog), n)
  BY <1>5
<1> USE DEF Value, Join
<1> QED
  BY <1>5, <1>6

\* A node is under itself and under nodes that are not after it.
LEMMA UnderEarlier ==
  ASSUME NEW prog, Tree(prog), NEW n \in DOMAIN prog
  PROVE  /\ n \in Ancestors(prog)[n]
         /\ \A m \in Ancestors(prog)[n] : m \in DOMAIN prog /\ m <= n
<1> DEFINE A == Ancestors(prog)
           Wrong == {k \in Nat : /\ k \in DOMAIN prog
                                 /\ \E m \in A[k] : ~(m \in DOMAIN prog /\ m <= k)}
<1>1. /\ Len(prog) \in Nat /\ DOMAIN prog = 1..Len(prog)
      /\ \A k \in DOMAIN prog : prog[k].parent \in 0..(k - 1)
  BY DEF Tree
<1>2. \A k \in DOMAIN prog :
        A[k] = {k} \cup (IF prog[k].parent = 0 THEN {} ELSE A[prog[k].parent])
  BY AncestorsRecur
<1> HIDE DEF A
<1>3. Wrong = {}
  <2>1. SUFFICES ASSUME Wrong # {} PROVE FALSE
    OBVIOUS
  <2>2. PICK d \in Wrong : \A y \in Wrong : ~ (<<y, d>> \in OpToRel(<, Nat))
    BY <2>1, WFMin, NatLessThanWellFounded
  <2>3. d \in Nat /\ d \in DOMAIN prog /\ \A y \in Wrong : ~ (y < d)
    BY <2>2 DEF OpToRel
  <2>4. PICK m \in A[d] : ~(m \in DOMAIN prog /\ m <= d)
    BY <2>2
  <2>5. prog[d].parent # 0 /\ m \in A[prog[d].parent]
    BY <1>2, <2>3, <2>4
  <2>6. prog[d].parent \in DOMAIN prog /\ prog[d].parent \in Nat /\ prog[d].parent < d
    BY <1>1, <2>3, <2>5
  <2>7. m \in DOMAIN prog /\ m <= prog[d].parent
    BY <2>3, <2>5, <2>6
  <2> QED
    BY <1>1, <2>3, <2>4, <2>6, <2>7
<1>4. n \in Nat
  BY <1>1
<1> QED
  BY <1>2, <1>3, <1>4 DEF A

\* What is under a child is under its parent, ...
LEMMA UnderParent ==
  ASSUME NEW prog, Tree(prog), NEW n \in DOMAIN prog,
         NEW c \in Ancestors(prog)[n], prog[c].parent # 0
  PROVE  prog[c].parent \in Ancestors(prog)[n]
<1> DEFINE A == Ancestors(prog)
           Wrong == {k \in Nat : k \in DOMAIN prog /\ c \in A[k]
                                 /\ prog[c].parent \notin A[k]}
<1>1. /\ Len(prog) \in Nat /\ DOMAIN prog = 1..Len(prog)
      /\ \A k \in DOMAIN prog : prog[k].parent \in 0..(k - 1)
  BY DEF Tree
<1>2. \A k \in DOMAIN prog :
        A[k] = {k} \cup (IF prog[k].parent = 0 THEN {} ELSE A[prog[k].parent])
  BY AncestorsRecur
<1> HIDE DEF A
<1>3. Wrong = {}
  <2>1. SUFFICES ASSUME Wrong # {} PROVE FALSE
    OBVIOUS
  <2>2. PICK d \in Wrong : \A y \in Wrong : ~ (<<y, d>> \in OpToRel(<, Nat))
    BY <2>1, WFMin, NatLessThanWellFounded
  <2>3. /\ d \in Nat /\ d \in DOMAIN prog /\ c \in A[d] /\ prog[c].parent \notin A[d]
        /\ \A y \in Wrong : ~ (y < d)
    BY <2>2 DEF OpToRel
  <2>4. CASE c = d
    <3>1. prog[d].parent \in DOMAIN prog
      BY <1>1, <2>3, <2>4
    <3> QED
      BY <1>2, <2>3, <2>4, <3>1
  <2>5. CASE c # d
    <3>1. prog[d].parent # 0 /\ c \in A[prog[d].parent]
          /\ prog[c].parent \notin A[prog[d].parent]
      BY <1>2, <2>3, <2>5
    <3>2. prog[d].parent \in DOMAIN prog /\ prog[d].parent \in Nat /\ prog[d].parent < d
      BY <1>1, <2>3, <3>1
    <3> QED
      BY <2>3, <3>1, <3>2
  <2> QED
    BY <2>4, <2>5
<1>4. n \in Nat
  BY <1>1
<1> QED
  BY <1>3, <1>4 DEF A

\* ... what is under a node is the node or under a child of it, ...
LEMMA UnderChild ==
  ASSUME NEW prog, Tree(prog), NEW n \in DOMAIN prog,
         NEW t \in Ancestors(prog)[n], t # n
  PROVE  \E c \in Ancestors(prog)[n] : prog[c].parent = t
<1> DEFINE A == Ancestors(prog)
           Wrong == {k \in Nat : k \in DOMAIN prog /\ t \in A[k] /\ t # k
                                 /\ ~ \E c \in A[k] : prog[c].parent = t}
<1>1. /\ Len(prog) \in Nat /\ DOMAIN prog = 1..Len(prog)
      /\ \A k \in DOMAIN prog : prog[k].parent \in 0..(k - 1)
  BY DEF Tree
<1>2. \A k \in DOMAIN prog :
        A[k] = {k} \cup (IF prog[k].parent = 0 THEN {} ELSE A[prog[k].parent])
  BY AncestorsRecur
<1> HIDE DEF A
<1>3. Wrong = {}
  <2>1. SUFFICES ASSUME Wrong # {} PROVE FALSE
    OBVIOUS
  <2>2. PICK d \in Wrong : \A y \in Wrong : ~ (<<y, d>> \in OpToRel(<, Nat))
    BY <2>1, WFMin, NatLessThanWellFounded
  <2>3. /\ d \in Nat /\ d \in DOMAIN prog /\ t \in A[d] /\ t # d
        /\ ~ \E c \in A[d] : prog[c].parent = t
        /\ \A y \in Wrong : ~ (y < d)
    BY <2>2 DEF OpToRel
  <2>4. d \in A[d] /\ prog[d].parent # 0 /\ t \in A[prog[d].parent]
        /\ t # prog[d].parent
        /\ ~ \E c \in A[prog[d].parent] : prog[c].parent = t
    BY <1>2, <2>3
  <2>5. prog[d].parent \in DOMAIN prog /\ prog[d].parent \in Nat /\ prog[d].parent < d
    BY <1>1, <2>3, <2>4
  <2> QED
    BY <2>3, <2>4, <2>5
<1>4. n \in Nat
  BY <1>1
<1> QED
  BY <1>3, <1>4 DEF A

\* ... and of one child only.
LEMMA UnderOneChild ==
  ASSUME NEW prog, Tree(prog), NEW n \in DOMAIN prog,
         NEW b \in Ancestors(prog)[n], NEW c \in Ancestors(prog)[n],
         prog[b].parent = prog[c].parent, prog[c].parent # 0
  PROVE  b = c
<1> DEFINE A == Ancestors(prog)
           Wrong == {k \in Nat : k \in DOMAIN prog /\ b \in A[k] /\ c \in A[k]}
<1>1. /\ Len(prog) \in Nat /\ DOMAIN prog = 1..Len(prog)
      /\ \A k \in DOMAIN prog : prog[k].parent \in 0..(k - 1)
  BY DEF Tree
<1>2. \A k \in DOMAIN prog :
        A[k] = {k} \cup (IF prog[k].parent = 0 THEN {} ELSE A[prog[k].parent])
  BY AncestorsRecur
<1>3. \A k \in DOMAIN prog : \A m \in A[k] : m \in DOMAIN prog /\ m <= k
  BY UnderEarlier
<1> HIDE DEF A
<1>4. SUFFICES ASSUME b # c, Wrong # {} PROVE FALSE
  <2>1. n \in Nat
    BY <1>1
  <2> QED
    BY <2>1 DEF A
<1>5. PICK d \in Wrong : \A y \in Wrong : ~ (<<y, d>> \in OpToRel(<, Nat))
  BY <1>4, WFMin, NatLessThanWellFounded
<1>6. /\ d \in Nat /\ d \in DOMAIN prog /\ b \in A[d] /\ c \in A[d]
      /\ \A y \in Wrong : ~ (y < d)
  BY <1>5 DEF OpToRel
<1>7. \A k \in A[d] : k # d => prog[d].parent # 0 /\ k \in A[prog[d].parent]
  BY <1>2, <1>6
<1>8. ASSUME prog[d].parent # 0
      PROVE  prog[d].parent \in DOMAIN prog /\ prog[d].parent \in Nat
             /\ prog[d].parent < d
  BY <1>1, <1>6, <1>8
<1>9. \A k \in DOMAIN prog :
        k \in Nat /\ prog[k].parent \in Nat /\ prog[k].parent < k
  BY <1>1
<1>10. b \in DOMAIN prog /\ c \in DOMAIN prog
  BY <1>3, <1>6
<1>11. CASE b = d
  <2>1. prog[c].parent \in DOMAIN prog /\ c <= prog[c].parent
    BY <1>3, <1>4, <1>6, <1>7, <1>8, <1>11
  <2> QED
    BY <1>9, <1>10, <2>1
<1>12. CASE c = d
  <2>1. prog[b].parent \in DOMAIN prog /\ b <= prog[b].parent
    BY <1>3, <1>4, <1>6, <1>7, <1>8, <1>12
  <2> QED
    BY <1>9, <1>10, <2>1
<1>13. CASE b # d /\ c # d
  BY <1>6, <1>7, <1>8, <1>13
<1> QED
  BY <1>11, <1>12, <1>13

-----------------------------------------------------------------------------
(***************************************************************************)
(* Sets of places in order.                                                *)
(***************************************************************************)
\* The ranks of the members of a set of places are 1 to their number.
LEMMA Places ==
  ASSUME NEW n \in Nat, NEW S \in SUBSET (1..n)
  PROVE  /\ Cardinality(S) \in 0..n
         /\ \A k \in S : CountUpTo(S, k) \in 1..Cardinality(S)
         /\ \A j, k \in S : CountUpTo(S, j) = CountUpTo(S, k) => j = k
         /\ \A m \in 1..Cardinality(S) : \E k \in S : CountUpTo(S, k) = m
<1> DEFINE Up(k) == {j \in S : j <= k}
           R == [k \in S |-> Cardinality(Up(k))]
<1>1. S \subseteq Int /\ IsFiniteSet(S) /\ Cardinality(S) \in 0..n
  <2>1. IsFiniteSet(1..n) /\ Cardinality(1..n) = n
    BY FS_Interval
  <2>2. IsFiniteSet(S) /\ Cardinality(S) <= n
    BY <2>1, FS_Subset
  <2> QED
    BY <2>2, FS_CardinalityType
<1>2. ASSUME NEW k \in S
      PROVE  IsFiniteSet(Up(k)) /\ Cardinality(Up(k)) \in 1..Cardinality(S)
  <2>1. IsFiniteSet(Up(k)) /\ Cardinality(Up(k)) <= Cardinality(S)
    BY <1>1, FS_Subset
  <2>2. Up(k) # {}
    BY <1>1
  <2> QED
    BY <1>1, <2>1, <2>2, FS_EmptySet, FS_CardinalityType
<1>3. ASSUME NEW j \in S, NEW k \in S, j < k
      PROVE  Cardinality(Up(j)) < Cardinality(Up(k))
  <2>1. \A i \in S : i <= j => i <= k
    BY <1>1, <1>3
  <2>2. ~(k <= j) /\ k <= k
    BY <1>1, <1>3
  <2>3. Up(j) \in SUBSET Up(k) /\ k \in Up(k) /\ k \notin Up(j)
    BY <2>1, <2>2, Zenon
  <2>4. /\ Cardinality(Up(j)) <= Cardinality(Up(k))
        /\ Cardinality(Up(j)) # Cardinality(Up(k))
    BY <2>3, <1>2, FS_Subset
  <2> QED
    BY <2>4, <1>2
<1> HIDE DEF Up
<1>4. \A k \in S : R[k] = Cardinality(Up(k)) /\ CountUpTo(S, k) = Cardinality(Up(k))
  BY DEF Up, CountUpTo
<1>5. \A j, k \in S : R[j] = R[k] => j = k
  <2> SUFFICES ASSUME NEW j \in S, NEW k \in S, R[j] = R[k]
               PROVE  j = k
    OBVIOUS
  <2>1. ~(j < k) /\ ~(k < j)
    BY <1>2, <1>3, <1>4
  <2> QED
    BY <2>1, <1>1
<1>6. R \in Injection(S, 1..Cardinality(S))
  <2>1. R \in [S -> 1..Cardinality(S)]
    BY <1>2, <1>4
  <2> QED
    BY <2>1, <1>5 DEF Injection, IsInjective
<1>7. IsFiniteSet(1..Cardinality(S)) /\ Cardinality(1..Cardinality(S)) = Cardinality(S)
  BY <1>1, FS_Interval
<1>8. R \in Surjection(S, 1..Cardinality(S))
  BY <1>6, <1>7, FS_Injection
<1> HIDE DEF R
<1>9. \A m \in 1..Cardinality(S) : \E k \in S : R[k] = m
  BY <1>8 DEF Surjection
<1> QED
  BY <1>1, <1>2, <1>4, <1>5, <1>9

\* A set of places in order: each place of the set, once.
LEMMA InOrderLists ==
  ASSUME NEW n \in Nat, NEW S \in SUBSET (1..n)
  PROVE  /\ Cardinality(S) \in 0..n
         /\ InOrder(S) \in Seq(S)
         /\ Len(InOrder(S)) = Cardinality(S)
         /\ DOMAIN InOrder(S) = 1..Cardinality(S)
         /\ \A k \in DOMAIN InOrder(S) : InOrder(S)[k] \in S
         /\ \A j, k \in DOMAIN InOrder(S) : InOrder(S)[j] = InOrder(S)[k] => j = k
         /\ \A m \in S : \E k \in DOMAIN InOrder(S) : InOrder(S)[k] = m
<1> DEFINE N == Cardinality(S)
           At(m) == CHOOSE k \in S : CountUpTo(S, k) = m
<1>1. /\ N \in 0..n
      /\ \A k \in S : CountUpTo(S, k) \in 1..N
      /\ \A j, k \in S : CountUpTo(S, j) = CountUpTo(S, k) => j = k
      /\ \A m \in 1..N : \E k \in S : CountUpTo(S, k) = m
  BY Places
<1>2. InOrder(S) = [m \in 1..N |-> At(m)]
  BY DEF InOrder
<1> HIDE DEF N
<1>3. ASSUME NEW m \in 1..N
      PROVE  At(m) \in S /\ CountUpTo(S, At(m)) = m
  BY <1>1
<1>4. \A m \in S : At(CountUpTo(S, m)) = m
  BY <1>1, <1>3
<1> HIDE DEF At
<1>5. DOMAIN InOrder(S) = 1..N /\ \A m \in 1..N : InOrder(S)[m] = At(m)
  BY <1>2
<1>6. InOrder(S) \in [1..N -> S] /\ N \in Nat
  BY <1>1, <1>2, <1>3
<1>7. InOrder(S) \in Seq(S) /\ Len(InOrder(S)) = N
  BY <1>6, LenProperties
<1>8. \A k \in DOMAIN InOrder(S) : InOrder(S)[k] \in S
  BY <1>3, <1>5
<1>9. \A j, k \in DOMAIN InOrder(S) : InOrder(S)[j] = InOrder(S)[k] => j = k
  BY <1>3, <1>5
<1>10. \A m \in S : \E k \in DOMAIN InOrder(S) : InOrder(S)[k] = m
  BY <1>1, <1>4, <1>5
<1> QED
  BY <1>1, <1>5, <1>7, <1>8, <1>9, <1>10 DEF N

-----------------------------------------------------------------------------
(***************************************************************************)
(* The walk with a stack.                                                  *)
(***************************************************************************)
\* What the walk puts on the stack and among the calls.
Visits == [node : Nat, context : Seq(Markers)]

MarkOf(node) == IF node.kind \in Markers THEN <<node.kind>> ELSE <<>>

ContextUnder(prog, top) == top.context \o MarkOf(prog[top.node])

ChildrenIn(prog, t) == {k \in DOMAIN prog : prog[k].parent = t}

Opened(prog, top) ==
  LET children == InOrder(ChildrenIn(prog, top.node))
  IN [k \in DOMAIN children |->
        [node |-> children[k], context |-> ContextUnder(prog, top)]]

StackAfter(prog, stk) ==
  SubSeq(stk, 1, Len(stk) - 1) \o Opened(prog, stk[Len(stk)])

CallsAfter(prog, stk, cls) ==
  IF prog[stk[Len(stk)].node].kind = "call" THEN Append(cls, stk[Len(stk)]) ELSE cls

\* The nodes visited and to visit have the contexts of the other walk; ...
AtContext(prog, visits) ==
  \A k \in DOMAIN visits : /\ visits[k].node \in DOMAIN prog
                           /\ visits[k].context = ContextIn(prog)[visits[k].node]

\* ... no node is under two places of the stack, ...
Apart(prog, stk) ==
  \A j, k \in DOMAIN stk : \A n \in DOMAIN prog :
    stk[j].node \in Ancestors(prog)[n] /\ stk[k].node \in Ancestors(prog)[n] => j = k

\* ... or under a place of the stack and found, ...
Behind(prog, stk, cls) ==
  \A j \in DOMAIN cls : \A k \in DOMAIN stk :
    stk[k].node \notin Ancestors(prog)[cls[j].node]

\* ... or found twice, ...
Once(cls) == \A j, k \in DOMAIN cls : cls[j].node = cls[k].node => j = k

AllCalls(prog, cls) == \A k \in DOMAIN cls : prog[cls[k].node].kind = "call"

\* ... and no call is missed.
NoneMissed(prog, stk, cls) ==
  \A n \in DOMAIN prog : prog[n].kind = "call" =>
    \/ \E j \in DOMAIN cls : cls[j].node = n
    \/ \E k \in DOMAIN stk : stk[k].node \in Ancestors(prog)[n]

Walking(prog, stk, cls) ==
  /\ AtContext(prog, stk)
  /\ AtContext(prog, cls)
  /\ Apart(prog, stk)
  /\ Behind(prog, stk, cls)
  /\ Once(cls)
  /\ AllCalls(prog, cls)
  /\ NoneMissed(prog, stk, cls)

\* The children of the node visited take its place on the stack.
LEMMA StackOpened ==
  ASSUME NEW prog, Tree(prog), NEW stk \in Seq(Visits), stk # <<>>,
         stk[Len(stk)].node \in DOMAIN prog
  PROVE  LET s == StackAfter(prog, stk)
             top == stk[Len(stk)]
             p == Len(stk) - 1
             d == Len(InOrder(ChildrenIn(prog, top.node)))
         IN /\ s \in Seq(Visits)
            /\ DOMAIN s = 1..(p + d)
            /\ \A k \in 1..p : s[k] = stk[k]
            /\ \A k \in 1..d :
                 /\ s[p + k].node = InOrder(ChildrenIn(prog, top.node))[k]
                 /\ s[p + k].context = ContextUnder(prog, top)
<1> DEFINE top == stk[Len(stk)]
           p == Len(stk) - 1
           children == InOrder(ChildrenIn(prog, top.node))
           d == Len(children)
           opened == [k \in DOMAIN children |->
                        [node |-> children[k],
                         context |-> ContextUnder(prog, top)]]
<1>1. Len(prog) \in Nat /\ DOMAIN prog = 1..Len(prog)
  BY DEF Tree
<1>2. ChildrenIn(prog, top.node) \in SUBSET (1..Len(prog))
  BY <1>1 DEF ChildrenIn
<1>3. /\ children \in Seq(ChildrenIn(prog, top.node)) /\ DOMAIN children = 1..d
      /\ d \in Nat
      /\ \A k \in DOMAIN children : children[k] \in ChildrenIn(prog, top.node)
  <2> DEFINE S == ChildrenIn(prog, top.node)
  <2> HIDE DEF S
  <2>1. S \in SUBSET (1..Len(prog))
    BY <1>2 DEF S
  <2>2. /\ InOrder(S) \in Seq(S)
        /\ Len(InOrder(S)) = Cardinality(S)
        /\ DOMAIN InOrder(S) = 1..Cardinality(S)
        /\ \A k \in DOMAIN InOrder(S) : InOrder(S)[k] \in S
        /\ Cardinality(S) \in 0..Len(prog)
    BY <1>1, <2>1, InOrderLists
  <2> QED
    BY <1>1, <2>2 DEF S
<1>4. Len(stk) \in Nat /\ p \in Nat /\ DOMAIN stk = 1..Len(stk) /\ top \in Visits
  BY LenProperties
<1> HIDE DEF p, children
<1>5. ContextUnder(prog, top) \in Seq(Markers)
  <2>1. top.context \in Seq(Markers)
    BY <1>4 DEF Visits
  <2>2. MarkOf(prog[top.node]) \in Seq(Markers)
    BY DEF MarkOf
  <2> QED
    BY <2>1, <2>2 DEF ContextUnder
<1> DEFINE context == ContextUnder(prog, top)
<1> HIDE DEF top, context
<1>6. opened = [k \in 1..d |-> [node |-> children[k], context |-> context]]
  BY <1>3 DEF context
<1>7. \A k \in 1..d : [node |-> children[k], context |-> context] \in Visits
  BY <1>1, <1>2, <1>3, <1>5 DEF Visits, context
<1>8. opened \in Seq(Visits) /\ Len(opened) = d
  <2>1. opened \in [1..d -> Visits]
    BY <1>6, <1>7
  <2> HIDE DEF opened, d
  <2>2. opened \in Seq(Visits)
    BY <1>3, <2>1
  <2>3. DOMAIN opened = 1..d /\ DOMAIN opened = 1..Len(opened) /\ Len(opened) \in Nat
    BY <2>1, <2>2, LenProperties
  <2>4. d \in Nat /\ 1..d = 1..Len(opened) /\ Len(opened) \in Nat
    BY <1>3, <2>3
  <2>5. (d \in 1..d <=> d \in 1..Len(opened))
        /\ (Len(opened) \in 1..d <=> Len(opened) \in 1..Len(opened))
    BY <2>4
  <2> QED
    BY <2>2, <2>4, <2>5
<1>9. /\ SubSeq(stk, 1, p) \in Seq(Visits)
      /\ Len(SubSeq(stk, 1, p)) = p
      /\ \A k \in 1..p : SubSeq(stk, 1, p)[k] = stk[k]
  BY <1>4, SubSeqProperties DEF p
<1>10. StackAfter(prog, stk) = SubSeq(stk, 1, p) \o opened
  BY Zenon DEF StackAfter, Opened, p, children, top
<1>11. \A k \in 1..d : opened[k] = [node |-> children[k], context |-> context]
  BY <1>6
<1> HIDE DEF opened
<1>12. /\ StackAfter(prog, stk) \in Seq(Visits)
       /\ DOMAIN StackAfter(prog, stk) = 1..(p + d)
       /\ \A k \in 1..p : StackAfter(prog, stk)[k] = SubSeq(stk, 1, p)[k]
       /\ \A k \in 1..d : StackAfter(prog, stk)[p + k] = opened[k]
  <2> DEFINE front == SubSeq(stk, 1, p)
  <2> HIDE DEF front
  <2>1. front \in Seq(Visits) /\ Len(front) = p
    BY <1>9 DEF front
  <2>2. /\ front \o opened \in Seq(Visits)
        /\ Len(front \o opened) = p + d
        /\ \A i \in 1..(p + d) :
             (front \o opened)[i] = IF i <= p THEN front[i] ELSE opened[i - p]
    <3>1. front \in Seq(Visits) /\ opened \in Seq(Visits)
      BY <2>1, <1>8
    <3>2. /\ front \o opened \in Seq(Visits)
          /\ Len(front \o opened) = Len(front) + Len(opened)
          /\ \A i \in 1..(Len(front) + Len(opened)) :
               (front \o opened)[i] = IF i <= Len(front) THEN front[i]
                                      ELSE opened[i - Len(front)]
      BY <3>1, ConcatProperties
    <3> QED
      BY <2>1, <1>8, <3>2
  <2>3. DOMAIN (front \o opened) = 1..(p + d)
    BY <2>2, LenProperties
  <2>4. \A k \in 1..p : k \in 1..(p + d) /\ k <= p
    BY <1>3, <1>4
  <2>5. \A k \in 1..d : p + k \in 1..(p + d) /\ ~(p + k <= p) /\ (p + k) - p = k
    BY <1>3, <1>4
  <2> QED
    BY <1>10, <2>2, <2>3, <2>4, <2>5 DEF front
<1>13. \A k \in 1..d : /\ StackAfter(prog, stk)[p + k].node = children[k]
                       /\ StackAfter(prog, stk)[p + k].context = context
  <2> HIDE DEF d
  <2> SUFFICES ASSUME NEW k \in 1..d
               PROVE  /\ StackAfter(prog, stk)[p + k].node = children[k]
                      /\ StackAfter(prog, stk)[p + k].context = context
    OBVIOUS
  <2>1. StackAfter(prog, stk)[p + k] = opened[k]
    BY <1>12
  <2>2. opened[k] = [node |-> children[k], context |-> context]
    BY <1>11
  <2> QED
    BY <2>1, <2>2
<1> QED
  BY <1>9, <1>12, <1>13 DEF p, children, top, context

\* A visit keeps the walk's promises.
LEMMA VisitKeepsWalking ==
  ASSUME NEW prog, Tree(prog), NEW stk \in Seq(Visits), stk # <<>>,
         NEW cls \in Seq(Visits), Walking(prog, stk, cls)
  PROVE  /\ StackAfter(prog, stk) \in Seq(Visits)
         /\ CallsAfter(prog, stk, cls) \in Seq(Visits)
         /\ Walking(prog, StackAfter(prog, stk), CallsAfter(prog, stk, cls))
<1> DEFINE top == stk[Len(stk)]
           t == top.node
           p == Len(stk) - 1
           children == InOrder(ChildrenIn(prog, t))
           d == Len(children)
           s == StackAfter(prog, stk)
           c == CallsAfter(prog, stk, cls)
           A == Ancestors(prog)
           C == ContextIn(prog)
<1>1. /\ Len(stk) \in Nat /\ p \in Nat /\ DOMAIN stk = 1..Len(stk)
      /\ Len(stk) \in DOMAIN stk /\ top \in Visits
      /\ \A k \in 1..p : k \in DOMAIN stk /\ k # Len(stk)
      /\ \A k \in DOMAIN stk : k = Len(stk) \/ k \in 1..p
  BY LenProperties
<1>2. /\ Len(prog) \in Nat /\ DOMAIN prog = 1..Len(prog)
      /\ \A n \in DOMAIN prog : prog[n].parent \in 0..(n - 1)
  BY DEF Tree
<1>3. t \in DOMAIN prog /\ top.context = C[t]
  BY <1>1 DEF Walking, AtContext
<1>4. /\ s \in Seq(Visits)
      /\ DOMAIN s = 1..(p + d)
      /\ \A k \in 1..p : s[k] = stk[k]
      /\ \A k \in 1..d : /\ s[p + k].node = children[k]
                         /\ s[p + k].context = ContextUnder(prog, top)
  <2>1. stk[Len(stk)].node \in DOMAIN prog
    BY <1>3
  <2>2. s \in Seq(Visits)
    BY <2>1, StackOpened
  <2>3. DOMAIN s = 1..(p + d)
    BY <2>1, StackOpened
  <2>4. \A k \in 1..p : s[k] = stk[k]
    BY <2>1, StackOpened
  <2>5. \A k \in 1..d : /\ s[p + k].node = children[k]
                         /\ s[p + k].context = ContextUnder(prog, top)
    BY <2>1, StackOpened
  <2> QED
    BY <2>2, <2>3, <2>4, <2>5
<1>5. /\ d \in Nat /\ DOMAIN children = 1..d
      /\ \A k \in 1..d : /\ children[k] \in DOMAIN prog
                         /\ prog[children[k]].parent = t
      /\ \A j, k \in 1..d : children[j] = children[k] => j = k
      /\ \A n \in DOMAIN prog : prog[n].parent = t => \E k \in 1..d : children[k] = n
  <2> DEFINE S == ChildrenIn(prog, t)
  <2>1. \A n : n \in S <=> n \in DOMAIN prog /\ prog[n].parent = t
    BY DEF ChildrenIn
  <2> HIDE DEF S
  <2>2. S \in SUBSET (1..Len(prog))
    BY <1>2, <2>1
  <2>3. /\ Cardinality(S) \in 0..Len(prog)
        /\ Len(InOrder(S)) = Cardinality(S)
        /\ DOMAIN InOrder(S) = 1..Cardinality(S)
        /\ \A k \in DOMAIN InOrder(S) : InOrder(S)[k] \in S
        /\ \A j, k \in DOMAIN InOrder(S) : InOrder(S)[j] = InOrder(S)[k] => j = k
        /\ \A m \in S : \E k \in DOMAIN InOrder(S) : InOrder(S)[k] = m
    BY <1>2, <2>2, InOrderLists
  <2>4. children = InOrder(S)
    BY DEF S
  <2> HIDE DEF children
  <2>5. d \in Nat /\ DOMAIN children = 1..d
    BY <1>2, <2>3, <2>4
  <2>6. \A k \in 1..d : children[k] \in DOMAIN prog /\ prog[children[k]].parent = t
    BY <2>1, <2>3, <2>4, <2>5
  <2>7. \A j, k \in 1..d : children[j] = children[k] => j = k
    BY <2>3, <2>4, <2>5
  <2>8. \A n \in DOMAIN prog : prog[n].parent = t => \E k \in 1..d : children[k] = n
    BY <2>1, <2>3, <2>4, <2>5
  <2> QED
    BY <2>5, <2>6, <2>7, <2>8
<1>6. \A n \in DOMAIN prog : n \in A[n] /\ \A m \in A[n] : m \in DOMAIN prog /\ m <= n
  BY UnderEarlier
<1>7. \A n \in DOMAIN prog : \A m \in A[n] : prog[m].parent # 0 => prog[m].parent \in A[n]
  BY UnderParent
<1>8. \A n \in DOMAIN prog : t \in A[n] /\ t # n =>
        \E m \in A[n] : prog[m].parent = t
  BY UnderChild
<1>9. \A n \in DOMAIN prog : \A l, m \in A[n] :
        prog[l].parent = prog[m].parent /\ prog[m].parent # 0 => l = m
  BY UnderOneChild
<1>10. t # 0 /\ t \in Nat
  BY <1>2, <1>3
<1>11. \A n \in DOMAIN prog : prog[n].parent = t => C[n] = ContextUnder(prog, top)
  <2> SUFFICES ASSUME NEW n \in DOMAIN prog, prog[n].parent = t
               PROVE  C[n] = ContextUnder(prog, top)
    OBVIOUS
  <2>1. C[n] = IF prog[n].parent = 0 THEN <<>>
               ELSE C[prog[n].parent]
                      \o (IF prog[prog[n].parent].kind \in Markers
                          THEN <<prog[prog[n].parent].kind>> ELSE <<>>)
    BY ContextRecurs
  <2>2. C[n] = C[t] \o MarkOf(prog[t])
    BY <1>10, <2>1, Zenon DEF MarkOf
  <2> QED
    BY <1>3, <2>2 DEF ContextUnder
<1> DEFINE context == ContextUnder(prog, top)
<1> HIDE DEF t, p, children, d, s, A, C, context, top
<1>12. /\ c \in Seq(Visits)
       /\ \A k \in DOMAIN c : \/ k \in DOMAIN cls /\ c[k] = cls[k]
                              \/ k = Len(cls) + 1 /\ c[k] = top /\ prog[t].kind = "call"
       /\ \A k \in DOMAIN cls : k \in DOMAIN c /\ c[k] = cls[k] /\ k # Len(cls) + 1
       /\ prog[t].kind = "call" => \E k \in DOMAIN c : c[k] = top
  <2>1. c = IF prog[t].kind = "call" THEN Append(cls, top) ELSE cls
    BY DEF CallsAfter, t, top
  <2>2. Len(cls) \in Nat /\ DOMAIN cls = 1..Len(cls)
    BY LenProperties
  <2>3. CASE prog[t].kind = "call"
    <3>1. c = Append(cls, top)
      BY <2>1, <2>3
    <3>2. /\ Append(cls, top) \in Seq(Visits)
          /\ Len(Append(cls, top)) = Len(cls) + 1
          /\ \A i \in 1..Len(cls) : Append(cls, top)[i] = cls[i]
          /\ Append(cls, top)[Len(cls) + 1] = top
      <4>1. cls \in Seq(Visits) /\ top \in Visits
        BY <1>1
      <4> QED
        BY <4>1, AppendProperties
    <3>3. DOMAIN c = 1..(Len(cls) + 1)
      BY <3>1, <3>2, LenProperties
    <3>4. /\ \A k \in 1..(Len(cls) + 1) : k \in 1..Len(cls) \/ k = Len(cls) + 1
          /\ Len(cls) + 1 \in 1..(Len(cls) + 1)
          /\ \A k \in 1..Len(cls) : k \in 1..(Len(cls) + 1) /\ k # Len(cls) + 1
      BY <2>2
    <3> QED
      BY <2>2, <2>3, <3>1, <3>2, <3>3, <3>4
  <2>4. CASE prog[t].kind # "call"
    <3>1. c = cls
      BY <2>1, <2>4
    <3>2. \A k \in DOMAIN cls : k # Len(cls) + 1
      BY <2>2
    <3> QED
      BY <2>4, <3>1, <3>2
  <2> QED
    BY <2>3, <2>4
<1>13. /\ \A k \in DOMAIN s : \/ k \in 1..p /\ s[k].node = stk[k].node
                                 /\ s[k].context = stk[k].context
                              \/ \E i \in 1..d : /\ k = p + i
                                                 /\ s[k].node = children[i]
                                                 /\ s[k].context = context
       /\ \A k \in 1..p : k \in DOMAIN s /\ s[k].node = stk[k].node
       /\ \A i \in 1..d : \E k \in DOMAIN s : s[k].node = children[i]
  <2>1. /\ \A k \in 1..(p + d) : k \in 1..p \/ \E i \in 1..d : k = p + i
        /\ \A k \in 1..p : k \in 1..(p + d)
        /\ \A i \in 1..d : p + i \in 1..(p + d)
    <3> p \in Nat /\ d \in Nat
      BY <1>1, <1>5
    <3>1. ASSUME NEW k \in 1..(p + d), k \notin 1..p PROVE \E i \in 1..d : k = p + i
      <4>1. k - p \in 1..d /\ k = p + (k - p)
        BY <3>1
      <4> QED
        BY <4>1
    <3>2. \A k \in 1..p : k \in 1..(p + d)
      OBVIOUS
    <3>3. \A i \in 1..d : p + i \in 1..(p + d)
      OBVIOUS
    <3> QED
      BY <3>1, <3>2, <3>3
  <2> QED
    BY <1>4, <2>1 DEF context
<1>14. AtContext(prog, s)
  <2>1. \A k \in DOMAIN stk : stk[k].node \in DOMAIN prog /\ stk[k].context = C[stk[k].node]
    BY DEF Walking, AtContext, C
  <2>2. \A i \in 1..d : children[i] \in DOMAIN prog /\ context = C[children[i]]
    BY <1>5, <1>11 DEF context
  <2>3. ASSUME NEW k \in DOMAIN s
        PROVE  s[k].node \in DOMAIN prog /\ s[k].context = C[s[k].node]
    <3>1. CASE \E j \in 1..p : /\ s[k].node = stk[j].node
                              /\ s[k].context = stk[j].context
      <4>1. PICK j \in 1..p : /\ s[k].node = stk[j].node
                             /\ s[k].context = stk[j].context
        BY <3>1
      <4>2. j \in DOMAIN stk
        BY <1>1
      <4> QED
        BY <2>1, <4>1, <4>2
    <3>2. CASE \E i \in 1..d : /\ s[k].node = children[i]
                              /\ s[k].context = context
      BY <2>2, <3>2
    <3> QED
      BY <1>13, <3>1, <3>2
  <2> QED
    BY <2>3 DEF AtContext, C
<1>15. AtContext(prog, c)
  <2>1. \A k \in DOMAIN cls : cls[k].node \in DOMAIN prog /\ cls[k].context = C[cls[k].node]
    BY DEF Walking, AtContext, C
  <2>2. \A k \in DOMAIN c : c[k].node \in DOMAIN prog /\ c[k].context = C[c[k].node]
    BY <1>3, <1>12, <2>1 DEF t
  <2> QED
    BY <2>2 DEF AtContext, C
<1>16. \A k \in 1..p : \A n \in DOMAIN prog : ~(stk[k].node \in A[n] /\ t \in A[n])
  BY <1>1 DEF Walking, Apart, A, t, top
<1>17. \A i \in 1..d : \A n \in DOMAIN prog : children[i] \in A[n] => t \in A[n]
  BY <1>5, <1>7, <1>10
<1>18. Apart(prog, s)
  <2> SUFFICES ASSUME NEW j \in DOMAIN s, NEW k \in DOMAIN s, NEW n \in DOMAIN prog,
                      s[j].node \in A[n], s[k].node \in A[n]
               PROVE  j = k
    BY DEF Apart, A
  <2>1. CASE j \in 1..p /\ k \in 1..p
    <3>1. \A l, m \in DOMAIN stk : stk[l].node \in A[n] /\ stk[m].node \in A[n] => l = m
      BY DEF Walking, Apart, A
    <3> QED
      BY <1>1, <1>4, <2>1, <3>1
  <2>2. CASE ~(j \in 1..p) /\ ~(k \in 1..p)
    <3>1. PICK l \in 1..d : j = p + l /\ s[j].node = children[l]
      BY <1>13, <2>2
    <3>2. PICK m \in 1..d : k = p + m /\ s[k].node = children[m]
      BY <1>13, <2>2
    <3>3. children[l] = children[m]
      BY <1>5, <1>9, <1>10, <3>1, <3>2
    <3> QED
      BY <1>5, <3>1, <3>2, <3>3
  <2>3. ASSUME NEW l \in DOMAIN s, NEW m \in DOMAIN s, l \in 1..p, ~(m \in 1..p),
               s[l].node \in A[n], s[m].node \in A[n]
        PROVE  FALSE
    BY <1>13, <1>16, <1>17, <2>3
  <2> QED
    BY <2>1, <2>2, <2>3
<1>19. Behind(prog, s, c)
  <2> SUFFICES ASSUME NEW j \in DOMAIN c, NEW k \in DOMAIN s, s[k].node \in A[c[j].node]
               PROVE  FALSE
    BY DEF Behind, A
  <2>1. \A m \in DOMAIN cls : cls[m].node \in DOMAIN prog
    BY DEF Walking, AtContext
  <2>2. \A m \in DOMAIN cls : \A l \in DOMAIN stk : stk[l].node \notin A[cls[m].node]
    BY DEF Walking, Behind, A
  <2>3. t = stk[Len(stk)].node /\ top.node = t
    BY DEF t, top
  <2>4. CASE j \in DOMAIN cls /\ c[j] = cls[j]
    <3>1. t \notin A[cls[j].node]
      BY <1>1, <2>2, <2>3, <2>4
    <3> QED
      BY <1>1, <1>13, <1>17, <2>1, <2>2, <2>4, <3>1
  <2>5. CASE c[j] = top
    <3>1. \A i \in 1..d : children[i] \in DOMAIN prog /\ prog[children[i]].parent = t
      BY <1>5
    <3>2. \A n \in DOMAIN prog : n \in Nat /\ prog[n].parent \in Nat /\ prog[n].parent < n
      BY <1>2
    <3>3. ASSUME NEW i \in 1..d, children[i] \in A[t] PROVE FALSE
      <4>1. children[i] <= t /\ t < children[i] /\ children[i] \in Nat /\ t \in Nat
        BY <1>3, <1>6, <1>10, <3>1, <3>2, <3>3
      <4> QED
        BY <4>1
    <3>4. t \in A[t]
      BY <1>3, <1>6
    <3> QED
      BY <1>3, <1>13, <1>16, <2>3, <2>5, <3>3, <3>4
  <2> QED
    BY <1>12, <2>4, <2>5
<1>20. Once(c)
  <2>1. \A j, k \in DOMAIN cls : cls[j].node = cls[k].node => j = k
    BY DEF Walking, Once
  <2>2. \A k \in DOMAIN cls : cls[k].node # t
    <3> SUFFICES ASSUME NEW k \in DOMAIN cls, cls[k].node = t PROVE FALSE
      OBVIOUS
    <3>1. stk[Len(stk)].node \notin A[t]
      BY <1>1 DEF Walking, Behind, A
    <3> QED
      BY <1>3, <1>6, <3>1 DEF t, top
  <2>3. top.node = t
    BY DEF t
  <2>4. \A j, k \in DOMAIN c : c[j].node = c[k].node => j = k
    BY <1>12, <2>1, <2>2, <2>3
  <2> QED
    BY <2>4 DEF Once
<1>21. AllCalls(prog, c)
  <2>1. \A k \in DOMAIN cls : prog[cls[k].node].kind = "call"
    BY DEF Walking, AllCalls
  <2>2. \A k \in DOMAIN c : prog[c[k].node].kind = "call"
    BY <1>12, <2>1 DEF t
  <2> QED
    BY <2>2 DEF AllCalls
<1>22. NoneMissed(prog, s, c)
  <2> SUFFICES ASSUME NEW n \in DOMAIN prog, prog[n].kind = "call"
               PROVE  \/ \E j \in DOMAIN c : c[j].node = n
                      \/ \E k \in DOMAIN s : s[k].node \in A[n]
    BY DEF NoneMissed, A
  <2>1. \/ \E j \in DOMAIN cls : cls[j].node = n
        \/ \E k \in DOMAIN stk : stk[k].node \in A[n]
    BY DEF Walking, NoneMissed, A
  <2>2. CASE \E j \in DOMAIN cls : cls[j].node = n
    BY <1>12, <2>2
  <2>3. ASSUME NEW k \in 1..p, stk[k].node \in A[n]
        PROVE  \E i \in DOMAIN s : s[i].node \in A[n]
    BY <1>13, <2>3
  <2>4. CASE t = n
    BY <1>12, <2>4 DEF t
  <2>5. CASE t \in A[n] /\ t # n
    <3>1. PICK m \in A[n] : prog[m].parent = t
      BY <1>8, <2>5
    <3>2. m \in DOMAIN prog
      BY <1>6
    <3>3. PICK i \in 1..d : children[i] = m
      BY <1>5, <3>1, <3>2
    <3> QED
      BY <1>13, <3>3
  <2>6. stk[Len(stk)].node = t
    BY DEF t, top
  <2> QED
    BY <1>1, <2>1, <2>2, <2>3, <2>4, <2>5, <2>6
<1> QED
  BY <1>4, <1>12, <1>14, <1>15, <1>18, <1>19, <1>20, <1>21, <1>22 DEF Walking, s

-----------------------------------------------------------------------------
(***************************************************************************)
(* Lists put together.                                                     *)
(***************************************************************************)
\* Two sequences, one after the other.
LEMMA Joined ==
  ASSUME NEW T, NEW a \in Seq(T), NEW b \in Seq(T)
  PROVE  /\ a \o b \in Seq(T)
         /\ \A k \in DOMAIN (a \o b) :
              \/ k \in DOMAIN a /\ (a \o b)[k] = a[k]
              \/ \E j \in DOMAIN b : k = Len(a) + j /\ (a \o b)[k] = b[j]
         /\ \A k \in DOMAIN a : k \in DOMAIN (a \o b) /\ (a \o b)[k] = a[k]
         /\ \A j \in DOMAIN b : /\ Len(a) + j \in DOMAIN (a \o b)
                                /\ (a \o b)[Len(a) + j] = b[j]
<1> DEFINE m == Len(a)
           n == Len(b)
           ab == a \o b
<1>1. /\ ab \in Seq(T) /\ Len(ab) = m + n
      /\ \A i \in 1..(m + n) : ab[i] = IF i <= m THEN a[i] ELSE b[i - m]
  BY ConcatProperties
<1>2. m \in Nat /\ n \in Nat /\ DOMAIN a = 1..m /\ DOMAIN b = 1..n
  BY LenProperties
<1>3. DOMAIN ab = 1..(m + n)
  BY <1>1, LenProperties
<1> HIDE DEF m, n, ab
<1> m \in Nat /\ n \in Nat
  BY <1>2
<1>4. ASSUME NEW k \in 1..(m + n)
      PROVE  \/ k \in 1..m /\ ab[k] = a[k]
             \/ \E j \in 1..n : k = m + j /\ ab[k] = b[j]
  <2>1. CASE k <= m
    BY <1>1, <2>1
  <2>2. CASE ~(k <= m)
    <3>1. k - m \in 1..n /\ k = m + (k - m)
      BY <2>2
    <3> QED
      BY <1>1, <2>2, <3>1
  <2> QED
    BY <2>1, <2>2
<1>5. ASSUME NEW k \in 1..m
      PROVE  k \in 1..(m + n) /\ ab[k] = a[k]
  <2>1. k \in 1..(m + n) /\ k <= m
    OBVIOUS
  <2> QED
    BY <1>1, <2>1
<1>6. ASSUME NEW j \in 1..n
      PROVE  m + j \in 1..(m + n) /\ ab[m + j] = b[j]
  <2>1. m + j \in 1..(m + n) /\ ~(m + j <= m) /\ (m + j) - m = j
    OBVIOUS
  <2> QED
    BY <1>1, <2>1
<1> QED
  BY <1>1, <1>2, <1>3, <1>4, <1>5, <1>6 DEF m, n, ab

\* The places of c among the reports of a sequence.
AtMostOnce(s, c) == \A j, k \in DOMAIN s : s[j][2] = c /\ s[k][2] = c => j = k

\* What one of two lists mentions once and the other never is mentioned once.
LEMMA JoinedOnce ==
  ASSUME NEW T, NEW a \in Seq(T), NEW b \in Seq(T), NEW c,
         AtMostOnce(a, c), AtMostOnce(b, c),
         (\A k \in DOMAIN a : a[k][2] # c) \/ (\A k \in DOMAIN b : b[k][2] # c)
  PROVE  AtMostOnce(a \o b, c)
<1>1. \A k \in DOMAIN (a \o b) :
        \/ k \in DOMAIN a /\ (a \o b)[k] = a[k]
        \/ \E j \in DOMAIN b : k = Len(a) + j /\ (a \o b)[k] = b[j]
  BY Joined
<1> SUFFICES ASSUME NEW j \in DOMAIN (a \o b), NEW k \in DOMAIN (a \o b),
                    (a \o b)[j][2] = c, (a \o b)[k][2] = c
             PROVE  j = k
  BY DEF AtMostOnce
<1> DEFINE ab == a \o b
<1> HIDE DEF ab
<1>2. ab[j][2] = c /\ ab[k][2] = c
  BY DEF ab
<1>3. \/ j \in DOMAIN a /\ ab[j] = a[j]
      \/ \E i \in DOMAIN b : j = Len(a) + i /\ ab[j] = b[i]
  BY <1>1 DEF ab
<1>4. \/ k \in DOMAIN a /\ ab[k] = a[k]
      \/ \E i \in DOMAIN b : k = Len(a) + i /\ ab[k] = b[i]
  BY <1>1 DEF ab
<1>5. CASE \A i \in DOMAIN b : b[i][2] # c
  <2>1. j \in DOMAIN a /\ ab[j] = a[j] /\ k \in DOMAIN a /\ ab[k] = a[k]
    BY <1>2, <1>3, <1>4, <1>5
  <2> QED
    BY <1>2, <2>1 DEF AtMostOnce
<1>6. CASE \A i \in DOMAIN a : a[i][2] # c
  <2>1. PICK x \in DOMAIN b : j = Len(a) + x /\ ab[j] = b[x]
    BY <1>2, <1>3, <1>6
  <2>2. PICK y \in DOMAIN b : k = Len(a) + y /\ ab[k] = b[y]
    BY <1>2, <1>4, <1>6
  <2>3. x = y
    BY <1>2, <2>1, <2>2 DEF AtMostOnce
  <2> QED
    BY <2>1, <2>2, <2>3
<1> QED
  BY <1>5, <1>6

\* The sequences joined so far.
Fronts(pieces) ==
  LET front[n \in 0..Len(pieces)] ==
        IF n = 0 THEN <<>> ELSE front[n - 1] \o pieces[n]
  IN front

\* The recursion of Concat has a solution.
LEMMA FrontsRecur ==
  ASSUME NEW T, NEW pieces \in Seq(Seq(T))
  PROVE  /\ Concat(pieces) = Fronts(pieces)[Len(pieces)]
         /\ Fronts(pieces)[0] = <<>>
         /\ \A n \in 1..Len(pieces) : Fronts(pieces)[n] = Fronts(pieces)[n - 1] \o pieces[n]
<1> DEFINE N == Len(pieces)
           Join(s, n) == s \o pieces[n]
           Value(g, n) == IF n = 0 THEN <<>> ELSE Join(g[n - 1], n)
           Solves(k, g) == g = [n \in 0..k |-> Value(g, n)]
           Missing == {k \in Nat : k <= N /\ ~ \E g : Solves(k, g)}
<1>1. N \in Nat
  BY LenProperties
<1> HIDE DEF Join, N
<1>2. Missing = {}
  <2>1. SUFFICES ASSUME Missing # {} PROVE FALSE
    OBVIOUS
  <2>2. PICK d \in Missing : \A y \in Missing : ~ (<<y, d>> \in OpToRel(<, Nat))
    BY <2>1, WFMin, NatLessThanWellFounded
  <2>3. d \in Nat /\ d <= N /\ ~ (\E g : Solves(d, g)) /\ \A y \in Missing : ~ (y < d)
    BY <2>2 DEF OpToRel
  <2>4. CASE d = 0
    <3> DEFINE g == [n \in 0..0 |-> <<>>]
    <3>1. g = [n \in 0..0 |-> Value(g, n)]
      OBVIOUS
    <3> QED
      BY <3>1, <2>3, <2>4
  <2>5. CASE d > 0
    <3>1. d - 1 \in Nat /\ d - 1 <= N /\ d - 1 < d
      BY <2>3, <2>5, <1>1
    <3>2. PICK g : Solves(d - 1, g)
      BY <3>1, <2>3
    <3> DEFINE h == [n \in 0..d |-> IF n = d THEN Value(g, d) ELSE g[n]]
    <3>3. \A n \in 0..d : Value(h, n) = Value(g, n)
      <4> SUFFICES ASSUME NEW n \in 0..d, n # 0 PROVE  h[n - 1] = g[n - 1]
        OBVIOUS
      <4> QED
        BY <2>3
    <3>4. \A n \in 0..(d - 1) : g[n] = Value(g, n)
      BY <3>2
    <3> HIDE DEF Value
    <3>5. \A n \in 0..d : h[n] = Value(h, n)
      BY <3>3, <3>4, <2>3
    <3>6. h = [n \in 0..d |-> Value(h, n)]
      BY <3>5
    <3> QED
      BY <3>6, <2>3
  <2> QED
    BY <2>3, <2>4, <2>5
<1>3. \E g : Solves(N, g)
  <2> HIDE DEF Solves
  <2>1. N <= N
    BY <1>1
  <2>2. N \notin Missing
    <3> HIDE DEF Missing
    <3> QED
      BY <1>2
  <2> QED
    BY <1>1, <2>1, <2>2
<1>4. Fronts(pieces) = CHOOSE g : g = [n \in 0..N |-> Value(g, n)]
  BY DEF Fronts, Join, N
<1>5. Concat(pieces) = Fronts(pieces)[N]
  BY Zenon DEF Fronts, Concat, N
<1> HIDE DEF Value
<1>6. Fronts(pieces) = [n \in 0..N |-> Value(Fronts(pieces), n)]
  BY <1>3, <1>4
<1>7. \A n \in 0..N : Fronts(pieces)[n] = Value(Fronts(pieces), n)
  BY <1>6
<1>8. \A n \in 1..N : Fronts(pieces)[n] = Join(Fronts(pieces)[n - 1], n)
  <2> SUFFICES ASSUME NEW n \in 1..N
               PROVE  Fronts(pieces)[n] = Join(Fronts(pieces)[n - 1], n)
    OBVIOUS
  <2>1. n \in 0..N /\ n # 0
    BY <1>1
  <2> QED
    BY <1>7, <2>1 DEF Value
<1>9. Fronts(pieces)[0] = <<>>
  BY <1>1, <1>7 DEF Value
<1> QED
  BY <1>5, <1>8, <1>9 DEF Join, N

\* What the pieces hold is what they hold together.
LEMMA ConcatLists ==
  ASSUME NEW T, NEW pieces \in Seq(Seq(T))
  PROVE  /\ Concat(pieces) \in Seq(T)
         /\ \A k \in DOMAIN Concat(pieces) : \E n \in DOMAIN pieces :
              \E j \in DOMAIN pieces[n] : Concat(pieces)[k] = pieces[n][j]
         /\ \A n \in DOMAIN pieces : \A j \in DOMAIN pieces[n] :
              \E k \in DOMAIN Concat(pieces) : Concat(pieces)[k] = pieces[n][j]
<1> DEFINE N == Len(pieces)
           F == Fronts(pieces)
           Holds(n) ==
             /\ F[n] \in Seq(T)
             /\ \A k \in DOMAIN F[n] : \E m \in 1..n :
                  \E j \in DOMAIN pieces[m] : F[n][k] = pieces[m][j]
             /\ \A m \in 1..n : \A j \in DOMAIN pieces[m] :
                  \E k \in DOMAIN F[n] : F[n][k] = pieces[m][j]
           Wrong == {n \in Nat : n <= N /\ ~Holds(n)}
<1>1. /\ N \in Nat /\ DOMAIN pieces = 1..N
      /\ \A n \in 1..N : pieces[n] \in Seq(T)
  BY LenProperties
<1>2. /\ Concat(pieces) = F[N] /\ F[0] = <<>>
      /\ \A n \in 1..N : F[n] = F[n - 1] \o pieces[n]
  BY FrontsRecur
<1> HIDE DEF F, N
<1>3. Holds(0)
  BY <1>2
<1>4. ASSUME NEW n \in 1..N, Holds(n - 1) PROVE Holds(n)
  <2> DEFINE a == F[n - 1]
             b == pieces[n]
             ab == a \o b
  <2>1. a \in Seq(T) /\ b \in Seq(T)
    BY <1>1, <1>4
  <2>2. /\ ab \in Seq(T)
        /\ \A k \in DOMAIN ab : \/ k \in DOMAIN a /\ ab[k] = a[k]
                                \/ \E j \in DOMAIN b : ab[k] = b[j]
        /\ \A k \in DOMAIN a : k \in DOMAIN ab /\ ab[k] = a[k]
        /\ \A j \in DOMAIN b : \E k \in DOMAIN ab : ab[k] = b[j]
    <3> HIDE DEF a, b
    <3>1. /\ a \o b \in Seq(T)
          /\ \A k \in DOMAIN (a \o b) :
               \/ k \in DOMAIN a /\ (a \o b)[k] = a[k]
               \/ \E j \in DOMAIN b : k = Len(a) + j /\ (a \o b)[k] = b[j]
          /\ \A k \in DOMAIN a : k \in DOMAIN (a \o b) /\ (a \o b)[k] = a[k]
          /\ \A j \in DOMAIN b : /\ Len(a) + j \in DOMAIN (a \o b)
                                 /\ (a \o b)[Len(a) + j] = b[j]
      BY <2>1, Joined
    <3> HIDE DEF ab
    <3> QED
      BY <3>1 DEF ab
  <2>3. F[n] = ab
    BY <1>2
  <2>4. /\ \A m \in 1..n : m \in 1..(n - 1) \/ m = n
        /\ \A m \in 1..(n - 1) : m \in 1..n
        /\ n \in 1..n
    BY <1>1
  <2> HIDE DEF ab
  <2>5. \A k \in DOMAIN a : \E m \in 1..(n - 1) :
          \E j \in DOMAIN pieces[m] : a[k] = pieces[m][j]
    BY <1>4
  <2>6. \A m \in 1..(n - 1) : \A j \in DOMAIN pieces[m] :
          \E k \in DOMAIN a : a[k] = pieces[m][j]
    BY <1>4
  <2> HIDE DEF a, Holds
  <2>7. \A k \in DOMAIN ab : \E m \in 1..n :
          \E j \in DOMAIN pieces[m] : ab[k] = pieces[m][j]
    <3> SUFFICES ASSUME NEW k \in DOMAIN ab
                 PROVE  \E m \in 1..n : \E j \in DOMAIN pieces[m] : ab[k] = pieces[m][j]
      OBVIOUS
    <3>1. CASE k \in DOMAIN a /\ ab[k] = a[k]
      BY <2>4, <2>5, <3>1
    <3>2. CASE \E j \in DOMAIN b : ab[k] = b[j]
      BY <2>4, <3>2
    <3> QED
      BY <2>2, <3>1, <3>2
  <2>8. \A m \in 1..n : \A j \in DOMAIN pieces[m] :
          \E k \in DOMAIN ab : ab[k] = pieces[m][j]
    <3> SUFFICES ASSUME NEW m \in 1..n, NEW j \in DOMAIN pieces[m]
                 PROVE  \E k \in DOMAIN ab : ab[k] = pieces[m][j]
      OBVIOUS
    <3>1. CASE m = n
      BY <2>2, <3>1
    <3>2. CASE m \in 1..(n - 1)
      <4>1. PICK k \in DOMAIN a : a[k] = pieces[m][j]
        BY <2>6, <3>2
      <4> QED
        BY <2>2, <4>1
    <3> QED
      BY <2>4, <3>1, <3>2
  <2> QED
    BY <2>2, <2>3, <2>7, <2>8 DEF Holds
<1>5. Wrong = {}
  <2> HIDE DEF Holds
  <2>1. SUFFICES ASSUME Wrong # {} PROVE FALSE
    OBVIOUS
  <2>2. PICK d \in Wrong : \A y \in Wrong : ~ (<<y, d>> \in OpToRel(<, Nat))
    BY <2>1, WFMin, NatLessThanWellFounded
  <2>3. d \in Nat /\ d <= N /\ ~Holds(d) /\ \A y \in Wrong : ~ (y < d)
    BY <2>2 DEF OpToRel
  <2>4. d # 0
    BY <1>3, <2>3
  <2>5. d \in 1..N /\ d - 1 \in Nat /\ d - 1 <= N /\ d - 1 < d
    BY <1>1, <2>3, <2>4
  <2>6. Holds(d - 1)
    BY <2>3, <2>5
  <2> QED
    BY <1>4, <2>3, <2>5, <2>6
<1>6. N \notin Wrong /\ N <= N
  <2>1. N \notin Wrong
    <3> HIDE DEF Wrong
    <3> QED
      BY <1>5
  <2> QED
    BY <1>1, <2>1
<1>7. Holds(N)
  <2> HIDE DEF Holds
  <2> QED
    BY <1>1, <1>6
<1>8. /\ F[N] \in Seq(T)
      /\ \A k \in DOMAIN F[N] : \E m \in 1..N :
           \E j \in DOMAIN pieces[m] : F[N][k] = pieces[m][j]
      /\ \A m \in 1..N : \A j \in DOMAIN pieces[m] :
           \E k \in DOMAIN F[N] : F[N][k] = pieces[m][j]
  BY <1>7
<1> DEFINE all == Concat(pieces)
<1>9. F[N] = all /\ DOMAIN pieces = 1..N
  BY <1>1, <1>2
<1> HIDE DEF all
<1>10. all \in Seq(T)
  BY <1>8, <1>9
<1>11. ASSUME NEW k \in DOMAIN all
       PROVE  \E m \in DOMAIN pieces : \E j \in DOMAIN pieces[m] : all[k] = pieces[m][j]
  <2>1. \E m \in 1..N : \E j \in DOMAIN pieces[m] : F[N][k] = pieces[m][j]
    BY <1>8, <1>9
  <2> QED
    BY <1>9, <2>1
<1>12. ASSUME NEW m \in DOMAIN pieces, NEW j \in DOMAIN pieces[m]
       PROVE  \E k \in DOMAIN all : all[k] = pieces[m][j]
  <2>1. \E k \in DOMAIN F[N] : F[N][k] = pieces[m][j]
    BY <1>8, <1>9
  <2> QED
    BY <1>9, <2>1
<1> QED
  BY <1>10, <1>11, <1>12 DEF all

\* Reports are made at most once for c if one piece makes one at most.
LEMMA ConcatOnce ==
  ASSUME NEW T, NEW pieces \in Seq(Seq(T)), NEW c,
         \A n \in DOMAIN pieces : AtMostOnce(pieces[n], c),
         \A m, n \in DOMAIN pieces :
           \A i \in DOMAIN pieces[m], j \in DOMAIN pieces[n] :
             pieces[m][i][2] = c /\ pieces[n][j][2] = c => m = n
  PROVE  AtMostOnce(Concat(pieces), c)
<1> DEFINE N == Len(pieces)
           F == Fronts(pieces)
           Mentions(n) == \E i \in DOMAIN pieces[n] : pieces[n][i][2] = c
           Holds(n) ==
             /\ F[n] \in Seq(T)
             /\ AtMostOnce(F[n], c)
             /\ (\E k \in DOMAIN F[n] : F[n][k][2] = c) => \E m \in 1..n : Mentions(m)
           Wrong == {n \in Nat : n <= N /\ ~Holds(n)}
<1>1. /\ N \in Nat /\ DOMAIN pieces = 1..N
      /\ \A n \in 1..N : pieces[n] \in Seq(T)
  BY LenProperties
<1>2. /\ Concat(pieces) = F[N] /\ F[0] = <<>>
      /\ \A n \in 1..N : F[n] = F[n - 1] \o pieces[n]
  BY FrontsRecur
<1>3. /\ \A n \in 1..N : AtMostOnce(pieces[n], c)
      /\ \A m, n \in 1..N : Mentions(m) /\ Mentions(n) => m = n
  BY <1>1
<1> HIDE DEF F, N
<1>4. Holds(0)
  BY <1>2 DEF AtMostOnce
<1>5. ASSUME NEW n \in 1..N, Holds(n - 1) PROVE Holds(n)
  <2> DEFINE a == F[n - 1]
             b == pieces[n]
             ab == a \o b
  <2>1. a \in Seq(T) /\ b \in Seq(T)
    BY <1>1, <1>5
  <2>2. /\ ab \in Seq(T)
        /\ \A k \in DOMAIN ab : \/ k \in DOMAIN a /\ ab[k] = a[k]
                                \/ \E j \in DOMAIN b : k = Len(a) + j /\ ab[k] = b[j]
    <3> HIDE DEF a, b
    <3> QED
      BY <2>1, Joined
  <2>3. F[n] = ab
    BY <1>2
  <2>4. /\ \A m \in 1..(n - 1) : m \in 1..n /\ m \in 1..N /\ m # n
        /\ n \in 1..n
    BY <1>1
  <2>5. (\E k \in DOMAIN a : a[k][2] = c) => \E m \in 1..(n - 1) : Mentions(m)
    BY <1>5
  <2>6. Mentions(n) => \A k \in DOMAIN a : a[k][2] # c
    <3> HIDE DEF Mentions, a
    <3> QED
      BY <1>3, <2>4, <2>5
  <2>7. AtMostOnce(a, c) /\ AtMostOnce(b, c)
    BY <1>3, <1>5
  <2>8. (\A k \in DOMAIN a : a[k][2] # c) \/ (\A k \in DOMAIN b : b[k][2] # c)
    BY <2>6
  <2>9. AtMostOnce(ab, c)
    <3> HIDE DEF a, b
    <3> QED
      BY <2>1, <2>7, <2>8, JoinedOnce
  <2> HIDE DEF ab
  <2>10. ASSUME NEW k \in DOMAIN ab, ab[k][2] = c PROVE \E m \in 1..n : Mentions(m)
    <3>1. CASE k \in DOMAIN a /\ ab[k] = a[k]
      <4> HIDE DEF Mentions, a
      <4> QED
        BY <2>4, <2>5, <2>10, <3>1
    <3>2. CASE \E j \in DOMAIN b : k = Len(a) + j /\ ab[k] = b[j]
      BY <2>4, <2>10, <3>2
    <3> QED
      BY <2>2, <3>1, <3>2
  <2> HIDE DEF Mentions
  <2> QED
    BY <2>2, <2>3, <2>9, <2>10
<1>6. Wrong = {}
  <2> HIDE DEF Holds
  <2>1. SUFFICES ASSUME Wrong # {} PROVE FALSE
    OBVIOUS
  <2>2. PICK d \in Wrong : \A y \in Wrong : ~ (<<y, d>> \in OpToRel(<, Nat))
    BY <2>1, WFMin, NatLessThanWellFounded
  <2>3. d \in Nat /\ d <= N /\ ~Holds(d) /\ \A y \in Wrong : ~ (y < d)
    BY <2>2 DEF OpToRel
  <2>4. d # 0
    BY <1>4, <2>3
  <2>5. d \in 1..N /\ d - 1 \in Nat /\ d - 1 <= N /\ d - 1 < d
    BY <1>1, <2>3, <2>4
  <2>6. Holds(d - 1)
    BY <2>3, <2>5
  <2> QED
    BY <1>5, <2>3, <2>5, <2>6
<1>7. N \notin Wrong /\ N <= N
  <2>1. N \notin Wrong
    <3> HIDE DEF Wrong
    <3> QED
      BY <1>6
  <2> QED
    BY <1>1, <2>1
<1>8. Holds(N)
  <2> HIDE DEF Holds
  <2> QED
    BY <1>1, <1>7
<1> QED
  BY <1>2, <1>8

-----------------------------------------------------------------------------
(***************************************************************************)
(* Counting calls, listing issues and naming arguments.                    *)
(***************************************************************************)
StandsFor(cls, K, S) ==
  /\ \A k \in K : cls[k].node \in S
  /\ \A m \in S : \E k \in K : cls[k].node = m

\* As many places in the list of calls as nodes they stand for.
LEMMA CountedOnce ==
  ASSUME NEW n \in Nat, NEW cls \in Seq(Visits), Once(cls),
         NEW S \in SUBSET (1..n), NEW K \in SUBSET DOMAIN cls,
         StandsFor(cls, K, S)
  PROVE  Cardinality(K) = Cardinality(S) /\ Cardinality(S) \in 0..n
<1> DEFINE f == [k \in K |-> cls[k].node]
<1>1. f \in [K -> S]
  BY DEF StandsFor
<1>2. \A j, k \in K : f[j] = f[k] => j = k
  BY DEF Once
<1>3. \A m \in S : \E k \in K : f[k] = m
  BY DEF StandsFor
<1>4. f \in Bijection(K, S)
  <2> HIDE DEF f
  <2>1. f \in Injection(K, S)
    BY <1>1, <1>2 DEF Injection, IsInjective
  <2>2. f \in Surjection(K, S)
    BY <1>1, <1>3 DEF Surjection
  <2> QED
    BY <2>1, <2>2 DEF Bijection
<1>5. IsFiniteSet(K)
  <2>1. Len(cls) \in Nat /\ DOMAIN cls = 1..Len(cls)
    BY LenProperties
  <2>2. IsFiniteSet(1..Len(cls))
    BY <2>1, FS_Interval
  <2> QED
    BY <2>1, <2>2, FS_Subset
<1>6. Cardinality(K) = Cardinality(S)
  BY <1>4, <1>5, FS_Bijection DEF ExistsBijection
<1>7. IsFiniteSet(1..n) /\ Cardinality(1..n) = n
  BY FS_Interval
<1>8. IsFiniteSet(S) /\ Cardinality(S) <= n
  BY <1>7, FS_Subset
<1>9. Cardinality(S) \in Nat
  BY <1>8, FS_CardinalityType
<1> QED
  BY <1>6, <1>8, <1>9

\* The rules on sorts.
SortNames ==
  {"requires_const", "requires_udt", "argument_type", "unknown_field", "not_sortable"}

Rules ==
  SortNames \cup {"dynamic_request", "exit_action", "function_parameter",
                  "method_receiver", "method_parameter", "variable_const",
                  "const_version"}

Issues == Rules \X Nat

FoundIn(cls, K, rule) ==
  [k \in DOMAIN InOrder(K) |-> <<rule, cls[InOrder(K)[k]].node>>]

\* The issues of a rule are those of the calls it holds of.
LEMMA FoundLists ==
  ASSUME NEW cls \in Seq(Visits), NEW K \in SUBSET DOMAIN cls, NEW rule \in Rules
  PROVE  LET s == FoundIn(cls, K, rule)
         IN /\ s \in Seq(Issues)
            /\ \A k \in DOMAIN s : \E j \in K : s[k] = <<rule, cls[j].node>>
            /\ \A j \in K : \E k \in DOMAIN s : s[k] = <<rule, cls[j].node>>
<1> DEFINE found == InOrder(K)
           Issue(k) == <<rule, cls[found[k]].node>>
           s == [k \in DOMAIN found |-> Issue(k)]
<1>1. Len(cls) \in Nat /\ DOMAIN cls = 1..Len(cls)
  BY LenProperties
<1>2. K \in SUBSET (1..Len(cls))
  BY <1>1
<1>3. /\ Cardinality(K) \in 0..Len(cls)
      /\ DOMAIN found = 1..Cardinality(K)
      /\ \A k \in DOMAIN found : found[k] \in K
      /\ \A m \in K : \E k \in DOMAIN found : found[k] = m
  BY <1>1, <1>2, InOrderLists
<1>4. Cardinality(K) \in Nat
  BY <1>1, <1>3
<1> HIDE DEF found
<1>5. \A j \in K : cls[j].node \in Nat
  <2>1. \A j \in DOMAIN cls : cls[j] \in Visits
    BY LenProperties
  <2> QED
    BY <2>1 DEF Visits
<1>6. \A k \in DOMAIN found : Issue(k) \in Issues
  BY <1>3, <1>5 DEF Issues
<1>7. DOMAIN s = DOMAIN found /\ \A k \in DOMAIN found : s[k] = <<rule, cls[found[k]].node>>
  OBVIOUS
<1>8. s \in [1..Cardinality(K) -> Issues]
  BY <1>3, <1>6
<1> HIDE DEF s
<1>9. s \in Seq(Issues)
  BY <1>4, <1>8
<1>10. \A k \in DOMAIN s : \E j \in K : s[k] = <<rule, cls[j].node>>
  BY <1>3, <1>7
<1>11. \A j \in K : \E k \in DOMAIN s : s[k] = <<rule, cls[j].node>>
  BY <1>3, <1>7
<1>12. s = FoundIn(cls, K, rule)
  BY DEF s, found, FoundIn
<1> QED
  BY <1>9, <1>10, <1>11, <1>12

\* The name the report gives an argument.
NameFor(args, params, i) == StaticNames(args, AsParams(params))[i]

\* Arguments of which the named ones come last have the same name for the
\* report and for the contract.
LEMMA NamesAgree ==
  ASSUME NEW args \in Seq(Argument), Accepted(args), NEW params \in Seq(STRING),
         NEW i \in DOMAIN args
  PROVE  BoundName(args, params, i) = NameFor(args, params, i)
<1> DEFINE ps == AsParams(params)
<1>1. Len(args) \in Nat /\ DOMAIN args = 1..Len(args)
  BY LenProperties
<1>2. Len(params) \in Nat /\ DOMAIN params = 1..Len(params)
  BY LenProperties
<1>3. /\ DOMAIN ps = 1..Len(params) /\ Len(ps) = Len(params)
      /\ \A k \in DOMAIN params : ps[k].name = params[k]
  <2> DEFINE n == Len(params)
             Parameters == [name : STRING]
  <2>1. ps = [k \in 1..n |-> [name |-> params[k]]]
    BY <1>2 DEF AsParams
  <2>2. ps \in [1..n -> Parameters] /\ n \in Nat
    BY <1>2, <2>1
  <2> HIDE DEF ps, n, Parameters
  <2>3. ps \in Seq(Parameters)
    BY <2>2
  <2>4. DOMAIN ps = 1..Len(ps) /\ Len(ps) \in Nat
    BY <2>3, LenProperties
  <2>5. DOMAIN ps = 1..n
    BY <2>2
  <2>6. (Len(ps) \in 1..Len(ps) <=> Len(ps) \in 1..n)
        /\ (n \in 1..Len(ps) <=> n \in 1..n)
    BY <2>4, <2>5
  <2>7. Len(ps) = n
    BY <2>2, <2>4, <2>6
  <2> QED
    BY <1>2, <2>1, <2>5, <2>7 DEF n
<1>4. NameFor(args, params, i) =
        IF i \in Named(args) THEN args[i].name
        ELSE IF RankParameter(args, ps, i) = 0 THEN NoName
        ELSE ps[RankParameter(args, ps, i)].name
  BY DEF NameFor, StaticNames
<1>5. BoundName(args, params, i) =
        IF PlaceParameter(args, ps, i) # 0 THEN params[PlaceParameter(args, ps, i)]
        ELSE args[i].name
  BY DEF BoundName
<1> HIDE DEF ps
<1>6. CASE i \in Named(args)
  <2>1. PlaceParameter(args, ps, i) = ByName(ps, args[i].name)
    BY <1>6 DEF PlaceParameter
  <2>2. ASSUME ByName(ps, args[i].name) # 0
        PROVE  params[ByName(ps, args[i].name)] = args[i].name
    <3> DEFINE First(k) == /\ ps[k].name = args[i].name
                           /\ \A j \in 1..(k - 1) : ps[j].name # args[i].name
    <3>1. args[i].name \in NamesOf(ps)
          /\ ByName(ps, args[i].name) = CHOOSE k \in DOMAIN ps : First(k)
      BY <2>2 DEF ByName
    <3>2. \E k \in DOMAIN ps : First(k)
      <4> DEFINE Some == {k \in Nat : k \in DOMAIN ps /\ ps[k].name = args[i].name}
      <4>1. Some # {}
        BY <1>2, <1>3, <3>1 DEF NamesOf
      <4>2. PICK k \in Some : \A y \in Some : ~ (<<y, k>> \in OpToRel(<, Nat))
        BY <4>1, WFMin, NatLessThanWellFounded
      <4>3. /\ k \in Nat /\ k \in DOMAIN ps /\ ps[k].name = args[i].name
            /\ \A y \in Some : ~ (y < k)
        BY <4>2 DEF OpToRel
      <4>4. \A j \in 1..(k - 1) : j \in DOMAIN ps /\ j \in Nat /\ j < k
        BY <1>2, <1>3, <4>3
      <4> QED
        BY <4>3, <4>4
    <3> HIDE DEF First
    <3>3. ByName(ps, args[i].name) \in DOMAIN ps /\ First(ByName(ps, args[i].name))
      BY <3>1, <3>2
    <3>4. ps[ByName(ps, args[i].name)].name = args[i].name
      BY <3>3 DEF First
    <3> QED
      BY <1>2, <1>3, <3>3, <3>4
  <2> QED
    BY <1>4, <1>5, <1>6, <2>1, <2>2
<1>7. CASE i \notin Named(args)
  <2>1. \A j \in 1..i : j \in DOMAIN args /\ j \notin Named(args)
    <3> SUFFICES ASSUME NEW j \in 1..i, j \in Named(args) PROVE FALSE
      BY <1>1
    <3>1. j \in DOMAIN args /\ (j = i \/ j < i)
      BY <1>1
    <3> QED
      BY <1>7, <3>1 DEF Accepted
  <2>2. {j \in Positional(args) : j <= i} = 1..i
    BY <1>1, <2>1 DEF Positional
  <2>3. PositionalRank(args, i) = Cardinality(1..i)
    BY <2>2, Zenon DEF PositionalRank, CountUpTo
  <2>4. Cardinality(1..i) = i
    <3>1. 1 \in Int /\ i \in Int /\ i >= 1
      BY <1>1
    <3> QED
      BY <3>1, FS_Interval
  <2>5. PositionalRank(args, i) = i
    BY <2>3, <2>4
  <2>6. /\ RankParameter(args, ps, i) = IF i <= Len(params) THEN i ELSE 0
        /\ PlaceParameter(args, ps, i) = IF i <= Len(params) THEN i ELSE 0
    BY <1>3, <1>7, <2>5 DEF RankParameter, PlaceParameter
  <2>7. args[i].name = NoName
    BY <1>1, <1>7 DEF Named
  <2>8. i \in Nat /\ i # 0 /\ (i <= Len(params) => i \in DOMAIN params)
    BY <1>1, <1>2
  <2> QED
    BY <1>3, <1>4, <1>5, <1>7, <2>6, <2>7, <2>8
<1> QED
  BY <1>6, <1>7

-----------------------------------------------------------------------------
(***************************************************************************)
(* Loops and sorts, one at a time.                                         *)
(***************************************************************************)
\* A loop that reaches its end counts the multiples of its step.
LEMMA IterationsCounted ==
  ASSUME NEW l \in [start : Bound, end : Bound, step : Bound],
         StaticIterations(l) > 0
  PROVE  StaticIterations(l) = Cardinality(Values(l))
<1> DEFINE d == l.end.value - l.start.value
           D == Magnitude(d)
           S == Magnitude(l.step.value)
<1>1. d \in Int /\ l.step.value \in Int
  BY DEF Bound
<1>2. /\ Readable(l.start) /\ Readable(l.end) /\ Readable(l.step)
      /\ l.step.value # 0
      /\ StaticIterations(l) = IF d = 0 THEN 1 ELSE D \div S + 1
  BY DEF StaticIterations, NoCount
<1>3. D \in Nat /\ S \in Nat /\ S > 0 /\ (d = 0 => D = 0)
  BY <1>1, <1>2 DEF Magnitude
<1>4. Values(l) = {k \in 0..D : S * k <= D}
  BY DEF Values
<1> HIDE DEF D, S, d
<1> DEFINE q == D \div S
           r == D % S
<1>5. q \in Nat /\ r \in Nat /\ r < S /\ D = S * q + r
  BY <1>3
<1> HIDE DEF q, r
<1>6. {k \in 0..D : S * k <= D} = 0..q
  <2>1. ASSUME NEW k \in Nat, k <= q PROVE k <= D /\ S * k <= D
    <3>1. S * k <= S * q
      BY <1>3, <1>5, <2>1
    <3>2. k <= S * k
      BY <1>3
    <3>3. S * k \in Nat /\ S * q \in Nat
      BY <1>3, <1>5
    <3> QED
      BY <1>3, <1>5, <3>1, <3>2, <3>3
  <2>2. ASSUME NEW k \in Nat, ~(k <= q) PROVE ~(S * k <= D)
    <3>1. q + 1 <= k
      BY <1>5, <2>2
    <3>2. S * (q + 1) <= S * k
      BY <1>3, <1>5, <3>1
    <3>3. S * (q + 1) = S * q + S
      BY <1>3, <1>5
    <3>4. S * k \in Nat /\ S * q \in Nat /\ S * (q + 1) \in Nat
      BY <1>3, <1>5
    <3> QED
      BY <1>3, <1>5, <3>2, <3>3, <3>4
  <2> QED
    BY <1>3, <1>5, <2>1, <2>2
<1>7. Cardinality(0..q) = q + 1
  <2>1. 0 \in Int /\ q \in Int /\ ~(0 > q)
    BY <1>5
  <2>2. Cardinality(0..q) = IF 0 > q THEN 0 ELSE q - 0 + 1
    BY <2>1, FS_Interval
  <2> QED
    BY <2>1, <2>2
<1>8. d = 0 => q = 0
  <2>1. CASE d = 0
    <3>1. D = 0
      BY <1>3, <2>1
    <3>2. q = 0 \div S
      BY <3>1 DEF q
    <3> QED
      BY <1>3, <3>2
  <2> QED
    BY <2>1
<1>9. Cardinality(Values(l)) = q + 1
  BY <1>4, <1>6, <1>7
<1>10. StaticIterations(l) = q + 1
  BY <1>2, <1>5, <1>8 DEF q
<1> QED
  BY <1>5, <1>9, <1>10 DEF q

\* The rules on sorts make lists of names of rules.
LEMMA SortRulesListed ==
  ASSUME NEW call
  PROVE  /\ SortRules(call) \in Seq(SortNames)
         /\ DOMAIN SortRules(call) = 1..Len(SortRules(call))
         /\ Len(SortRules(call)) \in Nat
         /\ \A k \in DOMAIN SortRules(call) : SortRules(call)[k] \in SortNames
<1> DEFINE s == call.selector
           constant == IF s.form # "none" /\ s.qual # "const"
                       THEN <<"requires_const">> ELSE <<>>
<1>1. /\ "requires_const" \in SortNames /\ "requires_udt" \in SortNames
      /\ "argument_type" \in SortNames /\ "unknown_field" \in SortNames
      /\ "not_sortable" \in SortNames
  BY DEF SortNames
<1>2. /\ <<"requires_const">> \in Seq(SortNames) /\ <<"requires_udt">> \in Seq(SortNames)
      /\ <<>> \in Seq(SortNames)
  BY <1>1
<1>3. constant \in Seq(SortNames)
  BY <1>2
<1> HIDE DEF constant
<1>4. /\ Append(constant, "argument_type") \in Seq(SortNames)
      /\ Append(constant, "unknown_field") \in Seq(SortNames)
      /\ Append(constant, "not_sortable") \in Seq(SortNames)
  BY <1>1, <1>3, AppendProperties
<1>5. SortRules(call) \in Seq(SortNames)
  BY <1>2, <1>3, <1>4 DEF SortRules, constant
<1> QED
  BY <1>5, LenProperties

\* Without a known element or with another expression nothing is promised;
\* otherwise the rules report a sort unless its selector stands for one field.
LEMMA SortAccepts ==
  ASSUME NEW call, call.element \in DOMAIN Fields, IsSelector(call.selector),
         call.selector.form # "other"
  PROVE  LET fields == Fields[call.element]
             chosen == Selected(fields, call.selector)
         IN /\ Len(SortRules(call)) <= 1
            /\ SortRules(call) = <<>> <=>
                 \E k \in chosen : fields[k].type \in Sortable /\ chosen = {k}
<1> DEFINE s == call.selector
           fields == Fields[call.element]
           chosen == Selected(fields, s)
           taken == SortField(fields, s)
<1>1. /\ Len(fields) \in Nat /\ DOMAIN fields = 1..Len(fields)
      /\ \A i, j \in DOMAIN fields : fields[i].name = fields[j].name => i = j
  <2>1. fields \in Seq([name : STRING, type : STRING])
    BY FieldsAssumption
  <2> QED
    BY <2>1, FieldsAssumption, LenProperties
<1>2. \/ s.form = "none"
      \/ s.form = "name" /\ s.qual = "const" /\ s.type = "string"
      \/ s.form = "index" /\ s.qual = "const" /\ s.type = "int" /\ s.index \in Int
  BY DEF IsSelector
<1>3. taken = chosen
  <2>1. CASE s.form = "none"
    <3>1. taken = {1} \cap DOMAIN fields
      BY <2>1 DEF SortField
    <3>2. chosen = {k \in DOMAIN fields : \A j \in DOMAIN fields : k <= j}
      BY <2>1 DEF Selected
    <3>3. \A k \in DOMAIN fields : 1 \in DOMAIN fields /\ k \in Nat /\ 1 <= k
      BY <1>1
    <3>4. \A k : k \in taken <=> k \in chosen
      BY <3>1, <3>2, <3>3
    <3> QED
      BY <3>4
  <2>2. CASE s.form = "name"
    BY <2>2 DEF SortField, Selected
  <2>3. CASE s.form = "index"
    <3>1. taken = {s.index + 1} \cap DOMAIN fields
      BY <2>3 DEF SortField
    <3>2. chosen = {k \in DOMAIN fields : Cardinality(1..(k - 1)) = s.index}
      BY <2>3 DEF Selected
    <3>3. ASSUME NEW k \in DOMAIN fields
          PROVE  Cardinality(1..(k - 1)) = k - 1 /\ k \in Nat
      <4>1. k \in Nat /\ k >= 1 /\ 1 \in Int /\ k - 1 \in Int
        BY <1>1
      <4>2. Cardinality(1..(k - 1)) = IF 1 > k - 1 THEN 0 ELSE (k - 1) - 1 + 1
        BY <4>1, FS_Interval
      <4> QED
        BY <4>1, <4>2
    <3>4. \A k \in DOMAIN fields : k - 1 = s.index <=> k = s.index + 1
      BY <1>2, <2>3, <3>3
    <3>5. \A k : k \in taken <=> k \in chosen
      BY <3>1, <3>2, <3>3, <3>4
    <3> QED
      BY <3>5
  <2> QED
    BY <1>2, <2>1, <2>2, <2>3
<1>4. \A j, k \in chosen : j = k
  <2>1. CASE s.form = "none"
    <3>1. \A k \in chosen : k \in Nat /\ \A j \in chosen : k <= j
      BY <1>1, <2>1 DEF Selected
    <3> QED
      BY <3>1
  <2>2. CASE s.form = "name"
    BY <1>1, <2>2 DEF Selected
  <2>3. CASE s.form = "index"
    BY <1>3, <2>3 DEF SortField
  <2> QED
    BY <1>2, <2>1, <2>2, <2>3
<1>5. chosen \subseteq DOMAIN fields
  BY DEF Selected
<1>6. SortRules(call) =
        IF taken = {} THEN Append(<<>>, "unknown_field")
        ELSE LET k == CHOOSE k \in taken : \A j \in taken : k <= j
             IN IF fields[k].type \in Sortable THEN <<>>
                ELSE Append(<<>>, "not_sortable")
  BY <1>2 DEF SortRules
<1>7. Append(<<>>, "unknown_field") = <<"unknown_field">>
      /\ Append(<<>>, "not_sortable") = <<"not_sortable">>
  OBVIOUS
<1> HIDE DEF chosen, taken, fields
<1>8. CASE chosen = {}
  <2>1. SortRules(call) = <<"unknown_field">>
    BY <1>3, <1>6, <1>7, <1>8
  <2>2. Len(SortRules(call)) <= 1 /\ SortRules(call) # <<>>
    BY <2>1
  <2> QED
    BY <1>8, <2>2 DEF chosen, fields
<1>9. CASE chosen # {}
  <2>1. PICK k : k \in chosen
    BY <1>9
  <2>2. chosen = {k}
    BY <1>4, <2>1
  <2>3. k \in Nat
    BY <1>1, <1>5, <2>1
  <2>4. (CHOOSE i \in taken : \A j \in taken : i <= j) = k
    <3>1. \E i \in taken : \A j \in taken : i <= j
      BY <1>3, <2>2, <2>3
    <3>2. (CHOOSE i \in taken : \A j \in taken : i <= j) \in taken
      BY <3>1
    <3> QED
      BY <1>3, <2>2, <3>2
  <2>5. SortRules(call) = IF fields[k].type \in Sortable THEN <<>>
                          ELSE <<"not_sortable">>
    BY <1>3, <1>6, <1>7, <1>9, <2>4
  <2>6. /\ Len(SortRules(call)) <= 1
        /\ SortRules(call) = <<>> <=> fields[k].type \in Sortable
    <3>1. Len(<<>>) <= 1 /\ Len(<<"not_sortable">>) <= 1 /\ <<"not_sortable">> # <<>>
      OBVIOUS
    <3> QED
      BY <2>5, <3>1
  <2>7. (\E i \in chosen : fields[i].type \in Sortable /\ chosen = {i})
          <=> fields[k].type \in Sortable
    BY <2>2
  <2> QED
    BY <2>6, <2>7 DEF chosen, fields
<1> QED
  BY <1>8, <1>9

-----------------------------------------------------------------------------
(***************************************************************************)
(* The invariant.                                                          *)
(***************************************************************************)
Stages == {"parse", "walk", "requests", "exits", "exports", "sorts",
           "extract_requests", "extract_strategy", "extract_control_flow", "done"}

ProgramOK(prog) ==
  /\ Tree(prog)
  /\ Len(prog) \in 1..MaxNodes
  /\ \E T : prog \in Seq(T)
  /\ \A n \in DOMAIN prog : (n = 1 <=> prog[n].parent = 0) /\ IsNode(prog[n])

CallsTo(prog, names) ==
  {n \in DOMAIN prog : prog[n].kind = "call" /\ prog[n].body.callee \in names}

ParsedOK ==
  /\ script \in {"library", "strategy"}
  /\ Len(dynamic) <= 1 => dynamic = <<>> \/ DOMAIN dynamic = {1}
  /\ ProgramOK(program)
  /\ pc \in Stages

WalkOK ==
  /\ stack \in Seq(Visits)
  /\ calls \in Seq(Visits)
  /\ pc = "parse" => stack = <<>> /\ calls = <<>>
  /\ pc \notin {"parse", "walk"} => stack = <<>>
  /\ pc # "parse" => Walking(program, stack, calls)

CountsOK ==
  /\ DOMAIN counts = {"requests", "exits", "exported", "sorts"}
  /\ \A f \in DOMAIN counts : counts[f] \in 0..MaxNodes
  /\ pc \notin {"parse", "walk"} =>
       /\ counts.requests = Cardinality(CallsTo(program, Requests))
       /\ counts.exits = Cardinality(CallsTo(program, {"strategy.exit"}))

\* What the declaration says, where it says it once at most.
MayRun(dyn) == IF dyn = <<>> \/ dyn[1] \notin {"true", "false"} THEN DynamicDefault
               ELSE dyn[1] = "true"

LocalOrSeries(prog, n) ==
  \/ IsLocal(ContextIn(prog)[n])
  \/ \E i \in DOMAIN prog[n].body.args :
       /\ prog[n].body.args[i].qual = "series"
       /\ NameFor(prog[n].body.args, Signatures[prog[n].body.callee], i)
            \in ContextParameters

NotRun(prog, dyn, n) ==
  n \in CallsTo(prog, Requests) /\ LocalOrSeries(prog, n) /\ ~MayRun(dyn)

Lists(iss, rule, n) == \E k \in DOMAIN iss : iss[k] = <<rule, n>>

RequestsReported(prog, dyn, iss) ==
  Len(dyn) <= 1 => \A n \in DOMAIN prog :
                     Lists(iss, "dynamic_request", n) <=> NotRun(prog, dyn, n)

ExitsReported(prog, iss) ==
  \A n \in DOMAIN prog :
    Lists(iss, "exit_action", n) => n \in CallsTo(prog, {"strategy.exit"})

\* No issue is about a sort, ...
NoSorts(prog, iss) ==
  \A k \in DOMAIN iss : iss[k][2] \notin CallsTo(prog, {"sort"})

\* ... or the issues about a sort are those its rules make.
SortsReported(prog, iss) ==
  \A c \in CallsTo(prog, {"sort"}) :
    /\ (\E k \in DOMAIN iss : iss[k][2] = c) <=> SortRules(prog[c].body) # <<>>
    /\ Len(SortRules(prog[c].body)) <= 1 => AtMostOnce(iss, c)

IssuesOK ==
  /\ issues \in Seq(Issues)
  /\ \A k \in DOMAIN issues : issues[k][2] \in DOMAIN program
  /\ pc \in {"parse", "walk", "requests"} => issues = <<>>
  /\ pc \notin {"parse", "walk", "requests"} =>
       RequestsReported(program, dynamic, issues)
  /\ ExitsReported(program, issues)
  /\ pc \in {"parse", "walk", "requests", "exits", "exports", "sorts"} =>
       NoSorts(program, issues)
  /\ pc \notin {"parse", "walk", "requests", "exits", "exports", "sorts"} =>
       SortsReported(program, issues)

RequestRowsOK(prog, dyn, requests) ==
  /\ Len(requests) = Cardinality(CallsTo(prog, Requests))
  /\ \A k \in DOMAIN requests :
       LET n == requests[k].node
       IN /\ n \in CallsTo(prog, Requests)
          /\ Len(dyn) <= 1 /\ Accepted(prog[n].body.args) =>
               (requests[k].disabled # {} <=> NotRun(prog, dyn, n))

StrategyRowsOK(prog, strategy) ==
  /\ \A k \in DOMAIN strategy : strategy[k].bucket = "exits" =>
       strategy[k].node \in CallsTo(prog, {"strategy.exit"})
  /\ \A n \in CallsTo(prog, {"strategy.exit"}) :
       \E k \in DOMAIN strategy : strategy[k].node = n /\ strategy[k].bucket = "exits"

LoopRowsOK(prog, loops) ==
  \A k \in DOMAIN loops :
    /\ loops[k].node \in DOMAIN prog
    /\ loops[k].kind = prog[loops[k].node].kind
    /\ loops[k].iterations =
         IF prog[loops[k].node].kind = "for_range"
         THEN StaticIterations(prog[loops[k].node].body) ELSE NoCount

RowsOK ==
  /\ rows = [requests |-> rows.requests, strategy |-> rows.strategy,
             loops |-> rows.loops, conditions |-> rows.conditions]
  /\ pc \in {"extract_strategy", "extract_control_flow", "done"} =>
       RequestRowsOK(program, dynamic, rows.requests)
  /\ pc \in {"extract_control_flow", "done"} => StrategyRowsOK(program, rows.strategy)
  /\ pc # "done" => rows.loops = <<>>
  /\ LoopRowsOK(program, rows.loops)

RulesInv == ParsedOK /\ WalkOK /\ CountsOK /\ IssuesOK /\ RowsOK

-----------------------------------------------------------------------------
\* The invariant holds of the program that is only its root.
LEMMA ParsingStarts == Init => RulesInv
<1> SUFFICES ASSUME Init PROVE RulesInv
  OBVIOUS
<1> USE DEF Init
<1>1. ParsedOK
  <2>1. Len(program) = 1 /\ DOMAIN program = 1..1 /\ program[1].parent = 0
        /\ program[1].kind = "program"
    OBVIOUS
  <2>2. program \in Seq({[kind |-> "program", body |-> <<>>, parent |-> 0]})
    OBVIOUS
  <2>3. Tree(program)
    BY <2>1 DEF Tree
  <2>4. ProgramOK(program)
    <3>1. \A n \in DOMAIN program : n = 1 /\ IsNode(program[n])
      BY <2>1 DEF IsNode
    <3>2. \E T : program \in Seq(T)
      BY <2>2
    <3>3. Len(program) \in 1..MaxNodes
      BY <2>1, MaxNodesAssumption
    <3> HIDE DEF Init
    <3> QED
      BY <2>1, <2>3, <3>1, <3>2, <3>3 DEF ProgramOK
  <2>5. Len(dynamic) <= 1 => dynamic = <<>> \/ DOMAIN dynamic = {1}
    <3>1. CASE dynamic = <<"series", "false">>
      <4>1. Len(<<"series", "false">>) = 2
        OBVIOUS
      <4> QED
        BY <3>1, <4>1
    <3>2. CASE dynamic \in {<<"true">>, <<"false">>, <<"series">>}
      <4>1. \A v : DOMAIN <<v>> = {1}
        OBVIOUS
      <4> QED
        BY <3>2, <4>1
    <3> QED
      BY <3>1, <3>2
  <2> QED
    BY <2>4, <2>5 DEF ParsedOK, Stages
<1>2. WalkOK
  BY DEF WalkOK
<1>3. CountsOK
  BY MaxNodesAssumption DEF CountsOK
<1>4. IssuesOK
  BY DEF IssuesOK, ExitsReported, Lists, NoSorts
<1>5. RowsOK
  BY DEF RowsOK, LoopRowsOK
<1> QED
  BY <1>1, <1>2, <1>3, <1>4, <1>5 DEF RulesInv

-----------------------------------------------------------------------------
(***************************************************************************)
(* Parsing and walking.                                                    *)
(***************************************************************************)
\* Adding a node keeps the invariant, ...
LEMMA ANodeAdded == RulesInv /\ AddNode => RulesInv'
<1> SUFFICES ASSUME RulesInv, AddNode PROVE RulesInv'
  OBVIOUS
<1>1. /\ pc = "parse" /\ pc' = pc /\ Len(program) < MaxNodes
      /\ UNCHANGED <<script, dynamic, stack, calls, counts, issues, rows>>
  BY DEF AddNode
<1>2. PICK node \in Offers(program), p \in Open :
        /\ IsNode(node)
        /\ program' = Append(program, [kind |-> node.kind, body |-> node.body,
                                       parent |-> p])
  BY Zenon DEF AddNode
<1> DEFINE new == [kind |-> node.kind, body |-> node.body, parent |-> p]
           N == Len(program)
<1>3. ProgramOK(program)
  BY DEF RulesInv, ParsedOK
<1>4. /\ N \in Nat /\ DOMAIN program = 1..N /\ N \in 1..MaxNodes /\ N < MaxNodes
      /\ \A n \in DOMAIN program : /\ program[n].parent \in 0..(n - 1)
                                   /\ n = 1 <=> program[n].parent = 0
                                   /\ IsNode(program[n])
  BY <1>1, <1>3 DEF ProgramOK, Tree
<1>5. p \in DOMAIN program
  <2>1. p \in Ancestors(program)[N]
    BY UnderIs DEF Open
  <2>2. Tree(program) /\ N \in DOMAIN program
    BY <1>3, <1>4 DEF ProgramOK
  <2> QED
    BY <2>1, <2>2, UnderEarlier
<1>6. /\ \E T : program' \in Seq(T)
      /\ Len(program') = N + 1
      /\ DOMAIN program' = 1..(N + 1)
      /\ \A n \in 1..N : program'[n] = program[n]
      /\ program'[N + 1] = new
  <2>1. PICK T : program \in Seq(T)
    BY <1>3 DEF ProgramOK
  <2> DEFINE more == T \cup {new}
  <2> HIDE DEF new
  <2>2. new \in more /\ program \in Seq(more)
    BY <2>1
  <2> HIDE DEF more
  <2>3. /\ Append(program, new) \in Seq(more)
        /\ Len(Append(program, new)) = N + 1
        /\ \A i \in 1..N : Append(program, new)[i] = program[i]
        /\ Append(program, new)[N + 1] = new
    BY <2>2, AppendProperties
  <2>4. DOMAIN Append(program, new) = 1..(N + 1)
    BY <2>3, LenProperties
  <2>5. program' = Append(program, new)
    BY <1>2 DEF new
  <2> QED
    BY <2>3, <2>4, <2>5
<1>7. new.kind = node.kind /\ new.body = node.body /\ new.parent = p
  OBVIOUS
<1> HIDE DEF new
<1>8. IsNode(new)
  BY <1>2, <1>7 DEF IsNode
<1>9. ParsedOK'
  <2> N \in Nat
    BY <1>4
  <2>1. \A n \in 1..(N + 1) : n \in 1..N \/ n = N + 1
    OBVIOUS
  <2>2. N + 1 \in 1..MaxNodes /\ N + 1 # 1
    BY <1>4, MaxNodesAssumption
  <2>3. p \in 0..((N + 1) - 1) /\ p # 0
    BY <1>4, <1>5
  <2>4. ASSUME NEW n \in DOMAIN program'
        PROVE  /\ program'[n].parent \in 0..(n - 1)
               /\ n = 1 <=> program'[n].parent = 0
               /\ IsNode(program'[n])
    <3>1. CASE n \in 1..N
      BY <1>4, <1>6, <3>1
    <3>2. CASE n = N + 1
      BY <1>6, <1>7, <1>8, <2>2, <2>3, <3>2
    <3> QED
      BY <1>6, <2>1, <3>1, <3>2
  <2>5. Tree(program')
    BY <1>6, <2>4 DEF Tree
  <2>6. ProgramOK(program')
    BY <1>6, <2>2, <2>4, <2>5 DEF ProgramOK
  <2> QED
    BY <1>1, <2>6 DEF RulesInv, ParsedOK
<1>10. WalkOK'
  BY <1>1 DEF RulesInv, WalkOK
<1>11. CountsOK'
  BY <1>1 DEF RulesInv, CountsOK
<1>12. IssuesOK'
  <2>1. issues = <<>> /\ issues' = <<>> /\ pc' = "parse"
    BY <1>1 DEF RulesInv, IssuesOK
  <2> QED
    BY <2>1 DEF IssuesOK, ExitsReported, Lists, NoSorts
<1>13. RowsOK'
  <2>1. rows.loops = <<>> /\ rows' = rows /\ pc' = "parse"
    BY <1>1 DEF RulesInv, RowsOK
  <2>2. LoopRowsOK(program', rows'.loops)
    BY <2>1 DEF LoopRowsOK
  <2> QED
    BY <2>1, <2>2 DEF RulesInv, RowsOK
<1> QED
  BY <1>9, <1>10, <1>11, <1>12, <1>13 DEF RulesInv

\* The root alone on the stack has every node under it.
LEMMA RootAlone ==
  ASSUME NEW prog, ProgramOK(prog), NEW stk, stk = <<[node |-> 1, context |-> <<>>]>>
  PROVE  Walking(prog, stk, <<>>)
<1>1. /\ Len(prog) \in Nat /\ DOMAIN prog = 1..Len(prog) /\ 1 \in DOMAIN prog
      /\ prog[1].parent = 0 /\ Tree(prog)
      /\ \A n \in DOMAIN prog : prog[n].parent \in 0..(n - 1)
                                /\ (n = 1 <=> prog[n].parent = 0)
  BY DEF ProgramOK, Tree
<1>2. DOMAIN stk = {1} /\ stk[1].node = 1 /\ stk[1].context = <<>>
  OBVIOUS
<1>3. ContextIn(prog)[1] = <<>>
  BY <1>1, ContextRecurs
<1>4. \A n \in DOMAIN prog : 1 \in Ancestors(prog)[n]
  <2> DEFINE A == Ancestors(prog)
             Wrong == {k \in Nat : k \in DOMAIN prog /\ 1 \notin A[k]}
  <2>1. \A k \in DOMAIN prog :
          A[k] = {k} \cup (IF prog[k].parent = 0 THEN {} ELSE A[prog[k].parent])
    BY <1>1, AncestorsRecur
  <2> HIDE DEF A
  <2>2. SUFFICES ASSUME Wrong # {} PROVE FALSE
    BY <1>1 DEF A
  <2>3. PICK d \in Wrong : \A y \in Wrong : ~ (<<y, d>> \in OpToRel(<, Nat))
    BY <2>2, WFMin, NatLessThanWellFounded
  <2>4. d \in Nat /\ d \in DOMAIN prog /\ 1 \notin A[d] /\ \A y \in Wrong : ~ (y < d)
    BY <2>3 DEF OpToRel
  <2>5. d # 1 /\ prog[d].parent # 0 /\ 1 \notin A[prog[d].parent]
    BY <1>1, <2>1, <2>4
  <2>6. prog[d].parent \in DOMAIN prog /\ prog[d].parent \in Nat /\ prog[d].parent < d
    BY <1>1, <2>4, <2>5
  <2> QED
    BY <2>4, <2>5, <2>6
<1>5. AtContext(prog, stk)
  BY <1>1, <1>2, <1>3 DEF AtContext
<1>6. Apart(prog, stk)
  BY <1>2 DEF Apart
<1>7. NoneMissed(prog, stk, <<>>)
  BY <1>2, <1>4 DEF NoneMissed
<1> QED
  BY <1>5, <1>6, <1>7 DEF Walking, AtContext, Behind, Once, AllCalls

\* ... so does starting the walk, ...
LEMMA TheWalkStarted == RulesInv /\ StartWalk => RulesInv'
<1> SUFFICES ASSUME RulesInv, StartWalk PROVE RulesInv'
  OBVIOUS
<1>1. /\ pc = "parse" /\ pc' = "walk"
      /\ stack' = <<[node |-> 1, context |-> <<>>]>>
      /\ UNCHANGED <<script, dynamic, program, calls, counts, issues, rows>>
  BY DEF StartWalk
<1>2. ParsedOK'
  BY <1>1 DEF RulesInv, ParsedOK, Stages
<1>3. WalkOK'
  <2>1. ProgramOK(program') /\ calls' = <<>>
    BY <1>1 DEF RulesInv, ParsedOK, WalkOK
  <2>2. Walking(program', stack', calls')
    BY <1>1, <2>1, RootAlone
  <2>3. stack' \in Seq(Visits) /\ calls' \in Seq(Visits)
    <3>1. [node |-> 1, context |-> <<>>] \in Visits
      <4>1. <<>> \in Seq(Markers) /\ 1 \in Nat
        OBVIOUS
      <4> QED
        BY <4>1 DEF Visits
    <3> DEFINE v == [node |-> 1, context |-> <<>>]
    <3> HIDE DEF v
    <3>2. v \in Visits /\ stack' = <<v>>
      BY <1>1, <3>1 DEF v
    <3> QED
      BY <2>1, <3>2
  <2> QED
    BY <1>1, <2>2, <2>3 DEF WalkOK
<1>4. CountsOK'
  BY <1>1 DEF RulesInv, CountsOK
<1>5. IssuesOK'
  BY <1>1 DEF RulesInv, IssuesOK
<1>6. RowsOK'
  BY <1>1 DEF RulesInv, RowsOK
<1> QED
  BY <1>2, <1>3, <1>4, <1>5, <1>6 DEF RulesInv

\* What a visit pushes.
LEMMA StackNext ==
  /\ \A top : Pushed(top) = Opened(program, top)
BY Zenon DEF Pushed, Opened, Children, ChildrenIn, Marker, MarkOf, ContextUnder

\* ... and so does visiting a node.
LEMMA ANodeVisited == RulesInv /\ Visit => RulesInv'
<1> SUFFICES ASSUME RulesInv, Visit PROVE RulesInv'
  OBVIOUS
<1>1. /\ pc = "walk" /\ pc' = pc /\ stack # <<>>
      /\ calls' = CallsAfter(program, stack, calls)
      /\ stack' = StackAfter(program, stack)
      /\ UNCHANGED <<script, dynamic, program, counts, issues, rows>>
  BY StackNext, Zenon DEF Visit, CallsAfter, StackAfter
<1>2. ParsedOK'
  BY <1>1 DEF RulesInv, ParsedOK, Stages
<1>3. WalkOK'
  <2>1. /\ Tree(program) /\ stack \in Seq(Visits) /\ calls \in Seq(Visits)
        /\ Walking(program, stack, calls)
    BY <1>1 DEF RulesInv, ParsedOK, ProgramOK, WalkOK
  <2>2. /\ StackAfter(program, stack) \in Seq(Visits)
        /\ CallsAfter(program, stack, calls) \in Seq(Visits)
        /\ Walking(program, StackAfter(program, stack), CallsAfter(program, stack, calls))
    BY <1>1, <2>1, VisitKeepsWalking
  <2> QED
    BY <1>1, <2>2 DEF WalkOK
<1>4. CountsOK'
  BY <1>1 DEF RulesInv, CountsOK
<1>5. IssuesOK'
  BY <1>1 DEF RulesInv, IssuesOK
<1>6. RowsOK'
  BY <1>1 DEF RulesInv, RowsOK
<1> QED
  BY <1>2, <1>3, <1>4, <1>5, <1>6 DEF RulesInv

-----------------------------------------------------------------------------
(***************************************************************************)
(* What has been found is counted.                                         *)
(***************************************************************************)
AllFound(prog, cls) ==
  /\ Once(cls)
  /\ \A k \in DOMAIN cls : /\ cls[k].node \in DOMAIN prog
                           /\ prog[cls[k].node].kind = "call"
                           /\ cls[k].context = ContextIn(prog)[cls[k].node]
  /\ \A n \in DOMAIN prog : prog[n].kind = "call" => \E k \in DOMAIN cls : cls[k].node = n

\* When the stack is empty the walk has found every call.
LEMMA WalkComplete ==
  RulesInv /\ pc # "parse" /\ stack = <<>> => AllFound(program, calls)
<1> SUFFICES ASSUME RulesInv, pc # "parse", stack = <<>> PROVE AllFound(program, calls)
  OBVIOUS
<1>1. Walking(program, stack, calls)
  BY DEF RulesInv, WalkOK
<1> QED
  BY <1>1 DEF Walking, AllFound, AtContext, AllCalls, NoneMissed

\* As many calls of some names are found as the program has.
LEMMA CallsCounted ==
  ASSUME NEW prog, ProgramOK(prog), NEW cls \in Seq(Visits), AllFound(prog, cls),
         NEW names, NEW K \in SUBSET DOMAIN cls,
         \A k \in DOMAIN cls : k \in K <=> prog[cls[k].node].body.callee \in names
  PROVE  /\ Cardinality(K) = Cardinality(CallsTo(prog, names))
         /\ Cardinality(K) \in 0..MaxNodes
<1> DEFINE N == Len(prog)
           S == CallsTo(prog, names)
<1>1. N \in Nat /\ DOMAIN prog = 1..N /\ N <= MaxNodes
      /\ MaxNodes \in Nat
  BY MaxNodesAssumption DEF ProgramOK, Tree
<1> HIDE DEF N
<1>2. \A n : n \in S <=> n \in DOMAIN prog /\ prog[n].kind = "call"
                         /\ prog[n].body.callee \in names
  BY DEF CallsTo
<1> HIDE DEF S
<1>3. S \in SUBSET (1..N) /\ Once(cls)
  BY <1>1, <1>2 DEF AllFound
<1>4. \A k \in K : cls[k].node \in S
  BY <1>2 DEF AllFound
<1>5. StandsFor(cls, K, S)
  BY <1>2, <1>4 DEF AllFound, StandsFor
<1>6. Cardinality(K) = Cardinality(S) /\ Cardinality(S) \in 0..N
  BY <1>1, <1>3, <1>5, CountedOnce
<1> QED
  BY <1>1, <1>6 DEF S

\* A program has no more nodes of any sort than the bound.
LEMMA ProgramCounted ==
  ASSUME NEW prog, ProgramOK(prog), NEW K \in SUBSET DOMAIN prog
  PROVE  Cardinality(K) \in 0..MaxNodes
<1> DEFINE N == Len(prog)
<1>1. N \in Nat /\ DOMAIN prog = 1..N /\ N <= MaxNodes
      /\ MaxNodes \in Nat
  BY MaxNodesAssumption DEF ProgramOK, Tree
<1> HIDE DEF N
<1>2. IsFiniteSet(1..N) /\ Cardinality(1..N) = N
  <2>1. 1 \in Int /\ N \in Int
    BY <1>1
  <2>2. IsFiniteSet(1..N) /\ Cardinality(1..N) = IF 1 > N THEN 0 ELSE N - 1 + 1
    BY <2>1, FS_Interval
  <2> QED
    BY <1>1, <2>2
<1>3. IsFiniteSet(K) /\ Cardinality(K) <= N
  BY <1>1, <1>2, FS_Subset
<1>4. Cardinality(K) \in Nat
  BY <1>3, FS_CardinalityType
<1> QED
  BY <1>1, <1>3, <1>4

\* Some of the calls are no more than all of them.
LEMMA SomeCounted ==
  ASSUME NEW prog, ProgramOK(prog), NEW cls \in Seq(Visits), AllFound(prog, cls),
         NEW K \in SUBSET DOMAIN cls
  PROVE  Cardinality(K) \in 0..MaxNodes
<1> DEFINE N == Len(prog)
           S == {cls[k].node : k \in K}
<1>1. N \in Nat /\ DOMAIN prog = 1..N /\ N <= MaxNodes
      /\ MaxNodes \in Nat
  BY MaxNodesAssumption DEF ProgramOK, Tree
<1> HIDE DEF N
<1>2. S \in SUBSET (1..N) /\ Once(cls)
  BY <1>1 DEF AllFound
<1>3. StandsFor(cls, K, S)
  BY DEF StandsFor
<1> HIDE DEF S
<1>4. Cardinality(K) = Cardinality(S) /\ Cardinality(S) \in 0..N
  BY <1>1, <1>2, <1>3, CountedOnce
<1> QED
  BY <1>1, <1>4

\* Taking the counters keeps the invariant.
LEMMA CountsTaken == RulesInv /\ Count => RulesInv'
<1> SUFFICES ASSUME RulesInv, Count PROVE RulesInv'
  OBVIOUS
<1> DEFINE Of(field) == Cardinality({k \in DOMAIN calls : Counted(calls[k])[field]})
<1>1. /\ pc = "walk" /\ pc' = "requests" /\ stack = <<>>
      /\ counts' = [requests |-> Of("requests"), exits |-> Of("exits"),
                    sorts |-> Of("sorts"),
                    exported |-> Cardinality({n \in DOMAIN program : Exported(n)})]
      /\ UNCHANGED <<script, dynamic, program, stack, calls, issues, rows>>
  BY Zenon DEF Count
<1>2. ParsedOK'
  BY <1>1 DEF RulesInv, ParsedOK, Stages
<1>3. WalkOK'
  BY <1>1 DEF RulesInv, WalkOK
<1>4. CountsOK'
  <2>1. ProgramOK(program) /\ calls \in Seq(Visits)
    BY DEF RulesInv, ParsedOK, WalkOK
  <2>2. AllFound(program, calls)
    BY <1>1, WalkComplete
  <2>3. /\ Of("requests") = Cardinality(CallsTo(program, Requests))
        /\ Of("requests") \in 0..MaxNodes
    <3> DEFINE K == {k \in DOMAIN calls : Counted(calls[k])["requests"]}
    <3>1. \A k \in DOMAIN calls :
            k \in K <=> program[calls[k].node].body.callee \in Requests
      BY DEF Counted, Callee, Body
    <3>2. K \in SUBSET DOMAIN calls
      OBVIOUS
    <3> HIDE DEF K
    <3>3. /\ Cardinality(K) = Cardinality(CallsTo(program, Requests))
          /\ Cardinality(K) \in 0..MaxNodes
      BY <2>1, <2>2, <3>1, <3>2, CallsCounted
    <3> QED
      BY <3>3 DEF K
  <2>4. /\ Of("exits") = Cardinality(CallsTo(program, {"strategy.exit"}))
        /\ Of("exits") \in 0..MaxNodes
    <3> DEFINE K == {k \in DOMAIN calls : Counted(calls[k])["exits"]}
               names == {"strategy.exit"}
    <3>1. \A k \in DOMAIN calls :
            k \in K <=> program[calls[k].node].body.callee \in names
      BY DEF Counted, Callee, Body
    <3>2. K \in SUBSET DOMAIN calls
      OBVIOUS
    <3> HIDE DEF K, names
    <3>3. /\ Cardinality(K) = Cardinality(CallsTo(program, names))
          /\ Cardinality(K) \in 0..MaxNodes
      BY <2>1, <2>2, <3>1, <3>2, CallsCounted
    <3> QED
      BY <3>3 DEF K, names
  <2>5. Of("sorts") \in 0..MaxNodes
    <3> DEFINE K == {k \in DOMAIN calls : Counted(calls[k])["sorts"]}
    <3>1. K \in SUBSET DOMAIN calls
      OBVIOUS
    <3> HIDE DEF K
    <3>2. Cardinality(K) \in 0..MaxNodes
      BY <2>1, <2>2, <3>1, SomeCounted
    <3> QED
      BY <3>2 DEF K
  <2>6. Cardinality({n \in DOMAIN program : Exported(n)}) \in 0..MaxNodes
    <3> DEFINE K == {n \in DOMAIN program : Exported(n)}
    <3>1. K \in SUBSET DOMAIN program
      OBVIOUS
    <3> HIDE DEF K
    <3>2. Cardinality(K) \in 0..MaxNodes
      BY <2>1, <3>1, ProgramCounted
    <3> QED
      BY <3>2 DEF K
  <2> HIDE DEF Of
  <2>7. /\ DOMAIN counts' = {"requests", "exits", "exported", "sorts"}
        /\ counts'.requests = Of("requests") /\ counts'.exits = Of("exits")
        /\ counts'.sorts = Of("sorts")
        /\ counts'.exported = Cardinality({n \in DOMAIN program : Exported(n)})
    BY <1>1
  <2> QED
    BY <1>1, <2>3, <2>4, <2>5, <2>6, <2>7 DEF CountsOK
<1>5. IssuesOK'
  BY <1>1 DEF RulesInv, IssuesOK
<1>6. RowsOK'
  BY <1>1 DEF RulesInv, RowsOK
<1> QED
  BY <1>2, <1>3, <1>4, <1>5, <1>6 DEF RulesInv

-----------------------------------------------------------------------------
(***************************************************************************)
(* The rules on requests.                                                  *)
(***************************************************************************)
\* A declaration that says at most once whether requests may run says the same
\* to both readers.
LEMMA ReadersAgree ==
  RulesInv /\ Len(dynamic) <= 1 =>
    (ReportEnabled <=> MayRun(dynamic)) /\ (ContractEnabled <=> MayRun(dynamic))
<1> SUFFICES ASSUME RulesInv, Len(dynamic) <= 1
             PROVE  /\ ReportEnabled <=> MayRun(dynamic)
                    /\ ContractEnabled <=> MayRun(dynamic)
  OBVIOUS
<1>1. dynamic = <<>> \/ (DOMAIN dynamic = {1} /\ dynamic # <<>>)
  BY DEF RulesInv, ParsedOK
<1> DEFINE literals == {k \in DOMAIN dynamic : dynamic[k] \in {"true", "false"}}
           first == CHOOSE k \in literals : \A j \in literals : k <= j
<1>2. ReportEnabled = IF literals = {} THEN DynamicDefault ELSE dynamic[first] = "true"
  BY DEF ReportEnabled
<1>3. CASE dynamic = <<>>
  <2>1. literals = {}
    BY <1>3
  <2> QED
    BY <1>2, <1>3, <2>1, DynamicDefaultAssumption DEF MayRun, ContractEnabled
<1>4. CASE DOMAIN dynamic = {1} /\ dynamic # <<>>
  <2>1. CASE dynamic[1] \in {"true", "false"}
    <3>1. literals = {1}
      BY <1>4, <2>1
    <3> HIDE DEF literals
    <3>2. first = 1
      <4>1. \E k \in literals : \A j \in literals : k <= j
        BY <3>1
      <4> QED
        BY <3>1, <4>1
    <3> QED
      BY <1>2, <1>4, <2>1, <3>1, <3>2 DEF MayRun, ContractEnabled
  <2>2. CASE dynamic[1] \notin {"true", "false"}
    <3>1. literals = {}
      BY <1>4, <2>2
    <3> QED
      BY <1>2, <1>4, <2>2, <3>1, DynamicDefaultAssumption DEF MayRun, ContractEnabled
  <2> QED
    BY <2>1, <2>2
<1> QED
  BY <1>1, <1>3, <1>4

\* The report has an issue with a request that is local or depends on a series.
LEMMA RequestIssues ==
  ASSUME NEW c, c.node \in DOMAIN program, program[c.node].kind = "call",
         c.context = ContextIn(program)[c.node]
  PROVE  DynamicRequestIssue(c) <=>
           /\ c.node \in CallsTo(program, Requests)
           /\ LocalOrSeries(program, c.node)
           /\ ~ReportEnabled
<1> DEFINE args == program[c.node].body.args
           params == Signatures[program[c.node].body.callee]
           Name(i) == StaticNames(args, AsParams(params))[i]
           series == {Name(i) : i \in {i \in DOMAIN args :
                                         Name(i) \in ContextParameters
                                           /\ args[i].qual = "series"}}
<1>1. DynamicRequestIssue(c) <=>
        /\ program[c.node].body.callee \in Requests
        /\ IsLocal(c.context) \/ series # {}
        /\ ~ReportEnabled
  BY DEF DynamicRequestIssue, SeriesContext, Callee, Body
<1>2. series # {} <=> \E i \in DOMAIN args :
                        args[i].qual = "series" /\ Name(i) \in ContextParameters
  OBVIOUS
<1>3. LocalOrSeries(program, c.node) <=> IsLocal(c.context) \/ series # {}
  BY <1>2 DEF LocalOrSeries, NameFor
<1>4. c.node \in CallsTo(program, Requests) <=> program[c.node].body.callee \in Requests
  BY DEF CallsTo
<1> HIDE DEF series
<1> QED
  BY <1>1, <1>3, <1>4

\* Checking the requests keeps the invariant.
LEMMA RequestsChecked == RulesInv /\ CheckRequests => RulesInv'
<1> SUFFICES ASSUME RulesInv, CheckRequests PROVE RulesInv'
  OBVIOUS
<1> DEFINE K == {k \in DOMAIN calls : DynamicRequestIssue(calls[k])}
           new == FoundIn(calls, K, "dynamic_request")
<1>1. /\ pc = "requests" /\ pc' = "exits"
      /\ issues' = issues \o new
      /\ UNCHANGED <<script, dynamic, program, stack, calls, counts, rows>>
  BY Zenon DEF CheckRequests, Found, FoundIn
<1>2. /\ ProgramOK(program) /\ calls \in Seq(Visits) /\ stack = <<>> /\ issues = <<>>
  BY <1>1 DEF RulesInv, ParsedOK, WalkOK, IssuesOK
<1>3. AllFound(program, calls)
  BY <1>1, <1>2, WalkComplete
<1>4. \A k \in DOMAIN calls :
        k \in K <=> /\ calls[k].node \in CallsTo(program, Requests)
                    /\ LocalOrSeries(program, calls[k].node)
                    /\ ~ReportEnabled
  <2> SUFFICES ASSUME NEW k \in DOMAIN calls
               PROVE  DynamicRequestIssue(calls[k]) <=>
                        /\ calls[k].node \in CallsTo(program, Requests)
                        /\ LocalOrSeries(program, calls[k].node)
                        /\ ~ReportEnabled
    OBVIOUS
  <2>1. /\ calls[k].node \in DOMAIN program /\ program[calls[k].node].kind = "call"
        /\ calls[k].context = ContextIn(program)[calls[k].node]
    BY <1>3 DEF AllFound
  <2> QED
    BY <2>1, RequestIssues
<1>5. K \in SUBSET DOMAIN calls
  OBVIOUS
<1> HIDE DEF K
<1>6. "dynamic_request" \in Rules
  BY DEF Rules
<1>7. /\ new \in Seq(Issues)
      /\ \A k \in DOMAIN new : \E j \in K : new[k] = <<"dynamic_request", calls[j].node>>
      /\ \A j \in K : \E k \in DOMAIN new : new[k] = <<"dynamic_request", calls[j].node>>
  BY <1>2, <1>5, <1>6, FoundLists
<1> HIDE DEF new
<1>8. issues' = new
  BY <1>1, <1>2, <1>7
<1>9. \A k \in DOMAIN issues' :
        /\ issues'[k][1] = "dynamic_request"
        /\ issues'[k][2] \in CallsTo(program, Requests)
  BY <1>4, <1>5, <1>7, <1>8
<1>10. CallsTo(program, Requests) \subseteq DOMAIN program
       /\ CallsTo(program, Requests) \cap CallsTo(program, {"sort"}) = {}
  BY DEF CallsTo, Requests
<1>11. \A n \in DOMAIN program : Lists(issues', "dynamic_request", n) <=>
         /\ n \in CallsTo(program, Requests)
         /\ LocalOrSeries(program, n)
         /\ ~ReportEnabled
  <2> SUFFICES ASSUME NEW n \in DOMAIN program
               PROVE  Lists(issues', "dynamic_request", n) <=>
                        /\ n \in CallsTo(program, Requests)
                        /\ LocalOrSeries(program, n)
                        /\ ~ReportEnabled
    OBVIOUS
  <2>1. Lists(issues', "dynamic_request", n) <=> \E j \in K : calls[j].node = n
    BY <1>7, <1>8 DEF Lists
  <2>2. n \in CallsTo(program, Requests) => \E j \in DOMAIN calls : calls[j].node = n
    BY <1>3 DEF AllFound, CallsTo
  <2> QED
    BY <1>4, <1>5, <2>1, <2>2
<1>12. ParsedOK'
  BY <1>1 DEF RulesInv, ParsedOK, Stages
<1>13. WalkOK'
  BY <1>1 DEF RulesInv, WalkOK
<1>14. CountsOK'
  BY <1>1 DEF RulesInv, CountsOK
<1>15. IssuesOK'
  <2>1. RequestsReported(program, dynamic, issues')
    BY <1>11, ReadersAgree DEF RequestsReported, NotRun
  <2>2. ExitsReported(program, issues')
    BY <1>9 DEF ExitsReported, Lists
  <2>3. NoSorts(program, issues')
    BY <1>9, <1>10 DEF NoSorts
  <2>4. issues' \in Seq(Issues) /\ \A k \in DOMAIN issues' : issues'[k][2] \in DOMAIN program
    BY <1>7, <1>8, <1>9, <1>10
  <2> QED
    BY <1>1, <2>1, <2>2, <2>3, <2>4 DEF IssuesOK
<1>16. RowsOK'
  BY <1>1 DEF RulesInv, RowsOK
<1> QED
  BY <1>12, <1>13, <1>14, <1>15, <1>16 DEF RulesInv

-----------------------------------------------------------------------------
(***************************************************************************)
(* The rules on exits.                                                     *)
(***************************************************************************)
\* Issues of other rules than that on requests, each about a node of the program.
OtherIssues(prog, more) ==
  \A k \in DOMAIN more :
    /\ more[k][1] # "dynamic_request"
    /\ more[k][2] \in DOMAIN prog
    /\ more[k][1] = "exit_action" => more[k][2] \in CallsTo(prog, {"strategy.exit"})

InProgram(prog, iss) == \A k \in DOMAIN iss : iss[k][2] \in DOMAIN prog

\* Issues of other rules leave what is said of the requests and the exits.
LEMMA IssuesAdded ==
  ASSUME NEW prog, NEW dyn, NEW iss \in Seq(Issues), NEW more \in Seq(Issues),
         OtherIssues(prog, more), InProgram(prog, iss),
         RequestsReported(prog, dyn, iss), ExitsReported(prog, iss), NoSorts(prog, iss)
  PROVE  /\ iss \o more \in Seq(Issues)
         /\ InProgram(prog, iss \o more)
         /\ RequestsReported(prog, dyn, iss \o more)
         /\ ExitsReported(prog, iss \o more)
         /\ NoSorts(prog, more) => NoSorts(prog, iss \o more)
<1> DEFINE all == iss \o more
<1>1. /\ all \in Seq(Issues)
      /\ \A k \in DOMAIN all :
           \/ k \in DOMAIN iss /\ all[k] = iss[k]
           \/ \E j \in DOMAIN more : all[k] = more[j]
      /\ \A k \in DOMAIN iss : k \in DOMAIN all /\ all[k] = iss[k]
  BY Joined
<1> HIDE DEF all
<1>2. InProgram(prog, all)
  BY <1>1 DEF InProgram, OtherIssues
<1>3. \A n : Lists(all, "dynamic_request", n) <=> Lists(iss, "dynamic_request", n)
  <2> SUFFICES ASSUME NEW n
               PROVE  Lists(all, "dynamic_request", n) <=> Lists(iss, "dynamic_request", n)
    OBVIOUS
  <2>1. Lists(iss, "dynamic_request", n) => Lists(all, "dynamic_request", n)
    BY <1>1 DEF Lists
  <2>2. ASSUME NEW k \in DOMAIN all, all[k] = <<"dynamic_request", n>>
        PROVE  Lists(iss, "dynamic_request", n)
    <3>1. all[k][1] = "dynamic_request"
      BY <2>2
    <3>2. k \in DOMAIN iss /\ all[k] = iss[k]
      BY <1>1, <3>1 DEF OtherIssues
    <3> QED
      BY <2>2, <3>2 DEF Lists
  <2> QED
    BY <2>1, <2>2 DEF Lists
<1>4. RequestsReported(prog, dyn, all)
  BY <1>3 DEF RequestsReported
<1>5. ExitsReported(prog, all)
  <2> SUFFICES ASSUME NEW n \in DOMAIN prog, NEW k \in DOMAIN all,
                      all[k] = <<"exit_action", n>>
               PROVE  n \in CallsTo(prog, {"strategy.exit"})
    BY DEF ExitsReported, Lists
  <2>1. all[k][1] = "exit_action" /\ all[k][2] = n
    OBVIOUS
  <2>2. CASE k \in DOMAIN iss /\ all[k] = iss[k]
    BY <2>2 DEF ExitsReported, Lists
  <2>3. CASE \E j \in DOMAIN more : all[k] = more[j]
    BY <2>1, <2>3 DEF OtherIssues
  <2> QED
    BY <1>1, <2>2, <2>3
<1>6. NoSorts(prog, more) => NoSorts(prog, all)
  BY <1>1 DEF NoSorts
<1> QED
  BY <1>1, <1>2, <1>4, <1>5, <1>6 DEF all

\* Checking the exits keeps the invariant.
LEMMA ExitsChecked == RulesInv /\ CheckExits => RulesInv'
<1> SUFFICES ASSUME RulesInv, CheckExits PROVE RulesInv'
  OBVIOUS
<1> DEFINE K == {k \in DOMAIN calls : ExitIssue(calls[k])}
           new == FoundIn(calls, K, "exit_action")
<1>1. /\ pc = "exits" /\ pc' = "exports"
      /\ issues' = issues \o new
      /\ UNCHANGED <<script, dynamic, program, stack, calls, counts, rows>>
  BY Zenon DEF CheckExits, Found, FoundIn
<1>2. /\ ProgramOK(program) /\ calls \in Seq(Visits) /\ stack = <<>>
      /\ issues \in Seq(Issues) /\ InProgram(program, issues)
      /\ RequestsReported(program, dynamic, issues)
      /\ ExitsReported(program, issues) /\ NoSorts(program, issues)
  BY <1>1 DEF RulesInv, ParsedOK, WalkOK, IssuesOK, InProgram
<1>3. AllFound(program, calls)
  BY <1>1, <1>2, WalkComplete
<1>4. \A k \in K : calls[k].node \in CallsTo(program, {"strategy.exit"})
  BY <1>3 DEF AllFound, ExitIssue, Callee, Body, CallsTo
<1>5. K \in SUBSET DOMAIN calls
  OBVIOUS
<1> HIDE DEF K
<1>6. "exit_action" \in Rules
  BY DEF Rules
<1>7. /\ new \in Seq(Issues)
      /\ \A k \in DOMAIN new : \E j \in K : new[k] = <<"exit_action", calls[j].node>>
  BY <1>2, <1>5, <1>6, FoundLists
<1> HIDE DEF new
<1>8. \A k \in DOMAIN new : /\ new[k][1] = "exit_action"
                            /\ new[k][2] \in CallsTo(program, {"strategy.exit"})
  BY <1>4, <1>7
<1>9. CallsTo(program, {"strategy.exit"}) \subseteq DOMAIN program
       /\ CallsTo(program, {"strategy.exit"}) \cap CallsTo(program, {"sort"}) = {}
  BY DEF CallsTo
<1>10. OtherIssues(program, new) /\ NoSorts(program, new)
  BY <1>8, <1>9 DEF OtherIssues, NoSorts
<1>11. /\ issues \o new \in Seq(Issues)
       /\ InProgram(program, issues \o new)
       /\ RequestsReported(program, dynamic, issues \o new)
       /\ ExitsReported(program, issues \o new)
       /\ NoSorts(program, issues \o new)
  BY <1>2, <1>7, <1>10, IssuesAdded
<1>12. ParsedOK'
  BY <1>1 DEF RulesInv, ParsedOK, Stages
<1>13. WalkOK'
  BY <1>1 DEF RulesInv, WalkOK
<1>14. CountsOK'
  BY <1>1 DEF RulesInv, CountsOK
<1>15. IssuesOK'
  BY <1>1, <1>11 DEF IssuesOK, InProgram
<1>16. RowsOK'
  BY <1>1 DEF RulesInv, RowsOK
<1> QED
  BY <1>12, <1>13, <1>14, <1>15, <1>16 DEF RulesInv

\* The rules on exports report the declaration they look at, which is no call.
LEMMA ExportIssues ==
  ASSUME NEW n \in DOMAIN program, n \in Nat
  PROVE  /\ ExportRules(n) \in Seq(Issues)
         /\ \A k \in DOMAIN ExportRules(n) :
              /\ ExportRules(n)[k][1] \notin {"dynamic_request", "exit_action"}
              /\ ExportRules(n)[k][2] = n
              /\ program[n].kind # "call"
<1> DEFINE Names == {"function_parameter", "method_receiver", "method_parameter",
                     "variable_const", "const_version"}
           Own == Names \X {n}
           Rule(condition, name) == IF condition THEN <<<<name, n>>>> ELSE <<>>
<1>1. ASSUME NEW name \in Names PROVE <<<<name, n>>>> \in Seq(Own)
  <2>1. <<name, n>> \in Own
    BY <1>1
  <2> DEFINE issue == <<name, n>>
  <2> HIDE DEF issue, Own
  <2>2. issue \in Own
    BY <2>1 DEF issue
  <2>3. <<issue>> \in Seq(Own)
    BY <2>2
  <2> QED
    BY <2>3 DEF issue
<1>2. <<>> \in Seq(Own)
  OBVIOUS
<1> HIDE DEF Own
<1>3. ASSUME NEW condition, NEW name \in Names PROVE Rule(condition, name) \in Seq(Own)
  BY <1>1, <1>2, <1>3
<1> HIDE DEF Rule
<1>4. ASSUME NEW p, NEW q PROVE Rule(p, "method_receiver") \o Rule(q, "method_parameter") \in Seq(Own)
  <2>1. /\ Rule(p, "method_receiver") \in Seq(Own)
        /\ Rule(q, "method_parameter") \in Seq(Own)
    BY <1>3
  <2> QED
    BY <2>1, ConcatProperties
<1>5. ExportRules(n) =
        IF ~Exported(n) THEN <<>>
        ELSE CASE program[n].kind = "function" -> Rule(Body(n).untyped, "function_parameter")
               [] program[n].kind = "method" ->
                    Rule(~Body(n).receiver, "method_receiver")
                      \o Rule(Body(n).untyped, "method_parameter")
               [] program[n].kind = "var" ->
                    IF ~Body(n).const THEN Rule(TRUE, "variable_const")
                    ELSE Rule(~ExportedConst, "const_version")
  BY Zenon DEF ExportRules, Rule
<1> DEFINE piece == ExportRules(n)
<1>6. piece \in Seq(Own) /\ (piece # <<>> => Exported(n))
  <2>1. CASE ~Exported(n)
    <3>1. piece = <<>>
      BY <1>5, <2>1
    <3> QED
      BY <1>2, <3>1
  <2>2. CASE Exported(n) /\ program[n].kind = "function"
    <3>1. piece = Rule(Body(n).untyped, "function_parameter")
      BY <1>5, <2>2
    <3>2. Rule(Body(n).untyped, "function_parameter") \in Seq(Own)
      BY <1>3
    <3> QED
      BY <2>2, <3>1, <3>2
  <2>3. CASE Exported(n) /\ program[n].kind = "method"
    <3>1. piece = Rule(~Body(n).receiver, "method_receiver")
                    \o Rule(Body(n).untyped, "method_parameter")
      BY <1>5, <2>3
    <3>2. Rule(~Body(n).receiver, "method_receiver")
            \o Rule(Body(n).untyped, "method_parameter") \in Seq(Own)
      BY <1>4
    <3> QED
      BY <2>3, <3>1, <3>2
  <2>4. CASE Exported(n) /\ program[n].kind = "var"
    <3>1. piece = IF ~Body(n).const THEN Rule(TRUE, "variable_const")
                  ELSE Rule(~ExportedConst, "const_version")
      BY <1>5, <2>4
    <3>2. Rule(TRUE, "variable_const") \in Seq(Own)
      BY <1>3
    <3>3. Rule(~ExportedConst, "const_version") \in Seq(Own)
      BY <1>3
    <3> QED
      BY <2>4, <3>1, <3>2, <3>3
  <2> QED
    BY <2>1, <2>2, <2>3, <2>4 DEF Exported
<1> HIDE DEF piece
<1>7. \A k \in DOMAIN piece : piece[k] \in Own
  BY <1>6, LenProperties
<1>8. \A x \in Own : /\ x \in Issues /\ x[2] = n
                     /\ x[1] \notin {"dynamic_request", "exit_action"}
  BY DEF Own, Issues, Rules
<1>9. piece \in Seq(Issues)
  <2>1. Len(piece) \in Nat /\ piece \in [1..Len(piece) -> Own]
    BY <1>6, LenProperties
  <2>2. Own \subseteq Issues
    BY <1>8
  <2>3. Seq(Own) \subseteq Seq(Issues)
    BY <2>2
  <2> QED
    BY <1>6, <2>3
<1>10. piece # <<>> => program[n].kind # "call"
  BY <1>6 DEF Exported
<1>11. \A k \in DOMAIN piece : piece # <<>>
  BY <1>6
<1> QED
  BY <1>7, <1>8, <1>9, <1>10, <1>11 DEF piece

-----------------------------------------------------------------------------
(***************************************************************************)
(* The rules on exports.                                                   *)
(***************************************************************************)
\* Checking the exports keeps the invariant.
LEMMA ExportsChecked == RulesInv /\ CheckExports => RulesInv'
<1> SUFFICES ASSUME RulesInv, CheckExports PROVE RulesInv'
  OBVIOUS
<1> DEFINE pieces == [n \in DOMAIN program |-> ExportRules(n)]
           new == IF script # "library" THEN <<>> ELSE Concat(pieces)
<1>1. /\ pc = "exports" /\ pc' = "sorts"
      /\ issues' = issues \o new
      /\ UNCHANGED <<script, dynamic, program, stack, calls, counts, rows>>
  BY Zenon DEF CheckExports
<1>2. /\ ProgramOK(program)
      /\ issues \in Seq(Issues) /\ InProgram(program, issues)
      /\ RequestsReported(program, dynamic, issues)
      /\ ExitsReported(program, issues) /\ NoSorts(program, issues)
  BY <1>1 DEF RulesInv, ParsedOK, WalkOK, IssuesOK, InProgram
<1> DEFINE N == Len(program)
<1>3. N \in Nat /\ DOMAIN program = 1..N
  BY <1>2 DEF ProgramOK, Tree
<1> HIDE DEF N
<1> DEFINE Fine(issue) == /\ issue[1] \notin {"dynamic_request", "exit_action"}
                          /\ issue[2] \in DOMAIN program
                          /\ program[issue[2]].kind # "call"
<1>4. ASSUME NEW n \in DOMAIN program
      PROVE  /\ pieces[n] \in Seq(Issues)
             /\ \A k \in DOMAIN pieces[n] : Fine(pieces[n][k])
  <2>1. n \in Nat
    BY <1>3
  <2>2. pieces[n] = ExportRules(n)
    OBVIOUS
  <2>3. /\ ExportRules(n) \in Seq(Issues)
        /\ \A k \in DOMAIN ExportRules(n) :
             /\ ExportRules(n)[k][1] \notin {"dynamic_request", "exit_action"}
             /\ ExportRules(n)[k][2] = n
             /\ program[n].kind # "call"
    BY <2>1, ExportIssues
  <2> QED
    BY <2>2, <2>3
<1>5. DOMAIN pieces = 1..N /\ pieces = [n \in 1..N |-> pieces[n]]
  BY <1>3
<1> HIDE DEF pieces
<1>6. pieces \in [1..N -> Seq(Issues)]
  BY <1>3, <1>4, <1>5
<1>7. pieces \in Seq(Seq(Issues))
  BY <1>3, <1>6
<1>8. /\ Concat(pieces) \in Seq(Issues)
      /\ \A k \in DOMAIN Concat(pieces) : \E n \in DOMAIN pieces :
           \E j \in DOMAIN pieces[n] : Concat(pieces)[k] = pieces[n][j]
  BY <1>7, ConcatLists
<1>9. new \in Seq(Issues) /\ \A k \in DOMAIN new : Fine(new[k])
  <2>1. CASE script # "library"
    BY <2>1
  <2>2. CASE script = "library"
    <3>1. new = Concat(pieces)
      BY <2>2
    <3>2. ASSUME NEW k \in DOMAIN new PROVE Fine(new[k])
      <4>1. PICK n \in DOMAIN pieces : \E j \in DOMAIN pieces[n] : new[k] = pieces[n][j]
        BY <1>8, <3>1
      <4>2. PICK j \in DOMAIN pieces[n] : new[k] = pieces[n][j]
        BY <4>1
      <4>3. n \in DOMAIN program
        BY <1>3, <1>5
      <4>4. Fine(pieces[n][j])
        BY <1>4, <4>3
      <4> QED
        BY <4>2, <4>4
    <3> QED
      BY <1>8, <3>1, <3>2
  <2> QED
    BY <2>1, <2>2
<1> HIDE DEF new
<1>10. OtherIssues(program, new) /\ NoSorts(program, new)
  BY <1>9 DEF OtherIssues, NoSorts, CallsTo
<1>11. /\ issues \o new \in Seq(Issues)
       /\ InProgram(program, issues \o new)
       /\ RequestsReported(program, dynamic, issues \o new)
       /\ ExitsReported(program, issues \o new)
       /\ NoSorts(program, issues \o new)
  BY <1>2, <1>9, <1>10, IssuesAdded
<1>12. ParsedOK'
  BY <1>1 DEF RulesInv, ParsedOK, Stages
<1>13. WalkOK'
  BY <1>1 DEF RulesInv, WalkOK
<1>14. CountsOK'
  BY <1>1 DEF RulesInv, CountsOK
<1>15. IssuesOK'
  BY <1>1, <1>11 DEF IssuesOK, InProgram
<1>16. RowsOK'
  BY <1>1 DEF RulesInv, RowsOK
<1> QED
  BY <1>12, <1>13, <1>14, <1>15, <1>16 DEF RulesInv

-----------------------------------------------------------------------------
(***************************************************************************)
(* The rules on sorts.                                                     *)
(***************************************************************************)
\* The reports of the rules on sorts on one call of the list.
SortPiece(prog, c) ==
  IF prog[c.node].body.callee # "sort" THEN <<>>
  ELSE [k \in DOMAIN SortRules(prog[c.node].body) |->
          <<SortRules(prog[c.node].body)[k], c.node>>]

\* The reports on one call are about it and are as many as its rules say.
LEMMA SortPieces ==
  ASSUME NEW prog, NEW c, c.node \in Nat
  PROVE  /\ SortPiece(prog, c) \in Seq(Issues)
         /\ \A k \in DOMAIN SortPiece(prog, c) :
              /\ SortPiece(prog, c)[k][1] \in SortNames
              /\ SortPiece(prog, c)[k][2] = c.node
              /\ prog[c.node].body.callee = "sort"
         /\ prog[c.node].body.callee = "sort" =>
              /\ DOMAIN SortPiece(prog, c) = 1..Len(SortRules(prog[c.node].body))
              /\ Len(SortRules(prog[c.node].body)) \in Nat
<1> DEFINE rules == SortRules(prog[c.node].body)
           L == Len(rules)
           piece == SortPiece(prog, c)
<1>1. /\ DOMAIN rules = 1..L /\ L \in Nat
      /\ \A k \in DOMAIN rules : rules[k] \in SortNames
  BY SortRulesListed
<1>2. /\ prog[c.node].body.callee # "sort" => piece = <<>>
      /\ prog[c.node].body.callee = "sort" =>
           piece = [k \in DOMAIN rules |-> <<rules[k], c.node>>]
  BY DEF SortPiece
<1>3. \A x \in SortNames : <<x, c.node>> \in Issues
  BY DEF Issues, Rules
<1> HIDE DEF rules, L, piece
<1>4. CASE prog[c.node].body.callee # "sort"
  <2>1. piece = <<>>
    BY <1>2, <1>4
  <2>2. piece \in Seq(Issues) /\ DOMAIN piece = {}
    BY <2>1
  <2> QED
    BY <1>4, <2>2 DEF piece
<1>5. CASE prog[c.node].body.callee = "sort"
  <2>1. piece = [k \in 1..L |-> <<rules[k], c.node>>]
    BY <1>1, <1>2, <1>5
  <2>2. piece \in [1..L -> Issues]
    BY <1>1, <1>3, <2>1
  <2>3. piece \in Seq(Issues)
    BY <1>1, <2>2
  <2>4. \A k \in DOMAIN piece : piece[k][1] \in SortNames /\ piece[k][2] = c.node
    BY <1>1, <2>1
  <2> QED
    BY <1>1, <1>5, <2>2, <2>3, <2>4 DEF piece, L, rules
<1> QED
  BY <1>4, <1>5

ArePieces(prog, cls, pieces) ==
  pieces = [k \in DOMAIN cls |-> SortPiece(prog, cls[k])]

\* All of them together report each sort as its rules do.
LEMMA SortsListed ==
  ASSUME NEW prog, NEW cls \in Seq(Visits), AllFound(prog, cls),
         NEW pieces, ArePieces(prog, cls, pieces)
  PROVE  /\ Concat(pieces) \in Seq(Issues)
         /\ SortsReported(prog, Concat(pieces))
         /\ \A k \in DOMAIN Concat(pieces) :
              /\ Concat(pieces)[k][1] \in SortNames
              /\ Concat(pieces)[k][2] \in DOMAIN prog
<1> DEFINE N == Len(cls)
           all == Concat(pieces)
<1>1. /\ N \in Nat /\ DOMAIN cls = 1..N /\ DOMAIN pieces = 1..N
      /\ pieces = [k \in 1..N |-> pieces[k]]
      /\ \A k \in DOMAIN cls : pieces[k] = SortPiece(prog, cls[k])
  BY LenProperties DEF ArePieces
<1>2. \A k \in DOMAIN cls : cls[k].node \in Nat
  <2>1. \A k \in DOMAIN cls : cls[k] \in Visits
    BY LenProperties
  <2> QED
    BY <2>1 DEF Visits
<1> HIDE DEF N
<1>3. ASSUME NEW k \in DOMAIN cls
      PROVE  /\ pieces[k] \in Seq(Issues)
             /\ \A j \in DOMAIN pieces[k] :
                  /\ pieces[k][j][1] \in SortNames
                  /\ pieces[k][j][2] = cls[k].node
                  /\ prog[cls[k].node].body.callee = "sort"
             /\ prog[cls[k].node].body.callee = "sort" =>
                  /\ DOMAIN pieces[k] = 1..Len(SortRules(prog[cls[k].node].body))
                  /\ Len(SortRules(prog[cls[k].node].body)) \in Nat
  <2> DEFINE c == cls[k]
  <2>1. c.node \in Nat /\ pieces[k] = SortPiece(prog, c)
    BY <1>1, <1>2
  <2> HIDE DEF c
  <2>2. /\ SortPiece(prog, c) \in Seq(Issues)
        /\ \A j \in DOMAIN SortPiece(prog, c) :
             /\ SortPiece(prog, c)[j][1] \in SortNames
             /\ SortPiece(prog, c)[j][2] = c.node
             /\ prog[c.node].body.callee = "sort"
        /\ prog[c.node].body.callee = "sort" =>
             /\ DOMAIN SortPiece(prog, c) = 1..Len(SortRules(prog[c.node].body))
             /\ Len(SortRules(prog[c.node].body)) \in Nat
    BY <2>1, SortPieces
  <2> QED
    BY <2>1, <2>2 DEF c
<1>4. pieces \in [1..N -> Seq(Issues)]
  BY <1>1, <1>3
<1>5. pieces \in Seq(Seq(Issues))
  BY <1>1, <1>4
<1>6. /\ all \in Seq(Issues)
      /\ \A k \in DOMAIN all : \E n \in DOMAIN pieces :
           \E j \in DOMAIN pieces[n] : all[k] = pieces[n][j]
      /\ \A n \in DOMAIN pieces : \A j \in DOMAIN pieces[n] :
           \E k \in DOMAIN all : all[k] = pieces[n][j]
  BY <1>5, ConcatLists
<1> HIDE DEF all
<1>7. ASSUME NEW k \in DOMAIN all
      PROVE  \E n \in DOMAIN cls : \E j \in DOMAIN pieces[n] :
               /\ all[k] = pieces[n][j]
               /\ all[k][1] \in SortNames
               /\ all[k][2] = cls[n].node
               /\ prog[cls[n].node].body.callee = "sort"
  <2>1. PICK n \in DOMAIN pieces : \E j \in DOMAIN pieces[n] : all[k] = pieces[n][j]
    BY <1>6
  <2>2. PICK j \in DOMAIN pieces[n] : all[k] = pieces[n][j]
    BY <2>1
  <2>3. n \in DOMAIN cls
    BY <1>1
  <2>4. /\ pieces[n][j][1] \in SortNames
        /\ pieces[n][j][2] = cls[n].node
        /\ prog[cls[n].node].body.callee = "sort"
    BY <1>3, <2>3
  <2> QED
    BY <2>2, <2>3, <2>4
<1>8. \A k \in DOMAIN all : all[k][1] \in SortNames /\ all[k][2] \in DOMAIN prog
  BY <1>7 DEF AllFound
<1>9. ASSUME NEW c \in CallsTo(prog, {"sort"})
      PROVE  /\ (\E k \in DOMAIN all : all[k][2] = c) <=> SortRules(prog[c].body) # <<>>
             /\ Len(SortRules(prog[c].body)) <= 1 => AtMostOnce(all, c)
  <2>1. c \in DOMAIN prog /\ prog[c].kind = "call" /\ prog[c].body.callee = "sort"
    BY DEF CallsTo
  <2>2. PICK m \in DOMAIN cls : cls[m].node = c
    BY <2>1 DEF AllFound
  <2> DEFINE L == Len(SortRules(prog[c].body))
  <2>3. DOMAIN pieces[m] = 1..L /\ L \in Nat
    BY <1>3, <2>1, <2>2
  <2>4. SortRules(prog[c].body) # <<>> <=> L # 0
    <3> DEFINE s == SortRules(prog[c].body)
    <3>1. s \in Seq(SortNames)
      BY SortRulesListed
    <3> HIDE DEF s
    <3>2. s # <<>> <=> Len(s) # 0
      BY <3>1, EmptySeq
    <3> QED
      BY <3>2 DEF s
  <2> HIDE DEF L
  <2>5. \A n \in DOMAIN cls : cls[n].node = c => n = m
    BY <2>2 DEF AllFound, Once
  <2>6. (\E k \in DOMAIN all : all[k][2] = c) <=> L # 0
    <3>1. ASSUME NEW k \in DOMAIN all, all[k][2] = c PROVE L # 0
      <4>1. PICK n \in DOMAIN cls : \E j \in DOMAIN pieces[n] :
                 all[k] = pieces[n][j] /\ all[k][2] = cls[n].node
        BY <1>7
      <4>2. n = m
        BY <2>5, <3>1, <4>1
      <4>3. PICK j : j \in DOMAIN pieces[m]
        BY <4>1, <4>2
      <4> QED
        BY <2>3, <4>3
    <3>2. ASSUME L # 0 PROVE \E k \in DOMAIN all : all[k][2] = c
      <4>1. 1 \in DOMAIN pieces[m] /\ m \in DOMAIN pieces
        BY <1>1, <2>3, <3>2
      <4>2. PICK k \in DOMAIN all : all[k] = pieces[m][1]
        BY <1>6, <4>1
      <4>3. pieces[m][1][2] = cls[m].node
        BY <1>3, <4>1
      <4> QED
        BY <2>2, <4>2, <4>3
    <3> QED
      BY <3>1, <3>2
  <2>7. ASSUME L <= 1 PROVE AtMostOnce(all, c)
    <3>1. \A n \in DOMAIN pieces : AtMostOnce(pieces[n], c)
      <4> SUFFICES ASSUME NEW n \in DOMAIN pieces,
                          NEW i \in DOMAIN pieces[n], NEW j \in DOMAIN pieces[n],
                          pieces[n][i][2] = c, pieces[n][j][2] = c
                   PROVE  i = j
        BY DEF AtMostOnce
      <4>1. n \in DOMAIN cls
        BY <1>1
      <4>2. n = m
        BY <1>3, <2>5, <4>1
      <4>3. i \in 1..L /\ j \in 1..L
        BY <2>3, <4>2
      <4> QED
        BY <2>3, <2>7, <4>3
    <3>2. \A l, n \in DOMAIN pieces :
            \A i \in DOMAIN pieces[l], j \in DOMAIN pieces[n] :
              pieces[l][i][2] = c /\ pieces[n][j][2] = c => l = n
      <4>1. \A n \in DOMAIN pieces : \A j \in DOMAIN pieces[n] :
              pieces[n][j][2] = c => n = m
        BY <1>1, <1>3, <2>5
      <4> QED
        BY <4>1
    <3>3. AtMostOnce(Concat(pieces), c)
      BY <1>5, <3>1, <3>2, ConcatOnce
    <3> QED
      BY <3>3 DEF all
  <2> QED
    BY <2>4, <2>6, <2>7 DEF L
<1>10. SortsReported(prog, all)
  BY <1>9 DEF SortsReported
<1> QED
  BY <1>6, <1>8, <1>10 DEF all

\* Issues about nothing that is sorted do not change what is said of the sorts.
LEMMA SortsAdded ==
  ASSUME NEW prog, NEW iss \in Seq(Issues), NEW more \in Seq(Issues),
         NoSorts(prog, iss), SortsReported(prog, more)
  PROVE  SortsReported(prog, iss \o more)
<1> DEFINE all == iss \o more
<1>1. /\ \A k \in DOMAIN all : \/ k \in DOMAIN iss /\ all[k] = iss[k]
                               \/ \E j \in DOMAIN more : all[k] = more[j]
      /\ \A j \in DOMAIN more : \E k \in DOMAIN all : all[k] = more[j]
  <2>1. /\ \A k \in DOMAIN (iss \o more) :
             \/ k \in DOMAIN iss /\ (iss \o more)[k] = iss[k]
             \/ \E j \in DOMAIN more :
                  k = Len(iss) + j /\ (iss \o more)[k] = more[j]
        /\ \A j \in DOMAIN more : /\ Len(iss) + j \in DOMAIN (iss \o more)
                                  /\ (iss \o more)[Len(iss) + j] = more[j]
    BY Joined
  <2> HIDE DEF all
  <2> QED
    BY <2>1 DEF all
<1>2. SUFFICES ASSUME NEW c \in CallsTo(prog, {"sort"})
               PROVE  /\ (\E k \in DOMAIN all : all[k][2] = c)
                           <=> SortRules(prog[c].body) # <<>>
                      /\ Len(SortRules(prog[c].body)) <= 1 => AtMostOnce(all, c)
  BY DEF SortsReported
<1>3. \A k \in DOMAIN iss : iss[k][2] # c
  BY DEF NoSorts
<1>4. Len(SortRules(prog[c].body)) <= 1 => AtMostOnce(iss \o more, c)
  <2> SUFFICES ASSUME Len(SortRules(prog[c].body)) <= 1
               PROVE  AtMostOnce(iss \o more, c)
    OBVIOUS
  <2>1. AtMostOnce(more, c)
    BY DEF SortsReported
  <2>2. AtMostOnce(iss, c)
    BY <1>3 DEF AtMostOnce
  <2> QED
    BY <1>3, <2>1, <2>2, JoinedOnce
<1> HIDE DEF all
<1>5. (\E k \in DOMAIN all : all[k][2] = c) <=> (\E k \in DOMAIN more : more[k][2] = c)
  <2>1. ASSUME NEW k \in DOMAIN all, all[k][2] = c
        PROVE  \E j \in DOMAIN more : more[j][2] = c
    BY <1>1, <1>3, <2>1
  <2>2. ASSUME NEW j \in DOMAIN more, more[j][2] = c
        PROVE  \E k \in DOMAIN all : all[k][2] = c
    BY <1>1, <2>2
  <2> QED
    BY <2>1, <2>2
<1>6. (\E k \in DOMAIN more : more[k][2] = c) <=> SortRules(prog[c].body) # <<>>
  BY DEF SortsReported
<1> QED
  BY <1>4, <1>5, <1>6 DEF all

\* Checking the sorts keeps the invariant.
LEMMA SortsChecked == RulesInv /\ CheckSorts => RulesInv'
<1> SUFFICES ASSUME RulesInv, CheckSorts PROVE RulesInv'
  OBVIOUS
<1> DEFINE pieces == [k \in DOMAIN calls |-> SortPiece(program, calls[k])]
           new == Concat(pieces)
<1>1. /\ pc = "sorts" /\ pc' = "extract_requests"
      /\ issues' = issues \o new
      /\ UNCHANGED <<script, dynamic, program, stack, calls, counts, rows>>
  BY Zenon DEF CheckSorts, SortPiece, Callee, Body
<1>2. /\ calls \in Seq(Visits) /\ stack = <<>>
      /\ issues \in Seq(Issues) /\ InProgram(program, issues)
      /\ RequestsReported(program, dynamic, issues)
      /\ ExitsReported(program, issues) /\ NoSorts(program, issues)
  BY <1>1 DEF RulesInv, WalkOK, IssuesOK, InProgram
<1>3. AllFound(program, calls)
  BY <1>1, <1>2, WalkComplete
<1>4. ArePieces(program, calls, pieces)
  BY Zenon DEF ArePieces
<1> HIDE DEF pieces
<1>5. /\ Concat(pieces) \in Seq(Issues)
      /\ SortsReported(program, Concat(pieces))
      /\ \A k \in DOMAIN Concat(pieces) :
           /\ Concat(pieces)[k][1] \in SortNames
           /\ Concat(pieces)[k][2] \in DOMAIN program
  BY <1>2, <1>3, <1>4, SortsListed
<1>6. new \in Seq(Issues) /\ SortsReported(program, new)
  BY <1>5
<1>7. OtherIssues(program, new)
  BY <1>5 DEF OtherIssues, SortNames
<1> HIDE DEF new
<1>8. /\ issues \o new \in Seq(Issues)
      /\ InProgram(program, issues \o new)
      /\ RequestsReported(program, dynamic, issues \o new)
      /\ ExitsReported(program, issues \o new)
  BY <1>2, <1>6, <1>7, IssuesAdded
<1>9. SortsReported(program, issues \o new)
  BY <1>2, <1>6, SortsAdded
<1>10. ParsedOK'
  BY <1>1 DEF RulesInv, ParsedOK, Stages
<1>11. WalkOK'
  BY <1>1 DEF RulesInv, WalkOK
<1>12. CountsOK'
  BY <1>1 DEF RulesInv, CountsOK
<1>13. IssuesOK'
  BY <1>1, <1>8, <1>9 DEF IssuesOK, InProgram
<1>14. RowsOK'
  BY <1>1 DEF RulesInv, RowsOK
<1> QED
  BY <1>10, <1>11, <1>12, <1>13, <1>14 DEF RulesInv

-----------------------------------------------------------------------------
(***************************************************************************)
(* The rows of the contracts.                                              *)
(***************************************************************************)
\* A row says that its request may not run exactly if it must not.
LEMMA RequestRowsAgree ==
  ASSUME RulesInv, NEW n \in CallsTo(program, Requests)
  PROVE  /\ RequestRow(n).node = n
         /\ Len(dynamic) <= 1 /\ Accepted(program[n].body.args) =>
              (RequestRow(n).disabled # {} <=> NotRun(program, dynamic, n))
<1> DEFINE args == program[n].body.args
           params == Signatures[program[n].body.callee]
           local == IsLocal(ContextIn(program)[n])
           Name(i) == BoundName(args, params, i)
           series == {Name(i) : i \in {i \in DOMAIN args :
                                         /\ Name(i) \in ContextParameters
                                         /\ args[i].qual = "series"}}
<1>1. /\ n \in DOMAIN program /\ program[n].kind = "call"
      /\ program[n].body.callee \in Requests
  BY DEF CallsTo
<1>2. /\ RequestRow(n).node = n
      /\ RequestRow(n).disabled =
           IF ContractEnabled THEN {}
           ELSE When(local, "local_scope")
                  \cup When(series # {}, "series_context_argument")
  <2>1. Context = ContextIn(program)
    BY UnderIs
  <2>2. RequestRow(n) =
          [node |-> n, context |-> Context[n],
           disabled |-> IF ContractEnabled THEN {}
                        ELSE When(IsLocal(Context[n]), "local_scope")
                               \cup When(series # {}, "series_context_argument")]
    BY Zenon DEF RequestRow, SeriesContext, Callee, Body
  <2> HIDE DEF series
  <2> QED
    BY <2>1, <2>2
<1>3. SUFFICES ASSUME Len(dynamic) <= 1, Accepted(args)
               PROVE  RequestRow(n).disabled # {} <=> NotRun(program, dynamic, n)
  BY <1>2
<1>4. args \in Seq(Argument)
  BY <1>1 DEF RulesInv, ParsedOK, ProgramOK, IsNode
<1>5. params \in Seq(STRING)
  BY <1>1, SignaturesAssumption
<1>6. \A i \in DOMAIN args : Name(i) = NameFor(args, params, i)
  <2> SUFFICES ASSUME NEW i \in DOMAIN args
               PROVE  BoundName(args, params, i) = NameFor(args, params, i)
    OBVIOUS
  <2> HIDE DEF args, params
  <2> QED
    BY <1>3, <1>4, <1>5, NamesAgree
<1>7. series # {} <=> \E i \in DOMAIN args :
                        args[i].qual = "series" /\ Name(i) \in ContextParameters
  OBVIOUS
<1>8. LocalOrSeries(program, n) <=> local \/ series # {}
  <2>1. LocalOrSeries(program, n) <=>
          local \/ \E i \in DOMAIN args :
                     /\ args[i].qual = "series"
                     /\ NameFor(args, params, i) \in ContextParameters
    BY DEF LocalOrSeries
  <2> HIDE DEF local, series, args, params, Name
  <2> QED
    BY <1>6, <1>7, <2>1
<1>9. ContractEnabled <=> MayRun(dynamic)
  BY <1>3, ReadersAgree
<1> HIDE DEF local, series
<1>10. RequestRow(n).disabled # {} <=> ~ContractEnabled /\ (local \/ series # {})
  BY <1>2 DEF When
<1> QED
  BY <1>8, <1>9, <1>10 DEF NotRun

\* The row of a strategy call goes among the exits exactly if it is an exit.
LEMMA StrategyRowsPlaced ==
  ASSUME NEW n
  PROVE  /\ StrategyRow(n).node = n
         /\ StrategyRow(n).bucket = "exits" <=> program[n].body.callee = "strategy.exit"
<1>1. /\ StrategyRow(n).node = n
      /\ StrategyRow(n).bucket = StrategyBucket(program[n].body.callee)
  BY DEF StrategyRow, Callee, Body
<1> DEFINE name == program[n].body.callee
<1> HIDE DEF name
<1>2. StrategyBucket(name) = "exits" <=> name = "strategy.exit"
  BY DEF StrategyBucket
<1> QED
  BY <1>1, <1>2 DEF name

\* The nodes a contract is about, in the order of the program.
LEMMA CallsInOrder ==
  ASSUME RulesInv, NEW S \in SUBSET DOMAIN program
  PROVE  /\ Cardinality(S) \in Nat
         /\ DOMAIN InOrder(S) = 1..Cardinality(S)
         /\ \A k \in DOMAIN InOrder(S) : InOrder(S)[k] \in S
         /\ \A m \in S : \E k \in DOMAIN InOrder(S) : InOrder(S)[k] = m
<1> DEFINE N == Len(program)
<1>1. N \in Nat /\ DOMAIN program = 1..N
  BY DEF RulesInv, ParsedOK, ProgramOK, Tree
<1> HIDE DEF N
<1>2. S \in SUBSET (1..N)
  BY <1>1
<1>3. /\ Cardinality(S) \in 0..N
      /\ DOMAIN InOrder(S) = 1..Cardinality(S)
      /\ \A k \in DOMAIN InOrder(S) : InOrder(S)[k] \in S
      /\ \A m \in S : \E k \in DOMAIN InOrder(S) : InOrder(S)[k] = m
  BY <1>1, <1>2, InOrderLists
<1> QED
  BY <1>1, <1>3

\* Extracting the requests keeps the invariant, ...
LEMMA RequestsExtracted == RulesInv /\ ExtractRequests => RulesInv'
<1> SUFFICES ASSUME RulesInv, ExtractRequests PROVE RulesInv'
  OBVIOUS
<1> DEFINE S == CallsTo(program, Requests)
           chosen == InOrder(S)
           new == [k \in DOMAIN chosen |-> RequestRow(chosen[k])]
<1>1. /\ pc = "extract_requests" /\ pc' = "extract_strategy"
      /\ rows' = [rows EXCEPT !.requests = new]
      /\ UNCHANGED <<script, dynamic, program, stack, calls, counts, issues>>
  BY Zenon DEF ExtractRequests, RowsOf, CallsTo, Callee, Body
<1>2. S \in SUBSET DOMAIN program
  BY DEF CallsTo
<1> HIDE DEF S
<1>3. /\ Cardinality(S) \in Nat
      /\ DOMAIN chosen = 1..Cardinality(S)
      /\ \A k \in DOMAIN chosen : chosen[k] \in S
  BY <1>2, CallsInOrder
<1> HIDE DEF chosen
<1>4. /\ DOMAIN new = 1..Cardinality(S)
      /\ \A k \in DOMAIN new : chosen[k] \in S /\ new[k] = RequestRow(chosen[k])
  BY <1>3
<1>5. Len(new) = Cardinality(S)
  <2> DEFINE T == {RequestRow(chosen[k]) : k \in 1..Cardinality(S)}
             n == Cardinality(S)
             row(k) == RequestRow(chosen[k])
  <2>1. new = [k \in 1..n |-> row(k)] /\ \A k \in 1..n : row(k) \in T
    BY <1>3
  <2>2. n \in Nat
    BY <1>3
  <2> HIDE DEF new, T, n, row
  <2>3. new \in [1..n -> T]
    BY <2>1
  <2>4. new \in Seq(T)
    BY <2>2, <2>3
  <2>5. Len(new) \in Nat /\ DOMAIN new = 1..Len(new) /\ DOMAIN new = 1..n
    BY <2>3, <2>4, LenProperties
  <2>6. (Len(new) \in 1..Len(new) <=> Len(new) \in 1..n)
        /\ (n \in 1..Len(new) <=> n \in 1..n)
    BY <2>5
  <2> DEFINE L == Len(new)
  <2>7. L \in Nat /\ (L \in 1..L <=> L \in 1..n) /\ (n \in 1..L <=> n \in 1..n)
    BY <2>5, <2>6
  <2> HIDE DEF L
  <2>8. L = n
    BY <2>2, <2>7
  <2> QED
    BY <2>8 DEF n, L
<1>6. RequestRowsOK(program, dynamic, new)
  <2>1. ASSUME NEW k \in DOMAIN new
        PROVE  /\ new[k].node \in S
               /\ Len(dynamic) <= 1 /\ Accepted(program[new[k].node].body.args) =>
                    (new[k].disabled # {} <=> NotRun(program, dynamic, new[k].node))
    <3> DEFINE n == chosen[k]
    <3>1. n \in CallsTo(program, Requests) /\ new[k] = RequestRow(n)
      BY <1>4 DEF S
    <3> HIDE DEF n, new
    <3>2. /\ RequestRow(n).node = n
          /\ Len(dynamic) <= 1 /\ Accepted(program[n].body.args) =>
               (RequestRow(n).disabled # {} <=> NotRun(program, dynamic, n))
      BY <3>1, RequestRowsAgree
    <3> QED
      BY <3>1, <3>2 DEF S
  <2> HIDE DEF new
  <2> QED
    BY <1>5, <2>1 DEF RequestRowsOK, S
<1> HIDE DEF new
<1>7. ParsedOK'
  BY <1>1 DEF RulesInv, ParsedOK, Stages
<1>8. WalkOK'
  BY <1>1 DEF RulesInv, WalkOK
<1>9. CountsOK'
  BY <1>1 DEF RulesInv, CountsOK
<1>10. IssuesOK'
  BY <1>1 DEF RulesInv, IssuesOK
<1>11. RowsOK'
  <2>1. rows = [requests |-> rows.requests, strategy |-> rows.strategy,
                loops |-> rows.loops, conditions |-> rows.conditions]
        /\ rows.loops = <<>> /\ LoopRowsOK(program, rows.loops)
    BY <1>1 DEF RulesInv, RowsOK
  <2>2. rows' = [requests |-> new, strategy |-> rows.strategy,
                 loops |-> rows.loops, conditions |-> rows.conditions]
    BY <1>1, <2>1
  <2>3. rows'.requests = new /\ rows'.loops = rows.loops
        /\ rows'.strategy = rows.strategy /\ rows'.conditions = rows.conditions
    BY <2>2
  <2> QED
    BY <1>1, <1>6, <2>1, <2>2, <2>3 DEF RowsOK
<1> QED
  BY <1>7, <1>8, <1>9, <1>10, <1>11 DEF RulesInv

\* ... so does extracting the strategy, ...
LEMMA StrategyExtracted == RulesInv /\ ExtractStrategy => RulesInv'
<1> SUFFICES ASSUME RulesInv, ExtractStrategy PROVE RulesInv'
  OBVIOUS
<1> DEFINE S == CallsTo(program, StrategyCalls)
           chosen == InOrder(S)
           new == [k \in DOMAIN chosen |-> StrategyRow(chosen[k])]
<1>1. /\ pc = "extract_strategy" /\ pc' = "extract_control_flow"
      /\ rows' = [rows EXCEPT !.strategy = new]
      /\ UNCHANGED <<script, dynamic, program, stack, calls, counts, issues>>
  BY Zenon DEF ExtractStrategy, RowsOf, CallsTo, Callee, Body
<1>2. S \in SUBSET DOMAIN program
  BY DEF CallsTo
<1>3. \A n : n \in CallsTo(program, {"strategy.exit"}) <=>
               n \in S /\ program[n].body.callee = "strategy.exit"
  BY DEF CallsTo, StrategyCalls
<1> HIDE DEF S
<1>4. /\ DOMAIN chosen = 1..Cardinality(S)
      /\ \A k \in DOMAIN chosen : chosen[k] \in S
      /\ \A m \in S : \E k \in DOMAIN chosen : chosen[k] = m
  BY <1>2, CallsInOrder
<1> HIDE DEF chosen
<1>5. /\ DOMAIN new = DOMAIN chosen
      /\ \A k \in DOMAIN new : new[k] = StrategyRow(chosen[k])
  OBVIOUS
<1> HIDE DEF new
<1>6. StrategyRowsOK(program, new)
  <2>1. \A k \in DOMAIN new :
          /\ new[k].node = chosen[k]
          /\ new[k].bucket = "exits" <=> program[chosen[k]].body.callee = "strategy.exit"
    BY <1>5, StrategyRowsPlaced
  <2>2. \A k \in DOMAIN new : new[k].bucket = "exits" =>
          new[k].node \in CallsTo(program, {"strategy.exit"})
    BY <1>3, <1>4, <1>5, <2>1
  <2>3. \A n \in CallsTo(program, {"strategy.exit"}) :
          \E k \in DOMAIN new : new[k].node = n /\ new[k].bucket = "exits"
    BY <1>3, <1>4, <1>5, <2>1
  <2> QED
    BY <2>2, <2>3 DEF StrategyRowsOK
<1>7. ParsedOK'
  BY <1>1 DEF RulesInv, ParsedOK, Stages
<1>8. WalkOK'
  BY <1>1 DEF RulesInv, WalkOK
<1>9. CountsOK'
  BY <1>1 DEF RulesInv, CountsOK
<1>10. IssuesOK'
  BY <1>1 DEF RulesInv, IssuesOK
<1>11. RowsOK'
  <2>1. rows = [requests |-> rows.requests, strategy |-> rows.strategy,
                loops |-> rows.loops, conditions |-> rows.conditions]
        /\ rows.loops = <<>> /\ LoopRowsOK(program, rows.loops)
        /\ RequestRowsOK(program, dynamic, rows.requests)
    BY <1>1 DEF RulesInv, RowsOK
  <2>2. rows' = [requests |-> rows.requests, strategy |-> new,
                 loops |-> rows.loops, conditions |-> rows.conditions]
    BY <1>1, <2>1
  <2>3. rows'.requests = rows.requests /\ rows'.loops = rows.loops
        /\ rows'.strategy = new /\ rows'.conditions = rows.conditions
    BY <2>2
  <2> QED
    BY <1>1, <1>6, <2>1, <2>2, <2>3 DEF RowsOK
<1> QED
  BY <1>7, <1>8, <1>9, <1>10, <1>11 DEF RulesInv

\* ... and so does extracting the control flow.
LEMMA ControlFlowExtracted == RulesInv /\ ExtractControlFlow => RulesInv'
<1> SUFFICES ASSUME RulesInv, ExtractControlFlow PROVE RulesInv'
  OBVIOUS
<1> DEFINE S == {n \in DOMAIN program : program[n].kind \in {"while", "for_range", "for_in"}}
           chosen == InOrder(S)
           new == [k \in DOMAIN chosen |-> LoopRow(chosen[k])]
           more == Concat([n \in DOMAIN program |-> ConditionRows(n)])
<1>1. /\ pc = "extract_control_flow" /\ pc' = "done"
      /\ rows' = [rows EXCEPT !.loops = new, !.conditions = more]
      /\ UNCHANGED <<script, dynamic, program, stack, calls, counts, issues>>
  BY Zenon DEF ExtractControlFlow
<1>2. S \in SUBSET DOMAIN program
  OBVIOUS
<1> HIDE DEF S
<1>3. \A k \in DOMAIN chosen : chosen[k] \in S
  BY <1>2, CallsInOrder
<1> HIDE DEF chosen
<1>4. DOMAIN new = DOMAIN chosen /\ \A k \in DOMAIN new : new[k] = LoopRow(chosen[k])
  OBVIOUS
<1> HIDE DEF new, more
<1>5. LoopRowsOK(program, new)
  <2>1. ASSUME NEW n
        PROVE  /\ LoopRow(n).node = n
               /\ LoopRow(n).kind = program[n].kind
               /\ LoopRow(n).iterations =
                    IF program[n].kind = "for_range"
                    THEN StaticIterations(program[n].body) ELSE NoCount
    BY DEF LoopRow, Body
  <2> SUFFICES ASSUME NEW k \in DOMAIN new
               PROVE  /\ new[k].node \in DOMAIN program
                      /\ new[k].kind = program[new[k].node].kind
                      /\ new[k].iterations =
                           IF program[new[k].node].kind = "for_range"
                           THEN StaticIterations(program[new[k].node].body) ELSE NoCount
    BY DEF LoopRowsOK
  <2> QED
    BY <1>2, <1>3, <1>4, <2>1
<1>6. ParsedOK'
  BY <1>1 DEF RulesInv, ParsedOK, Stages
<1>7. WalkOK'
  BY <1>1 DEF RulesInv, WalkOK
<1>8. CountsOK'
  BY <1>1 DEF RulesInv, CountsOK
<1>9. IssuesOK'
  BY <1>1 DEF RulesInv, IssuesOK
<1>10. RowsOK'
  <2>1. rows = [requests |-> rows.requests, strategy |-> rows.strategy,
                loops |-> rows.loops, conditions |-> rows.conditions]
        /\ StrategyRowsOK(program, rows.strategy)
        /\ RequestRowsOK(program, dynamic, rows.requests)
    BY <1>1 DEF RulesInv, RowsOK
  <2>2. rows' = [requests |-> rows.requests, strategy |-> rows.strategy,
                 loops |-> new, conditions |-> more]
    BY <1>1, <2>1
  <2>3. rows'.requests = rows.requests /\ rows'.loops = new
        /\ rows'.strategy = rows.strategy /\ rows'.conditions = more
    BY <2>2
  <2> QED
    BY <1>1, <1>5, <2>1, <2>2, <2>3 DEF RowsOK
<1> QED
  BY <1>6, <1>7, <1>8, <1>9, <1>10 DEF RulesInv

-----------------------------------------------------------------------------
(***************************************************************************)
(* The theorems.                                                           *)
(***************************************************************************)
\* Every step keeps the invariant.
LEMMA EveryStep == RulesInv /\ [Next]_vars => RulesInv'
<1> SUFFICES ASSUME RulesInv, [Next]_vars PROVE RulesInv'
  OBVIOUS
<1>1. CASE AddNode
  BY <1>1, ANodeAdded
<1>2. CASE StartWalk
  BY <1>2, TheWalkStarted
<1>3. CASE Visit
  BY <1>3, ANodeVisited
<1>4. CASE Count
  BY <1>4, CountsTaken
<1>5. CASE CheckRequests
  BY <1>5, RequestsChecked
<1>6. CASE CheckExits
  BY <1>6, ExitsChecked
<1>7. CASE CheckExports
  BY <1>7, ExportsChecked
<1>8. CASE CheckSorts
  BY <1>8, SortsChecked
<1>9. CASE ExtractRequests
  BY <1>9, RequestsExtracted
<1>10. CASE ExtractStrategy
  BY <1>10, StrategyExtracted
<1>11. CASE ExtractControlFlow
  BY <1>11, ControlFlowExtracted
<1>12. CASE UNCHANGED vars
  BY <1>12 DEF vars, RulesInv, ParsedOK, WalkOK, CountsOK, IssuesOK, RowsOK
<1> QED
  BY <1>1, <1>2, <1>3, <1>4, <1>5, <1>6, <1>7, <1>8, <1>9, <1>10, <1>11, <1>12
     DEF Next

\* The invariant says that the two walks agree.
LEMMA WalkFollows == RulesInv => WalkInvariant
<1> SUFFICES ASSUME RulesInv PROVE WalkInvariant
  OBVIOUS
<1> DEFINE N == Len(program)
<1>1. /\ N \in Nat /\ DOMAIN program = 1..N
      /\ \A n \in DOMAIN program : /\ program[n].parent \in 0..(n - 1)
                                   /\ n = 1 <=> program[n].parent = 0
      /\ stack \in Seq(Visits) /\ calls \in Seq(Visits)
  BY DEF RulesInv, ParsedOK, WalkOK, ProgramOK, Tree
<1>2. pc # "parse" => Walking(program, stack, calls)
  BY DEF RulesInv, WalkOK
<1>3. pc = "parse" => stack = <<>> /\ calls = <<>>
  BY DEF RulesInv, WalkOK
<1> HIDE DEF N
<1>4. TypeOK
  <2>1. /\ \A k \in DOMAIN stack : stack[k].node \in DOMAIN program
        /\ \A k \in DOMAIN calls : calls[k].node \in DOMAIN program
    <3>1. CASE pc = "parse"
      BY <1>3, <3>1
    <3>2. CASE pc # "parse"
      BY <1>2, <3>2 DEF Walking, AtContext
    <3> QED
      BY <3>1, <3>2
  <2>2. /\ script \in {"library", "strategy"}
        /\ \A k \in DOMAIN issues : issues[k][2] \in DOMAIN program
        /\ \A f \in DOMAIN counts : counts[f] \in 0..MaxNodes
        /\ pc \in Stages
    BY DEF RulesInv, ParsedOK, IssuesOK, CountsOK
  <2> QED
    BY <1>1, <2>1, <2>2 DEF TypeOK, Stages
<1>5. WalksAgree
  <2> DEFINE found == {calls[k].node : k \in DOMAIN calls}
             pending == {n \in DOMAIN program :
                           /\ program[n].kind = "call"
                           /\ \E k \in DOMAIN stack : stack[k].node \in Under[n]}
             S == {n \in DOMAIN program : program[n].kind = "call"}
  <2>1. SUFFICES ASSUME Walking(program, stack, calls)
                 PROVE  /\ found \cup pending = {Calls[k] : k \in DOMAIN Calls}
                        /\ found \cap pending = {}
                        /\ Cardinality(found) = Len(calls)
                        /\ \A k \in DOMAIN calls : calls[k].context = Context[calls[k].node]
                        /\ \A k \in DOMAIN stack : stack[k].context = Context[stack[k].node]
    BY <1>2 DEF WalksAgree
  <2>2. Under = Ancestors(program) /\ Context = ContextIn(program)
    BY UnderIs
  <2>3. {Calls[k] : k \in DOMAIN Calls} = S
    <3>1. S \in SUBSET DOMAIN program
      OBVIOUS
    <3>2. Calls = InOrder(S)
      BY DEF Calls
    <3> HIDE DEF S
    <3>3. /\ \A k \in DOMAIN InOrder(S) : InOrder(S)[k] \in S
          /\ \A m \in S : \E k \in DOMAIN InOrder(S) : InOrder(S)[k] = m
      BY <3>1, CallsInOrder
    <3> QED
      BY <3>2, <3>3
  <2>4. found \subseteq S
    BY <2>1 DEF Walking, AllCalls, AtContext
  <2>5. found \cup pending = S
    <3>1. \A n \in S : n \in found \/ n \in pending
      BY <2>1, <2>2 DEF Walking, NoneMissed
    <3>2. pending \subseteq S
      OBVIOUS
    <3> QED
      BY <2>4, <3>1, <3>2
  <2>6. found \cap pending = {}
    <3>1. \A n \in found : n \notin pending
      BY <2>1, <2>2 DEF Walking, Behind
    <3> QED
      BY <3>1
  <2>7. Cardinality(found) = Len(calls)
    <3> DEFINE K == DOMAIN calls
               L == Len(calls)
    <3>1. found \in SUBSET (1..N) /\ Once(calls)
      BY <1>1, <2>1, <2>4 DEF Walking
    <3>2. StandsFor(calls, K, found)
      BY DEF StandsFor
    <3>3. K = 1..L /\ L \in Nat /\ K \in SUBSET DOMAIN calls
      BY <1>1, LenProperties
    <3> HIDE DEF found, K, L
    <3>4. Cardinality(K) = Cardinality(found)
      BY <1>1, <3>1, <3>2, <3>3, CountedOnce
    <3>5. Cardinality(1..L) = IF 1 > L THEN 0 ELSE L - 1 + 1
      BY <3>3, FS_Interval
    <3>6. Cardinality(1..L) = L
      BY <3>3, <3>5
    <3> QED
      BY <3>3, <3>4, <3>6 DEF L
  <2>8. /\ \A k \in DOMAIN calls : calls[k].context = Context[calls[k].node]
        /\ \A k \in DOMAIN stack : stack[k].context = Context[stack[k].node]
    BY <2>1, <2>2 DEF Walking, AtContext
  <2> QED
    BY <2>3, <2>5, <2>6, <2>7, <2>8
<1> QED
  BY <1>4, <1>5 DEF WalkInvariant

\* Reported, in the words of the invariant.
LEMMA ReportedIs == \A rule, n : Reported(rule, n) <=> Lists(issues, rule, n)
BY DEF Reported, Lists

\* The invariant says that requests are reported as their rows say, ...
LEMMA RequestsFollow == RulesInv => RequestsDisabledAreReported
<1> SUFFICES ASSUME RulesInv, pc = "done", Len(dynamic) <= 1,
                    NEW k \in DOMAIN rows.requests,
                    Accepted(program[rows.requests[k].node].body.args)
             PROVE  Reported("dynamic_request", rows.requests[k].node)
                      <=> rows.requests[k].disabled # {}
  BY DEF RequestsDisabledAreReported, Body
<1> DEFINE n == rows.requests[k].node
<1>1. RequestRowsOK(program, dynamic, rows.requests)
  BY DEF RulesInv, RowsOK
<1>2. RequestsReported(program, dynamic, issues)
  BY DEF RulesInv, IssuesOK
<1>3. /\ n \in CallsTo(program, Requests)
      /\ rows.requests[k].disabled # {} <=> NotRun(program, dynamic, n)
  BY <1>1 DEF RequestRowsOK
<1>4. n \in DOMAIN program
  BY <1>3 DEF CallsTo
<1>5. Lists(issues, "dynamic_request", n) <=> NotRun(program, dynamic, n)
  BY <1>2, <1>4 DEF RequestsReported
<1> QED
  BY <1>3, <1>5, ReportedIs

\* ... that the counters are those of the rows, ...
LEMMA CountsFollow == RulesInv => CountsMatchRows
<1> SUFFICES ASSUME RulesInv, pc = "done" PROVE CountsMatchRows
  BY DEF CountsMatchRows
<1> DEFINE X == CallsTo(program, {"strategy.exit"})
           exits == {rows.strategy[k].node : k \in {k \in DOMAIN rows.strategy :
                                          rows.strategy[k].bucket = "exits"}}
<1>1. /\ RequestRowsOK(program, dynamic, rows.requests)
      /\ StrategyRowsOK(program, rows.strategy)
  BY DEF RulesInv, RowsOK
<1>2. /\ counts.requests = Cardinality(CallsTo(program, Requests))
      /\ counts.exits = Cardinality(X)
  BY DEF RulesInv, CountsOK
<1>3. \A n \in DOMAIN program : Lists(issues, "exit_action", n) => n \in X
  BY DEF RulesInv, IssuesOK, ExitsReported
<1>4. Len(rows.requests) = Cardinality(CallsTo(program, Requests))
  BY <1>1 DEF RequestRowsOK
<1>5. exits = X
  <2>1. exits \subseteq X
    BY <1>1 DEF StrategyRowsOK
  <2>2. X \subseteq exits
    BY <1>1 DEF StrategyRowsOK
  <2> QED
    BY <2>1, <2>2
<1> HIDE DEF X
<1> QED
  BY <1>2, <1>3, <1>4, <1>5, ReportedIs DEF CountsMatchRows

\* ... that sorts are accepted as they should be ...
LEMMA SortsFollow == RulesInv => SortsSelectOrderedFields
<1> SUFFICES ASSUME RulesInv, pc = "done",
                    NEW j \in DOMAIN Calls, Callee(Calls[j]) = "sort",
                    Body(Calls[j]).element \in DOMAIN Fields,
                    Body(Calls[j]).selector.form # "other"
             PROVE  LET c == Calls[j]
                        s == Body(c).selector
                        fields == Fields[Body(c).element]
                        reports == {k \in DOMAIN issues : issues[k][2] = c}
                    IN /\ reports = {} <=> \E k \in Selected(fields, s) :
                                             /\ fields[k].type \in Sortable
                                             /\ Selected(fields, s) = {k}
                       /\ Cardinality(reports) <= 1
  BY DEF SortsSelectOrderedFields
<1> DEFINE c == Calls[j]
           call == program[c].body
           fields == Fields[call.element]
           chosen == Selected(fields, call.selector)
           reports == {k \in DOMAIN issues : issues[k][2] = c}
<1>1. c \in DOMAIN program /\ program[c].kind = "call"
  <2> DEFINE S == {n \in DOMAIN program : program[n].kind = "call"}
  <2>1. S \in SUBSET DOMAIN program
    OBVIOUS
  <2>2. Calls = InOrder(S)
    BY DEF Calls
  <2> HIDE DEF S
  <2>3. \A k \in DOMAIN InOrder(S) : InOrder(S)[k] \in S
    BY <2>1, CallsInOrder
  <2>4. c \in S
    BY <2>2, <2>3
  <2> QED
    BY <2>4 DEF S
<1>2. /\ call.callee = "sort" /\ call.element \in DOMAIN Fields
      /\ call.selector.form # "other"
  BY DEF Callee, Body
<1>3. IsSelector(call.selector)
  BY <1>1, <1>2 DEF RulesInv, ParsedOK, ProgramOK, IsNode
<1>4. c \in CallsTo(program, {"sort"})
  BY <1>1, <1>2 DEF CallsTo
<1>5. /\ (\E k \in DOMAIN issues : issues[k][2] = c) <=> SortRules(call) # <<>>
      /\ Len(SortRules(call)) <= 1 => AtMostOnce(issues, c)
  BY <1>4 DEF RulesInv, IssuesOK, SortsReported
<1> HIDE DEF c
<1>6. /\ Len(SortRules(call)) <= 1
      /\ SortRules(call) = <<>> <=>
           \E k \in chosen : fields[k].type \in Sortable /\ chosen = {k}
  <2> HIDE DEF call
  <2> QED
    BY <1>2, <1>3, SortAccepts
<1>7. reports = {} <=> SortRules(call) = <<>>
  <2>1. reports = {} <=> ~ \E k \in DOMAIN issues : issues[k][2] = c
    OBVIOUS
  <2> HIDE DEF reports, call
  <2> QED
    BY <1>5, <2>1
<1>8. Cardinality(reports) <= 1
  <2>1. \A i, k \in reports : i = k
    BY <1>5, <1>6 DEF AtMostOnce
  <2> HIDE DEF reports
  <2>2. CASE reports = {}
    BY <2>2, FS_EmptySet
  <2>3. CASE reports # {}
    <3>1. PICK k : k \in reports
      BY <2>3
    <3>2. reports = {k}
      BY <2>1, <3>1
    <3>3. Cardinality({k}) = 1
      BY FS_Singleton
    <3> QED
      BY <3>2, <3>3
  <2> QED
    BY <2>2, <2>3
<1>9. Body(c) = call
  BY DEF Body
<1> HIDE DEF call, reports
<1> QED
  BY <1>6, <1>7, <1>8, <1>9 DEF reports, c

\* ... and that loops are counted as they run.
LEMMA LoopsFollow == RulesInv => LoopRowsCountIterations
<1> SUFFICES ASSUME RulesInv, NEW k \in DOMAIN rows.loops,
                    rows.loops[k].kind = "for_range", rows.loops[k].iterations > 0
             PROVE  rows.loops[k].iterations
                      = Cardinality(Values(Body(rows.loops[k].node)))
  BY DEF LoopRowsCountIterations
<1> DEFINE n == rows.loops[k].node
           l == program[n].body
<1>1. /\ n \in DOMAIN program
      /\ program[n].kind = "for_range"
      /\ rows.loops[k].iterations = StaticIterations(l)
  BY DEF RulesInv, RowsOK, LoopRowsOK
<1>2. l \in [start : Bound, end : Bound, step : Bound]
  BY <1>1 DEF RulesInv, ParsedOK, ProgramOK, IsNode
<1> HIDE DEF l
<1>3. StaticIterations(l) = Cardinality(Values(l))
  BY <1>1, <1>2, IterationsCounted
<1> QED
  BY <1>1, <1>3 DEF l, Body

\* For any program and signatures, at any moment of the walk with a stack the
\* calls found and those still under the stack are the calls of the recursive
\* walk, once each and in the same contexts (static_validation.py's
\* iter_calls_with_context_fast against the extractors under frontend/).
THEOREM BothWalksAgree == Spec => []WalkInvariant
BY ParsingStarts, EveryStep, WalkFollows, PTL DEF Spec

\* For any program and signatures, a request whose arguments are accepted is
\* reported exactly if its row says that it may not run, though report and row
\* bind the arguments, read the declaration and walk the program differently.
THEOREM ReportAndRequestRowsAgree == Spec => []RequestsDisabledAreReported
BY ParsingStarts, EveryStep, RequestsFollow, PTL DEF Spec

\* For any program, the counters of the report are the numbers of rows of the
\* contracts, and an exit reported has a row among the exits.
THEOREM CountsAreThoseOfTheRows == Spec => []CountsMatchRows
BY ParsingStarts, EveryStep, CountsFollow, PTL DEF Spec

\* For any records and any literal selector, a sort is reported at most once,
\* and not at all exactly if the selector stands for one field that can be
\* ordered (the sort rules of static_validation.py).
THEOREM AcceptedSortsSelectOneField == Spec => []SortsSelectOrderedFields
BY ParsingStarts, EveryStep, SortsFollow, PTL DEF Spec

\* For any bounds of a loop, a positive number of iterations in its row is the
\* number of values its counter takes (_for_range_static_iterations of
\* frontend/helpers.py).
THEOREM RowsCountIterations == Spec => []LoopRowsCountIterations
BY ParsingStarts, EveryStep, LoopsFollow, PTL DEF Spec
=============================================================================
