---------------------------- MODULE PipelineProofs ----------------------------
(***************************************************************************)
(* Proofs about Pipeline, for any reports and any limit of diagnostics:    *)
(* what a fatal condition and what a tree mean, what the gates tell of the *)
(* result, and that nothing reported is lost.                              *)
(*                                                                         *)
(* Fatal conditions.  Whatever is fatal and was issued while the pipeline  *)
(* still looks for it is among the diagnostics, so that the first stage    *)
(* that goes on to the layout has seen none; from there only the count of  *)
(* nodes issues one, and takes the tree away.  What the deduplication and  *)
(* the truncation leave of the list does not matter.                       *)
(*                                                                         *)
(* Gates and result.  The deduplication keeps one diagnostic of each key,  *)
(* the first, in order (DedupedPlaces).  As the key decides the severity   *)
(* wherever the pipeline is (SeveritiesFixed), the list that is returned   *)
(* blocks where the whole list does, unless it is full (FinalPasses); and  *)
(* the whole list blocks where a gate says fail (GatesJudge).              *)
(*                                                                         *)
(* Reports.  As long as no limit is reached the diagnostics have the keys  *)
(* of what was issued, place by place (KeysKept).  Where the parser's or   *)
(* the analyzer's is reached they still have the key of all that the other *)
(* stages say (Dropping).                                                  *)
(***************************************************************************)
EXTENDS Pipeline, FiniteSetTheorems, WellFoundedInduction, TLAPS

-----------------------------------------------------------------------------
(* Lists, the deduplication and the truncation. *)

\* What the sequences of the model do.
LEMMA AppendFacts ==
  ASSUME NEW list \in Seq(Diagnostic), NEW d \in Diagnostic
  PROVE  /\ Append(list, d) \in Seq(Diagnostic)
         /\ Len(list) \in Nat
         /\ Len(Append(list, d)) = Len(list) + 1
         /\ \A k \in 1..Len(list) : Append(list, d)[k] = list[k]
         /\ Append(list, d)[Len(list) + 1] = d
         /\ \A k \in 1..(Len(list) + 1) :
              k \in 1..Len(list) \/ k = Len(list) + 1
<1> HIDE DEF Diagnostic
<1>1. QED
  OBVIOUS

\* And what joining two of them gives.
LEMMA JoinFacts ==
  ASSUME NEW list \in Seq(Diagnostic), NEW more \in Seq(Diagnostic)
  PROVE  /\ list \o more \in Seq(Diagnostic)
         /\ Len(list) \in Nat /\ Len(more) \in Nat
         /\ Len(list \o more) = Len(list) + Len(more)
         /\ \A k \in 1..Len(list) : (list \o more)[k] = list[k]
         /\ \A k \in 1..Len(more) : (list \o more)[Len(list) + k] = more[k]
         /\ \A k \in 1..(Len(list) + Len(more)) :
              \/ k \in 1..Len(list)
              \/ k - Len(list) \in 1..Len(more)
<1> HIDE DEF Diagnostic
<1>1. QED
  OBVIOUS

\* A set of numbers has a least one.
LEMMA LeastNumber ==
  ASSUME NEW S \in SUBSET Nat, S # {}
  PROVE  \E k \in S : \A j \in S : k <= j
<1>1. PICK k \in S : \A j \in S : ~(<<j, k>> \in OpToRel(<, Nat))
  BY WFMin, NatLessThanWellFounded
<1>2. \A j \in S : ~(j < k)
  BY <1>1 DEF OpToRel
<1>3. QED
  BY <1>2

\* How many of a set are up to k: with n elements each rank from 1 to n is the
\* rank of one of them, and ranks follow the order.
LEMMA Ranks ==
  ASSUME NEW n \in Nat, NEW S \in SUBSET (1..n)
  PROVE  /\ Cardinality(S) \in 0..n
         /\ \A k \in S : Rank(S, k) \in 1..Cardinality(S)
         /\ \A j, k \in S : j < k => Rank(S, j) < Rank(S, k)
         /\ \A m \in 1..Cardinality(S) : \E k \in S : Rank(S, k) = m
<1> DEFINE Up(k) == {j \in S : j <= k}
           R == [k \in S |-> Cardinality(Up(k))]
<1>0. S \subseteq Nat
  OBVIOUS
<1>1. IsFiniteSet(S) /\ Cardinality(S) \in 0..n
  <2>1. IsFiniteSet(1..n) /\ Cardinality(1..n) = n
    BY FS_Interval
  <2>2. IsFiniteSet(S) /\ Cardinality(S) <= n
    BY <2>1, FS_Subset
  <2>3. QED
    BY <2>2, FS_CardinalityType
<1>2. ASSUME NEW k \in S
      PROVE  IsFiniteSet(Up(k)) /\ Cardinality(Up(k)) \in 1..Cardinality(S)
  <2>1. IsFiniteSet(Up(k)) /\ Cardinality(Up(k)) <= Cardinality(S)
    BY <1>1, FS_Subset
  <2>2. Up(k) # {}
    OBVIOUS
  <2>3. QED
    BY <1>1, <2>1, <2>2, FS_EmptySet, FS_CardinalityType
<1>3. ASSUME NEW j \in S, NEW k \in S, j < k
      PROVE  Cardinality(Up(j)) < Cardinality(Up(k))
  <2>1. Up(j) \in SUBSET Up(k) /\ k \in Up(k) /\ k \notin Up(j)
    <3>1. j \in Int /\ k \in Int /\ S \subseteq Int
      BY <1>0
    <3>2. \A i \in S : i <= j => i <= k
      BY <3>1, <1>3
    <3>3. ~(k <= j) /\ k <= k
      BY <3>1, <1>3
    <3>4. QED
      BY <3>2, <3>3, Zenon
  <2>2. /\ Cardinality(Up(j)) <= Cardinality(Up(k))
        /\ Cardinality(Up(j)) # Cardinality(Up(k))
    BY <2>1, <1>2, FS_Subset
  <2>3. QED
    BY <2>2, <1>2
<1> HIDE DEF Up
<1>4. \A k \in S : R[k] = Cardinality(Up(k)) /\ Rank(S, k) = Cardinality(Up(k))
  BY DEF Up, Rank
<1>5. R \in Injection(S, 1..Cardinality(S))
  <2>1. R \in [S -> 1..Cardinality(S)]
    BY <1>2, <1>4
  <2>2. ASSUME NEW j \in S, NEW k \in S, R[j] = R[k]
        PROVE  j = k
    BY <1>2, <1>3, <1>4, <2>2
  <2>3. QED
    BY <2>1, <2>2 DEF Injection, IsInjective
<1>6. IsFiniteSet(1..Cardinality(S)) /\ Cardinality(1..Cardinality(S)) = Cardinality(S)
  BY <1>1, FS_Interval
<1>7. R \in Surjection(S, 1..Cardinality(S))
  BY <1>5, <1>6, FS_Injection
<1> HIDE DEF R
<1>8. \A m \in 1..Cardinality(S) : \E k \in S : R[k] = m
  BY <1>7 DEF Surjection
<1>9. QED
  BY <1>1, <1>2, <1>3, <1>4, <1>8

\* Every diagnostic has a kept one of its key at its place or before.
LEMMA KeptFirst ==
  ASSUME NEW list \in Seq(Diagnostic), NEW k \in 1..Len(list)
  PROVE  \E j \in Kept(list) : j <= k /\ list[j].key = list[k].key
<1> DEFINE T == {j \in 1..Len(list) : list[j].key = list[k].key}
<1>1. T \in SUBSET Nat /\ k \in T
  OBVIOUS
<1>2. PICK j \in T : \A i \in T : j <= i
  BY <1>1, LeastNumber
<1>3. j \in 1..Len(list) /\ j <= k /\ list[j].key = list[k].key
  BY <1>1, <1>2
<1>4. ASSUME NEW i \in 1..(j - 1) PROVE list[i].key # list[j].key
  BY <1>2, <1>3
<1>5. QED
  BY <1>3, <1>4 DEF Kept

\* The deduplicated list takes the kept diagnostics, all of them and in order.
LEMMA DedupedPlaces ==
  ASSUME NEW list \in Seq(Diagnostic)
  PROVE  /\ Deduped(list) \in Seq(Diagnostic)
         /\ Len(Deduped(list)) <= Len(list)
         /\ \E place \in [1..Len(Deduped(list)) -> Kept(list)] :
              /\ \A m \in 1..Len(Deduped(list)) :
                   Deduped(list)[m] = list[place[m]]
              /\ \A l, m \in 1..Len(Deduped(list)) :
                   l < m => place[l] < place[m]
              /\ \A k \in Kept(list) :
                   \E m \in 1..Len(Deduped(list)) : place[m] = k
<1> DEFINE S == Kept(list)
           N == Cardinality(S)
           place == [m \in 1..N |-> CHOOSE k \in S : Rank(S, k) = m]
<1>1. Len(list) \in Nat /\ S \in SUBSET (1..Len(list))
  BY DEF Kept
<1>2. /\ N \in 0..Len(list)
      /\ \A k \in S : Rank(S, k) \in 1..N
      /\ \A j, k \in S : j < k => Rank(S, j) < Rank(S, k)
      /\ \A m \in 1..N : \E k \in S : Rank(S, k) = m
  <2> HIDE DEF S
  <2>1. QED
    BY <1>1, Ranks
<1>3. Deduped(list) = [m \in 1..N |-> list[place[m]]]
  BY DEF Deduped
<1> HIDE DEF S, N
<1>4. ASSUME NEW m \in 1..N
      PROVE  place[m] \in S /\ Rank(S, place[m]) = m
  BY <1>2
<1>5. place \in [1..N -> S]
  BY <1>4
<1> HIDE DEF place
<1>6. ASSUME NEW k \in S
      PROVE  Rank(S, k) \in 1..N /\ place[Rank(S, k)] = k
  <2>1. Rank(S, k) \in 1..N
    BY <1>2
  <2>2. place[Rank(S, k)] \in S /\ Rank(S, place[Rank(S, k)]) = Rank(S, k)
    BY <2>1, <1>4
  <2>3. ASSUME NEW j \in S, Rank(S, j) = Rank(S, k) PROVE j = k
    <3>1. j \in Int /\ k \in Int /\ Rank(S, j) \in Int /\ Rank(S, k) \in Int
      BY <1>1, <1>2
    <3>2. ~(j < k) /\ ~(k < j)
      BY <1>2, <2>3, <3>1
    <3>3. QED
      BY <3>1, <3>2
  <2>4. QED
    BY <2>1, <2>2, <2>3
<1>7. ASSUME NEW l \in 1..N, NEW m \in 1..N, l < m
      PROVE  place[l] < place[m]
  <2> DEFINE a == place[l]
             b == place[m]
  <2>1. a \in S /\ b \in S /\ Rank(S, a) = l /\ Rank(S, b) = m
    BY <1>4
  <2> HIDE DEF a, b
  <2>2. a \in Int /\ b \in Int /\ l \in Int /\ m \in Int
    BY <2>1, <1>1, <1>2
  <2>3. a # b /\ ~(b < a)
    BY <2>1, <2>2, <1>2, <1>7
  <2>4. QED
    BY <2>2, <2>3 DEF a, b
<1>8. N \in Nat /\ N <= Len(list)
  BY <1>1, <1>2
<1>9. ASSUME NEW m \in 1..N PROVE list[place[m]] \in Diagnostic
  <2>1. place[m] \in 1..Len(list)
    BY <1>1, <1>4
  <2>2. QED
    BY <2>1
<1>10. Deduped(list) \in Seq(Diagnostic) /\ Len(Deduped(list)) = N
  BY <1>3, <1>8, <1>9
<1>11. \A k \in S : \E m \in 1..N : place[m] = k
  BY <1>6
<1>12. \A m \in 1..N : Deduped(list)[m] = list[place[m]]
  BY <1>3
<1>13. QED
  BY <1>7, <1>8, <1>10, <1>5, <1>11, <1>12 DEF S

\* The truncation keeps the beginning of the list, and all of it where it fits.
LEMMA TruncatedFacts ==
  ASSUME NEW list \in Seq(Diagnostic)
  PROVE  /\ Truncated(list) \in Seq(Diagnostic)
         /\ Len(Truncated(list)) <= Len(list)
         /\ Len(Truncated(list)) <= MaxDiagnostics
         /\ \A k \in 1..Len(Truncated(list)) : Truncated(list)[k] = list[k]
         /\ Len(Truncated(list)) < MaxDiagnostics => Truncated(list) = list
         /\ Len(list) <= MaxDiagnostics => Truncated(list) = list
<1> DEFINE n == IF Len(list) < MaxDiagnostics THEN Len(list) ELSE MaxDiagnostics
<1>1. n \in 0..Len(list) /\ n <= MaxDiagnostics
      /\ (n < MaxDiagnostics \/ Len(list) <= MaxDiagnostics => n = Len(list))
      /\ Len(list) \in Nat
  BY PipelineAssumption
<1>2. Truncated(list) = SubSeq(list, 1, n)
  BY DEF Truncated
<1> HIDE DEF n, Diagnostic
<1>3. /\ Truncated(list) \in Seq(Diagnostic) /\ Len(Truncated(list)) = n
      /\ \A k \in 1..n : Truncated(list)[k] = list[k]
  BY <1>1, <1>2
<1>4. n = Len(list) => Truncated(list) = list
  BY <1>1, <1>3
<1>5. QED
  BY <1>1, <1>3, <1>4

-----------------------------------------------------------------------------
(* Fatal conditions. *)

Fatal(list) == HasSeverity(list, {"FATAL"})

\* Before this the pipeline looks for FATAL diagnostics.
Early == {"FILE", "VALIDATE", "NORMALIZE", "LEX"}

\* From here on none can be issued until the nodes are counted.
Cleared == {"LAYOUT", "PARSE", "GATE", "SEMANTIC", "CONTRACT", "CEILING"}

\* Nothing is said of the lists that the deduplication and the truncation leave.
Lists ==
  /\ issued \in Seq(Diagnostic)
  /\ stage # "DONE" => diagnostics \in Seq(Diagnostic)

FatalTracked ==
  /\ stage \in Early /\ Fatal(issued) => Fatal(diagnostics)
  /\ stage \in Cleared => ~Fatal(issued)
  /\ stage = "FINISH" /\ Fatal(issued) => ast = NoAst
  /\ stage = "DONE" /\ Fatal(issued) => result.ast = NoAst

\* What the property rests on.
IInv == Lists /\ stage \in Stages /\ FatalTracked

-----------------------------------------------------------------------------

\* A list has the severities of what was appended to it.
LEMMA AppendSeverity ==
  ASSUME NEW list \in Seq(Diagnostic), NEW d \in Diagnostic
  PROVE  /\ Append(list, d) \in Seq(Diagnostic)
         /\ Fatal(Append(list, d)) <=> Fatal(list) \/ d.severity = "FATAL"
<1>1. /\ Append(list, d) \in Seq(Diagnostic)
      /\ Len(Append(list, d)) = Len(list) + 1
      /\ \A k \in 1..Len(list) : Append(list, d)[k] = list[k]
      /\ Append(list, d)[Len(list) + 1] = d
  OBVIOUS
<1>2. Len(list) \in Nat
  OBVIOUS
<1>3. \A k \in 1..(Len(list) + 1) : k \in 1..Len(list) \/ k = Len(list) + 1
  BY <1>2
<1> HIDE DEF Diagnostic
<1>4. QED
  BY <1>1, <1>2, <1>3 DEF Fatal, HasSeverity

\* A list joined with one that has nothing fatal is fatal as it was.
LEMMA JoinSeverity ==
  ASSUME NEW list \in Seq(Diagnostic), NEW more \in Seq(Diagnostic),
         ~Fatal(more)
  PROVE  /\ list \o more \in Seq(Diagnostic)
         /\ Fatal(list \o more) <=> Fatal(list)
<1>1. /\ list \o more \in Seq(Diagnostic)
      /\ Len(list \o more) = Len(list) + Len(more)
      /\ \A k \in 1..Len(list) : (list \o more)[k] = list[k]
      /\ \A k \in (Len(list) + 1)..(Len(list) + Len(more)) :
           (list \o more)[k] = more[k - Len(list)]
  OBVIOUS
<1>2. Len(list) \in Nat /\ Len(more) \in Nat
  OBVIOUS
<1>3. ASSUME NEW k \in 1..(Len(list) + Len(more)), k \notin 1..Len(list)
      PROVE  /\ k \in (Len(list) + 1)..(Len(list) + Len(more))
             /\ k - Len(list) \in 1..Len(more)
  BY <1>2, <1>3
<1>4. ASSUME NEW k \in 1..Len(list)
      PROVE  k \in 1..(Len(list) + Len(more))
  BY <1>2
<1>5. Fatal(list \o more) => Fatal(list)
  BY <1>1, <1>3 DEF Fatal, HasSeverity
<1>6. Fatal(list) => Fatal(list \o more)
  BY <1>1, <1>4 DEF Fatal, HasSeverity
<1>7. QED
  BY <1>1, <1>5, <1>6

\* What is reported is a diagnostic.
LEMMA ReportTyped ==
  ASSUME NEW r \in Reports
  PROVE  /\ Diag(r.severity, r.key) \in Diagnostic
         /\ Diag(r.severity, r.key).severity = r.severity
  BY PipelineAssumption DEF Diag, Diagnostic, Keys

\* The parser's words on the version are diagnostics and never fatal.
LEMMA VersionReportsHarmless ==
  ASSUME NEW annotated \in Versions \cup {Missing}
  PROVE  /\ VersionReports(annotated) \in Seq(Diagnostic)
         /\ ~Fatal(VersionReports(annotated))
<1> DEFINE SaidKeys == {"UNSUPPORTED_VERSION", "VERSION_ASSUMED", "MISSING_VERSION_6"}
<1>1. \/ VersionReports(annotated) = <<>>
      \/ \E s \in {"ERROR", "WARNING"}, k \in SaidKeys :
           VersionReports(annotated) = <<Diag(s, k)>>
  <2>1. CASE annotated = Missing /\ options.target = 6
    BY <2>1 DEF VersionReports, Missing
  <2>2. CASE ~(annotated = Missing /\ options.target = 6)
    BY <2>2 DEF VersionReports, Missing
  <2>3. QED
    BY <2>1, <2>2
<1>2. ASSUME NEW s \in {"ERROR", "WARNING"}, NEW k \in SaidKeys
      PROVE  <<Diag(s, k)>> \in Seq(Diagnostic) /\ ~Fatal(<<Diag(s, k)>>)
  <2>1. Diag(s, k) \in Diagnostic /\ Diag(s, k).severity # "FATAL"
    BY DEF Diag, Diagnostic, Keys, OwnKeys, Severities
  <2>2. QED
    BY <2>1 DEF Fatal, HasSeverity
<1>3. <<>> \in Seq(Diagnostic) /\ ~Fatal(<<>>)
  BY DEF Fatal, HasSeverity
<1>4. QED
  BY <1>1, <1>2, <1>3

-----------------------------------------------------------------------------

\* Initially nothing is issued.
LEMMA InitInv == Init => IInv
<1> SUFFICES ASSUME Init PROVE IInv
  OBVIOUS
<1>1. stage \in {"FILE", "VALIDATE"} /\ diagnostics = <<>> /\ issued = <<>>
  BY DEF Init
<1>2. Lists
  BY <1>1 DEF Lists
<1>3. ~Fatal(issued)
  BY <1>1 DEF Fatal, HasSeverity
<1>4. QED
  BY <1>1, <1>2, <1>3
     DEF IInv, Stages, FatalTracked, Done, Early,
         Cleared

\* A report of any stage keeps track of what is fatal.
LEMMA ReportInv ==
  ASSUME IInv, NEW r \in Reports, Report(r)
  PROVE  IInv'
<1> DEFINE d == Diag(r.severity, r.key)
<1>1. d \in Diagnostic /\ d.severity = r.severity
  BY ReportTyped
<1>2. /\ stage \in {"NORMALIZE", "LEX", "LAYOUT", "PARSE", "SEMANTIC", "CONTRACT"}
      /\ r.stage = stage
      /\ stage' = stage /\ ast' = ast /\ result' = result
      /\ issued' = Append(issued, d)
      /\ \/ diagnostics' = Append(diagnostics, d)
         \/ stage \in Capped /\ diagnostics' = diagnostics
  BY DEF Report, Add, Full
<1>3. stage \in Cleared => r.severity # "FATAL"
  BY <1>2, PipelineAssumption DEF Cleared
<1> HIDE DEF d
<1>4. /\ issued \in Seq(Diagnostic) /\ diagnostics \in Seq(Diagnostic)
  BY <1>2 DEF IInv, Lists
<1>5. /\ issued' \in Seq(Diagnostic) /\ diagnostics' \in Seq(Diagnostic)
      /\ Fatal(issued)' <=> Fatal(issued) \/ r.severity = "FATAL"
      /\ stage \in Early =>
           (Fatal(diagnostics)' <=> Fatal(diagnostics) \/ r.severity = "FATAL")
  <2>1. Fatal(issued') <=> Fatal(issued) \/ r.severity = "FATAL"
    BY <1>1, <1>2, <1>4, AppendSeverity
  <2>2. stage \in Early => diagnostics' = Append(diagnostics, d)
    BY <1>2 DEF Early, Capped
  <2>3. stage \in Early =>
          (Fatal(diagnostics') <=> Fatal(diagnostics) \/ r.severity = "FATAL")
    BY <2>2, <1>1, <1>4, AppendSeverity
  <2>4. issued' \in Seq(Diagnostic) /\ diagnostics' \in Seq(Diagnostic)
    BY <1>1, <1>2, <1>4, AppendSeverity
  <2>5. QED
    BY <2>1, <2>3, <2>4 DEF Fatal, HasSeverity
<1>6. QED
  BY <1>2, <1>3, <1>5
     DEF IInv, Lists, FatalTracked, Done, Early,
         Cleared, Stages

\* The early returns: no program, and no more to prove.
LEMMA NoProgramInv ==
  ASSUME IInv, NEW list \in Seq(Diagnostic), Return(NoAst, list),
         issued' \in Seq(Diagnostic)
  PROVE  IInv'
<1>1. stage' = "DONE" /\ result'.ast = NoAst
  BY DEF Return
<1>2. QED
  BY <1>1 DEF IInv, Lists, FatalTracked, Done,
              Early, Cleared, Stages

\* A stage that says nothing of its own, and whose successor looks no further
\* than it.
LEMMA PassInv ==
  ASSUME IInv, UNCHANGED issued, diagnostics' \in Seq(Diagnostic),
         \/ stage \in Early /\ stage' \in Early /\ diagnostics' = diagnostics
         \/ stage \in Early /\ stage' \in Cleared /\ ~Fatal(diagnostics)
         \/ stage \in Cleared /\ stage' \in Cleared \cup {"FINISH"}
  PROVE  IInv'
<1>1. Fatal(issued)' <=> Fatal(issued)
  BY DEF Fatal, HasSeverity
<1>2. diagnostics' = diagnostics => (Fatal(diagnostics)' <=> Fatal(diagnostics))
  BY DEF Fatal, HasSeverity
<1>3. QED
  BY <1>1, <1>2
     DEF IInv, Lists, FatalTracked, Done, Early,
         Cleared, Stages

\* The version is read after the lexer's gate and before the node count.
LEMMA ReadVersionInv ==
  ASSUME IInv, NEW annotated \in Versions \cup {Missing}, ReadVersion(annotated)
  PROVE  IInv'
<1> DEFINE said == VersionReports(annotated)
<1>1. said \in Seq(Diagnostic) /\ ~Fatal(said)
  BY VersionReportsHarmless
<1>2. /\ stage = "PARSE" /\ stage' = stage
      /\ issued' = issued \o said /\ diagnostics' = diagnostics \o said
  BY DEF ReadVersion
<1> HIDE DEF said
<1>3. /\ issued' \in Seq(Diagnostic) /\ diagnostics' \in Seq(Diagnostic)
      /\ ~Fatal(issued')
  BY <1>1, <1>2, JoinSeverity DEF IInv, Lists, FatalTracked, Cleared
<1>4. ~Fatal(issued)'
  BY <1>3 DEF Fatal, HasSeverity
<1>5. QED
  BY <1>2, <1>3, <1>4
     DEF IInv, Lists, FatalTracked, Done, Early,
         Cleared, Stages

\* The severities that the parser's gate raises do not change what is a list of
\* diagnostics.
LEMMA UpgradedTyped ==
  ASSUME diagnostics \in Seq(Diagnostic)
  PROVE  Upgraded \in Seq(Diagnostic)
<1> DEFINE raised(k) == IF diagnostics[k].key = "UNSUPPORTED_VERSION"
                        THEN [diagnostics[k] EXCEPT !.severity = "ERROR"]
                        ELSE diagnostics[k]
<1>1. Len(diagnostics) \in Nat
  OBVIOUS
<1>2. ASSUME NEW k \in 1..Len(diagnostics)
      PROVE  raised(k) \in Diagnostic
  <2>1. diagnostics[k] \in Diagnostic
    OBVIOUS
  <2>2. QED
    BY <2>1 DEF Diagnostic, Severities
<1> HIDE DEF raised
<1>3. [k \in 1..Len(diagnostics) |-> raised(k)] \in Seq(Diagnostic)
  BY <1>1, <1>2
<1>4. QED
  BY <1>3 DEF Upgraded, raised

\* Every action keeps the invariant.
LEMMA StepInv == IInv /\ [Next]_pipelineVars => IInv'
<1> SUFFICES ASSUME IInv, [Next]_pipelineVars PROVE IInv'
  OBVIOUS
<1>typed. issued \in Seq(Diagnostic) /\ (stage # "DONE" => diagnostics \in Seq(Diagnostic))
  BY DEF IInv, Lists
<1>1. ASSUME NEW r \in Reports, Reject(r) PROVE IInv'
  <2> DEFINE d == Diag("FATAL", r.key)
  <2>1. d \in Diagnostic
    BY <1>1 DEF Diag, Diagnostic, Keys, OwnKeys, Severities
  <2>2. issued' = Append(issued, d) /\ Return(NoAst, <<d>>)
    BY <1>1 DEF Reject
  <2> HIDE DEF d
  <2>3. <<d>> \in Seq(Diagnostic) /\ issued' \in Seq(Diagnostic)
    BY <2>1, <2>2, <1>typed
  <2>4. QED
    BY <2>2, <2>3, NoProgramInv
<1>2. CASE Accept
  BY <1>2, <1>typed, PassInv DEF Accept, Enter, Early
<1>3. ASSUME NEW r \in Reports, Report(r) PROVE IInv'
  BY <1>3, ReportInv
<1>4. CASE Normalized
  <2>1. CASE Stopped
    BY <1>4, <2>1, <1>typed, NoProgramInv DEF Normalized
  <2>2. CASE ~Stopped
    BY <1>4, <2>2, <1>typed, PassInv DEF Normalized, Enter, Early
  <2>3. QED
    BY <2>1, <2>2
<1>5. CASE TooManyTokens
  <2> DEFINE d == Diag("FATAL", "TOO_MANY_TOKENS")
  <2>1. d \in Diagnostic
    BY DEF Diag, Diagnostic, Keys, OwnKeys, Severities
  <2>2. /\ stage = "LEX"
        /\ issued' = Append(issued, d) /\ Return(NoAst, Append(diagnostics, d))
    BY <1>5 DEF TooManyTokens
  <2> HIDE DEF d
  <2>3. Append(diagnostics, d) \in Seq(Diagnostic) /\ issued' \in Seq(Diagnostic)
    BY <2>1, <2>2, <1>typed
  <2>4. QED
    BY <2>2, <2>3, NoProgramInv
<1>6. CASE Lexed
  <2>1. CASE Stopped
    BY <1>6, <2>1, <1>typed, NoProgramInv DEF Lexed
  <2>2. CASE ~Stopped
    BY <1>6, <2>2, <1>typed, PassInv
       DEF Lexed, Enter, Early, Cleared, Stopped, Fatal
  <2>3. QED
    BY <2>1, <2>2
<1>7. CASE LaidOut
  BY <1>7, <1>typed, PassInv DEF LaidOut, Enter, Cleared
<1>8. ASSUME NEW annotated \in Versions \cup {Missing}, ReadVersion(annotated)
      PROVE  IInv'
  BY <1>8, ReadVersionInv
<1>9. CASE Parsed
  BY <1>9, <1>typed, PassInv DEF Parsed, Enter, Cleared
<1>10. CASE ParserGate
  <2>1. /\ stage = "GATE" /\ stage' \in Cleared /\ UNCHANGED issued
        /\ diagnostics' = Upgraded
    BY <1>10 DEF ParserGate, Enter, Cleared
  <2>2. diagnostics' \in Seq(Diagnostic)
    BY <2>1, <1>typed, UpgradedTyped
  <2>3. QED
    BY <2>1, <2>2, PassInv DEF Cleared
<1>11. CASE SemanticGate
  BY <1>11, <1>typed, PassInv DEF SemanticGate, Enter, Cleared
<1>12. CASE ContractChecked
  BY <1>12, <1>typed, PassInv DEF ContractChecked, Enter, Cleared
<1>13. CASE TooManyNodes
  <2> DEFINE d == Diag("FATAL", "TOO_MANY_AST_NODES")
  <2>1. d \in Diagnostic
    BY DEF Diag, Diagnostic, Keys, OwnKeys, Severities
  <2>2. /\ stage = "CEILING" /\ stage' = "FINISH" /\ ast' = NoAst
        /\ issued' = Append(issued, d) /\ diagnostics' = Append(diagnostics, d)
    BY <1>13 DEF TooManyNodes, Enter
  <2> HIDE DEF d
  <2>3. issued' \in Seq(Diagnostic) /\ diagnostics' \in Seq(Diagnostic)
    BY <2>1, <2>2, <1>typed
  <2>4. QED
    BY <2>2, <2>3
       DEF IInv, Lists, FatalTracked, Done, Early,
           Cleared, Stages
<1>14. CASE NodesCounted
  BY <1>14, <1>typed, PassInv DEF NodesCounted, Enter, Cleared
<1>15. CASE Finish
  <2>1. /\ stage = "FINISH" /\ stage' = "DONE" /\ UNCHANGED issued
        /\ ast' = Final(diagnostics')
        /\ result' = [ast |-> ast', diagnostics |-> diagnostics']
    BY <1>15 DEF Finish, Return
  <2>2. Fatal(issued)' <=> Fatal(issued)
    BY <2>1 DEF Fatal, HasSeverity
  <2>3. result'.ast = ast' /\ result'.diagnostics = diagnostics'
    BY <2>1
  <2>4. ast = NoAst => ast' = NoAst
    BY <2>1 DEF Final
  <2>5. ast' # NoAst => ast'.diagnostics = diagnostics'
    BY <2>1 DEF Final, Tree
  <2>6. QED
    BY <2>1, <2>2, <2>3, <2>4, <2>5
       DEF IInv, Lists, FatalTracked, Done, Early,
           Cleared, Stages
<1>16. CASE UNCHANGED pipelineVars
  BY <1>16 DEF pipelineVars, IInv, Lists, FatalTracked, Done, Fatal, HasSeverity
<1>17. QED
  BY <1>1, <1>2, <1>3, <1>4, <1>5, <1>6, <1>7, <1>8, <1>9, <1>10, <1>11,
     <1>12, <1>13, <1>14, <1>15, <1>16 DEF Next

\* The invariant holds throughout.
LEMMA Invariance == Spec => []IInv
  BY InitInv, StepInv, PTL DEF Spec

\* No program comes out of a run that met a FATAL condition, whatever the stages
\* report, in whichever order, and whatever max_diagnostics is.
THEOREM PipelineFatalYieldsNoProgram == Spec => []FatalYieldsNoProgram
<1>1. IInv => FatalYieldsNoProgram
  BY DEF IInv, FatalTracked, FatalYieldsNoProgram, Fatal, Done
<1>2. QED
  BY <1>1, Invariance, PTL

-----------------------------------------------------------------------------
(* Types. *)

\* Before this no tree is built.
Unbuilt == {"FILE", "VALIDATE", "NORMALIZE", "LEX", "LAYOUT", "PARSE"}

\* The type invariant, with what the early returns rest on.
Typed == TypeOK /\ (stage \in Unbuilt => ast = NoAst)

\* The severity of such a diagnostic follows from its key.
Fixed(d) ==
  \/ \E r \in Reports : d = Diag(r.severity, r.key)
  \/ d \in {Diag("WARNING", "VERSION_ASSUMED"),
            Diag("ERROR", "MISSING_VERSION_6"),
            Diag("FATAL", "TOO_MANY_TOKENS"),
            Diag("FATAL", "TOO_MANY_AST_NODES")}

\* So does that of every diagnostic of a list, UNSUPPORTED_VERSION having s.
FixedBut(list, s) ==
  \A k \in 1..Len(list) :
    Fixed(list[k]) \/ list[k] = Diag(s, "UNSUPPORTED_VERSION")

AllFixed(list) == \A k \in 1..Len(list) : Fixed(list[k])

\* Nobody has spoken of the version yet.
Unversioned ==
  \/ stage \in {"FILE", "VALIDATE", "NORMALIZE", "LEX", "LAYOUT"}
  \/ stage = "PARSE" /\ ~VersionRead

\* The parser speaks of the version once, and the gate raises the severity of
\* all that was said of it.
SeveritiesFixed ==
  /\ Unversioned => version = NoVersion /\ AllFixed(diagnostics)
  /\ stage # "DONE" => \E s \in Severities : FixedBut(diagnostics, s)

\* The parser says at most one thing of the version, and something where it
\* leaves it open.
LEMMA VersionReportsOne ==
  ASSUME options \in Options, NEW annotated \in Versions \cup {Missing}
  PROVE  /\ VersionReports(annotated) \in Seq(Diagnostic)
         /\ Len(VersionReports(annotated)) <= 1
         /\ VersionOf(annotated) \in Versions \cup {NoVersion}
         /\ VersionOf(annotated) = NoVersion => VersionReports(annotated) # <<>>
         /\ \E s \in Severities : FixedBut(VersionReports(annotated), s)
<1> DEFINE Said == {Diag("WARNING", "VERSION_ASSUMED"), Diag("ERROR", "MISSING_VERSION_6")}
<1>1. \/ VersionReports(annotated) = <<>>
      \/ \E d \in Said : VersionReports(annotated) = <<d>>
      \/ \E s \in {"ERROR", "WARNING"} :
           VersionReports(annotated) = <<Diag(s, "UNSUPPORTED_VERSION")>>
  <2>1. CASE annotated = Missing /\ options.target = 6
    BY <2>1 DEF VersionReports, Missing
  <2>2. CASE ~(annotated = Missing /\ options.target = 6)
    BY <2>2 DEF VersionReports, Missing
  <2>3. QED
    BY <2>1, <2>2
<1>2. VersionOf(annotated) \in Versions \cup {NoVersion}
  BY DEF VersionOf, Versions, NoVersion, Missing
<1>3. VersionOf(annotated) = NoVersion => VersionReports(annotated) # <<>>
  <2>1. SUFFICES ASSUME VersionOf(annotated) = NoVersion
                 PROVE  VersionReports(annotated) # <<>>
    OBVIOUS
  <2>2. annotated = Missing /\ options.target # 5 /\ options.strict
    BY <2>1 DEF VersionOf, Versions, NoVersion, Missing
  <2>3. options.target = 6
    BY <2>2 DEF Options
  <2>4. QED
    BY <2>2, <2>3 DEF VersionReports
<1>4. ASSUME NEW d \in Said
      PROVE  d \in Diagnostic /\ Fixed(d)
  BY DEF Diag, Diagnostic, Keys, OwnKeys, Severities, Fixed
<1>5. ASSUME NEW s \in {"ERROR", "WARNING"}
      PROVE  s \in Severities /\ Diag(s, "UNSUPPORTED_VERSION") \in Diagnostic
  BY DEF Diag, Diagnostic, Keys, OwnKeys, Severities
<1> HIDE DEF Said
<1>6. /\ VersionReports(annotated) \in Seq(Diagnostic)
      /\ Len(VersionReports(annotated)) <= 1
      /\ \E s \in Severities : FixedBut(VersionReports(annotated), s)
  <2>1. CASE VersionReports(annotated) = <<>>
    BY <1>5, <2>1 DEF FixedBut
  <2>2. CASE \E d \in Said : VersionReports(annotated) = <<d>>
    <3>1. PICK d \in Said : VersionReports(annotated) = <<d>>
      BY <2>2
    <3>2. QED
      BY <1>4, <1>5, <3>1 DEF FixedBut
  <2>3. CASE \E s \in {"ERROR", "WARNING"} :
               VersionReports(annotated) = <<Diag(s, "UNSUPPORTED_VERSION")>>
    <3>1. PICK s \in {"ERROR", "WARNING"} :
            VersionReports(annotated) = <<Diag(s, "UNSUPPORTED_VERSION")>>
      BY <2>3
    <3>2. QED
      BY <1>5, <3>1 DEF FixedBut
  <2>4. QED
    BY <1>1, <2>1, <2>2, <2>3
<1>7. QED
  BY <1>2, <1>3, <1>6

\* Initially all is typed.
LEMMA TypedInit == Init => Typed
<1> SUFFICES ASSUME Init PROVE Typed
  OBVIOUS
<1>1. <<>> \in Seq(Diagnostic) /\ <<>> \in Seq(Keys) /\ Len(<<>>) = 0
  OBVIOUS
<1>2. 0 \in 0..MaxReports /\ 0 <= MaxDiagnostics
  BY PipelineAssumption
<1>3. QED
  BY <1>1, <1>2
     DEF Init, Typed, TypeOK, Done, Stages, NoResult, NoVersion, Capped

\* An early return.
LEMMA ReturnTyped ==
  ASSUME Typed, NEW list \in Seq(Diagnostic), Return(NoAst, list), ast = NoAst,
         issued' \in Seq(Diagnostic), events' \in Seq(Keys),
         diagnostics' \in Seq(Diagnostic),
         UNCHANGED <<options, own, reported, version, ast, gates>>
  PROVE  Typed'
<1>1. /\ stage' = "DONE" /\ DOMAIN result' = {"ast", "diagnostics"}
      /\ result'.ast = NoAst /\ result'.diagnostics = list
  BY DEF Return
<1>2. QED
  BY <1>1 DEF Typed, TypeOK, Done, Stages, Capped

\* Going on to another stage.
LEMMA EnterTyped ==
  ASSUME Typed, NEW next \in Stages \ {"DONE"}, Enter(next),
         diagnostics' \in Seq(Diagnostic), issued' \in Seq(Diagnostic),
         gates' \in [parser : BOOLEAN, semantic : BOOLEAN],
         \/ ast' = ast /\ (next \in Unbuilt => stage \in Unbuilt)
         \/ next \notin Unbuilt /\ ast' = NoAst
         \/ next \notin Unbuilt /\ ast' \in [exists : {TRUE}, diagnostics : Seq(Diagnostic)],
         UNCHANGED <<options, version, result, events>>
  PROVE  Typed'
<1>1. <<>> \in Seq(Diagnostic) /\ Len(<<>>) = 0
  OBVIOUS
<1>2. 0 \in 0..MaxReports /\ 0 <= MaxDiagnostics
  BY PipelineAssumption
<1>3. stage' = next /\ own' = <<>> /\ reported' = 0
  BY DEF Enter
<1>4. QED
  BY <1>1, <1>2, <1>3 DEF Typed, TypeOK, Done, Stages

\* A tree has the diagnostics it is given.
LEMMA TreeTyped ==
  ASSUME NEW list \in Seq(Diagnostic)
  PROVE  Tree(list) \in [exists : {TRUE}, diagnostics : Seq(Diagnostic)]
         /\ Tree(list) # NoAst /\ Tree(list).diagnostics = list
  BY DEF Tree, NoAst

\* Every action keeps the types.
LEMMA TypedStep == Typed /\ [Next]_pipelineVars => Typed'
<1> SUFFICES ASSUME Typed, [Next]_pipelineVars PROVE Typed'
  OBVIOUS
<1>typed. /\ diagnostics \in Seq(Diagnostic) /\ issued \in Seq(Diagnostic)
          /\ own \in Seq(Diagnostic) /\ gates \in [parser : BOOLEAN, semantic : BOOLEAN]
          /\ events \in Seq(Keys) /\ options \in Options
  BY DEF Typed, TypeOK
<1>1. ASSUME NEW r \in Reports, Reject(r) PROVE Typed'
  <2> DEFINE d == Diag("FATAL", r.key)
  <2>1. d \in Diagnostic /\ d.key \in Keys
    BY <1>1 DEF Diag, Diagnostic, Keys, OwnKeys, Severities
  <2>2. /\ issued' = Append(issued, d) /\ Return(NoAst, <<d>>)
        /\ Emit(d) /\ stage \in Unbuilt
        /\ UNCHANGED <<options, diagnostics, own, reported, version, ast, gates>>
    BY <1>1 DEF Reject, Unbuilt
  <2> HIDE DEF d
  <2>3. <<d>> \in Seq(Diagnostic) /\ issued' \in Seq(Diagnostic)
    BY <2>1, <2>2, <1>typed
  <2>4. events' \in Seq(Keys)
    BY <2>1, <2>2, <1>typed DEF Emit
  <2>5. QED
    BY <2>2, <2>3, <2>4, <1>typed, ReturnTyped DEF Typed
<1>2. CASE Accept
  BY <1>2, <1>typed, EnterTyped DEF Accept, Stages, Unbuilt
<1>3. ASSUME NEW r \in Reports, Report(r) PROVE Typed'
  <2> DEFINE d == Diag(r.severity, r.key)
  <2>1. d \in Diagnostic
    BY ReportTyped
  <2>2. /\ Add(d) /\ reported < MaxReports /\ reported' = reported + 1
        /\ UNCHANGED <<options, stage, version, ast, gates, result, events>>
    BY <1>3 DEF Report
  <2> HIDE DEF d
  <2>3. /\ issued' \in Seq(Diagnostic) /\ diagnostics' \in Seq(Diagnostic)
        /\ own' \in Seq(Diagnostic)
        /\ stage \in Capped => Len(own') <= MaxDiagnostics
    <3>1. CASE Full
      BY <3>1, <2>1, <2>2, <1>typed, AppendFacts DEF Add, Typed, TypeOK
    <3>2. CASE ~Full
      <4>1. stage \in Capped => Len(own) < MaxDiagnostics
        BY <3>2, <1>typed, AppendFacts, PipelineAssumption DEF Full
      <4>2. /\ issued' = Append(issued, d) /\ own' = Append(own, d)
            /\ diagnostics' = Append(diagnostics, d)
        BY <3>2, <2>2 DEF Add
      <4>3. /\ issued' \in Seq(Diagnostic) /\ own' \in Seq(Diagnostic)
            /\ diagnostics' \in Seq(Diagnostic)
            /\ Len(own') = Len(own) + 1 /\ Len(own) \in Nat
        BY <4>2, <2>1, <1>typed, AppendFacts
      <4>4. QED
        BY <4>1, <4>3, PipelineAssumption
    <3>3. QED
      BY <3>1, <3>2
  <2>4. reported' \in 0..MaxReports
    BY <2>2, PipelineAssumption DEF Typed, TypeOK
  <2>5. QED
    BY <2>2, <2>3, <2>4 DEF Typed, TypeOK, Done
<1>4. CASE Normalized
  <2>1. CASE Stopped
    BY <1>4, <2>1, <1>typed, ReturnTyped DEF Normalized, Typed, Unbuilt
  <2>2. CASE ~Stopped
    BY <1>4, <2>2, <1>typed, EnterTyped DEF Normalized, Unbuilt, Stages
  <2>3. QED
    BY <2>1, <2>2
<1>5. CASE TooManyTokens
  <2> DEFINE d == Diag("FATAL", "TOO_MANY_TOKENS")
  <2>1. d \in Diagnostic
    BY DEF Diag, Diagnostic, Keys, OwnKeys, Severities
  <2>2. /\ stage = "LEX"
        /\ issued' = Append(issued, d) /\ Return(NoAst, Append(diagnostics, d))
        /\ diagnostics' = Append(diagnostics, d)
        /\ UNCHANGED <<options, own, reported, version, ast, gates, events>>
    BY <1>5 DEF TooManyTokens
  <2> HIDE DEF d
  <2>3. diagnostics' \in Seq(Diagnostic) /\ issued' \in Seq(Diagnostic)
    BY <2>1, <2>2, <1>typed
  <2>4. QED
    BY <2>2, <2>3, <1>typed, ReturnTyped DEF Typed, Unbuilt
<1>6. CASE Lexed
  <2>1. CASE Stopped
    BY <1>6, <2>1, <1>typed, ReturnTyped DEF Lexed, Typed, Unbuilt
  <2>2. CASE ~Stopped
    BY <1>6, <2>2, <1>typed, EnterTyped DEF Lexed, Unbuilt, Stages
  <2>3. QED
    BY <2>1, <2>2
<1>7. CASE LaidOut
  BY <1>7, <1>typed, EnterTyped DEF LaidOut, Unbuilt, Stages
<1>8. ASSUME NEW annotated \in Versions \cup {Missing}, ReadVersion(annotated)
      PROVE  Typed'
  <2> DEFINE said == VersionReports(annotated)
  <2>1. said \in Seq(Diagnostic) /\ Len(said) <= 1
        /\ VersionOf(annotated) \in Versions \cup {NoVersion}
    BY <1>typed, VersionReportsOne
  <2>2. /\ issued' = issued \o said /\ diagnostics' = diagnostics \o said
        /\ own' = said /\ version' = VersionOf(annotated)
        /\ UNCHANGED <<options, stage, reported, ast, gates, result, events>>
    BY <1>8 DEF ReadVersion
  <2> HIDE DEF said
  <2>3. issued' \in Seq(Diagnostic) /\ diagnostics' \in Seq(Diagnostic)
    BY <2>1, <2>2, <1>typed, JoinFacts
  <2>4. Len(own') <= MaxDiagnostics
    BY <2>1, <2>2, PipelineAssumption, JoinFacts
  <2>5. QED
    BY <2>1, <2>2, <2>3, <2>4 DEF Typed, TypeOK, Done
<1>9. CASE Parsed
  <2>1. Tree(<<>>) \in [exists : {TRUE}, diagnostics : Seq(Diagnostic)]
    <3>1. <<>> \in Seq(Diagnostic)
      OBVIOUS
    <3>2. QED
      BY <3>1, TreeTyped
  <2>2. QED
    BY <1>9, <2>1, <1>typed, EnterTyped DEF Parsed, Unbuilt, Stages
<1>10. CASE ParserGate
  <2>1. diagnostics' \in Seq(Diagnostic)
    BY <1>10, <1>typed, UpgradedTyped DEF ParserGate
  <2>2. gates' \in [parser : BOOLEAN, semantic : BOOLEAN]
    BY <1>10 DEF ParserGate, Passes
  <2>3. PICK next \in {"SEMANTIC", "CONTRACT", "CEILING"} : Enter(next)
    BY <1>10 DEF ParserGate
  <2>4. next \in Stages \ {"DONE"} /\ next \notin Unbuilt
    BY DEF Stages, Unbuilt
  <2>5. /\ issued' \in Seq(Diagnostic) /\ ast' = ast
        /\ UNCHANGED <<options, version, result, events>>
    BY <1>10, <1>typed DEF ParserGate
  <2>6. QED
    BY <2>1, <2>2, <2>3, <2>4, <2>5, EnterTyped
<1>11. CASE SemanticGate
  <2>1. gates' \in [parser : BOOLEAN, semantic : BOOLEAN]
    BY <1>11, <1>typed DEF SemanticGate, Passes
  <2>2. QED
    BY <1>11, <2>1, <1>typed, EnterTyped DEF SemanticGate, Unbuilt, Stages
<1>12. CASE ContractChecked
  BY <1>12, <1>typed, EnterTyped DEF ContractChecked, Unbuilt, Stages
<1>13. CASE TooManyNodes
  <2> DEFINE d == Diag("FATAL", "TOO_MANY_AST_NODES")
  <2>1. d \in Diagnostic
    BY DEF Diag, Diagnostic, Keys, OwnKeys, Severities
  <2>2. /\ stage = "CEILING" /\ Enter("FINISH") /\ ast' = NoAst
        /\ issued' = Append(issued, d) /\ diagnostics' = Append(diagnostics, d)
        /\ UNCHANGED <<options, version, gates, result, events>>
    BY <1>13 DEF TooManyNodes
  <2> HIDE DEF d
  <2>3. issued' \in Seq(Diagnostic) /\ diagnostics' \in Seq(Diagnostic)
    BY <2>1, <2>2, <1>typed
  <2>4. QED
    BY <2>2, <2>3, <1>typed, EnterTyped DEF Stages, Unbuilt
<1>14. CASE NodesCounted
  <2>1. Tree(Truncated(diagnostics)) \in [exists : {TRUE}, diagnostics : Seq(Diagnostic)]
    BY <1>typed, TruncatedFacts, TreeTyped
  <2>2. QED
    BY <1>14, <2>1, <1>typed, EnterTyped DEF NodesCounted, Unbuilt, Stages
<1>15. CASE Finish
  <2>1. /\ stage' = "DONE" /\ UNCHANGED <<options, own, reported, version, gates, issued, events>>
        /\ diagnostics' = Shown(diagnostics)
        /\ ast' = Final(diagnostics')
        /\ result' = [ast |-> ast', diagnostics |-> diagnostics']
    BY <1>15 DEF Finish, Return
  <2>2. diagnostics' \in Seq(Diagnostic)
    BY <2>1, <1>typed, DedupedPlaces, TruncatedFacts DEF Shown
  <2>3. ast' = NoAst \/ ast' \in [exists : {TRUE}, diagnostics : Seq(Diagnostic)]
    BY <2>1, <2>2, TreeTyped DEF Final
  <2>4. /\ result'.ast = ast' /\ result'.diagnostics = diagnostics'
        /\ DOMAIN result' = {"ast", "diagnostics"}
    BY <2>1
  <2>5. QED
    BY <2>1, <2>2, <2>3, <2>4 DEF Typed, TypeOK, Done, Stages, Unbuilt, Capped
<1>16. CASE UNCHANGED pipelineVars
  BY <1>16 DEF pipelineVars, Typed, TypeOK, Done
<1>17. QED
  BY <1>1, <1>2, <1>3, <1>4, <1>5, <1>6, <1>7, <1>8, <1>9, <1>10, <1>11,
     <1>12, <1>13, <1>14, <1>15, <1>16 DEF Next

-----------------------------------------------------------------------------
(* Severities. *)

\* Severities stay fixed where a diagnostic of fixed severity comes in,
LEMMA AppendFixed ==
  ASSUME NEW list \in Seq(Diagnostic), NEW d \in Diagnostic, Fixed(d)
  PROVE  /\ AllFixed(list) => AllFixed(Append(list, d))
         /\ \A s : FixedBut(list, s) => FixedBut(Append(list, d), s)
<1>1. /\ Len(Append(list, d)) = Len(list) + 1
      /\ \A k \in 1..Len(list) : Append(list, d)[k] = list[k]
      /\ Append(list, d)[Len(list) + 1] = d
      /\ \A k \in 1..(Len(list) + 1) : k \in 1..Len(list) \/ k = Len(list) + 1
  BY AppendFacts
<1>2. QED
  BY <1>1 DEF AllFixed, FixedBut

\* and where the version is spoken of for the first time.
LEMMA JoinFixed ==
  ASSUME NEW list \in Seq(Diagnostic), NEW more \in Seq(Diagnostic), NEW s,
         AllFixed(list), FixedBut(more, s)
  PROVE  FixedBut(list \o more, s)
<1>1. SUFFICES ASSUME NEW k \in 1..Len(list \o more)
               PROVE  \/ Fixed((list \o more)[k])
                      \/ (list \o more)[k] = Diag(s, "UNSUPPORTED_VERSION")
  BY DEF FixedBut
<1>2. k \in 1..(Len(list) + Len(more)) /\ Len(list) \in Nat
  BY JoinFacts
<1>3. CASE k \in 1..Len(list)
  BY <1>3, JoinFacts DEF AllFixed
<1>4. CASE k - Len(list) \in 1..Len(more)
  <2>1. PICK j \in 1..Len(more) : j = k - Len(list)
    BY <1>4
  <2>2. k = Len(list) + j
    BY <1>2, <2>1
  <2>3. (list \o more)[k] = more[j]
    BY <2>2, JoinFacts
  <2>4. QED
    BY <2>3 DEF FixedBut
<1>5. QED
  BY <1>2, <1>3, <1>4, JoinFacts

\* The key decides the severity, and it is none of the version's.
LEMMA FixedKeys ==
  ASSUME NEW d, NEW e, Fixed(d), Fixed(e)
  PROVE  /\ d.key = e.key => d.severity = e.severity
         /\ d.key # "UNSUPPORTED_VERSION"
<1>1. ASSUME NEW f, Fixed(f)
      PROVE  \/ \E r \in Reports : /\ f.key = r.key /\ f.severity = r.severity
                                   /\ r.key \notin OwnKeys
             \/ f.key = "VERSION_ASSUMED" /\ f.severity = "WARNING"
             \/ f.key = "MISSING_VERSION_6" /\ f.severity = "ERROR"
             \/ f.key = "TOO_MANY_TOKENS" /\ f.severity = "FATAL"
             \/ f.key = "TOO_MANY_AST_NODES" /\ f.severity = "FATAL"
  BY <1>1, PipelineAssumption DEF Fixed, Diag
<1>2. \A r \in Reports : \A other \in Reports :
        other.key = r.key => other.severity = r.severity
  BY PipelineAssumption
<1>3. d.key # "UNSUPPORTED_VERSION"
  BY <1>1 DEF OwnKeys
<1>4. d.key = e.key => d.severity = e.severity
  BY <1>1, <1>2 DEF OwnKeys
<1>5. QED
  BY <1>3, <1>4

\* So what is dropped as a duplicate blocks as much as what is kept.
LEMMA SameKeySameSeverity ==
  ASSUME NEW list, NEW s, FixedBut(list, s),
         NEW j \in 1..Len(list), NEW k \in 1..Len(list),
         list[j].key = list[k].key
  PROVE  list[j].severity = list[k].severity
<1>1. /\ Diag(s, "UNSUPPORTED_VERSION").key = "UNSUPPORTED_VERSION"
      /\ Diag(s, "UNSUPPORTED_VERSION").severity = s
  BY DEF Diag
<1>2. QED
  BY <1>1, FixedKeys DEF FixedBut

\* The parser's gate raises all that was said of the version, and nothing else.
LEMMA UpgradedFixed ==
  ASSUME diagnostics \in Seq(Diagnostic), NEW s \in Severities,
         FixedBut(diagnostics, s)
  PROVE  /\ Len(Upgraded) = Len(diagnostics)
         /\ \A k \in 1..Len(diagnostics) : Upgraded[k].key = diagnostics[k].key
         /\ \E t \in Severities : FixedBut(Upgraded, t)
<1>1. CASE Upgraded = diagnostics
  BY <1>1
<1>2. CASE Upgraded # diagnostics
  <2>1. Upgraded = [k \in 1..Len(diagnostics) |->
          IF diagnostics[k].key = "UNSUPPORTED_VERSION"
          THEN [diagnostics[k] EXCEPT !.severity = "ERROR"]
          ELSE diagnostics[k]]
    BY <1>2 DEF Upgraded
  <2>2. Len(diagnostics) \in Nat
    OBVIOUS
  <2>3. Len(Upgraded) = Len(diagnostics)
    BY <2>1, <2>2
  <2>4. ASSUME NEW k \in 1..Len(diagnostics)
        PROVE  /\ Upgraded[k].key = diagnostics[k].key
               /\ \/ Fixed(Upgraded[k])
                  \/ Upgraded[k] = Diag("ERROR", "UNSUPPORTED_VERSION")
    <3>1. CASE Fixed(diagnostics[k])
      BY <2>1, <3>1, FixedKeys
    <3>2. CASE diagnostics[k] = Diag(s, "UNSUPPORTED_VERSION")
      BY <2>1, <3>2 DEF Diag
    <3>3. QED
      BY <3>1, <3>2 DEF FixedBut
  <2>5. FixedBut(Upgraded, "ERROR") /\ "ERROR" \in Severities
    BY <2>3, <2>4 DEF FixedBut, Severities
  <2>6. QED
    BY <2>3, <2>4, <2>5
<1>3. QED
  BY <1>1, <1>2

\* Initially the list is empty.
LEMMA SeveritiesInit == Init => SeveritiesFixed
<1> SUFFICES ASSUME Init PROVE SeveritiesFixed
  OBVIOUS
<1>1. version = NoVersion /\ AllFixed(diagnostics) /\ FixedBut(diagnostics, "ERROR")
  BY DEF Init, AllFixed, FixedBut
<1>2. QED
  BY <1>1 DEF SeveritiesFixed, Severities

\* Where the list stays or gets a diagnostic of fixed severity.
LEMMA SeveritiesKept ==
  ASSUME Typed, SeveritiesFixed, stage # "DONE",
         Unversioned' => Unversioned /\ version' = version,
         \/ stage' = "DONE"
         \/ diagnostics' = diagnostics
         \/ \E d \in Diagnostic : Fixed(d) /\ diagnostics' = Append(diagnostics, d)
  PROVE  SeveritiesFixed'
<1>1. diagnostics \in Seq(Diagnostic)
  BY DEF Typed, TypeOK
<1>2. PICK s \in Severities : FixedBut(diagnostics, s)
  BY DEF SeveritiesFixed
<1>3. CASE stage' = "DONE"
  BY <1>3 DEF SeveritiesFixed, Unversioned
<1>4. CASE stage' # "DONE"
  <2>1. /\ FixedBut(diagnostics', s)
        /\ AllFixed(diagnostics) => AllFixed(diagnostics')
    BY <1>1, <1>2, <1>4, AppendFixed
  <2>3. QED
    BY <1>2, <2>1 DEF SeveritiesFixed, AllFixed, FixedBut
<1>5. QED
  BY <1>3, <1>4

\* Every action keeps the severities fixed.
LEMMA SeveritiesStep ==
  Typed /\ SeveritiesFixed /\ [Next]_pipelineVars => SeveritiesFixed'
<1> SUFFICES ASSUME Typed, SeveritiesFixed, [Next]_pipelineVars
             PROVE  SeveritiesFixed'
  OBVIOUS
<1>typed. diagnostics \in Seq(Diagnostic) /\ options \in Options
  BY DEF Typed, TypeOK
<1>1. ASSUME NEW r \in Reports, Reject(r) PROVE SeveritiesFixed'
  BY <1>1 DEF Reject, Return, SeveritiesFixed, Unversioned
<1>2. CASE Accept
  BY <1>2, SeveritiesKept DEF Accept, Enter, Unversioned
<1>3. ASSUME NEW r \in Reports, Report(r) PROVE SeveritiesFixed'
  <2> DEFINE d == Diag(r.severity, r.key)
  <2>1. d \in Diagnostic /\ Fixed(d)
    BY ReportTyped DEF Fixed
  <2>2. /\ diagnostics' = diagnostics \/ diagnostics' = Append(diagnostics, d)
        /\ stage # "DONE" /\ UNCHANGED <<stage, version>>
        /\ stage = "PARSE" => VersionRead
        /\ own' # <<>> \/ own' = own
    <3>1. Len(Append(own, d)) # 0
      BY <2>1, AppendFacts DEF Typed, TypeOK
    <3>2. own' = own \/ own' = Append(own, d)
      BY <1>3 DEF Report, Add
    <3>3. QED
      BY <1>3, <3>1, <3>2 DEF Report, Add
  <2> HIDE DEF d
  <2>3. Unversioned' => Unversioned
    BY <2>2 DEF Unversioned, VersionRead
  <2>4. QED
    BY <2>1, <2>2, <2>3, SeveritiesKept
<1>4. CASE Normalized
  BY <1>4, SeveritiesKept DEF Normalized, Return, Enter, Unversioned
<1>5. CASE TooManyTokens
  BY <1>5 DEF TooManyTokens, Return, SeveritiesFixed, Unversioned
<1>6. CASE Lexed
  BY <1>6, SeveritiesKept DEF Lexed, Return, Enter, Unversioned
<1>7. CASE LaidOut
  BY <1>7, SeveritiesKept DEF LaidOut, Enter, Unversioned
<1>8. ASSUME NEW annotated \in Versions \cup {Missing}, ReadVersion(annotated)
      PROVE  SeveritiesFixed'
  <2> DEFINE said == VersionReports(annotated)
  <2>1. /\ said \in Seq(Diagnostic)
        /\ VersionOf(annotated) = NoVersion => said # <<>>
        /\ \E s \in Severities : FixedBut(said, s)
    BY <1>typed, VersionReportsOne
  <2>2. /\ stage = "PARSE" /\ ~VersionRead /\ UNCHANGED stage
        /\ diagnostics' = diagnostics \o said
        /\ own' = said /\ version' = VersionOf(annotated)
    BY <1>8 DEF ReadVersion
  <2> HIDE DEF said
  <2>3. ~Unversioned'
    BY <2>1, <2>2 DEF Unversioned, VersionRead
  <2>4. PICK s \in Severities : FixedBut(said, s)
    BY <2>1
  <2>5. FixedBut(diagnostics', s)
    BY <1>typed, <2>1, <2>2, <2>4, JoinFixed DEF SeveritiesFixed, Unversioned
  <2>6. QED
    BY <2>3, <2>5 DEF SeveritiesFixed, FixedBut
<1>9. CASE Parsed
  BY <1>9, SeveritiesKept DEF Parsed, Enter, Unversioned
<1>10. CASE ParserGate
  <2>1. /\ stage = "GATE" /\ diagnostics' = Upgraded
        /\ stage' \in {"SEMANTIC", "CONTRACT", "CEILING"}
    BY <1>10 DEF ParserGate, Enter
  <2>2. PICK s \in Severities : FixedBut(diagnostics, s)
    BY <2>1 DEF SeveritiesFixed
  <2>3. PICK t \in Severities : FixedBut(diagnostics', t)
    BY <2>1, <2>2, <1>typed, UpgradedFixed
  <2>4. QED
    BY <2>1, <2>3 DEF SeveritiesFixed, Unversioned, FixedBut
<1>11. CASE SemanticGate
  BY <1>11, SeveritiesKept DEF SemanticGate, Enter, Unversioned
<1>12. CASE ContractChecked
  BY <1>12, SeveritiesKept DEF ContractChecked, Enter, Unversioned
<1>13. CASE TooManyNodes
  <2> DEFINE d == Diag("FATAL", "TOO_MANY_AST_NODES")
  <2>1. d \in Diagnostic /\ Fixed(d)
    BY DEF Diag, Diagnostic, Keys, OwnKeys, Severities, Fixed
  <2>2. /\ stage = "CEILING" /\ stage' = "FINISH"
        /\ diagnostics' = Append(diagnostics, d)
    BY <1>13 DEF TooManyNodes, Enter
  <2> HIDE DEF d
  <2>3. QED
    BY <2>1, <2>2, SeveritiesKept DEF Unversioned
<1>14. CASE NodesCounted
  BY <1>14, SeveritiesKept DEF NodesCounted, Enter, Unversioned
<1>15. CASE Finish
  BY <1>15 DEF Finish, Return, SeveritiesFixed, Unversioned
<1>16. CASE UNCHANGED pipelineVars
  BY <1>16 DEF pipelineVars, SeveritiesFixed, Unversioned, VersionRead,
               AllFixed, FixedBut
<1>17. QED
  BY <1>1, <1>2, <1>3, <1>4, <1>5, <1>6, <1>7, <1>8, <1>9, <1>10, <1>11,
     <1>12, <1>13, <1>14, <1>15, <1>16 DEF Next

-----------------------------------------------------------------------------
(* What is reported. *)

SameKeys(list, other) ==
  /\ Len(list) = Len(other)
  /\ \A k \in 1..Len(list) : list[k].key = other[k].key

\* As long as no limit is reached the diagnostics are what was issued, but for
\* the severities that the parser's gate raises.
KeysKept ==
  /\ stage \in {"FILE", "VALIDATE"} => issued = <<>>
  /\ Len(own) <= Len(issued)
  /\ stage # "DONE" /\ Len(issued) <= MaxDiagnostics =>
       SameKeys(diagnostics, issued)

\* Two lists of the same keys keep them where the same is appended,
LEMMA AppendSameKeys ==
  ASSUME NEW list \in Seq(Diagnostic), NEW other \in Seq(Diagnostic),
         SameKeys(list, other), NEW d \in Diagnostic
  PROVE  SameKeys(Append(list, d), Append(other, d))
<1>1. ASSUME NEW k \in 1..(Len(list) + 1)
      PROVE  Append(list, d)[k].key = Append(other, d)[k].key
  BY AppendFacts DEF SameKeys
<1>2. QED
  BY <1>1, AppendFacts DEF SameKeys

\* or joined.
LEMMA JoinSameKeys ==
  ASSUME NEW list \in Seq(Diagnostic), NEW other \in Seq(Diagnostic),
         SameKeys(list, other), NEW more \in Seq(Diagnostic)
  PROVE  SameKeys(list \o more, other \o more)
<1>1. Len(list) = Len(other) /\ Len(list) \in Nat
  BY JoinFacts DEF SameKeys
<1>2. ASSUME NEW k \in 1..(Len(list) + Len(more))
      PROVE  (list \o more)[k].key = (other \o more)[k].key
  <2>1. CASE k \in 1..Len(list)
    BY <1>1, <2>1, JoinFacts DEF SameKeys
  <2>2. CASE k - Len(list) \in 1..Len(more)
    <3>1. PICK j \in 1..Len(more) : j = k - Len(list)
      BY <2>2
    <3>2. k = Len(list) + j /\ k = Len(other) + j
      BY <1>1, <3>1
    <3>3. (list \o more)[k] = more[j] /\ (other \o more)[k] = more[j]
      BY <3>2, JoinFacts
    <3>4. QED
      BY <3>3
  <2>3. QED
    BY <2>1, <2>2, JoinFacts
<1>3. /\ Len(list \o more) = Len(list) + Len(more)
      /\ Len(other \o more) = Len(list) + Len(more)
  BY <1>1, JoinFacts
<1>4. QED
  BY <1>2, <1>3 DEF SameKeys

\* A list of the same keys as what was said has lost nothing.
LEMMA TellsAll ==
  ASSUME NEW said \in Seq(Diagnostic), NEW res, res.ast = NoAst,
         SameKeys(res.diagnostics, said)
  PROVE  Tells(res, said)
<1> DEFINE shown == res.diagnostics
<1>1. ASSUME NEW k \in 1..Len(said) PROVE Places(shown, said[k].key)
  BY DEF SameKeys, Places, Index
<1>2. ASSUME NEW k \in 1..Len(shown) PROVE Places(said, shown[k].key)
  BY DEF SameKeys, Places, Index
<1>3. QED
  BY <1>1, <1>2 DEF Tells

\* The first of a key is the one kept.
LEMMA FirstIs ==
  ASSUME NEW list \in Seq(Diagnostic), NEW k \in Kept(list)
  PROVE  FirstOf(list, list[k].key) = k
<1>1. k \in 1..Len(list) /\ Len(list) \in Nat
      /\ \A j \in 1..(k - 1) : list[j].key # list[k].key
  BY DEF Kept
<1>2. \A j \in Index(list, list[k].key) : k <= j
  BY <1>1 DEF Index
<1>3. k \in Index(list, list[k].key)
  BY <1>1 DEF Index
<1>4. \A j \in Index(list, list[k].key) :
        (\A i \in Index(list, list[k].key) : j <= i) => j = k
  BY <1>1, <1>2, <1>3 DEF Index
<1>5. QED
  BY <1>2, <1>3, <1>4 DEF FirstOf

\* Nor has the deduplicated list of all that was said.
LEMMA TellsDeduped ==
  ASSUME NEW said \in Seq(Diagnostic), NEW list \in Seq(Diagnostic),
         SameKeys(list, said), NEW res, res.diagnostics = Deduped(list)
  PROVE  Tells(res, said)
<1> DEFINE shown == Deduped(list)
<1>1. PICK place \in [1..Len(shown) -> Kept(list)] :
         /\ \A m \in 1..Len(shown) : shown[m] = list[place[m]]
         /\ \A l, m \in 1..Len(shown) : l < m => place[l] < place[m]
         /\ \A k \in Kept(list) : \E m \in 1..Len(shown) : place[m] = k
  BY DedupedPlaces
<1> HIDE DEF shown
<1>2. Kept(list) \subseteq 1..Len(list)
  BY DEF Kept
<1>3. /\ Len(list) = Len(said)
      /\ \A k \in 1..Len(list) : list[k].key = said[k].key
      /\ Kept(list) = Kept(said)
  <2>1. Len(list) \in Nat
    OBVIOUS
  <2>2. QED
    BY <2>1 DEF SameKeys, Kept
<1>4. ASSUME NEW k \in 1..Len(said) PROVE Places(shown, said[k].key)
  <2>1. PICK j \in Kept(list) : list[j].key = list[k].key
    BY <1>3, KeptFirst
  <2>2. PICK m \in 1..Len(shown) : place[m] = j
    BY <1>1, <2>1
  <2>3. shown[m].key = said[k].key
    BY <1>1, <1>3, <2>1, <2>2
  <2>4. QED
    BY <2>3 DEF Places, Index
<1>5. ASSUME NEW k \in 1..Len(shown)
      PROVE  /\ place[k] \in Kept(said) /\ shown[k].key = said[place[k]].key
             /\ Places(said, shown[k].key)
             /\ FirstOf(said, shown[k].key) = place[k]
  <2>1. place[k] \in Kept(said) /\ place[k] \in 1..Len(said)
    BY <1>2, <1>3
  <2>2. shown[k].key = said[place[k]].key
    BY <1>1, <1>3, <2>1
  <2>3. QED
    BY <2>1, <2>2, FirstIs DEF Places, Index
<1>6. ASSUME NEW j \in 1..Len(shown), NEW k \in 1..Len(shown), j < k
      PROVE  FirstOf(said, shown[j].key) < FirstOf(said, shown[k].key)
  BY <1>1, <1>5, <1>6
<1>7. res.diagnostics = shown
  BY DEF shown
<1>8. QED
  BY <1>4, <1>5, <1>6, <1>7 DEF Tells

\* What is kept of the reports, and what comes of it.
Reporting == KeysKept /\ NothingLost

\* Initially nothing is issued.
LEMMA ReportingInit == Init => Reporting
<1> SUFFICES ASSUME Init PROVE Reporting
  OBVIOUS
<1>1. issued = <<>> /\ diagnostics = <<>> /\ own = <<>> /\ stage # "DONE"
  BY DEF Init
<1>2. QED
  BY <1>1 DEF Reporting, KeysKept, NothingLost, Done, SameKeys

\* An early return with the list of what was issued.
LEMMA ReportingReturn ==
  ASSUME stage' = "DONE", result'.ast = NoAst,
         issued' \in Seq(Diagnostic), Len(own') <= Len(issued'),
         Len(issued') <= MaxDiagnostics => SameKeys(result'.diagnostics, issued')
  PROVE  Reporting'
<1>1. Len(issued') <= MaxDiagnostics => Tells(result', issued')
  BY TellsAll
<1>2. NothingLost'
  BY <1>1 DEF NothingLost
<1>3. QED
  BY <1>2 DEF Reporting, KeysKept

\* Any step that does not end the run.
LEMMA ReportingGoes ==
  ASSUME stage' # "DONE",
         stage' \in {"FILE", "VALIDATE"} => issued' = <<>>,
         Len(own') <= Len(issued'),
         Len(issued') <= MaxDiagnostics => SameKeys(diagnostics', issued')
  PROVE  Reporting'
  BY DEF Reporting, KeysKept, NothingLost, Done, SameKeys

\* Going on to another stage.
LEMMA ReportingEnter ==
  ASSUME Typed, Reporting, NEW next \in Stages \ {"DONE", "FILE"}, Enter(next),
         next = "VALIDATE" => stage = "FILE", stage # "DONE",
         UNCHANGED issued,
         Len(issued) <= MaxDiagnostics /\ SameKeys(diagnostics, issued) =>
           SameKeys(diagnostics', issued)
  PROVE  Reporting'
<1>1. stage' = next /\ own' = <<>>
  BY DEF Enter
<1>2. Len(issued) \in Nat
  BY JoinFacts DEF Typed, TypeOK
<1>3. Len(own') <= Len(issued')
  BY <1>1, <1>2
<1>4. Len(issued') <= MaxDiagnostics => SameKeys(diagnostics', issued')
  BY DEF Reporting, KeysKept
<1>5. QED
  BY <1>1, <1>3, <1>4, ReportingGoes DEF Reporting, KeysKept

\* One more diagnostic, both issued and in the list.
LEMMA ReportingAppend ==
  ASSUME Typed, Reporting, stage # "DONE", NEW d \in Diagnostic,
         issued' = Append(issued, d)
  PROVE  /\ Len(own) <= Len(issued')
         /\ Len(own) + 1 <= Len(issued')
         /\ Len(issued') <= MaxDiagnostics =>
              SameKeys(Append(diagnostics, d), issued')
         /\ issued' \in Seq(Diagnostic)
<1>1. /\ issued \in Seq(Diagnostic) /\ diagnostics \in Seq(Diagnostic)
      /\ own \in Seq(Diagnostic)
  BY DEF Typed, TypeOK
<1>2. /\ Len(issued') = Len(issued) + 1 /\ Len(issued) \in Nat
      /\ issued' \in Seq(Diagnostic) /\ Len(own) \in Nat
  BY <1>1, AppendFacts
<1>3. Len(issued') <= MaxDiagnostics => SameKeys(diagnostics, issued)
  BY <1>2, PipelineAssumption DEF Reporting, KeysKept
<1>4. QED
  BY <1>1, <1>2, <1>3, AppendSameKeys DEF Reporting, KeysKept

\* Every action keeps what was reported.
LEMMA ReportingStep ==
  Typed /\ SeveritiesFixed /\ Reporting /\ [Next]_pipelineVars => Reporting'
<1> SUFFICES ASSUME Typed, SeveritiesFixed, Reporting, [Next]_pipelineVars
             PROVE  Reporting'
  OBVIOUS
<1>typed. /\ diagnostics \in Seq(Diagnostic) /\ issued \in Seq(Diagnostic)
          /\ own \in Seq(Diagnostic) /\ options \in Options
          /\ Len(issued) \in Nat /\ Len(diagnostics) \in Nat
  BY JoinFacts DEF Typed, TypeOK
<1>1. ASSUME NEW r \in Reports, Reject(r) PROVE Reporting'
  <2> DEFINE d == Diag("FATAL", r.key)
  <2>1. d \in Diagnostic
    BY <1>1 DEF Diag, Diagnostic, Keys, Severities
  <2>2. /\ issued' = Append(issued, d) /\ Return(NoAst, <<d>>)
        /\ stage \in {"FILE", "VALIDATE"} /\ own' = own
    BY <1>1 DEF Reject
  <2> HIDE DEF d
  <2>3. issued = <<>> /\ stage # "DONE"
    BY <2>2 DEF Reporting, KeysKept
  <2>4. issued' = <<d>> /\ result'.diagnostics = <<d>>
        /\ stage' = "DONE" /\ result'.ast = NoAst
    BY <2>2, <2>3 DEF Return
  <2>5. Len(own') <= Len(issued') /\ issued' \in Seq(Diagnostic)
    BY <2>1, <2>2, <2>3, ReportingAppend
  <2>6. QED
    BY <2>4, <2>5, ReportingReturn DEF SameKeys
<1>2. CASE Accept
  BY <1>2, ReportingEnter DEF Accept, Stages
<1>3. ASSUME NEW r \in Reports, Report(r) PROVE Reporting'
  <2> DEFINE d == Diag(r.severity, r.key)
  <2>1. d \in Diagnostic
    BY ReportTyped
  <2>2. /\ Add(d) /\ UNCHANGED stage /\ stage \notin {"FILE", "VALIDATE", "DONE"}
    BY <1>3 DEF Report
  <2> HIDE DEF d
  <2>3. issued' = Append(issued, d)
    BY <2>2 DEF Add
  <2>4. CASE Full
    <3>1. Len(own) >= MaxDiagnostics /\ own' = own
      BY <2>2, <2>4 DEF Add, Full
    <3>2. ~(Len(issued') <= MaxDiagnostics) /\ Len(own') <= Len(issued')
      <4>1. Len(own) \in Nat /\ Len(issued') \in Nat
        BY <1>typed, <2>1, <2>3, AppendFacts
      <4>2. Len(own) + 1 <= Len(issued')
        BY <2>1, <2>2, <2>3, ReportingAppend
      <4>3. QED
        BY <3>1, <4>1, <4>2, PipelineAssumption
    <3>3. QED
      BY <2>2, <3>2, ReportingGoes
  <2>5. CASE ~Full
    <3>1. diagnostics' = Append(diagnostics, d) /\ own' = Append(own, d)
      BY <2>2, <2>5 DEF Add
    <3>2. Len(own') = Len(own) + 1
      BY <3>1, <2>1, <1>typed, AppendFacts
    <3>3. QED
      BY <2>1, <2>2, <2>3, <3>1, <3>2, ReportingAppend, ReportingGoes
  <2>6. QED
    BY <2>4, <2>5
<1>4. CASE Normalized
  <2>1. CASE Stopped
    BY <1>4, <2>1, <1>typed, ReportingReturn
       DEF Normalized, Return, Reporting, KeysKept
  <2>2. CASE ~Stopped
    BY <1>4, <2>2, ReportingEnter DEF Normalized, Stages
  <2>3. QED
    BY <2>1, <2>2
<1>5. CASE TooManyTokens
  <2> DEFINE d == Diag("FATAL", "TOO_MANY_TOKENS")
  <2>1. d \in Diagnostic
    BY DEF Diag, Diagnostic, Keys, OwnKeys, Severities
  <2>2. /\ stage = "LEX" /\ own' = own
        /\ issued' = Append(issued, d) /\ Return(NoAst, Append(diagnostics, d))
    BY <1>5 DEF TooManyTokens
  <2> HIDE DEF d
  <2>3. /\ stage' = "DONE" /\ result'.ast = NoAst
        /\ result'.diagnostics = Append(diagnostics, d)
    BY <2>2 DEF Return
  <2>4. /\ Len(own') <= Len(issued') /\ issued' \in Seq(Diagnostic)
        /\ Len(issued') <= MaxDiagnostics =>
             SameKeys(Append(diagnostics, d), issued')
    BY <2>1, <2>2, ReportingAppend
  <2>5. QED
    BY <2>3, <2>4, ReportingReturn
<1>6. CASE Lexed
  <2>1. CASE Stopped
    BY <1>6, <2>1, <1>typed, ReportingReturn
       DEF Lexed, Return, Reporting, KeysKept
  <2>2. CASE ~Stopped
    BY <1>6, <2>2, ReportingEnter DEF Lexed, Stages
  <2>3. QED
    BY <2>1, <2>2
<1>7. CASE LaidOut
  BY <1>7, ReportingEnter DEF LaidOut, Stages
<1>8. ASSUME NEW annotated \in Versions \cup {Missing}, ReadVersion(annotated)
      PROVE  Reporting'
  <2> DEFINE said == VersionReports(annotated)
  <2>1. said \in Seq(Diagnostic)
    BY <1>typed, VersionReportsOne
  <2>2. /\ stage = "PARSE" /\ UNCHANGED stage /\ own' = said
        /\ issued' = issued \o said /\ diagnostics' = diagnostics \o said
    BY <1>8 DEF ReadVersion
  <2> HIDE DEF said
  <2>3. /\ Len(issued') = Len(issued) + Len(said)
        /\ Len(issued) \in Nat /\ Len(said) \in Nat
    BY <1>typed, <2>1, <2>2, JoinFacts
  <2>4. ASSUME Len(issued') <= MaxDiagnostics
        PROVE  SameKeys(diagnostics', issued')
    <3>1. SameKeys(diagnostics, issued)
      BY <2>2, <2>3, <2>4, PipelineAssumption DEF Reporting, KeysKept
    <3>2. QED
      BY <3>1, <1>typed, <2>1, <2>2, JoinSameKeys
  <2>5. QED
    BY <2>2, <2>3, <2>4, ReportingGoes
<1>9. CASE Parsed
  BY <1>9, ReportingEnter DEF Parsed, Stages
<1>10. CASE ParserGate
  <2>1. PICK next \in {"SEMANTIC", "CONTRACT", "CEILING"} : Enter(next)
    BY <1>10 DEF ParserGate
  <2>2. stage = "GATE" /\ diagnostics' = Upgraded /\ UNCHANGED issued
    BY <1>10 DEF ParserGate
  <2>3. PICK s \in Severities : FixedBut(diagnostics, s)
    BY <2>2 DEF SeveritiesFixed
  <2>4. SameKeys(diagnostics, issued) => SameKeys(diagnostics', issued)
    BY <2>2, <2>3, <1>typed, UpgradedFixed DEF SameKeys
  <2>5. next \in Stages \ {"DONE", "FILE"} /\ next # "VALIDATE"
    BY DEF Stages
  <2>6. QED
    BY <2>1, <2>2, <2>4, <2>5, ReportingEnter
<1>11. CASE SemanticGate
  <2>1. PICK next \in {"CONTRACT", "CEILING"} : Enter(next)
    BY <1>11 DEF SemanticGate
  <2>2. next \in Stages \ {"DONE", "FILE"} /\ next # "VALIDATE"
    BY DEF Stages
  <2>3. stage = "SEMANTIC" /\ UNCHANGED <<issued, diagnostics>>
    BY <1>11 DEF SemanticGate
  <2>4. QED
    BY <2>1, <2>2, <2>3, ReportingEnter
<1>12. CASE ContractChecked
  BY <1>12, ReportingEnter DEF ContractChecked, Stages
<1>13. CASE TooManyNodes
  <2> DEFINE d == Diag("FATAL", "TOO_MANY_AST_NODES")
  <2>1. d \in Diagnostic
    BY DEF Diag, Diagnostic, Keys, OwnKeys, Severities
  <2>2. /\ stage = "CEILING" /\ stage' = "FINISH" /\ own' = <<>>
        /\ issued' = Append(issued, d) /\ diagnostics' = Append(diagnostics, d)
    BY <1>13 DEF TooManyNodes, Enter
  <2> HIDE DEF d
  <2>3. Len(own') <= Len(issued')
    BY <2>1, <2>2, <1>typed, AppendFacts
  <2>4. Len(issued') <= MaxDiagnostics => SameKeys(diagnostics', issued')
    BY <2>1, <2>2, ReportingAppend
  <2>5. QED
    BY <2>2, <2>3, <2>4, ReportingGoes
<1>14. CASE NodesCounted
  BY <1>14, ReportingEnter DEF NodesCounted, Stages
<1>15. CASE Finish
  <2>1. /\ stage = "FINISH" /\ stage' = "DONE" /\ UNCHANGED <<own, issued>>
        /\ diagnostics' = Shown(diagnostics)
        /\ result'.diagnostics = diagnostics'
    BY <1>15 DEF Finish, Return
  <2>2. KeysKept'
    BY <2>1 DEF Reporting, KeysKept
  <2>3. ASSUME Len(issued) <= MaxDiagnostics
        PROVE  Tells(result', issued)
    <3>1. SameKeys(diagnostics, issued)
      BY <2>1, <2>3 DEF Reporting, KeysKept
    <3>2. /\ Deduped(diagnostics) \in Seq(Diagnostic)
          /\ Len(Deduped(diagnostics)) <= Len(diagnostics)
          /\ Len(Deduped(diagnostics)) \in Nat
      BY <1>typed, DedupedPlaces, AppendFacts, JoinFacts
    <3>3. Len(Deduped(diagnostics)) <= MaxDiagnostics
      BY <2>3, <3>1, <3>2, <1>typed, PipelineAssumption DEF SameKeys
    <3>4. result'.diagnostics = Deduped(diagnostics)
      BY <2>1, <3>2, <3>3, TruncatedFacts DEF Shown
    <3>5. QED
      BY <1>typed, <3>1, <3>4, TellsDeduped
  <2>4. NothingLost'
    BY <2>1, <2>3 DEF NothingLost
  <2>5. QED
    BY <2>2, <2>4 DEF Reporting
<1>16. CASE UNCHANGED pipelineVars
  <2>1. KeysKept'
    BY <1>16 DEF pipelineVars, Reporting, KeysKept, SameKeys
  <2>2. NothingLost'
    BY <1>16 DEF pipelineVars, Reporting, NothingLost, Done
  <2>3. QED
    BY <2>1, <2>2 DEF Reporting
<1>17. QED
  BY <1>1, <1>2, <1>3, <1>4, <1>5, <1>6, <1>7, <1>8, <1>9, <1>10, <1>11,
     <1>12, <1>13, <1>14, <1>15, <1>16 DEF Next

-----------------------------------------------------------------------------
(* What the limits drop. *)

\* All that was said is in a list, but for what the parser and the analyzer may
\* have dropped.
Shows(list, said) ==
  \A k \in 1..Len(said) :
    said[k].key \notin CappedKeys => Places(list, said[k].key)

\* Until the run ends that is so of the diagnostics.
Dropping == (stage # "DONE" => Shows(diagnostics, issued)) /\ OnlyTheLimitDrops

\* A list keeps its keys when it grows.
LEMMA AppendPlaces ==
  ASSUME NEW list \in Seq(Diagnostic), NEW d \in Diagnostic
  PROVE  /\ \A key : Places(list, key) => Places(Append(list, d), key)
         /\ Places(Append(list, d), d.key)
<1>1. /\ Len(Append(list, d)) = Len(list) + 1 /\ Len(list) \in Nat
      /\ \A k \in 1..Len(list) : Append(list, d)[k] = list[k]
      /\ Append(list, d)[Len(list) + 1] = d
  BY AppendFacts
<1>2. Len(list) + 1 \in 1..(Len(list) + 1)
      /\ \A k \in 1..Len(list) : k \in 1..(Len(list) + 1)
  BY <1>1
<1>3. QED
  BY <1>1, <1>2 DEF Places, Index

\* One more is said: it is shown, or it may be dropped.
LEMMA AppendShows ==
  ASSUME NEW list \in Seq(Diagnostic), NEW said \in Seq(Diagnostic),
         Shows(list, said), NEW d \in Diagnostic
  PROVE  /\ Shows(Append(list, d), Append(said, d))
         /\ d.key \in CappedKeys => Shows(list, Append(said, d))
<1>1. /\ Len(Append(said, d)) = Len(said) + 1
      /\ \A k \in 1..Len(said) : Append(said, d)[k] = said[k]
      /\ Append(said, d)[Len(said) + 1] = d
      /\ \A k \in 1..(Len(said) + 1) : k \in 1..Len(said) \/ k = Len(said) + 1
  BY AppendFacts
<1>2. Shows(Append(list, d), Append(said, d))
  BY <1>1, AppendPlaces DEF Shows
<1>3. d.key \in CappedKeys => Shows(list, Append(said, d))
  BY <1>1 DEF Shows
<1>4. QED
  BY <1>2, <1>3

\* Several more are said and shown.
LEMMA JoinShows ==
  ASSUME NEW list \in Seq(Diagnostic), NEW said \in Seq(Diagnostic),
         Shows(list, said), NEW more \in Seq(Diagnostic)
  PROVE  Shows(list \o more, said \o more)
<1>1. /\ Len(list) \in Nat /\ Len(said) \in Nat /\ Len(more) \in Nat
      /\ Len(list \o more) = Len(list) + Len(more)
      /\ Len(said \o more) = Len(said) + Len(more)
  BY JoinFacts
<1>2. ASSUME NEW k \in 1..(Len(said) + Len(more)),
             (said \o more)[k].key \notin CappedKeys
      PROVE  Places(list \o more, (said \o more)[k].key)
  <2>1. CASE k \in 1..Len(said)
    <3>1. (said \o more)[k] = said[k]
      BY <2>1, JoinFacts
    <3>2. PICK m \in 1..Len(list) : list[m].key = said[k].key
      BY <1>2, <2>1, <3>1 DEF Shows, Places, Index
    <3>3. m \in 1..Len(list \o more) /\ (list \o more)[m] = list[m]
      BY <1>1, JoinFacts
    <3>4. QED
      BY <3>1, <3>2, <3>3 DEF Places, Index
  <2>2. CASE k - Len(said) \in 1..Len(more)
    <3>1. PICK j \in 1..Len(more) : j = k - Len(said)
      BY <2>2
    <3>2. k = Len(said) + j
      BY <1>1, <3>1
    <3>3. (said \o more)[k] = more[j]
      BY <3>2, JoinFacts
    <3>4. /\ Len(list) + j \in 1..Len(list \o more)
          /\ (list \o more)[Len(list) + j] = more[j]
      BY <1>1, JoinFacts
    <3>5. QED
      BY <3>3, <3>4 DEF Places, Index
  <2>3. QED
    BY <2>1, <2>2, JoinFacts
<1>3. QED
  BY <1>1, <1>2 DEF Shows

\* A list of the same keys shows the same.
LEMMA SameKeysShow ==
  ASSUME NEW list, NEW said, Shows(list, said),
         NEW other, SameKeys(other, list)
  PROVE  Shows(other, said)
<1>1. \A key : Places(list, key) => Places(other, key)
  BY DEF SameKeys, Places, Index
<1>2. QED
  BY <1>1 DEF Shows

\* What the result shows of a list is all of it, if there is room.
LEMMA ShownShows ==
  ASSUME NEW list \in Seq(Diagnostic), NEW said, Shows(list, said),
         Len(Shown(list)) < MaxDiagnostics
  PROVE  Shows(Shown(list), said)
<1> DEFINE all == Deduped(list)
<1>1. PICK place \in [1..Len(all) -> Kept(list)] :
         /\ \A m \in 1..Len(all) : all[m] = list[place[m]]
         /\ \A l, m \in 1..Len(all) : l < m => place[l] < place[m]
         /\ \A k \in Kept(list) : \E m \in 1..Len(all) : place[m] = k
  BY DedupedPlaces
<1>2. Shown(list) = all
  BY DedupedPlaces, TruncatedFacts DEF Shown
<1> HIDE DEF all
<1>3. ASSUME NEW key, Places(list, key) PROVE Places(all, key)
  <2>1. PICK k \in 1..Len(list) : list[k].key = key
    BY <1>3 DEF Places, Index
  <2>2. PICK j \in Kept(list) : list[j].key = list[k].key
    BY KeptFirst
  <2>3. PICK m \in 1..Len(all) : place[m] = j
    BY <1>1, <2>2
  <2>4. all[m].key = key
    BY <1>1, <2>1, <2>2, <2>3
  <2>5. QED
    BY <2>4 DEF Places, Index
<1>4. QED
  BY <1>2, <1>3 DEF Shows

\* Initially nothing is said.
LEMMA DroppingInit == Init => Dropping
<1> SUFFICES ASSUME Init PROVE Dropping
  OBVIOUS
<1>1. issued = <<>> /\ stage # "DONE"
  BY DEF Init
<1>2. QED
  BY <1>1 DEF Dropping, Shows, OnlyTheLimitDrops, Done

\* An early return with a list that shows what was said.
LEMMA DroppingReturn ==
  ASSUME stage' = "DONE", result'.ast = NoAst,
         Shows(result'.diagnostics, issued')
  PROVE  Dropping'
  BY DEF Dropping, OnlyTheLimitDrops, Shows, Places, Index

\* Any step that does not end the run.
LEMMA DroppingGoes ==
  ASSUME stage' # "DONE", Shows(diagnostics', issued')
  PROVE  Dropping'
  BY DEF Dropping, OnlyTheLimitDrops, Shows, Places, Index, Done

\* Going on to another stage with the same list.
LEMMA DroppingEnter ==
  ASSUME Dropping, stage # "DONE", NEW next \in Stages \ {"DONE"}, Enter(next),
         UNCHANGED <<diagnostics, issued>>
  PROVE  Dropping'
<1>1. stage' # "DONE" /\ Shows(diagnostics', issued')
  BY DEF Enter, Dropping
<1>2. QED
  BY <1>1, DroppingGoes

\* Every action keeps what was said in view.
LEMMA DroppingStep ==
  Typed /\ SeveritiesFixed /\ Reporting /\ Dropping /\ [Next]_pipelineVars
    => Dropping'
<1> SUFFICES ASSUME Typed, SeveritiesFixed, Reporting, Dropping,
                    [Next]_pipelineVars
             PROVE  Dropping'
  OBVIOUS
<1>typed. /\ diagnostics \in Seq(Diagnostic) /\ issued \in Seq(Diagnostic)
          /\ options \in Options
  BY DEF Typed, TypeOK
<1>1. ASSUME NEW r \in Reports, Reject(r) PROVE Dropping'
  <2> DEFINE d == Diag("FATAL", r.key)
  <2>1. d \in Diagnostic
    BY <1>1 DEF Diag, Diagnostic, Keys, Severities
  <2>2. /\ issued' = Append(issued, d) /\ Return(NoAst, <<d>>)
        /\ stage \in {"FILE", "VALIDATE"}
    BY <1>1 DEF Reject
  <2> HIDE DEF d
  <2>3. issued = <<>>
    BY <2>2 DEF Reporting, KeysKept
  <2>4. /\ stage' = "DONE" /\ result'.ast = NoAst
        /\ result'.diagnostics = <<d>> /\ issued' = <<d>>
    BY <2>2, <2>3 DEF Return
  <2>5. Shows(<<d>>, <<d>>)
    BY DEF Shows, Places, Index
  <2>6. QED
    BY <2>4, <2>5, DroppingReturn
<1>2. CASE Accept
  BY <1>2, DroppingEnter DEF Accept, Stages
<1>3. ASSUME NEW r \in Reports, Report(r) PROVE Dropping'
  <2> DEFINE d == Diag(r.severity, r.key)
  <2>1. d \in Diagnostic /\ d.key = r.key
    BY ReportTyped DEF Diag
  <2>2. /\ Add(d) /\ stage' = stage /\ r.stage = stage /\ stage # "DONE"
    BY <1>3 DEF Report
  <2> HIDE DEF d
  <2>3. Shows(diagnostics, issued)
    BY <2>2 DEF Dropping
  <2>4. CASE Full
    <3>1. d.key \in CappedKeys
      BY <2>1, <2>2, <2>4 DEF Full, CappedKeys
    <3>2. diagnostics' = diagnostics /\ issued' = Append(issued, d)
      BY <2>2, <2>4 DEF Add
    <3>3. Shows(diagnostics', issued')
      BY <1>typed, <2>1, <2>3, <3>1, <3>2, AppendShows
    <3>4. QED
      BY <2>2, <3>3, DroppingGoes
  <2>5. CASE ~Full
    <3>1. diagnostics' = Append(diagnostics, d) /\ issued' = Append(issued, d)
      BY <2>2, <2>5 DEF Add
    <3>2. Shows(diagnostics', issued')
      BY <1>typed, <2>1, <2>3, <3>1, AppendShows
    <3>3. QED
      BY <2>2, <3>2, DroppingGoes
  <2>6. QED
    BY <2>4, <2>5
<1>4. CASE Normalized
  <2>1. CASE Stopped
    <3>1. /\ stage' = "DONE" /\ result'.ast = NoAst
          /\ Shows(result'.diagnostics, issued')
      BY <1>4, <2>1 DEF Normalized, Return, Dropping
    <3>2. QED
      BY <3>1, DroppingReturn
  <2>2. CASE ~Stopped
    BY <1>4, <2>2, DroppingEnter DEF Normalized, Stages
  <2>3. QED
    BY <2>1, <2>2
<1>5. CASE TooManyTokens
  <2> DEFINE d == Diag("FATAL", "TOO_MANY_TOKENS")
  <2>1. d \in Diagnostic
    BY DEF Diag, Diagnostic, Keys, OwnKeys, Severities
  <2>2. /\ stage = "LEX" /\ issued' = Append(issued, d)
        /\ Return(NoAst, Append(diagnostics, d))
    BY <1>5 DEF TooManyTokens
  <2> HIDE DEF d
  <2>3. /\ stage' = "DONE" /\ result'.ast = NoAst
        /\ result'.diagnostics = Append(diagnostics, d)
    BY <2>2 DEF Return
  <2>4. Shows(result'.diagnostics, issued')
    BY <1>typed, <2>1, <2>2, <2>3, AppendShows DEF Dropping
  <2>5. QED
    BY <2>3, <2>4, DroppingReturn
<1>6. CASE Lexed
  <2>1. CASE Stopped
    <3>1. /\ stage' = "DONE" /\ result'.ast = NoAst
          /\ Shows(result'.diagnostics, issued')
      BY <1>6, <2>1 DEF Lexed, Return, Dropping
    <3>2. QED
      BY <3>1, DroppingReturn
  <2>2. CASE ~Stopped
    BY <1>6, <2>2, DroppingEnter DEF Lexed, Stages
  <2>3. QED
    BY <2>1, <2>2
<1>7. CASE LaidOut
  BY <1>7, DroppingEnter DEF LaidOut, Stages
<1>8. ASSUME NEW annotated \in Versions \cup {Missing}, ReadVersion(annotated)
      PROVE  Dropping'
  <2> DEFINE said == VersionReports(annotated)
  <2>1. said \in Seq(Diagnostic)
    BY <1>typed, VersionReportsOne
  <2>2. /\ stage = "PARSE" /\ stage' = stage
        /\ diagnostics' = diagnostics \o said /\ issued' = issued \o said
    BY <1>8 DEF ReadVersion
  <2> HIDE DEF said
  <2>3. Shows(diagnostics', issued')
    BY <1>typed, <2>1, <2>2, JoinShows DEF Dropping
  <2>4. QED
    BY <2>2, <2>3, DroppingGoes
<1>9. CASE Parsed
  BY <1>9, DroppingEnter DEF Parsed, Stages
<1>10. CASE ParserGate
  <2>1. /\ stage = "GATE" /\ diagnostics' = Upgraded /\ issued' = issued
        /\ stage' # "DONE"
    BY <1>10 DEF ParserGate, Enter
  <2>2. PICK s \in Severities : FixedBut(diagnostics, s)
    BY <2>1 DEF SeveritiesFixed
  <2>3. SameKeys(Upgraded, diagnostics)
    BY <1>typed, <2>2, UpgradedFixed DEF SameKeys
  <2>4. Shows(diagnostics', issued')
    BY <2>1, <2>3, SameKeysShow DEF Dropping
  <2>5. QED
    BY <2>1, <2>4, DroppingGoes
<1>11. CASE SemanticGate
  BY <1>11, DroppingEnter DEF SemanticGate, Stages
<1>12. CASE ContractChecked
  BY <1>12, DroppingEnter DEF ContractChecked, Stages
<1>13. CASE TooManyNodes
  <2> DEFINE d == Diag("FATAL", "TOO_MANY_AST_NODES")
  <2>1. d \in Diagnostic
    BY DEF Diag, Diagnostic, Keys, OwnKeys, Severities
  <2>2. /\ stage = "CEILING" /\ stage' = "FINISH"
        /\ issued' = Append(issued, d) /\ diagnostics' = Append(diagnostics, d)
    BY <1>13 DEF TooManyNodes, Enter
  <2> HIDE DEF d
  <2>3. Shows(diagnostics', issued')
    BY <1>typed, <2>1, <2>2, AppendShows DEF Dropping
  <2>4. QED
    BY <2>2, <2>3, DroppingGoes
<1>14. CASE NodesCounted
  BY <1>14, DroppingEnter DEF NodesCounted, Stages
<1>15. CASE Finish
  <2>1. /\ stage = "FINISH" /\ stage' = "DONE" /\ issued' = issued
        /\ diagnostics' = Shown(diagnostics)
        /\ ast' = Final(diagnostics')
        /\ result'.ast = ast' /\ result'.diagnostics = diagnostics'
    BY <1>15 DEF Finish, Return
  <2>2. Shows(diagnostics, issued)
    BY <2>1 DEF Dropping
  <2>3. result'.ast # NoAst => result'.ast.diagnostics = diagnostics'
    BY <2>1 DEF Final, Tree
  <2>4. ASSUME Len(result'.diagnostics) < MaxDiagnostics
        PROVE  Shows(result'.diagnostics, issued')
    BY <1>typed, <2>1, <2>2, <2>4, ShownShows
  <2>5. OnlyTheLimitDrops'
    BY <2>1, <2>3, <2>4 DEF OnlyTheLimitDrops, Shows, Places, Index
  <2>6. QED
    BY <2>1, <2>5 DEF Dropping
<1>16. CASE UNCHANGED pipelineVars
  BY <1>16 DEF pipelineVars, Dropping, Shows, OnlyTheLimitDrops, Places, Index,
               Done
<1>17. QED
  BY <1>1, <1>2, <1>3, <1>4, <1>5, <1>6, <1>7, <1>8, <1>9, <1>10, <1>11,
     <1>12, <1>13, <1>14, <1>15, <1>16 DEF Next

-----------------------------------------------------------------------------
(* The gates. *)

\* What the last gate that is taken says.
Outcome == IF options.semantic THEN gates.semantic ELSE gates.parser

\* All gates of the run are taken, and there is a tree.
Judged ==
  \/ stage \in {"CONTRACT", "CEILING"}
  \/ stage = "FINISH" /\ ast # NoAst

\* The gates judge what is among the diagnostics.
GatesJudge ==
  /\ gates.semantic => options.semantic /\ gates.parser
  /\ stage = "SEMANTIC" =>
       /\ options.semantic
       /\ Passes(diagnostics) <=> gates.parser /\ Passes(own)
  /\ stage = "CONTRACT" => options.contract
  /\ Judged =>
       /\ Passes(diagnostics) => Outcome
       /\ ~options.contract /\ Outcome => Passes(diagnostics)

\* A list passes where its beginning and its last diagnostic do.
LEMMA AppendPasses ==
  ASSUME NEW list \in Seq(Diagnostic), NEW d \in Diagnostic
  PROVE  Passes(Append(list, d)) <=> Passes(list) /\ d.severity \notin Blocking
<1>1. /\ Len(Append(list, d)) = Len(list) + 1 /\ Len(list) \in Nat
      /\ \A k \in 1..Len(list) : Append(list, d)[k] = list[k]
      /\ Append(list, d)[Len(list) + 1] = d
      /\ \A k \in 1..(Len(list) + 1) : k \in 1..Len(list) \/ k = Len(list) + 1
  BY AppendFacts
<1>2. \A k \in 1..Len(list) : k \in 1..(Len(list) + 1)
  BY <1>1
<1>3. Len(list) + 1 \in 1..(Len(list) + 1)
  BY <1>1
<1>4. QED
  BY <1>1, <1>2, <1>3 DEF Passes, HasSeverity

\* The result's list passes where the whole list does, and only there unless it
\* is full: what was dropped as a duplicate had the severity of what was kept.
LEMMA FinalPasses ==
  ASSUME NEW list \in Seq(Diagnostic), NEW s, FixedBut(list, s)
  PROVE  LET final == Shown(list)
         IN  /\ final \in Seq(Diagnostic)
             /\ Passes(list) => Passes(final)
             /\ Len(final) < MaxDiagnostics /\ Passes(final) => Passes(list)
<1> DEFINE all == Deduped(list)
           final == Shown(list)
<1>1. PICK place \in [1..Len(all) -> Kept(list)] :
         /\ \A m \in 1..Len(all) : all[m] = list[place[m]]
         /\ \A l, m \in 1..Len(all) : l < m => place[l] < place[m]
         /\ \A k \in Kept(list) : \E m \in 1..Len(all) : place[m] = k
  BY DedupedPlaces
<1>2. all \in Seq(Diagnostic) /\ final = Truncated(all)
  BY DedupedPlaces DEF Shown
<1> HIDE DEF all, final
<1>3. /\ final \in Seq(Diagnostic) /\ Len(final) <= Len(all)
      /\ \A k \in 1..Len(final) : final[k] = all[k]
      /\ Len(final) < MaxDiagnostics => final = all
  BY <1>2, TruncatedFacts
<1>4. Len(final) \in Nat /\ Len(all) \in Nat
  BY <1>2, <1>3, AppendFacts, JoinFacts
<1>5. Kept(list) \subseteq 1..Len(list)
  BY DEF Kept
<1>6. ASSUME Passes(list) PROVE Passes(final)
  <2>1. ASSUME NEW k \in 1..Len(final)
        PROVE  final[k].severity \notin Blocking
    <3>1. k \in 1..Len(all) /\ final[k] = all[k]
      BY <1>3, <1>4
    <3>2. final[k] = list[place[k]] /\ place[k] \in 1..Len(list)
      BY <3>1, <1>1, <1>5
    <3>3. QED
      BY <3>2, <1>6 DEF Passes, HasSeverity
  <2>2. QED
    BY <2>1 DEF Passes, HasSeverity
<1>7. ASSUME Len(final) < MaxDiagnostics, Passes(final) PROVE Passes(list)
  <2>1. ASSUME NEW k \in 1..Len(list)
        PROVE  list[k].severity \notin Blocking
    <3>1. PICK j \in Kept(list) : list[j].key = list[k].key
      BY KeptFirst
    <3>2. j \in 1..Len(list)
      BY <1>5
    <3>3. list[j].severity = list[k].severity
      BY <3>1, <3>2, SameKeySameSeverity
    <3>4. PICK m \in 1..Len(all) : place[m] = j
      BY <1>1
    <3>5. final = all
      BY <1>3, <1>7
    <3>6. final[m] = list[j] /\ m \in 1..Len(final)
      BY <1>1, <3>4, <3>5
    <3>7. QED
      BY <1>7, <3>3, <3>6 DEF Passes, HasSeverity
  <2>2. QED
    BY <2>1 DEF Passes, HasSeverity
<1>8. QED
  BY <1>3, <1>6, <1>7 DEF final, all

\* What the gates say of the list, and what they say of the result.
Judging == GatesJudge /\ GatesMeanOk /\ OkMeansGates

\* Initially no gate is taken.
LEMMA JudgingInit == Init => Judging
<1> SUFFICES ASSUME Init PROVE Judging
  OBVIOUS
<1>1. stage \in {"FILE", "VALIDATE"} /\ ~gates.semantic
  BY DEF Init
<1>2. QED
  BY <1>1 DEF Judging, GatesJudge, Judged, GatesMeanOk, OkMeansGates, Done

\* An early return has no tree, so that no gate is looked at.
LEMMA JudgingReturn ==
  ASSUME Judging, stage' = "DONE", result'.ast = NoAst,
         UNCHANGED <<options, gates>>
  PROVE  Judging'
  BY DEF Judging, GatesJudge, Judged, GatesMeanOk, OkMeansGates, Done, Ok

\* Before the gates there is nothing to judge.
LEMMA JudgingEarly ==
  ASSUME Judging, stage' \in Unbuilt \cup {"GATE"}, UNCHANGED <<options, gates>>
  PROVE  Judging'
  BY DEF Judging, GatesJudge, Judged, GatesMeanOk, OkMeansGates, Done, Unbuilt

\* Every action keeps what the gates judge.
LEMMA JudgingStep ==
  Typed /\ SeveritiesFixed /\ Judging /\ [Next]_pipelineVars => Judging'
<1> SUFFICES ASSUME Typed, SeveritiesFixed, Judging, [Next]_pipelineVars
             PROVE  Judging'
  OBVIOUS
<1>typed. /\ diagnostics \in Seq(Diagnostic) /\ own \in Seq(Diagnostic)
          /\ options \in Options
          /\ gates \in [parser : BOOLEAN, semantic : BOOLEAN]
  BY DEF Typed, TypeOK
<1>1. ASSUME NEW r \in Reports, Reject(r) PROVE Judging'
  BY <1>1, JudgingReturn DEF Reject, Return
<1>2. CASE Accept
  BY <1>2, JudgingEarly DEF Accept, Enter, Unbuilt
<1>3. ASSUME NEW r \in Reports, Report(r) PROVE Judging'
  <2> DEFINE d == Diag(r.severity, r.key)
  <2>1. d \in Diagnostic
    BY ReportTyped
  <2>2. /\ Add(d) /\ UNCHANGED <<options, stage, gates>>
        /\ stage \in {"NORMALIZE", "LEX", "LAYOUT", "PARSE", "SEMANTIC", "CONTRACT"}
    BY <1>3 DEF Report
  <2> HIDE DEF d
  <2>3. CASE stage \in Unbuilt
    BY <2>2, <2>3, JudgingEarly
  <2>4. CASE stage = "SEMANTIC"
    <3>1. \/ diagnostics' = diagnostics /\ own' = own
          \/ diagnostics' = Append(diagnostics, d) /\ own' = Append(own, d)
      BY <2>2 DEF Add
    <3>2. options.semantic /\ (Passes(diagnostics) <=> gates.parser /\ Passes(own))
      BY <2>4 DEF Judging, GatesJudge
    <3>3. Passes(diagnostics') <=> gates.parser /\ Passes(own')
      <4>1. Passes(Append(diagnostics, d)) <=>
              Passes(diagnostics) /\ d.severity \notin Blocking
        BY <2>1, <1>typed, AppendPasses
      <4>2. Passes(Append(own, d)) <=> Passes(own) /\ d.severity \notin Blocking
        BY <2>1, <1>typed, AppendPasses
      <4>3. QED
        BY <3>1, <3>2, <4>1, <4>2
    <3>4. (Passes(diagnostics) <=> gates.parser /\ Passes(own))'
      BY <2>2, <3>3 DEF Passes, HasSeverity
    <3>5. GatesJudge'
      BY <2>2, <2>4, <3>2, <3>4 DEF Judging, GatesJudge, Judged
    <3>6. QED
      BY <2>2, <2>4, <3>5 DEF Judging, GatesMeanOk, OkMeansGates, Done
  <2>5. CASE stage = "CONTRACT"
    <3>1. diagnostics' = Append(diagnostics, d)
      BY <2>2, <2>5 DEF Add, Full, Capped
    <3>2. Passes(diagnostics') => Passes(diagnostics)
      BY <2>1, <3>1, <1>typed, AppendPasses
    <3>3. options.contract /\ (Passes(diagnostics) => Outcome)
      BY <2>5 DEF Judging, GatesJudge, Judged
    <3>4. Passes(diagnostics') => Outcome
      BY <3>2, <3>3
    <3>5. QED
      BY <2>2, <2>5, <3>3, <3>4
         DEF Judging, GatesJudge, Judged, GatesMeanOk, OkMeansGates, Done, Passes, HasSeverity, Outcome
  <2>6. QED
    BY <2>2, <2>3, <2>4, <2>5 DEF Unbuilt
<1>4. CASE Normalized
  <2>1. CASE Stopped
    BY <1>4, <2>1, JudgingReturn DEF Normalized, Return
  <2>2. CASE ~Stopped
    BY <1>4, <2>2, JudgingEarly DEF Normalized, Enter, Unbuilt
  <2>3. QED
    BY <2>1, <2>2
<1>5. CASE TooManyTokens
  BY <1>5, JudgingReturn DEF TooManyTokens, Return
<1>6. CASE Lexed
  <2>1. CASE Stopped
    BY <1>6, <2>1, JudgingReturn DEF Lexed, Return
  <2>2. CASE ~Stopped
    BY <1>6, <2>2, JudgingEarly DEF Lexed, Enter, Unbuilt
  <2>3. QED
    BY <2>1, <2>2
<1>7. CASE LaidOut
  BY <1>7, JudgingEarly DEF LaidOut, Enter, Unbuilt
<1>8. ASSUME NEW annotated \in Versions \cup {Missing}, ReadVersion(annotated)
      PROVE  Judging'
  BY <1>8, JudgingEarly DEF ReadVersion, Unbuilt
<1>9. CASE Parsed
  BY <1>9, JudgingEarly DEF Parsed, Enter
<1>10. CASE ParserGate
  <2>1. /\ diagnostics' = Upgraded /\ gates' = [parser |-> Passes(Upgraded), semantic |-> FALSE]
        /\ own' = <<>> /\ UNCHANGED options
        /\ stage' = IF options.semantic THEN "SEMANTIC"
                    ELSE IF options.contract THEN "CONTRACT" ELSE "CEILING"
    BY <1>10 DEF ParserGate, Enter
  <2>2. gates'.parser = Passes(diagnostics') /\ gates'.semantic = FALSE
    BY <2>1
  <2>3. Passes(own')
    BY <2>1 DEF Passes, HasSeverity
  <2>4. options \in Options /\ options.semantic \in BOOLEAN /\ options.contract \in BOOLEAN
    BY <1>typed DEF Options
  <2>5. QED
    BY <2>1, <2>2, <2>3, <2>4
       DEF Judging, GatesJudge, Judged, GatesMeanOk, OkMeansGates, Done, Outcome, Passes, HasSeverity
<1>11. CASE SemanticGate
  <2>1. /\ stage = "SEMANTIC" /\ gates' = [gates EXCEPT !.semantic = gates.parser /\ Passes(own)]
        /\ UNCHANGED <<diagnostics, options>>
        /\ stage' = IF options.contract THEN "CONTRACT" ELSE "CEILING"
    BY <1>11 DEF SemanticGate, Enter
  <2>2. gates'.parser = gates.parser /\ gates'.semantic = (gates.parser /\ Passes(own))
    BY <2>1, <1>typed
  <2>3. options.semantic /\ (Passes(diagnostics) <=> gates.parser /\ Passes(own))
    BY <2>1 DEF Judging, GatesJudge
  <2>4. Passes(diagnostics') <=> gates'.semantic
    BY <2>1, <2>2, <2>3
  <2>5. QED
    BY <2>1, <2>2, <2>3, <2>4
       DEF Judging, GatesJudge, Judged, GatesMeanOk, OkMeansGates, Done, Outcome, Passes, HasSeverity
<1>12. CASE ContractChecked
  BY <1>12 DEF ContractChecked, Enter, Judging, GatesJudge, Judged, GatesMeanOk,
               OkMeansGates, Done, Outcome, Passes, HasSeverity
<1>13. CASE TooManyNodes
  BY <1>13 DEF TooManyNodes, Enter, Judging, GatesJudge, Judged, GatesMeanOk,
               OkMeansGates, Done
<1>14. CASE NodesCounted
  BY <1>14 DEF NodesCounted, Enter, Judging, GatesJudge, Judged, GatesMeanOk,
               OkMeansGates, Done, Outcome, Passes, HasSeverity
<1>15. CASE Finish
  <2>1. /\ stage = "FINISH" /\ stage' = "DONE" /\ UNCHANGED <<options, gates>>
        /\ diagnostics' = Shown(diagnostics)
        /\ ast' = Final(diagnostics')
        /\ result'.ast = ast' /\ result'.diagnostics = diagnostics'
    BY <1>15 DEF Finish, Return
  <2>2. PICK s \in Severities : FixedBut(diagnostics, s)
    BY <2>1 DEF SeveritiesFixed
  <2>3. /\ Passes(diagnostics) => Passes(result'.diagnostics)
        /\ Len(result'.diagnostics) < MaxDiagnostics /\ Passes(result'.diagnostics) =>
             Passes(diagnostics)
    BY <2>1, <2>2, <1>typed, FinalPasses
  <2>4. result'.ast # NoAst => ast # NoAst
    BY <2>1 DEF Final
  <2>5. ast # NoAst =>
          /\ Passes(diagnostics) => Outcome
          /\ ~options.contract /\ Outcome => Passes(diagnostics)
    BY <2>1 DEF Judging, GatesJudge, Judged
  <2>6. gates.semantic => options.semantic /\ gates.parser
    BY DEF Judging, GatesJudge
  <2>7. (Ok)' <=> result'.ast # NoAst /\ Passes(result'.diagnostics)
    BY DEF Ok, Passes, HasSeverity
  <2>8. GatesMeanOk'
    BY <2>1, <2>3, <2>4, <2>5, <2>6, <2>7 DEF GatesMeanOk, Outcome
  <2>9. OkMeansGates'
    BY <2>1, <2>3, <2>4, <2>5, <2>6, <2>7 DEF OkMeansGates, Outcome
  <2>10. QED
    BY <2>1, <2>6, <2>8, <2>9 DEF Judging, GatesJudge, Judged
<1>16. CASE UNCHANGED pipelineVars
  BY <1>16 DEF pipelineVars, Judging, GatesJudge, Judged, GatesMeanOk,
               OkMeansGates, Done, Ok, Outcome, Passes, HasSeverity
<1>17. QED
  BY <1>1, <1>2, <1>3, <1>4, <1>5, <1>6, <1>7, <1>8, <1>9, <1>10, <1>11,
     <1>12, <1>13, <1>14, <1>15, <1>16 DEF Next

\* All five parts together are inductive.
LEMMA Outcomes ==
  Spec => [](Typed /\ SeveritiesFixed /\ Reporting /\ Dropping /\ Judging)
<1>1. Init => Typed /\ SeveritiesFixed /\ Reporting /\ Dropping /\ Judging
  BY TypedInit, SeveritiesInit, ReportingInit, DroppingInit, JudgingInit
<1>2. Typed /\ SeveritiesFixed /\ Reporting /\ Dropping /\ Judging
        /\ [Next]_pipelineVars
        => (Typed /\ SeveritiesFixed /\ Reporting /\ Dropping /\ Judging)'
  BY TypedStep, SeveritiesStep, ReportingStep, DroppingStep, JudgingStep
<1>3. QED
  BY <1>1, <1>2, PTL DEF Spec

\* Gates and result tell the same outcome whatever the stages report, in whichever
\* order, and wherever the lists are cut off (ParsePipeline.parse).
THEOREM PipelineGatesTellTheOutcome == Spec => []GatesTellTheOutcome
<1>1. Typed /\ SeveritiesFixed /\ Reporting /\ Dropping /\ Judging =>
        GatesTellTheOutcome
  BY DEF Typed, Judging, GatesTellTheOutcome
<1>2. QED
  BY <1>1, Outcomes, PTL

\* A result with room left, and its tree, shows every diagnostic of the stages
\* that have no limit of their own, wherever the parser's and the analyzer's
\* lists were cut off (ParsePipeline.parse, _dedupe_diagnostics).
THEOREM PipelineOnlyTheLimitDrops == Spec => []OnlyTheLimitDrops
<1>1. Typed /\ SeveritiesFixed /\ Reporting /\ Dropping /\ Judging =>
        OnlyTheLimitDrops
  BY DEF Dropping
<1>2. QED
  BY <1>1, Outcomes, PTL

\* Unless a limit is reached, all that any stage reports is in the result, once and
\* in the order in which it was first reported (ParsePipeline.parse,
\* _dedupe_diagnostics).
THEOREM PipelineNothingLost == Spec => []NothingLost
<1>1. Typed /\ SeveritiesFixed /\ Reporting /\ Dropping /\ Judging =>
        NothingLost
  BY DEF Reporting
<1>2. QED
  BY <1>1, Outcomes, PTL
=============================================================================
