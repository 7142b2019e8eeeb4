---------------------------- MODULE LayoutProofs ----------------------------
(***************************************************************************)
(* Proofs about Layout, for any lines, any width of blocks and any length  *)
(* of the program: only multiples of the width become levels, the levels   *)
(* are the blocks that are open by the offside rule, and the tokens        *)
(* emitted are those of nested, nonempty blocks.                           *)
(*                                                                         *)
(* The stack.  Levels grow strictly, so an indentation above the last of   *)
(* them is no level; a line with one is either wrapped or a multiple of    *)
(* the width, also inside brackets, where only a line at or below the last *)
(* level starts a statement.  A new logical line closes, in the offside    *)
(* rule, exactly the blocks deeper than it, and the dedent pops exactly    *)
(* the levels deeper than it.                                              *)
(*                                                                         *)
(* The tokens.  The INDENTs emitted are as many as the DEDENTs and the     *)
(* levels but the lowest, and a step emits no more DEDENTs than it pops    *)
(* levels.  Until the end the last token is that of a line; a NEWLINE      *)
(* comes first in what a step adds unless no logical line was read before. *)
(***************************************************************************)
EXTENDS Layout, SequenceTheorems, FiniteSetTheorems, WellFoundedInduction, TLAPS

\* What the two properties rest on: the types of the variables they read.
StateOK ==
  /\ levels \in Seq(Nat) /\ Len(levels) \in Nat \ {0}
  /\ starts \in Seq(Nat)
  /\ bad \in BOOLEAN
  /\ read \in 0..(MaxLines + 1)

LayoutInv == StateOK /\ LevelsAreBlocks /\ OffsideRule

\* The last level is one of them.
LEMMA LevelProperties ==
  ASSUME StateOK, LevelsAreBlocks
  PROVE  /\ Len(levels) \in Nat \ {0}
         /\ \A i \in 1..Len(levels) : levels[i] \in Nat
         /\ Level \in Nat
         /\ \A i \in 1..Len(levels) : levels[i] <= Level
<1>1. levels \in Seq(Nat)
  BY DEF StateOK
<1>2. Len(levels) \in Nat \ {0}
  BY DEF StateOK
<1>3. \A i \in 1..Len(levels) : levels[i] \in Nat
  BY <1>1, ElementOfSeq
<1>4. \A i \in 1..Len(levels) : levels[i] <= Level
  <2> SUFFICES ASSUME NEW i \in 1..Len(levels)
               PROVE  levels[i] <= Level
    OBVIOUS
  <2>1. CASE i = Len(levels)
    BY <2>1, <1>2, <1>3 DEF Level
  <2>2. CASE i < Len(levels)
    BY <2>2, <1>2, <1>3 DEF Level, LevelsAreBlocks
  <2> QED
    BY <2>1, <2>2, <1>2
<1> QED
  BY <1>2, <1>3, <1>4 DEF Level

\* The levels that stay open at an indentation are those not deeper than it.
LEMMA KeptProperties ==
  ASSUME StateOK, LevelsAreBlocks, NEW indent \in Nat
  PROVE  /\ Kept(indent) \in 1..Len(levels)
         /\ levels[Kept(indent)] <= indent
         /\ \A j \in (Kept(indent) + 1)..Len(levels) : levels[j] > indent
<1> DEFINE Below == {d \in Nat : d < Len(levels) /\ levels[Len(levels) - d] <= indent}
<1>1. /\ Len(levels) \in Nat \ {0}
      /\ \A i \in 1..Len(levels) : levels[i] \in Nat
  BY LevelProperties
<1>2. levels[1] = 0
  BY DEF LevelsAreBlocks
<1>3. Len(levels) - 1 \in Below
  BY <1>1, <1>2
<1>4. PICK d \in Below : \A y \in Below : ~ (<<y, d>> \in OpToRel(<, Nat))
  BY <1>3, WFMin, NatLessThanWellFounded
<1>5. \A y \in Below : ~ (y < d)
  BY <1>4 DEF OpToRel
<1>6. \A j \in (Len(levels) - d + 1)..Len(levels) : levels[j] > indent
  <2> SUFFICES ASSUME NEW j \in (Len(levels) - d + 1)..Len(levels),
                      ~ (levels[j] > indent)
               PROVE  FALSE
    OBVIOUS
  <2>1. Len(levels) - j \in Nat /\ Len(levels) - j < d /\ j \in 1..Len(levels)
    BY <1>1
  <2>2. levels[Len(levels) - (Len(levels) - j)] <= indent
    BY <2>1, <1>1
  <2>3. Len(levels) - j \in Below
    BY <2>1, <2>2, <1>1
  <2> QED
    BY <2>1, <2>3, <1>5
<1>7. /\ Len(levels) - d \in 1..Len(levels)
      /\ levels[Len(levels) - d] <= indent
  BY <1>1
<1>8. \E k \in 1..Len(levels) :
        /\ k = 1 \/ levels[k] <= indent
        /\ \A j \in (k + 1)..Len(levels) : levels[j] > indent
  BY <1>6, <1>7
<1>9. /\ Kept(indent) \in 1..Len(levels)
      /\ Kept(indent) = 1 \/ levels[Kept(indent)] <= indent
      /\ \A j \in (Kept(indent) + 1)..Len(levels) : levels[j] > indent
  BY <1>8 DEF Kept
<1> QED
  BY <1>9, <1>2

\* A new logical line ends the blocks deeper than it and starts its own.
LEMMA OffsideStep ==
  ASSUME starts \in Seq(Nat), NEW indent \in Nat,
         starts' = Append(starts, indent)
  PROVE  OpenByOffside' = {s \in OpenByOffside : s <= indent} \cup {indent}
<1> DEFINE n == Len(starts)
           more == starts'
<1>1. n \in Nat /\ \A k \in 1..n : starts[k] \in Nat
  BY ElementOfSeq, LenProperties
<1>2. /\ Len(more) = n + 1
      /\ more[n + 1] = indent
      /\ \A k \in 1..n : more[k] = starts[k]
  BY AppendProperties
<1>3. OpenByOffside' =
        {more[j] : j \in {k \in 1..(n + 1) :
                            \A m \in k..(n + 1) : more[k] <= more[m]}}
  BY <1>2 DEF OpenByOffside
<1> HIDE DEF n, more
<1>4. OpenByOffside =
        {starts[j] : j \in {k \in 1..n : \A m \in k..n : starts[k] <= starts[m]}}
  BY DEF OpenByOffside, n
<1>5. ASSUME NEW s \in OpenByOffside'
      PROVE  s = indent \/ (s \in OpenByOffside /\ s <= indent)
  <2>1. PICK k \in 1..(n + 1) :
          s = more[k] /\ \A m \in k..(n + 1) : more[k] <= more[m]
    BY <1>3, <1>5
  <2>2. CASE k = n + 1
    BY <2>1, <2>2, <1>2
  <2>3. CASE k \in 1..n
    <3>1. s = starts[k] /\ \A m \in k..n : starts[k] <= starts[m]
      BY <2>1, <2>3, <1>1, <1>2
    <3>2. s <= indent
      BY <2>1, <2>3, <1>1, <1>2
    <3> QED
      BY <3>1, <3>2, <2>3, <1>4
  <2> QED
    BY <2>2, <2>3, <1>1
<1>6. ASSUME NEW s \in OpenByOffside, s <= indent
      PROVE  s \in OpenByOffside'
  <2>1. PICK k \in 1..n : s = starts[k] /\ \A m \in k..n : starts[k] <= starts[m]
    BY <1>4
  <2>2. s = more[k] /\ more[k] <= more[n + 1]
    BY <2>1, <1>6, <1>2
  <2>3. \A m \in k..n : more[k] <= more[m]
    <3> SUFFICES ASSUME NEW m \in k..n PROVE more[k] <= more[m]
      OBVIOUS
    <3>1. m \in 1..n
      BY <1>1
    <3> QED
      BY <3>1, <2>1, <1>2
  <2>4. \A m \in k..(n + 1) : more[k] <= more[m]
    BY <2>2, <2>3, <1>1
  <2> QED
    BY <2>2, <2>4, <1>1, <1>3
<1>7. indent \in OpenByOffside'
  BY <1>1, <1>2, <1>3
<1> QED
  BY <1>5, <1>6, <1>7

LevelSet == {levels[i] : i \in 1..Len(levels)}

\* The open blocks after a logical line at or above the last level.
LEMMA OffsideAtLevel ==
  ASSUME LayoutInv, Reading, ~bad
  PROVE  /\ LevelSet = {0} \cup OpenByOffside
         /\ \A s \in OpenByOffside : s \in Nat /\ s <= Level
<1>1. ~Ended
  BY LayoutAssumption DEF LayoutInv, StateOK, Ended, Reading
<1>2. LevelSet = {0} \cup OpenByOffside
  BY <1>1 DEF LayoutInv, OffsideRule, LevelSet
<1> QED
  BY <1>2, LevelProperties DEF LevelSet, LayoutInv

LEMMA SameLevelPreserves ==
  ASSUME LayoutInv, NEW line \in Line, SameLevel(line)
  PROVE  LayoutInv'
<1>1. /\ levels' = levels /\ bad' = bad /\ Reading /\ line.indent = Level
      /\ starts' = Append(starts, line.indent) /\ read' = read + 1
      /\ line.indent \in Nat
  BY DEF SameLevel, Logical, Count, Line
<1>2. StateOK'
  BY <1>1, AppendProperties, LayoutAssumption DEF LayoutInv, StateOK, Reading
<1>3. LevelsAreBlocks'
  BY <1>1 DEF LayoutInv, LevelsAreBlocks
<1>4. ASSUME ~bad' PROVE LevelSet' = {0} \cup OpenByOffside'
  <2>1. /\ LevelSet = {0} \cup OpenByOffside
        /\ \A s \in OpenByOffside : s \in Nat /\ s <= Level
    BY <1>1, <1>4, OffsideAtLevel
  <2>2. OpenByOffside' = {s \in OpenByOffside : s <= line.indent} \cup {line.indent}
    BY <1>1, OffsideStep DEF LayoutInv, StateOK
  <2>3. Level \in LevelSet
    BY LevelProperties DEF LevelSet, Level, LayoutInv
  <2>4. LevelSet' = LevelSet
    BY <1>1 DEF LevelSet
  <2> QED
    BY <1>1, <2>1, <2>2, <2>3, <2>4
<1> QED
  BY <1>2, <1>3, <1>4 DEF LayoutInv, OffsideRule, LevelSet

LEMMA IndentPreserves ==
  ASSUME LayoutInv, NEW line \in Line, Indent(line)
  PROVE  LayoutInv'
<1> DEFINE n == Len(levels)
<1>1. /\ levels' = Append(levels, line.indent) /\ bad' = bad /\ Reading
      /\ line.indent > Level /\ ~Continues(line)
      /\ starts' = Append(starts, line.indent) /\ read' = read + 1
      /\ line.indent \in Nat
  BY DEF Indent, Logical, Count, Line
<1>2. /\ n \in Nat \ {0} /\ Level \in Nat
      /\ \A i \in 1..n : levels[i] \in Nat /\ levels[i] <= Level
  BY LevelProperties DEF LayoutInv
<1>3. /\ Len(levels') = n + 1
      /\ levels'[n + 1] = line.indent
      /\ \A i \in 1..n : levels'[i] = levels[i]
  BY <1>1, AppendProperties DEF LayoutInv, StateOK
<1>4. line.indent % BlockWidth = 0
  <2>1. ~IsLevel(line.indent)
    BY <1>1, <1>2 DEF IsLevel
  <2>2. ~Recovers(line)
    BY <1>1, <1>2 DEF Recovers
  <2> QED
    BY <2>1, <2>2, <1>1 DEF Continues
<1>5. StateOK'
  <2>1. levels' \in Seq(Nat) /\ Len(levels') \in Nat \ {0}
    BY <1>1, <1>2, <1>3, AppendProperties DEF LayoutInv, StateOK
  <2> QED
    BY <2>1, <1>1, AppendProperties, LayoutAssumption DEF LayoutInv, StateOK, Reading
<1>6. LevelsAreBlocks'
  <2>1. levels'[1] = 0
    BY <1>2, <1>3 DEF LayoutInv, LevelsAreBlocks
  <2>2. \A i \in 1..(n + 1) : levels'[i] % BlockWidth = 0
    BY <1>2, <1>3, <1>4 DEF LayoutInv, LevelsAreBlocks
  <2>3. \A i, j \in 1..(n + 1) : i < j => levels'[i] < levels'[j]
    <3> SUFFICES ASSUME NEW i \in 1..(n + 1), NEW j \in 1..(n + 1), i < j
                 PROVE  levels'[i] < levels'[j]
      OBVIOUS
    <3>1. CASE j = n + 1
      BY <3>1, <1>1, <1>2, <1>3
    <3>2. CASE j \in 1..n
      BY <3>2, <1>2, <1>3 DEF LayoutInv, LevelsAreBlocks
    <3> QED
      BY <3>1, <3>2, <1>2
  <2> QED
    BY <2>1, <2>2, <2>3, <1>3 DEF LevelsAreBlocks
<1>7. ASSUME ~bad' PROVE LevelSet' = {0} \cup OpenByOffside'
  <2>1. /\ LevelSet = {0} \cup OpenByOffside
        /\ \A s \in OpenByOffside : s \in Nat /\ s <= Level
    BY <1>1, <1>7, OffsideAtLevel
  <2>2. OpenByOffside' = {s \in OpenByOffside : s <= line.indent} \cup {line.indent}
    BY <1>1, OffsideStep DEF LayoutInv, StateOK
  <2>3. OpenByOffside' = OpenByOffside \cup {line.indent}
    BY <2>1, <2>2, <1>1, <1>2
  <2>4. LevelSet' = LevelSet \cup {line.indent}
    BY <1>2, <1>3 DEF LevelSet
  <2> QED
    BY <2>1, <2>3, <2>4
<1> QED
  BY <1>5, <1>6, <1>7 DEF LayoutInv, OffsideRule, LevelSet

LEMMA DedentPreserves ==
  ASSUME LayoutInv, NEW line \in Line, Dedent(line)
  PROVE  LayoutInv'
<1> DEFINE n == Len(levels)
           k == Kept(line.indent)
<1>1. /\ levels' = SubSeq(levels, 1, k)
      /\ bad' = (bad \/ Misaligned(line.indent)) /\ Reading
      /\ starts' = Append(starts, line.indent) /\ read' = read + 1
      /\ line.indent \in Nat
  BY DEF Dedent, Logical, Count, Line
<1>2. /\ n \in Nat \ {0} /\ Level \in Nat
      /\ \A i \in 1..n : levels[i] \in Nat
  BY LevelProperties DEF LayoutInv
<1>3. /\ k \in 1..n
      /\ levels[k] <= line.indent
      /\ \A j \in (k + 1)..n : levels[j] > line.indent
  BY <1>1, KeptProperties DEF LayoutInv
<1> HIDE DEF k
<1>4. /\ levels' \in Seq(Nat)
      /\ Len(levels') = k
      /\ \A i \in 1..k : levels'[i] = levels[i]
  <2>1. \A i \in 1..k : levels[i] \in Nat
    BY <1>2, <1>3
  <2> QED
    BY <2>1, <1>1, <1>3, SubSeqProperties
<1>5. StateOK'
  <2>1. Len(levels') \in Nat \ {0}
    BY <1>3, <1>4
  <2>2. bad' \in BOOLEAN
    BY <1>1 DEF LayoutInv, StateOK, Misaligned
  <2>3. starts' \in Seq(Nat)
    BY <1>1, AppendProperties DEF LayoutInv, StateOK
  <2>4. read' \in 0..(MaxLines + 1)
    BY <1>1, LayoutAssumption DEF LayoutInv, StateOK, Reading
  <2> QED
    BY <2>1, <2>2, <2>3, <2>4, <1>4 DEF StateOK
<1>6. LevelsAreBlocks'
  <2>1. \A i \in 1..k : i \in 1..n
    BY <1>2, <1>3
  <2>2. levels'[1] = 0
    BY <1>2, <1>3, <1>4 DEF LayoutInv, LevelsAreBlocks
  <2>3. \A i \in 1..k : levels'[i] % BlockWidth = 0
    BY <2>1, <1>4 DEF LayoutInv, LevelsAreBlocks
  <2>4. \A i, j \in 1..k : i < j => levels'[i] < levels'[j]
    BY <2>1, <1>4 DEF LayoutInv, LevelsAreBlocks
  <2> QED
    BY <2>2, <2>3, <2>4, <1>4 DEF LevelsAreBlocks
<1>7. ASSUME ~bad' PROVE LevelSet' = {0} \cup OpenByOffside'
  <2>1. ~bad /\ levels[k] = line.indent
    BY <1>1, <1>7 DEF Misaligned, k, LayoutInv, StateOK
  <2>2. LevelSet = {0} \cup OpenByOffside
    BY <1>1, <2>1, OffsideAtLevel
  <2>3. OpenByOffside' = {s \in OpenByOffside : s <= line.indent} \cup {line.indent}
    BY <1>1, OffsideStep DEF LayoutInv, StateOK
  <2>4. LevelSet' = {s \in LevelSet : s <= line.indent}
    <3>1. LevelSet' = {levels[i] : i \in 1..k}
      BY <1>3, <1>4 DEF LevelSet
    <3>2. \A i \in 1..k : levels[i] <= line.indent
      <4> SUFFICES ASSUME NEW i \in 1..k PROVE levels[i] <= line.indent
        OBVIOUS
      <4>1. i \in 1..n /\ levels[i] \in Nat /\ levels[k] \in Nat
        BY <1>2, <1>3
      <4>2. i < k => levels[i] < levels[k]
        BY <4>1, <1>3 DEF LayoutInv, LevelsAreBlocks
      <4> QED
        BY <4>1, <4>2, <1>1, <1>3
    <3>3. \A i \in 1..n : levels[i] <= line.indent => i \in 1..k
      BY <1>1, <1>2, <1>3
    <3>4. LevelSet = {levels[i] : i \in 1..n}
      BY DEF LevelSet
    <3> QED
      BY <3>1, <3>2, <3>3, <3>4, <1>2, <1>3
  <2>5. line.indent \in LevelSet
    BY <2>1, <1>3 DEF LevelSet
  <2> QED
    BY <2>2, <2>3, <2>4, <2>5, <1>1
<1> QED
  BY <1>5, <1>6, <1>7 DEF LayoutInv, OffsideRule, LevelSet

LEMMA FinishPreserves ==
  ASSUME LayoutInv, Finish
  PROVE  LayoutInv'
<1>1. /\ levels' = SubSeq(levels, 1, 1)
      /\ bad' = bad /\ starts' = starts /\ read' = MaxLines + 1
  BY DEF Finish
<1>2. /\ Len(levels) \in Nat \ {0}
      /\ levels[1] \in Nat
  BY LevelProperties DEF LayoutInv
<1>3. /\ levels' \in Seq(Nat)
      /\ Len(levels') = 1
      /\ levels'[1] = levels[1]
  BY <1>1, <1>2, SubSeqProperties
<1>4. StateOK'
  BY <1>1, <1>3, LayoutAssumption DEF LayoutInv, StateOK
<1>5. LevelsAreBlocks'
  BY <1>2, <1>3 DEF LayoutInv, LevelsAreBlocks
<1> QED
  BY <1>1, <1>4, <1>5 DEF LayoutInv, OffsideRule, Ended

LEMMA ContinuationPreserves ==
  ASSUME LayoutInv, NEW line \in Line, Continuation(line)
  PROVE  LayoutInv'
<1>1. /\ UNCHANGED <<levels, starts, bad>> /\ Reading /\ read' = read + 1
  BY DEF Continuation, Count
<1>2. read' \in 0..(MaxLines + 1)
  BY <1>1, LayoutAssumption DEF LayoutInv, StateOK, Reading
<1>3. LevelsAreBlocks'
  BY <1>1 DEF LayoutInv, LevelsAreBlocks
<1>4. OffsideRule'
  <2>1. ~Ended
    BY <1>1, LayoutAssumption DEF LayoutInv, StateOK, Ended, Reading
  <2>2. OpenByOffside' = OpenByOffside
    BY <1>1 DEF OpenByOffside
  <2> QED
    BY <2>1, <2>2, <1>1 DEF LayoutInv, OffsideRule
<1> QED
  BY <1>1, <1>2, <1>3, <1>4 DEF LayoutInv, StateOK

LEMMA LayoutInit == Init => LayoutInv
<1> SUFFICES ASSUME Init PROVE LayoutInv
  OBVIOUS
<1>1. StateOK
  <2>1. levels = <<0>> /\ starts = <<>> /\ bad = FALSE /\ read = 0
    BY DEF Init
  <2>2. <<0>> \in Seq(Nat) /\ Len(<<0>>) = 1
    OBVIOUS
  <2>3. starts \in Seq(Nat)
    BY <2>1, EmptySeq
  <2>4. read \in 0..(MaxLines + 1)
    BY <2>1, LayoutAssumption
  <2>5. levels \in Seq(Nat) /\ Len(levels) \in Nat \ {0}
    BY <2>1, <2>2
  <2> QED
    BY <2>1, <2>3, <2>4, <2>5 DEF StateOK
<1>2. LevelsAreBlocks
  BY LayoutAssumption DEF Init, LevelsAreBlocks
<1>3. OffsideRule
  BY DEF Init, OffsideRule, OpenByOffside
<1> QED
  BY <1>1, <1>2, <1>3 DEF LayoutInv

LEMMA LayoutStep == LayoutInv /\ [Next]_layoutVars => LayoutInv'
<1> SUFFICES ASSUME LayoutInv, [Next]_layoutVars PROVE LayoutInv'
  OBVIOUS
<1>1. ASSUME NEW line \in Lines, Continuation(line) PROVE LayoutInv'
  BY <1>1, ContinuationPreserves, LayoutAssumption
<1>2. ASSUME NEW line \in Lines, SameLevel(line) PROVE LayoutInv'
  BY <1>2, SameLevelPreserves, LayoutAssumption
<1>3. ASSUME NEW line \in Lines, Indent(line) PROVE LayoutInv'
  BY <1>3, IndentPreserves, LayoutAssumption
<1>4. ASSUME NEW line \in Lines, Dedent(line) PROVE LayoutInv'
  BY <1>4, DedentPreserves, LayoutAssumption
<1>5. CASE Finish
  BY <1>5, FinishPreserves
<1>6. CASE UNCHANGED layoutVars
  BY <1>6 DEF layoutVars, LayoutInv, StateOK, LevelsAreBlocks, OffsideRule,
              OpenByOffside, Ended
<1> QED
  BY <1>1, <1>2, <1>3, <1>4, <1>5, <1>6 DEF Next

\* Whatever is wrapped, recovered or misaligned, process keeps only block
\* indentations on its stack, each deeper than the last.
THEOREM LayoutLevelsAreBlocks == Spec => []LevelsAreBlocks
<1>1. LayoutInv => LevelsAreBlocks
  BY DEF LayoutInv
<1> QED
  BY <1>1, LayoutInit, LayoutStep, PTL DEF Spec

\* Until it reports a misaligned line, process has open exactly the blocks that
\* the offside rule has open after the same logical lines.
THEOREM LayoutOffsideRule == Spec => []OffsideRule
<1>1. LayoutInv => OffsideRule
  BY DEF LayoutInv
<1> QED
  BY <1>1, LayoutInit, LayoutStep, PTL DEF Spec

-----------------------------------------------------------------------------
(***************************************************************************)
(* The types of depth and of the last token.  What is defined by recursion *)
(* over the tokens of a line has the value the recursion gives it, by the  *)
(* least counterexample.                                                   *)
(***************************************************************************)
\* The depth after a line: the recursion over its tokens has a solution, and
\* none of its values is negative.
LEMMA DepthIsNatural ==
  ASSUME NEW line \in Line, NEW initial \in Nat
  PROVE  DepthAfter(line, initial) \in Nat
<1> DEFINE n == Len(line.tokens)
           Step(kind, before) ==
             CASE kind = "OPEN" -> before + 1
               [] kind = "CLOSE" /\ before > 0 -> before - 1
               [] OTHER -> before
           Value(g, i) == IF i = 0 THEN initial ELSE Step(line.tokens[i], g[i - 1])
           Depths(k, g) == g = [i \in 0..k |-> Value(g, i)]
           Missing == {k \in Nat : k <= n /\ ~ \E g : Depths(k, g)}
<1>1. DepthAfter(line, initial) = (CHOOSE g : Depths(n, g))[n]
  BY DEF DepthAfter
<1>2. n \in Nat
  BY DEF Line
<1>3. Missing = {}
  <2>1. SUFFICES ASSUME Missing # {} PROVE FALSE
    OBVIOUS
  <2>2. PICK d \in Missing : \A y \in Missing : ~ (<<y, d>> \in OpToRel(<, Nat))
    BY <2>1, WFMin, NatLessThanWellFounded
  <2>3. d \in Nat /\ d <= n /\ \A y \in Missing : ~ (y < d)
    BY <2>2 DEF OpToRel
  <2>4. CASE d = 0
    <3> DEFINE g == [i \in 0..0 |-> initial]
    <3>1. g = [i \in 0..0 |-> Value(g, i)]
      OBVIOUS
    <3> QED
      BY <3>1, <2>4
  <2>5. CASE d > 0
    <3>1. d - 1 \in Nat /\ d - 1 <= n /\ d - 1 < d
      BY <2>3, <2>5, <1>2
    <3>2. PICK g : Depths(d - 1, g)
      BY <3>1, <2>3
    <3> DEFINE h == [i \in 0..d |-> IF i = d THEN Value(g, d) ELSE g[i]]
    <3>3. \A i \in 0..d : Value(h, i) = Value(g, i)
      <4> SUFFICES ASSUME NEW i \in 0..d, i # 0 PROVE h[i - 1] = g[i - 1]
        OBVIOUS
      <4> QED
        BY <2>3
    <3>4. \A i \in 0..(d - 1) : g[i] = Value(g, i)
      BY <3>2
    <3> HIDE DEF Value
    <3>5. \A i \in 0..d : h[i] = Value(h, i)
      BY <3>3, <3>4, <2>3
    <3>6. h = [i \in 0..d |-> Value(h, i)]
      BY <3>5
    <3> QED
      BY <3>6
  <2> QED
    BY <2>3, <2>4, <2>5
<1>4. PICK g : Depths(n, g)
  BY <1>2, <1>3
<1> DEFINE after == CHOOSE f : Depths(n, f)
<1>5. Depths(n, after)
  BY <1>4
<1> HIDE DEF after
<1>6. \A i \in 0..n : after[i] = Value(after, i)
  BY <1>5
<1> DEFINE Wrong == {k \in Nat : k <= n /\ after[k] \notin Nat}
<1>7. Wrong = {}
  <2>1. SUFFICES ASSUME Wrong # {} PROVE FALSE
    OBVIOUS
  <2>2. PICK d \in Wrong : \A y \in Wrong : ~ (<<y, d>> \in OpToRel(<, Nat))
    BY <2>1, WFMin, NatLessThanWellFounded
  <2>3. d \in Nat /\ d <= n /\ after[d] \notin Nat /\ \A y \in Wrong : ~ (y < d)
    BY <2>2 DEF OpToRel
  <2>4. after[d] = Value(after, d)
    BY <2>3, <1>2, <1>6
  <2>5. CASE d = 0
    BY <2>3, <2>4, <2>5
  <2>6. CASE d > 0
    <3>1. after[d - 1] \in Nat
      BY <2>3, <2>6, <1>2
    <3> DEFINE before == after[d - 1]
    <3>2. Step(line.tokens[d], before) \in Nat
      BY <3>1
    <3> QED
      BY <3>2, <2>3, <2>4, <2>6
  <2> QED
    BY <2>3, <2>5, <2>6
<1>8. after[n] \in Nat
  BY <1>2, <1>7
<1>9. DepthAfter(line, initial) = after[n]
  BY <1>1 DEF after
<1> QED
  BY <1>8, <1>9

\* The last significant token of a line is one of its tokens.
LEMMA LastIsToken ==
  ASSUME NEW line \in Line, Significant(line) # {}
  PROVE  LastSignificant(line) \in Classes
<1> DEFINE n == Len(line.tokens)
           S == Significant(line)
           Back == {d \in Nat : d < n /\ n - d \in S}
<1>1. n \in Nat /\ S \subseteq 1..n /\ \A i \in 1..n : line.tokens[i] \in Classes
  BY DEF Line, Significant
<1>2. PICK s \in S : TRUE
  OBVIOUS
<1>3. n - s \in Back
  BY <1>1, <1>2
<1>4. PICK d \in Back : \A y \in Back : ~ (<<y, d>> \in OpToRel(<, Nat))
  BY <1>3, WFMin, NatLessThanWellFounded
<1>5. \A y \in Back : ~ (y < d)
  BY <1>4 DEF OpToRel
<1>6. n - d \in S /\ \A j \in S : j <= n - d
  <2>1. n - d \in S /\ d \in Nat
    BY <1>4
  <2>2. ASSUME NEW j \in S, ~ (j <= n - d) PROVE FALSE
    <3>0. j \in 1..n /\ n - d \in 1..n /\ n \in Nat /\ d \in Nat
      BY <2>1, <2>2, <1>1
    <3>1. n - (n - j) = j /\ n - j \in Nat /\ n - j < d /\ n - j < n
      <4> HIDE DEF n, S, Back
      <4> QED
        BY <3>0, <2>2
    <3>2. n - (n - j) \in S
      BY <3>1, <2>2, Zenon
    <3>3. n - j \in Back
      BY <3>1, <3>2
    <3> HIDE DEF Back
    <3> QED
      BY <3>1, <3>3, <1>5
  <2> QED
    BY <2>1, <2>2
<1>7. \E i \in S : \A j \in S : j <= i
  BY <1>6
<1>8. (CHOOSE i \in S : \A j \in S : j <= i) \in S
  BY <1>7
<1> QED
  BY <1>1, <1>8 DEF LastSignificant

-----------------------------------------------------------------------------
(***************************************************************************)
(* Counting the tokens emitted.                                            *)
(***************************************************************************)
Tokens == {"LINE", "WRAP", "NEWLINE", "INDENT", "DEDENT", "EOF"}

\* The places of a kind among the first n of a sequence.
Places(s, kind, n) == {i \in 1..n : s[i] = kind}

\* After more tokens the first of them count in addition.
LEMMA CountExtended ==
  ASSUME NEW s \in Seq(Tokens), NEW more \in Seq(Tokens), NEW kind,
         NEW m \in 0..Len(more)
  PROVE  /\ Cardinality(Places(s, kind, Len(s))) \in Nat
         /\ Cardinality(Places(more, kind, m)) \in Nat
         /\ Cardinality(Places(s \o more, kind, Len(s) + m))
              = Cardinality(Places(s, kind, Len(s))) + Cardinality(Places(more, kind, m))
<1> DEFINE L == Len(s)
           A == Places(s, kind, L)
           B == Places(more, kind, m)
           C == {i \in (L + 1)..(L + m) : more[i - L] = kind}
           shift == [i \in B |-> L + i]
           all == s \o more
<1>1. /\ L \in Nat /\ m \in Nat /\ m <= Len(more) /\ Len(more) \in Nat
      /\ \A i \in 1..L : all[i] = s[i]
      /\ \A i \in (L + 1)..(L + m) : all[i] = more[i - L]
  OBVIOUS
<1> HIDE DEF all, L
<1>2. Places(all, kind, L + m) = A \cup C
  <2>1. \A i \in 1..(L + m) : i \in 1..L \/ i \in (L + 1)..(L + m)
    BY <1>1
  <2>2. \A i \in 1..L : i \in 1..(L + m)
    BY <1>1
  <2>3. \A i \in (L + 1)..(L + m) : i \in 1..(L + m)
    BY <1>1
  <2> QED
    BY <2>1, <2>2, <2>3, <1>1 DEF Places
<1>3. IsFiniteSet(A) /\ IsFiniteSet(B)
  <2>1. A \subseteq 1..L /\ B \subseteq 1..m
    BY DEF Places
  <2>2. L \in Int /\ m \in Int /\ 1 \in Int
    BY <1>1
  <2>3. IsFiniteSet(1..L) /\ IsFiniteSet(1..m)
    BY <2>2, FS_Interval
  <2> QED
    BY <2>1, <2>3, FS_Subset
<1>4. shift \in Bijection(B, C)
  <2>1. \A i \in B : i \in 1..m /\ more[i] = kind
    BY DEF Places
  <2>2. \A i \in B : L + i \in C
    BY <2>1, <1>1
  <2>3. ASSUME NEW c \in C PROVE c - L \in B /\ L + (c - L) = c
    <3>1. c - L \in 1..m /\ L + (c - L) = c
      BY <1>1
    <3> QED
      BY <3>1 DEF Places
  <2>4. shift \in [B -> C]
    BY <2>2
  <2>5. \A i, j \in B : shift[i] = shift[j] => i = j
    BY <2>1, <1>1
  <2>6. \A c \in C : \E i \in B : shift[i] = c
    BY <2>3
  <2> QED
    BY <2>4, <2>5, <2>6 DEF Bijection, Injection, Surjection, IsInjective
<1>5. IsFiniteSet(C) /\ Cardinality(C) = Cardinality(B)
  BY <1>3, <1>4, FS_Bijection DEF ExistsBijection
<1>6. A \cap C = {}
  BY <1>1 DEF Places
<1>7. Cardinality(A \cup C) = Cardinality(A) + Cardinality(C)
  <2>1. Cardinality(A \cup C) = Cardinality(A) + Cardinality(C) - Cardinality(A \cap C)
    BY <1>3, <1>5, FS_Union
  <2>2. Cardinality(A \cap C) = 0
    BY <1>6, FS_EmptySet
  <2>3. Cardinality(A) \in Nat /\ Cardinality(C) \in Nat
    BY <1>3, <1>5, FS_CardinalityType
  <2> QED
    BY <2>1, <2>2, <2>3
<1>8. Cardinality(A) \in Nat /\ Cardinality(B) \in Nat
  BY <1>3, FS_CardinalityType
<1> QED
  BY <1>2, <1>5, <1>7, <1>8 DEF all, L

Opening(s, n) == Cardinality(Places(s, "INDENT", n))

Closing(s, n) == Cardinality(Places(s, "DEDENT", n))

\* Blocks opened and not closed are the levels but the lowest.
OpenBlocks ==
  /\ \A n \in 0..Len(out) : Closing(out, n) <= Opening(out, n)
  /\ Closing(out, Len(out)) + Len(levels) = Opening(out, Len(out)) + 1

\* More tokens are emitted.
Emits(more) ==
  out \in Seq(Tokens) /\ more \in Seq(Tokens) /\ out' = out \o more

\* Tokens that close no more blocks than are open, and change their number as
\* the levels change.
Balances(more) ==
  /\ \A m \in 0..Len(more) : Closing(more, m) < Opening(more, m) + Len(levels)
  /\ Closing(more, Len(more)) + Len(levels') = Opening(more, Len(more)) + Len(levels)

LEMMA BlocksStayOpen ==
  ASSUME OpenBlocks, StateOK, StateOK', NEW more, Emits(more), Balances(more)
  PROVE  OpenBlocks'
<1> DEFINE L == Len(out)
           M == Len(more)
           now == out'
<1>1. /\ L \in Nat /\ M \in Nat /\ Len(now) = L + M
      /\ \A i \in 1..L : now[i] = out[i]
  BY DEF Emits
<1>2. /\ Len(levels) \in Nat /\ Len(levels') \in Nat
  BY DEF StateOK
<1>3. \A m \in 0..M : /\ Opening(now, L + m) = Opening(out, L) + Opening(more, m)
                      /\ Closing(now, L + m) = Closing(out, L) + Closing(more, m)
                      /\ Opening(out, L) \in Nat /\ Opening(more, m) \in Nat
                      /\ Closing(out, L) \in Nat /\ Closing(more, m) \in Nat
  BY CountExtended DEF Opening, Closing, Emits
<1>4. /\ \A n \in 0..L : Closing(out, n) <= Opening(out, n)
      /\ Closing(out, L) + Len(levels) = Opening(out, L) + 1
  BY DEF OpenBlocks
<1>5. \A n \in 0..L : /\ Opening(now, n) = Opening(out, n)
                      /\ Closing(now, n) = Closing(out, n)
  <2> SUFFICES ASSUME NEW n \in 0..L
               PROVE  \A kind : Places(now, kind, n) = Places(out, kind, n)
    BY DEF Opening, Closing
  <2> QED
    BY <1>1 DEF Places
<1> HIDE DEF L, M, now
<1>6. \A n \in 0..(L + M) : Closing(now, n) <= Opening(now, n)
  <2> SUFFICES ASSUME NEW n \in 0..(L + M)
               PROVE  Closing(now, n) <= Opening(now, n)
    OBVIOUS
  <2>1. CASE n \in 0..L
    BY <2>1, <1>4, <1>5
  <2>2. CASE n > L
    <3> DEFINE m == n - L
    <3>1. m \in 0..M /\ n = L + m
      BY <2>2, <1>1
    <3> HIDE DEF m
    <3>2. Closing(more, m) < Opening(more, m) + Len(levels)
      BY <3>1 DEF M, Balances
    <3> QED
      BY <3>1, <3>2, <1>2, <1>3, <1>4
  <2> QED
    BY <2>1, <2>2, <1>1
<1>7. Closing(now, L + M) + Len(levels') = Opening(now, L + M) + 1
  <2>1. Closing(more, M) + Len(levels') = Opening(more, M) + Len(levels)
    BY DEF M, Balances
  <2>2. M \in 0..M
    BY <1>1
  <2>3. /\ Opening(now, L + M) = Opening(out, L) + Opening(more, M)
        /\ Closing(now, L + M) = Closing(out, L) + Closing(more, M)
        /\ Opening(out, L) \in Nat /\ Opening(more, M) \in Nat
        /\ Closing(out, L) \in Nat /\ Closing(more, M) \in Nat
    BY <2>2, <1>3
  <2>4. Closing(out, L) + Len(levels) = Opening(out, L) + 1
    BY <1>4
  <2>5. (Closing(out, L) + Closing(more, M)) + Len(levels')
          = (Opening(out, L) + Opening(more, M)) + 1
    BY <2>1, <2>3, <2>4, <1>2
  <2> QED
    BY <2>3, <2>5, Zenon
<1> QED
  BY <1>1, <1>6, <1>7 DEF OpenBlocks, now

\* Neighbours that a parser can build blocks from, or before the first line.
Joined(s) ==
  \A i \in 2..Len(s) : Follows(s[i - 1], s[i]) \/ Places(s, "LINE", i - 1) = {}

LEMMA StaysJoined ==
  ASSUME NEW s \in Seq(Tokens), NEW more \in Seq(Tokens), Joined(s),
         Len(s) > 0, Follows(s[Len(s)], more[1]),
         \A i \in 2..Len(more) : Follows(more[i - 1], more[i])
  PROVE  Joined(s \o more)
<1> DEFINE L == Len(s)
           all == s \o more
<1>1. /\ L \in Nat /\ Len(more) \in Nat /\ Len(all) = L + Len(more)
      /\ \A i \in 1..L : all[i] = s[i]
      /\ \A i \in (L + 1)..(L + Len(more)) : all[i] = more[i - L]
  OBVIOUS
<1> HIDE DEF all, L
<1>2. SUFFICES ASSUME NEW i \in 2..(L + Len(more))
               PROVE  Follows(all[i - 1], all[i]) \/ Places(all, "LINE", i - 1) = {}
  BY <1>1 DEF Joined, all
<1>3. CASE i <= L
  <2>1. all[i - 1] = s[i - 1] /\ all[i] = s[i]
    BY <1>1, <1>3
  <2>2. Places(all, "LINE", i - 1) = Places(s, "LINE", i - 1)
    BY <1>1, <1>3 DEF Places
  <2>3. i \in 2..Len(s)
    BY <1>1, <1>3 DEF L
  <2> QED
    BY <2>1, <2>2, <2>3 DEF Joined
<1>4. CASE i = L + 1
  <2>1. all[i - 1] = s[L] /\ all[i] = more[1]
    BY <1>1, <1>4 DEF L
  <2> QED
    BY <2>1 DEF L
<1>5. CASE i > L + 1
  <2>1. all[i - 1] = more[(i - L) - 1] /\ all[i] = more[i - L]
    BY <1>1, <1>5
  <2>2. i - L \in 2..Len(more)
    BY <1>1, <1>5
  <2> QED
    BY <2>1, <2>2
<1> QED
  BY <1>1, <1>3, <1>4, <1>5

\* Before the first line anything may stand next to anything.
LEMMA JoinedBeforeLines ==
  ASSUME NEW s \in Seq(Tokens), \A i \in 1..(Len(s) - 1) : s[i] # "LINE"
  PROVE  Joined(s)
<1> SUFFICES ASSUME NEW i \in 2..Len(s) PROVE Places(s, "LINE", i - 1) = {}
  BY DEF Joined
<1> QED
  BY DEF Places

LEMMA FollowsTable ==
  /\ \A t \in {"LINE", "WRAP"} : Follows(t, "NEWLINE") /\ Follows(t, "WRAP")
  /\ Follows("NEWLINE", "INDENT") /\ Follows("INDENT", "LINE")
  /\ \A t \in {"NEWLINE", "DEDENT"} :
       Follows(t, "DEDENT") /\ Follows(t, "LINE") /\ Follows(t, "EOF")
BY DEF Follows

\* The tokens of a step: a NEWLINE or none, DEDENTs, and the line or the end.
DedentChunk(s, e, c) ==
  /\ s \in Seq(Tokens) /\ e \in {0, 1} /\ c \in Nat
  /\ Len(s) = e + c + 1
  /\ \A i \in 1..e : s[i] = "NEWLINE"
  /\ \A i \in (e + 1)..(e + c) : s[i] = "DEDENT"
  /\ s[Len(s)] \in {"LINE", "EOF"}

LEMMA DedentChunks ==
  ASSUME NEW s, NEW e, NEW c, DedentChunk(s, e, c)
  PROVE  /\ \A m \in 0..Len(s) : Opening(s, m) = 0 /\ Closing(s, m) \in 0..c
         /\ Closing(s, Len(s)) = c
         /\ \A i \in 2..Len(s) : Follows(s[i - 1], s[i])
         /\ s[1] = IF e = 1 THEN "NEWLINE" ELSE s[1]
<1>1. /\ s \in Seq(Tokens) /\ e \in {0, 1} /\ c \in Nat
      /\ Len(s) = e + c + 1
      /\ \A i \in 1..e : s[i] = "NEWLINE"
      /\ \A i \in (e + 1)..(e + c) : s[i] = "DEDENT"
      /\ s[Len(s)] \in {"LINE", "EOF"}
  BY DEF DedentChunk
<1>2. \A i \in 1..Len(s) : i \in 1..e \/ i \in (e + 1)..(e + c) \/ i = Len(s)
  BY <1>1
<1> DEFINE all == (e + 1)..(e + c)
<1>3. IsFiniteSet(all) /\ Cardinality(all) = c
  <2>1. e + 1 \in Int /\ e + c \in Int
    BY <1>1
  <2>2. IsFiniteSet(all)
        /\ Cardinality(all) = IF e + 1 > e + c THEN 0 ELSE (e + c) - (e + 1) + 1
    BY <2>1, FS_Interval, Zenon
  <2>3. (IF e + 1 > e + c THEN 0 ELSE (e + c) - (e + 1) + 1) = c
    BY <1>1
  <2> QED
    BY <2>2, <2>3
<1> HIDE DEF all
<1>4. ASSUME NEW m \in 0..Len(s)
      PROVE  Opening(s, m) = 0 /\ Closing(s, m) \in 0..c
  <2>1. Places(s, "INDENT", m) = {}
    BY <1>1, <1>2 DEF Places
  <2>2. Places(s, "DEDENT", m) \subseteq all
    BY <1>1, <1>2 DEF Places, all
  <2>3. /\ Cardinality(Places(s, "DEDENT", m)) \in Nat
        /\ Cardinality(Places(s, "DEDENT", m)) <= c
    BY <2>2, <1>3, FS_Subset, FS_CardinalityType
  <2>4. Cardinality(Places(s, "INDENT", m)) = 0
    BY <2>1, FS_EmptySet
  <2> QED
    BY <2>3, <2>4, <1>1 DEF Opening, Closing
<1>5. Closing(s, Len(s)) = c
  <2>1. Places(s, "DEDENT", Len(s)) = all
    BY <1>1, <1>2 DEF Places, all
  <2> QED
    BY <2>1, <1>3 DEF Closing
<1>6. ASSUME NEW i \in 2..Len(s) PROVE Follows(s[i - 1], s[i])
  <2>1. s[i - 1] \in {"NEWLINE", "DEDENT"}
    BY <1>1
  <2>2. s[i] \in {"DEDENT", "LINE", "EOF"}
    BY <1>1
  <2> QED
    BY <2>1, <2>2, FollowsTable
<1> QED
  BY <1>1, <1>4, <1>5, <1>6

-----------------------------------------------------------------------------
(***************************************************************************)
(* The tokens of each step, and the invariant.                             *)
(***************************************************************************)
\* What the tokens rest on.
TokensInv ==
  /\ depth \in Nat
  /\ prevLast \in Classes \cup {Absent}
  /\ out \in Seq(Tokens)
  /\ OpenBlocks
  /\ starts # <<>> => Len(out) > 0
  /\ starts = <<>> => \A i \in 1..Len(out) : out[i] # "LINE"
  /\ ~Ended => /\ Joined(out)
               /\ Len(out) > 0 => out[Len(out)] \in {"LINE", "WRAP"}
  /\ Ended => WellFormed /\ Len(levels) = 1

LEMMA LineEndTokens ==
  /\ LineEnd \in Seq(Tokens)
  /\ Len(LineEnd) = IF starts = <<>> THEN 0 ELSE 1
  /\ \A i \in 1..Len(LineEnd) : LineEnd[i] = "NEWLINE"
<1>1. CASE starts = <<>>
  BY <1>1, EmptySeq DEF LineEnd
<1>2. CASE starts # <<>>
  <2>1. LineEnd = <<"NEWLINE">>
    BY <1>2 DEF LineEnd
  <2>2. <<"NEWLINE">> \in Seq(Tokens) /\ Len(<<"NEWLINE">>) = 1
        /\ <<"NEWLINE">>[1] = "NEWLINE"
    BY DEF Tokens
  <2> QED
    BY <2>1, <2>2, <1>2
<1> QED
  BY <1>1, <1>2

LEMMA RepeatTokens ==
  ASSUME NEW kind \in Tokens, NEW n \in Nat
  PROVE  /\ Repeat(kind, n) \in Seq(Tokens)
         /\ Len(Repeat(kind, n)) = n
         /\ \A i \in 1..n : Repeat(kind, n)[i] = kind
BY DEF Repeat

\* One sequence of tokens between two others.
LEMMA Between ==
  ASSUME NEW a \in Seq(Tokens), NEW b \in Seq(Tokens), NEW last \in Tokens
  PROVE  LET s == a \o b \o <<last>>
         IN  /\ s \in Seq(Tokens)
             /\ Len(a) \in Nat /\ Len(b) \in Nat
             /\ Len(s) = Len(a) + Len(b) + 1
             /\ \A i \in 1..Len(a) : s[i] = a[i]
             /\ \A i \in (Len(a) + 1)..(Len(a) + Len(b)) : s[i] = b[i - Len(a)]
             /\ s[Len(s)] = last
<1> DEFINE front == a \o b
           one == <<last>>
           s == front \o one
<1>1. /\ front \in Seq(Tokens) /\ Len(a) \in Nat /\ Len(b) \in Nat
      /\ Len(front) = Len(a) + Len(b)
      /\ \A i \in 1..Len(a) : front[i] = a[i]
      /\ \A i \in (Len(a) + 1)..(Len(a) + Len(b)) : front[i] = b[i - Len(a)]
  OBVIOUS
<1> HIDE DEF front
<1>2. one \in Seq(Tokens) /\ Len(one) = 1 /\ one[1] = last
  OBVIOUS
<1> HIDE DEF one
<1>3. /\ s \in Seq(Tokens) /\ Len(s) = Len(front) + 1
      /\ \A i \in 1..Len(front) : s[i] = front[i]
      /\ s[Len(front) + 1] = last
  <2>0. front \in Seq(Tokens) /\ one \in Seq(Tokens)
    BY <1>1, <1>2
  <2>1. /\ s \in Seq(Tokens) /\ Len(s) = Len(front) + Len(one)
        /\ \A i \in 1..(Len(front) + Len(one)) :
             s[i] = IF i <= Len(front) THEN front[i] ELSE one[i - Len(front)]
    BY <2>0, ConcatProperties
  <2> HIDE DEF s
  <2> QED
    BY <2>1, <1>1, <1>2
<1> HIDE DEF s
<1>4. /\ \A i \in 1..Len(a) : s[i] = a[i]
      /\ \A i \in (Len(a) + 1)..(Len(a) + Len(b)) : s[i] = b[i - Len(a)]
  BY <1>1, <1>3
<1> QED
  BY <1>1, <1>3, <1>4 DEF s, front, one

\* A NEWLINE or none, DEDENTs and a last token.
LEMMA DedentChunkOf ==
  ASSUME NEW a \in Seq(Tokens), Len(a) \in {0, 1}, Len(a) = 1 => a[1] = "NEWLINE",
         NEW c \in Nat, NEW last \in {"LINE", "EOF"}
  PROVE  DedentChunk(a \o Repeat("DEDENT", c) \o <<last>>, Len(a), c)
<1> DEFINE b == Repeat("DEDENT", c)
           s == a \o b \o <<last>>
<1>1. "DEDENT" \in Tokens /\ last \in Tokens
  BY DEF Tokens
<1>2. b \in Seq(Tokens) /\ Len(b) = c /\ \A i \in 1..c : b[i] = "DEDENT"
  BY <1>1, RepeatTokens
<1> HIDE DEF b
<1>3. /\ s \in Seq(Tokens)
      /\ Len(s) = Len(a) + Len(b) + 1
      /\ \A i \in 1..Len(a) : s[i] = a[i]
      /\ \A i \in (Len(a) + 1)..(Len(a) + Len(b)) : s[i] = b[i - Len(a)]
      /\ s[Len(s)] = last
  BY <1>1, <1>2, Between
<1> HIDE DEF s
<1>4. \A i \in (Len(a) + 1)..(Len(a) + c) : s[i] = "DEDENT"
  BY <1>2, <1>3
<1>5. \A i \in 1..Len(a) : s[i] = "NEWLINE"
  BY <1>3
<1> QED
  BY <1>2, <1>3, <1>4, <1>5 DEF DedentChunk, s, b

\* The tokens of a logical line that opens a block.
LEMMA IndentChunk ==
  ASSUME NEW s, s = LineEnd \o <<"INDENT">> \o <<"LINE">>
  PROVE  /\ s \in Seq(Tokens)
         /\ \A m \in 0..Len(s) : Closing(s, m) = 0 /\ Opening(s, m) \in Nat
         /\ Opening(s, Len(s)) = 1
         /\ \A i \in 2..Len(s) : Follows(s[i - 1], s[i])
         /\ starts # <<>> => s[1] = "NEWLINE"
         /\ \A i \in 1..(Len(s) - 1) : s[i] # "LINE"
         /\ s[Len(s)] = "LINE" /\ Len(s) > 0
<1> DEFINE e == Len(LineEnd)
           b == <<"INDENT">>
<1>1. "INDENT" \in Tokens /\ "LINE" \in Tokens /\ b \in Seq(Tokens)
      /\ Len(b) = 1 /\ b[1] = "INDENT"
  BY DEF Tokens
<1>2. /\ LineEnd \in Seq(Tokens) /\ e = (IF starts = <<>> THEN 0 ELSE 1)
      /\ \A i \in 1..e : LineEnd[i] = "NEWLINE"
  BY LineEndTokens
<1> HIDE DEF b
<1>3. /\ s \in Seq(Tokens)
      /\ Len(s) = e + Len(b) + 1
      /\ \A i \in 1..e : s[i] = LineEnd[i]
      /\ \A i \in (e + 1)..(e + Len(b)) : s[i] = b[i - e]
      /\ s[Len(s)] = "LINE"
  BY <1>1, <1>2, Between DEF b
<1> HIDE DEF e
<1>4. /\ e \in {0, 1} /\ Len(s) = e + 2
      /\ \A i \in 1..e : s[i] = "NEWLINE"
      /\ s[e + 1] = "INDENT" /\ s[e + 2] = "LINE"
  BY <1>1, <1>2, <1>3
<1>5. \A i \in 1..Len(s) : i \in 1..e \/ i = e + 1 \/ i = e + 2
  BY <1>4
<1>6. ASSUME NEW m \in 0..Len(s)
      PROVE  Closing(s, m) = 0 /\ Opening(s, m) \in Nat
  <2>1. Places(s, "DEDENT", m) = {}
    BY <1>4, <1>5 DEF Places
  <2>2. Places(s, "INDENT", m) \subseteq {e + 1}
    BY <1>4, <1>5 DEF Places
  <2>3. IsFiniteSet(Places(s, "INDENT", m))
    BY <2>2, FS_Singleton, FS_Subset
  <2>4. Cardinality(Places(s, "INDENT", m)) \in Nat
    BY <2>3, FS_CardinalityType
  <2>5. Cardinality(Places(s, "DEDENT", m)) = 0
    BY <2>1, FS_EmptySet
  <2> QED
    BY <2>4, <2>5 DEF Closing, Opening
<1>7. Opening(s, Len(s)) = 1
  <2>1. Places(s, "INDENT", Len(s)) = {e + 1}
    BY <1>4, <1>5 DEF Places
  <2> QED
    BY <2>1, FS_Singleton DEF Opening
<1>8. ASSUME NEW i \in 2..Len(s) PROVE Follows(s[i - 1], s[i])
  BY <1>4, FollowsTable
<1>9. /\ starts # <<>> => s[1] = "NEWLINE"
      /\ \A i \in 1..(Len(s) - 1) : s[i] # "LINE"
      /\ s[Len(s)] = "LINE" /\ Len(s) > 0
  BY <1>2, <1>4 DEF e
<1> QED
  BY <1>3, <1>6, <1>7, <1>8, <1>9

\* The tokens of a logical line or of the end are joined to what is there.
LEMMA TokensJoin ==
  ASSUME TokensInv, ~Ended, NEW more, Emits(more),
         starts # <<>> => more[1] \in {"NEWLINE", "WRAP"},
         \A i \in 2..Len(more) : Follows(more[i - 1], more[i]),
         \A i \in 1..(Len(more) - 1) : more[i] # "LINE"
  PROVE  Joined(out')
<1>1. /\ out \in Seq(Tokens) /\ more \in Seq(Tokens) /\ out' = out \o more
      /\ Len(out) \in Nat /\ Len(more) \in Nat
  BY DEF Emits
<1>2. CASE starts = <<>>
  <2> DEFINE now == out'
  <2>1. \A i \in 1..Len(out) : out[i] # "LINE"
    BY <1>2 DEF TokensInv
  <2>2. /\ now \in Seq(Tokens) /\ Len(now) = Len(out) + Len(more)
        /\ \A i \in 1..Len(out) : now[i] = out[i]
        /\ \A i \in (Len(out) + 1)..Len(now) : now[i] = more[i - Len(out)]
    BY <1>1
  <2> HIDE DEF now
  <2>3. ASSUME NEW i \in 1..(Len(now) - 1) PROVE now[i] # "LINE"
    <3>1. CASE i <= Len(out)
      <4>1. i \in 1..Len(out)
        BY <3>1, <2>2, <1>1
      <4> QED
        BY <4>1, <2>1, <2>2
    <3>2. CASE i > Len(out)
      <4>1. i - Len(out) \in 1..(Len(more) - 1) /\ i \in (Len(out) + 1)..Len(now)
        BY <3>2, <2>2, <1>1
      <4> QED
        BY <4>1, <2>2
    <3> QED
      BY <3>1, <3>2, <2>2, <1>1
  <2>4. Joined(now)
    BY <2>2, <2>3, JoinedBeforeLines
  <2> QED
    BY <2>4 DEF now
<1>3. CASE starts # <<>>
  <2>1. /\ Joined(out) /\ Len(out) > 0
        /\ out[Len(out)] \in {"LINE", "WRAP"}
    BY <1>3 DEF TokensInv
  <2>2. Follows(out[Len(out)], more[1])
    BY <1>3, <2>1, FollowsTable
  <2>3. Joined(out \o more)
    BY <1>1, <2>1, <2>2, StaysJoined
  <2> QED
    BY <2>3, <1>1
<1> QED
  BY <1>2, <1>3

\* What a logical line adds, whatever it opens or closes.
LEMMA LogicalTokens ==
  ASSUME TokensInv, StateOK, StateOK', NEW line \in Line, Reading,
         starts' = Append(starts, line.indent), Count(line, 0),
         NEW more, Emits(more), Balances(more),
         Len(more) > 0, more[Len(more)] = "LINE",
         starts # <<>> => more[1] = "NEWLINE",
         \A i \in 2..Len(more) : Follows(more[i - 1], more[i]),
         \A i \in 1..(Len(more) - 1) : more[i] # "LINE"
  PROVE  TokensInv'
<1>1. ~Ended /\ ~Ended'
  BY LayoutAssumption DEF StateOK, Ended, Reading, Count
<1>2. depth' \in Nat /\ prevLast' \in Classes \cup {Absent}
  BY DepthIsNatural, LastIsToken DEF Count, TokensInv
<1>3. Joined(out')
  BY <1>1, TokensJoin
<1>4. OpenBlocks'
  BY BlocksStayOpen DEF TokensInv
<1>5. /\ out' \in Seq(Tokens) /\ Len(out') > 0
      /\ out'[Len(out')] = "LINE"
  <2>1. /\ out' \in Seq(Tokens) /\ Len(out') = Len(out) + Len(more)
        /\ Len(out) \in Nat /\ Len(more) \in Nat
        /\ \A i \in 1..(Len(out) + Len(more)) :
             out'[i] = IF i <= Len(out) THEN out[i] ELSE more[i - Len(out)]
    BY ConcatProperties, LenProperties DEF Emits
  <2> QED
    BY <2>1
<1>6. starts' # <<>>
  <2>1. starts \in Seq(Nat) /\ line.indent \in Nat
    BY DEF StateOK, Line
  <2>2. Append(starts, line.indent) # <<>>
    BY <2>1, AppendProperties
  <2> QED
    BY <2>2
<1> QED
  BY <1>1, <1>2, <1>3, <1>4, <1>5, <1>6 DEF TokensInv

LEMMA WellFormedIsJoined ==
  WellFormed <=>
    \A i \in 2..Len(out) :
      \/ Follows(out[i - 1], out[i]) \/ Places(out, "LINE", i - 1) = {}
      \/ prevLast = Absent /\ out[i] \in {"DEDENT", "EOF"}
BY DEF WellFormed, Preamble, Emitted, Places

LEMMA ContinuationTokens ==
  ASSUME TokensInv, StateOK, StateOK', NEW line \in Line, Continuation(line)
  PROVE  TokensInv'
<1> DEFINE more == <<"WRAP">>
<1>1. /\ Reading /\ read' = read + 1
      /\ depth' = DepthAfter(line, depth)
      /\ prevLast' = IF Significant(line) = {} THEN prevLast
                     ELSE LastSignificant(line)
      /\ levels' = levels /\ starts' = starts
      /\ out' = Append(out, "WRAP") /\ out \in Seq(Tokens)
  BY DEF Continuation, Count, TokensInv
<1>2. ~Ended /\ ~Ended'
  BY <1>1, LayoutAssumption DEF StateOK, Ended, Reading
<1>3. depth' \in Nat /\ prevLast' \in Classes \cup {Absent}
  BY <1>1, DepthIsNatural, LastIsToken DEF TokensInv
<1>4. "WRAP" \in Tokens
  BY DEF Tokens
<1>5. /\ more \in Seq(Tokens) /\ Len(more) = 1 /\ more[1] = "WRAP"
      /\ Append(out, "WRAP") = out \o more
  BY <1>1, <1>4, AppendIsConcat
<1>6. /\ Len(out) \in Nat /\ Len(out') = Len(out) + 1
      /\ \A i \in 1..Len(out) : out'[i] = out[i]
      /\ out'[Len(out) + 1] = "WRAP"
  BY <1>1, <1>4, AppendProperties, LenProperties
<1> HIDE DEF more
<1>7. Emits(more)
  BY <1>1, <1>5 DEF Emits
<1>8. Joined(out')
  BY <1>2, <1>5, <1>7, TokensJoin
<1>9. Balances(more)
  <2>1. \A m \in 0..1 : Places(more, "INDENT", m) = {} /\ Places(more, "DEDENT", m) = {}
    BY <1>5 DEF Places
  <2>2. \A m \in 0..1 : Opening(more, m) = 0 /\ Closing(more, m) = 0
    BY <2>1, FS_EmptySet DEF Opening, Closing
  <2> QED
    BY <2>2, <1>1, <1>5 DEF Balances, StateOK
<1>10. OpenBlocks'
  BY <1>7, <1>9, BlocksStayOpen DEF TokensInv
<1>11. /\ starts' # <<>> => Len(out') > 0
       /\ starts' = <<>> => \A i \in 1..Len(out') : out'[i] # "LINE"
       /\ out'[Len(out')] \in {"LINE", "WRAP"}
  BY <1>1, <1>6 DEF TokensInv
<1>12. out' \in Seq(Tokens)
  BY <1>1, <1>4, AppendProperties
<1> QED
  BY <1>2, <1>3, <1>8, <1>10, <1>11, <1>12 DEF TokensInv

\* A logical line at its level or below an open block.
LEMMA DedentTokens ==
  ASSUME TokensInv, StateOK, StateOK', NEW line \in Line, NEW c \in Nat,
         Logical(line, Repeat("DEDENT", c)), Len(levels') + c = Len(levels)
  PROVE  TokensInv'
<1> DEFINE more == LineEnd \o Repeat("DEDENT", c) \o <<"LINE">>
           e == Len(LineEnd)
<1>1. /\ Reading /\ Count(line, 0) /\ starts' = Append(starts, line.indent)
      /\ out' = out \o more /\ out \in Seq(Tokens)
  BY DEF Logical, TokensInv
<1>2. /\ LineEnd \in Seq(Tokens) /\ e = (IF starts = <<>> THEN 0 ELSE 1)
      /\ \A i \in 1..e : LineEnd[i] = "NEWLINE"
  BY LineEndTokens
<1> HIDE DEF e
<1>3. e \in {0, 1} /\ (e = 1 => LineEnd[1] = "NEWLINE")
  BY <1>2
<1>4. DedentChunk(more, e, c)
  BY <1>2, <1>3, DedentChunkOf DEF e
<1>5. more[Len(more)] = "LINE"
  <2>1. "DEDENT" \in Tokens /\ "LINE" \in Tokens
    BY DEF Tokens
  <2>2. Repeat("DEDENT", c) \in Seq(Tokens)
    BY <2>1, RepeatTokens
  <2> QED
    BY <1>2, <2>1, <2>2, Between
<1> HIDE DEF more
<1>6. /\ \A m \in 0..Len(more) : Opening(more, m) = 0 /\ Closing(more, m) \in 0..c
      /\ Closing(more, Len(more)) = c
      /\ \A i \in 2..Len(more) : Follows(more[i - 1], more[i])
  BY <1>4, DedentChunks
<1>7. /\ more \in Seq(Tokens) /\ Len(more) = e + c + 1
      /\ \A i \in 1..e : more[i] = "NEWLINE"
      /\ \A i \in (e + 1)..(e + c) : more[i] = "DEDENT"
  BY <1>4 DEF DedentChunk
<1>8. Balances(more)
  <2>1. Len(levels) \in Nat \ {0} /\ Len(levels') \in Nat \ {0}
    BY DEF StateOK
  <2>2. Len(more) \in 0..Len(more)
    BY <1>3, <1>7
  <2>3. \A m \in 0..Len(more) : Closing(more, m) < Opening(more, m) + Len(levels)
    BY <1>6, <2>1
  <2>4. Closing(more, Len(more)) = c /\ Opening(more, Len(more)) = 0
    BY <1>6, <2>2
  <2>5. Closing(more, Len(more)) + Len(levels')
          = Opening(more, Len(more)) + Len(levels)
    BY <2>1, <2>4
  <2> QED
    BY <2>3, <2>5 DEF Balances
<1>9. Emits(more)
  BY <1>1, <1>7 DEF Emits
<1>10. \A i \in 1..(Len(more) - 1) : more[i] # "LINE"
  <2>1. \A i \in 1..(Len(more) - 1) : i \in 1..e \/ i \in (e + 1)..(e + c)
    BY <1>3, <1>7
  <2> QED
    BY <2>1, <1>7
<1>11. Len(more) > 0 /\ (starts # <<>> => more[1] = "NEWLINE")
  BY <1>2, <1>3, <1>7
<1> QED
  BY <1>1, <1>5, <1>6, <1>8, <1>9, <1>10, <1>11, LogicalTokens

LEMMA IndentTokens ==
  ASSUME TokensInv, StateOK, StateOK', NEW line \in Line,
         Logical(line, <<"INDENT">>), Len(levels') = Len(levels) + 1
  PROVE  TokensInv'
<1> DEFINE more == LineEnd \o <<"INDENT">> \o <<"LINE">>
<1>1. /\ Reading /\ Count(line, 0) /\ starts' = Append(starts, line.indent)
      /\ out' = out \o more /\ out \in Seq(Tokens)
  BY DEF Logical, TokensInv
<1>2. /\ more \in Seq(Tokens)
      /\ \A m \in 0..Len(more) : Closing(more, m) = 0 /\ Opening(more, m) \in Nat
      /\ Opening(more, Len(more)) = 1
      /\ \A i \in 2..Len(more) : Follows(more[i - 1], more[i])
      /\ starts # <<>> => more[1] = "NEWLINE"
      /\ \A i \in 1..(Len(more) - 1) : more[i] # "LINE"
      /\ more[Len(more)] = "LINE" /\ Len(more) > 0
  BY IndentChunk
<1> HIDE DEF more
<1>3. Balances(more)
  <2>1. Len(levels) \in Nat \ {0} /\ Len(levels') \in Nat \ {0}
    BY DEF StateOK
  <2>2. Len(more) \in 0..Len(more)
    BY <1>2, LenProperties
  <2>3. \A m \in 0..Len(more) : Closing(more, m) < Opening(more, m) + Len(levels)
    BY <1>2, <2>1
  <2>4. Closing(more, Len(more)) + Len(levels')
          = Opening(more, Len(more)) + Len(levels)
    BY <1>2, <2>1, <2>2
  <2> QED
    BY <2>3, <2>4 DEF Balances
<1>4. Emits(more)
  BY <1>1, <1>2 DEF Emits
<1> QED
  BY <1>1, <1>2, <1>3, <1>4, LogicalTokens

LEMMA FinishTokens ==
  ASSUME TokensInv, StateOK, StateOK', Finish, Len(levels') = 1
  PROVE  TokensInv'
<1> DEFINE newline == IF starts # <<>> /\ prevLast # Absent
                      THEN <<"NEWLINE">> ELSE <<>>
           c == Len(levels) - 1
           more == newline \o Repeat("DEDENT", c) \o <<"EOF">>
           e == Len(newline)
<1>1. /\ out' = out \o more /\ out \in Seq(Tokens)
      /\ UNCHANGED <<depth, prevLast, starts>>
      /\ read \in Nat /\ read <= MaxLines /\ read' = MaxLines + 1
  BY LayoutAssumption DEF Finish, TokensInv, StateOK
<1>2. ~Ended /\ Ended'
  BY <1>1, LayoutAssumption DEF Ended
<1>3. /\ newline \in Seq(Tokens) /\ e \in {0, 1}
      /\ e = 1 <=> (starts # <<>> /\ prevLast # Absent)
      /\ e = 1 => newline[1] = "NEWLINE"
  <2>1. <<>> \in Seq(Tokens) /\ Len(<<>>) = 0
    BY EmptySeq
  <2>2. <<"NEWLINE">> \in Seq(Tokens) /\ Len(<<"NEWLINE">>) = 1
        /\ <<"NEWLINE">>[1] = "NEWLINE"
    BY DEF Tokens
  <2> QED
    BY <2>1, <2>2
<1>4. c \in Nat
  BY DEF StateOK
<1> HIDE DEF newline, c, e
<1>5. DedentChunk(more, e, c)
  BY <1>3, <1>4, DedentChunkOf DEF e
<1>6. more[Len(more)] = "EOF"
  <2>1. "DEDENT" \in Tokens /\ "EOF" \in Tokens
    BY DEF Tokens
  <2>2. Repeat("DEDENT", c) \in Seq(Tokens)
    BY <2>1, <1>4, RepeatTokens
  <2> QED
    BY <1>3, <2>1, <2>2, Between
<1>7. /\ out' = out \o more
      /\ DedentChunk(more, e, c) /\ more[Len(more)] = "EOF"
  BY <1>1, <1>5, <1>6
<1> HIDE DEF more
<1>8. /\ \A m \in 0..Len(more) : Opening(more, m) = 0 /\ Closing(more, m) \in 0..c
      /\ Closing(more, Len(more)) = c
      /\ \A i \in 2..Len(more) : Follows(more[i - 1], more[i])
  BY <1>7, DedentChunks
<1>9. /\ more \in Seq(Tokens) /\ Len(more) = e + c + 1
      /\ \A i \in 1..e : more[i] = "NEWLINE"
      /\ \A i \in (e + 1)..(e + c) : more[i] = "DEDENT"
  BY <1>7 DEF DedentChunk
<1>10. Balances(more)
  <2>1. Len(levels) \in Nat \ {0} /\ Len(levels') = 1 /\ c = Len(levels) - 1
    BY DEF StateOK, c
  <2>2. Len(more) \in 0..Len(more)
    BY <1>3, <1>4, <1>9
  <2>3. \A m \in 0..Len(more) : Closing(more, m) < Opening(more, m) + Len(levels)
    BY <1>8, <2>1
  <2>4. Closing(more, Len(more)) + Len(levels')
          = Opening(more, Len(more)) + Len(levels)
    BY <1>8, <2>1, <2>2
  <2> QED
    BY <2>3, <2>4 DEF Balances
<1>11. Emits(more)
  BY <1>1, <1>7, <1>9 DEF Emits
<1>12. OpenBlocks'
  BY <1>10, <1>11, BlocksStayOpen DEF TokensInv
<1>13. \A i \in 1..Len(more) : i \in 1..e \/ i \in (e + 1)..(e + c) \/ i = Len(more)
  BY <1>3, <1>4, <1>9
<1>14. \A i \in 1..Len(more) : more[i] # "LINE"
  BY <1>7, <1>9, <1>13
<1>15. /\ out' \in Seq(Tokens) /\ Len(out') = Len(out) + Len(more)
       /\ Len(out) \in Nat /\ Len(more) \in Nat
       /\ \A i \in 1..(Len(out) + Len(more)) :
            out'[i] = IF i <= Len(out) THEN out[i] ELSE more[i - Len(out)]
  BY <1>11, ConcatProperties, LenProperties DEF Emits
<1>16. /\ starts' # <<>> => Len(out') > 0
       /\ starts' = <<>> => \A i \in 1..Len(out') : out'[i] # "LINE"
  <2>1. \A i \in 1..Len(out') : i \in 1..Len(out) \/ i - Len(out) \in 1..Len(more)
    BY <1>15
  <2> QED
    BY <2>1, <1>1, <1>14, <1>15 DEF TokensInv
<1>17. WellFormed'
  <2>1. CASE starts = <<>> \/ prevLast # Absent
    <3>1. starts # <<>> => more[1] \in {"NEWLINE", "WRAP"}
      BY <2>1, <1>3, <1>9
    <3>2. \A i \in 1..(Len(more) - 1) : more[i] # "LINE"
      BY <1>14, <1>15
    <3>3. Joined(out')
      BY <3>1, <3>2, <1>2, <1>8, <1>11, TokensJoin
    <3> QED
      BY <3>3 DEF Joined, WellFormed, Preamble, Emitted, Places
  <2>2. CASE starts # <<>> /\ prevLast = Absent
    <3>1. \A i \in 1..Len(more) : more[i] \in {"DEDENT", "EOF"}
      BY <2>2, <1>3, <1>7, <1>9, <1>13
    <3>2. Joined(out)
      BY <1>2 DEF TokensInv
    <3> DEFINE now == out'
    <3>3. ASSUME NEW i \in 2..Len(now)
          PROVE  \/ Follows(now[i - 1], now[i]) \/ Places(now, "LINE", i - 1) = {}
                 \/ now[i] \in {"DEDENT", "EOF"}
      <4>1. CASE i <= Len(out)
        <5>1. now[i - 1] = out[i - 1] /\ now[i] = out[i] /\ i \in 2..Len(out)
          BY <4>1, <1>15
        <5>2. Places(now, "LINE", i - 1) = Places(out, "LINE", i - 1)
          BY <4>1, <1>15 DEF Places
        <5> QED
          BY <5>1, <5>2, <3>2 DEF Joined
      <4>2. CASE i > Len(out)
        <5>1. i - Len(out) \in 1..Len(more) /\ now[i] = more[i - Len(out)]
          BY <4>2, <1>15
        <5> QED
          BY <5>1, <3>1
      <4> QED
        BY <4>1, <4>2, <1>15
    <3>4. prevLast' = Absent
      BY <2>2, <1>1
    <3> QED
      BY <3>3, <3>4 DEF WellFormed, Preamble, Emitted, Places
  <2> QED
    BY <2>1, <2>2
<1> QED
  BY <1>1, <1>2, <1>12, <1>15, <1>16, <1>17 DEF TokensInv

LEMMA TokensInit == Init => TokensInv
<1> SUFFICES ASSUME Init PROVE TokensInv
  OBVIOUS
<1>1. /\ levels = <<0>> /\ depth = 0 /\ prevLast = Absent /\ starts = <<>>
      /\ out = <<>> /\ read = 0
  BY DEF Init
<1>2. out \in Seq(Tokens) /\ Len(out) = 0 /\ Len(levels) = 1
  BY <1>1, EmptySeq
<1>3. ~Ended
  BY <1>1, LayoutAssumption DEF Ended
<1>4. OpenBlocks
  <2>1. \A kind : Places(out, kind, 0) = {}
    BY DEF Places
  <2>2. Closing(out, 0) = 0 /\ Opening(out, 0) = 0
    BY <2>1, FS_EmptySet DEF Closing, Opening
  <2> QED
    BY <2>2, <1>2 DEF OpenBlocks
<1>5. Joined(out)
  BY <1>2 DEF Joined
<1> QED
  BY <1>1, <1>2, <1>3, <1>4, <1>5 DEF TokensInv

\* A dedent of no levels is a line at the same level.
LEMMA NoRepeat == \A kind : Repeat(kind, 0) = <<>>
BY DEF Repeat

LEMMA TokensStep == LayoutInv /\ LayoutInv' /\ TokensInv /\ [Next]_layoutVars => TokensInv'
<1> SUFFICES ASSUME LayoutInv, LayoutInv', TokensInv, [Next]_layoutVars
             PROVE  TokensInv'
  OBVIOUS
<1>1. StateOK /\ StateOK' /\ LevelsAreBlocks
  BY DEF LayoutInv
<1>2. ASSUME NEW line \in Line, Continuation(line) PROVE TokensInv'
  BY <1>1, <1>2, ContinuationTokens
<1>3. ASSUME NEW line \in Line, SameLevel(line) PROVE TokensInv'
  <2>1. Logical(line, Repeat("DEDENT", 0)) /\ levels' = levels
    BY <1>3, NoRepeat DEF SameLevel
  <2>2. Len(levels') + 0 = Len(levels)
    BY <2>1, <1>1 DEF StateOK
  <2> QED
    BY <2>1, <2>2, <1>1, DedentTokens
<1>4. ASSUME NEW line \in Line, Indent(line) PROVE TokensInv'
  <2>1. Logical(line, <<"INDENT">>) /\ levels' = Append(levels, line.indent)
    BY <1>4 DEF Indent
  <2>2. levels \in Seq(Nat) /\ line.indent \in Nat
    BY <1>1 DEF StateOK, Line
  <2>3. Len(levels') = Len(levels) + 1
    BY <2>1, <2>2, AppendProperties
  <2> QED
    BY <2>1, <2>3, <1>1, IndentTokens
<1>5. ASSUME NEW line \in Line, Dedent(line) PROVE TokensInv'
  <2> DEFINE k == Kept(line.indent)
             c == Closed(line.indent)
  <2>1. Logical(line, Repeat("DEDENT", c)) /\ levels' = SubSeq(levels, 1, k)
    BY <1>5 DEF Dedent
  <2>2. line.indent \in Nat
    BY DEF Line
  <2>3. k \in 1..Len(levels) /\ Len(levels) \in Nat /\ c = Len(levels) - k
    BY <1>1, <2>2, KeptProperties, LevelProperties DEF Closed
  <2> HIDE DEF k, c
  <2>4. \A i \in 1..k : levels[i] \in Nat
    BY <2>3, <1>1, LevelProperties
  <2>5. Len(levels') = k
    BY <2>1, <2>3, <2>4, SubSeqProperties
  <2>6. c \in Nat /\ Len(levels') + c = Len(levels)
    BY <2>3, <2>5
  <2> QED
    BY <2>1, <2>6, <1>1, DedentTokens
<1>6. CASE Finish
  <2>1. levels' = SubSeq(levels, 1, 1)
    BY <1>6 DEF Finish
  <2>2. levels[1] \in Nat /\ \A i \in 1..1 : levels[i] \in Nat
    BY <1>1, LevelProperties
  <2>3. Len(levels') = 1
    BY <2>1, <2>2, SubSeqProperties
  <2> QED
    BY <2>3, <1>1, <1>6, FinishTokens
<1>7. CASE UNCHANGED layoutVars
  <2>1. UNCHANGED <<levels, depth, prevLast, starts, out, read>>
    BY <1>7 DEF layoutVars
  <2>2. OpenBlocks' = OpenBlocks /\ Ended' = Ended /\ WellFormed' = WellFormed
    BY <2>1 DEF OpenBlocks, Ended, WellFormed, Preamble, Emitted
  <2> QED
    BY <2>1, <2>2 DEF TokensInv
<1> QED
  BY <1>2, <1>3, <1>4, <1>5, <1>6, <1>7, LayoutAssumption DEF Next

LEMMA TokensMatch ==
  ASSUME LayoutInv, TokensInv
  PROVE  LayoutTokensMatch
<1>1. TypeOK
  <2>1. levels # <<>>
    BY EmptySeq DEF LayoutInv, StateOK
  <2> QED
    BY <2>1 DEF TypeOK, LayoutInv, StateOK, TokensInv, Tokens
<1>2. Balanced
  <2> SUFFICES ASSUME NEW n \in 0..Len(out)
               PROVE  /\ Closing(out, n) <= Opening(out, n)
                      /\ Ended /\ n = Len(out) => Closing(out, n) = Opening(out, n)
    BY DEF Balanced, Emitted, Places, Opening, Closing
  <2>1. /\ Closing(out, n) <= Opening(out, n)
        /\ Closing(out, Len(out)) + Len(levels) = Opening(out, Len(out)) + 1
    BY DEF TokensInv, OpenBlocks
  <2>2. Ended => Len(levels) = 1
    BY DEF TokensInv
  <2>3. \A kind : Cardinality(Places(out, kind, Len(out))) \in Nat
    <3> SUFFICES ASSUME NEW kind
                 PROVE  Cardinality(Places(out, kind, Len(out))) \in Nat
      OBVIOUS
    <3>1. <<>> \in Seq(Tokens) /\ Len(<<>>) = 0 /\ out \in Seq(Tokens)
      BY EmptySeq DEF TokensInv
    <3> QED
      BY <3>1, CountExtended
  <2>4. Closing(out, Len(out)) \in Nat /\ Opening(out, Len(out)) \in Nat
    BY <2>3 DEF Closing, Opening
  <2>5. ASSUME Ended PROVE Closing(out, Len(out)) = Opening(out, Len(out))
    <3>1. Len(levels) = 1
      BY <2>2, <2>5
    <3>2. Closing(out, Len(out)) + 1 = Opening(out, Len(out)) + 1
      BY <2>1, <3>1, Zenon
    <3> QED
      BY <3>2, <2>4
  <2>6. Ended /\ n = Len(out) => Closing(out, n) = Opening(out, n)
    BY <2>5, Zenon
  <2> QED
    BY <2>1, <2>6
<1>3. WellFormed
  BY DEF TokensInv, Joined, WellFormed, Preamble, Emitted, Places
<1> QED
  BY <1>1, <1>2, <1>3 DEF LayoutTokensMatch

\* For any lines, however wrapped, recovered or misaligned, NEWLINE, INDENT and
\* DEDENT are what a parser can build blocks from: every prefix closes no more
\* than it opens and the file closes all, no block is empty, and the three stand
\* between logical lines only (process, _apply_indent).
THEOREM LayoutTokens == Spec => []LayoutTokensMatch
<1>1. Init => LayoutInv /\ TokensInv
  BY LayoutInit, TokensInit
<1>2. LayoutInv /\ TokensInv /\ [Next]_layoutVars => (LayoutInv /\ TokensInv)'
  BY LayoutStep, TokensStep
<1>3. LayoutInv /\ TokensInv => LayoutTokensMatch
  BY TokensMatch
<1> QED
  BY <1>1, <1>2, <1>3, PTL DEF Spec
=============================================================================
