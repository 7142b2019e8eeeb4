------------------------------- MODULE Layout -------------------------------
(***************************************************************************)
(* The layout processor (layout/processor.py): the physical lines of       *)
(* tokens become logical lines, and the indentation of logical lines       *)
(* becomes INDENT and DEDENT tokens.                                       *)
(*                                                                         *)
(* A line is its indentation and its tokens, each cut down to the class    *)
(* the processor tells apart; lines without tokens are dropped before the  *)
(* loop and are not modelled.  One step is one iteration of the loop.      *)
(***************************************************************************)
EXTENDS Integers, Sequences, FiniteSets

CONSTANTS
  Lines,      \* the physical lines a program may have: [indent, tokens]
  BlockWidth, \* 4: the indentations of blocks are its multiples
  MaxLines    \* bound on the physical lines of a program

\* OPERATOR: in _CONTINUATION_START and _CONTINUATION_END.  ASSIGN: in the
\* latter only.  ANNOTATION is not significant.  WORD: everything else.
Classes == {"WORD", "OPERATOR", "ASSIGN", "OPEN", "CLOSE", "ANNOTATION"}

Line == [indent : Nat, tokens : Seq(Classes) \ {<<>>}]

Absent == "ABSENT"      \* None, for a token

ASSUME LayoutAssumption ==
  /\ Lines \subseteq Line
  /\ BlockWidth \in Nat \ {0}
  /\ MaxLines \in Nat

VARIABLES
  levels,   \* indent_stack
  depth,    \* the unclosed brackets
  prevLast, \* class of the last significant token so far
  starts,   \* the indentation of every logical line so far
  bad,      \* BAD_INDENTATION was reported
  out,      \* the tokens emitted; LINE and WRAP stand for those of the first
            \* and of a further physical line of a logical line
  read      \* physical lines read; MaxLines + 1 when the file has ended

layoutVars == <<levels, depth, prevLast, starts, bad, out, read>>

Level == levels[Len(levels)]

Significant(line) ==
  {i \in 1..Len(line.tokens) : line.tokens[i] # "ANNOTATION"}

FirstSignificant(line) ==
  IF Significant(line) = {} THEN Absent
  ELSE line.tokens[CHOOSE i \in Significant(line) :
                     \A j \in Significant(line) : i <= j]

LastSignificant(line) ==
  IF Significant(line) = {} THEN Absent
  ELSE line.tokens[CHOOSE i \in Significant(line) :
                     \A j \in Significant(line) : j <= i]

ContinuationEnd == {"OPERATOR", "ASSIGN"}

IsLevel(indent) == \E i \in 1..Len(levels) : levels[i] = indent

\* Inside brackets: a line that looks like the next statement, although a
\* bracket is open, is not taken for a continuation.
Recovers(line) ==
  /\ line.indent <= Level
  /\ FirstSignificant(line) \notin {Absent, "CLOSE"}
  /\ prevLast \notin ContinuationEnd \cup {"OPEN", Absent}

MutantWrapsAfterOperatorsOnly(line) ==
  IF depth > 0 THEN ~Recovers(line)
  ELSE \/ prevLast \in ContinuationEnd
       \/ FirstSignificant(line) = "OPERATOR" /\ line.indent > Level

\* _is_continuation_line.
Continues(line) ==
  IF depth > 0 THEN ~Recovers(line)
  ELSE \/ prevLast \in ContinuationEnd
       \/ FirstSignificant(line) = "OPERATOR" /\ line.indent > Level
       \/ line.indent % BlockWidth # 0 /\ ~IsLevel(line.indent)

\* _depth_after_line: a depth never falls below 0.
DepthAfter(line, initial) ==
  LET after[i \in 0..Len(line.tokens)] ==
        IF i = 0 THEN initial
        ELSE CASE line.tokens[i] = "OPEN" -> after[i - 1] + 1
               [] line.tokens[i] = "CLOSE" /\ after[i - 1] > 0 -> after[i - 1] - 1
               [] OTHER -> after[i - 1]
  IN  after[Len(line.tokens)]

\* How many levels are left when those deeper than indent are popped.
Kept(indent) ==
  CHOOSE k \in 1..Len(levels) :
    /\ k = 1 \/ levels[k] <= indent
    /\ \A j \in (k + 1)..Len(levels) : levels[j] > indent

MutantMisaligned(indent) == levels[Kept(indent)] > indent

Misaligned(indent) == levels[Kept(indent)] # indent

\* How many levels a dedent closes.
Closed(indent) == Len(levels) - Kept(indent)

Repeat(kind, n) == [i \in 1..n |-> kind]

MutantLineEnd == IF depth = 0 /\ starts # <<>> THEN <<"NEWLINE">> ELSE <<>>

\* The NEWLINE before every logical line but the first.
LineEnd == IF starts = <<>> THEN <<>> ELSE <<"NEWLINE">>

\* What is done for every line.
Count(line, initial) ==
  /\ depth' = DepthAfter(line, initial)
  /\ prevLast' = IF Significant(line) = {} THEN prevLast
                 ELSE LastSignificant(line)
  /\ read' = read + 1

Reading == read < MaxLines

Continuation(line) ==
  /\ Reading /\ Continues(line)
  /\ out' = Append(out, "WRAP")
  /\ Count(line, depth)
  /\ UNCHANGED <<levels, starts, bad>>

\* A logical line; an open bracket is forgotten.
Logical(line, layout) ==
  /\ Reading /\ ~Continues(line)
  /\ starts' = Append(starts, line.indent)
  /\ out' = out \o (LineEnd \o layout \o <<"LINE">>)
  /\ Count(line, 0)

SameLevel(line) ==
  /\ line.indent = Level
  /\ Logical(line, <<>>)
  /\ UNCHANGED <<levels, bad>>

Indent(line) ==
  /\ line.indent > Level
  /\ levels' = Append(levels, line.indent)
  /\ Logical(line, <<"INDENT">>)
  /\ bad' = bad

\* The line's indentation becomes a level of its own only later, when the next
\* line has it too.
Dedent(line) ==
  /\ line.indent < Level
  /\ levels' = SubSeq(levels, 1, Kept(line.indent))
  /\ bad' = (bad \/ Misaligned(line.indent))
  /\ Logical(line, Repeat("DEDENT", Closed(line.indent)))

\* The end of the file.
Finish ==
  /\ read <= MaxLines
  /\ out' = out \o ((IF starts # <<>> /\ prevLast # Absent
                     THEN <<"NEWLINE">> ELSE <<>>)
                    \o Repeat("DEDENT", Len(levels) - 1) \o <<"EOF">>)
  /\ levels' = SubSeq(levels, 1, 1)
  /\ read' = MaxLines + 1
  /\ UNCHANGED <<depth, prevLast, starts, bad>>

Init ==
  /\ levels = <<0>>
  /\ depth = 0
  /\ prevLast = Absent
  /\ starts = <<>>
  /\ bad = FALSE
  /\ out = <<>>
  /\ read = 0

Next ==
  \/ \E line \in Lines :
       Continuation(line) \/ SameLevel(line) \/ Indent(line) \/ Dedent(line)
  \/ Finish

Spec == Init /\ [][Next]_layoutVars

-----------------------------------------------------------------------------
(* Properties. *)

Ended == read = MaxLines + 1

\* The type invariant of process.
TypeOK ==
  /\ levels \in Seq(Nat) /\ levels # <<>>
  /\ depth \in Nat
  /\ prevLast \in Classes \cup {Absent}
  /\ starts \in Seq(Nat)
  /\ bad \in BOOLEAN
  /\ out \in Seq({"LINE", "WRAP", "NEWLINE", "INDENT", "DEDENT", "EOF"})
  /\ read \in 0..(MaxLines + 1)

\* "Pine-style offside blocks as indentation multiples of 4": only such
\* indentations ever become levels, each deeper than the last, on every path of
\* _is_continuation_line, the recovery from open brackets included.
LevelsAreBlocks ==
  /\ levels[1] = 0
  /\ \A i \in 1..Len(levels) : levels[i] % BlockWidth = 0
  /\ \A i, j \in 1..Len(levels) : i < j => levels[i] < levels[j]

\* The indentations that no later logical line went below: the blocks that are
\* open by the offside rule.
OpenByOffside ==
  {starts[j] : j \in {k \in 1..Len(starts) :
                        \A m \in k..Len(starts) : starts[k] <= starts[m]}}

\* Unless a misaligned line was reported, the stack that _apply_indent keeps is
\* exactly what the offside rule says of all logical lines so far, however
\* they were wrapped and recovered.
OffsideRule ==
  ~bad /\ ~Ended =>
    {levels[i] : i \in 1..Len(levels)} = {0} \cup OpenByOffside

Emitted(kind, n) == {i \in 1..n : out[i] = kind}

\* Every prefix opens at least the blocks it closes, and the file closes what
\* it opened, whatever its indentation.
Balanced ==
  \A n \in 0..Len(out) :
    LET opened == Cardinality(Emitted("INDENT", n))
        closed == Cardinality(Emitted("DEDENT", n))
    IN  closed <= opened /\ (Ended /\ n = Len(out) => closed = opened)

\* Before the first logical line there may be wrapped ones, of a file that
\* begins with an indentation that is no block's; no NEWLINE ends those.
Preamble(n) == Emitted("LINE", n) = {}

Follows(first, second) ==
  CASE second = "INDENT" -> first \in {"START", "NEWLINE"}
    [] second = "DEDENT" -> first \in {"NEWLINE", "DEDENT"}
    [] second = "LINE" -> first \in {"START", "NEWLINE", "INDENT", "DEDENT"}
    [] second \in {"WRAP", "NEWLINE"} -> first \in {"LINE", "WRAP"}
    [] second = "EOF" -> first \in {"NEWLINE", "DEDENT"}

\* What the parser builds on: NEWLINE, INDENT and DEDENT stand between logical
\* lines and only there, a block is not empty, and a file with more than
\* annotations ends in a NEWLINE.
WellFormed ==
  \A i \in 2..Len(out) :
    \/ Follows(out[i - 1], out[i])
    \/ Preamble(i - 1)
    \/ prevLast = Absent /\ out[i] \in {"DEDENT", "EOF"}

\* NEWLINE, INDENT and DEDENT are what a parser can build blocks from
\* (process, _apply_indent).
LayoutTokensMatch == TypeOK /\ Balanced /\ WellFormed
=============================================================================
