------------------------------ MODULE MCParser ------------------------------
(***************************************************************************)
(* Programs for model-checking Parser: what the layout processor makes of  *)
(* up to MaxLines lines, with or without a last line that is an ordinary   *)
(* statement.                                                              *)
(***************************************************************************)
EXTENDS Parser, SequencesExt

CONSTANT MaxLines

Assign == <<"NAME", "EQ", "VALUE">>

\* Lines that the statements of a script are made of, and broken ones.
StatementLines ==
  {Assign,
   <<"NAME", "LPAREN", "VALUE">>,
   <<"NAME", "EQ", "NAME", "LBRACKET", "VALUE">>,
   <<"NAME", "EQ", "VALUE", "VALUE">>,
   <<"NAME", "EQ">>,
   <<"NAME", "EQ", "NAME", "QUESTION">>,
   <<"LBRACKET", "NAME", "COMMA", "NAME", "RBRACKET", "EQ", "NAME">>,
   <<"MINUS", "NAME">>,
   <<"IF", "NAME">>,
   <<"NAME", "EQ", "IF", "NAME">>,
   <<"ELSE">>,
   <<"ELSE", "IF", "NAME">>}

SwitchLines ==
  {Assign,
   <<"BREAK">>,
   <<"SWITCH", "NAME">>,
   <<"NAME", "EQ", "SWITCH">>,
   <<"VALUE", "ARROW", "NAME", "ASSIGN", "VALUE", "COMMA", "NAME">>,
   <<"NAME", "ARROW">>,
   <<"ARROW", "NAME", "LPAREN", "NAME">>,
   <<"WHILE", "NAME", "LPAREN", "NAME">>,
   <<"FOR", "NAME", "EQ", "VALUE", "TO", "VALUE", "BY", "VALUE">>,
   <<"FOR", "LBRACKET", "NAME", "COMMA", "NAME", "RBRACKET", "IN", "NAME">>,
   <<"FOR", "LBRACKET", "NAME", "COMMA", "VALUE", "NAME", "IN", "NAME">>}

DeclarationLines ==
  {<<"ANNOTATION">>,
   <<"IMPORT", "NAME", "SLASH", "NAME", "SLASH", "INTEGER", "AS", "NAME">>,
   <<"HEAD", "LPAREN", "STRING", "RPAREN">>,
   <<"HEAD", "LPAREN", "NAME", "EQ", "VALUE", "RPAREN", "DOT", "NAME">>,
   <<"TYPE", "NAME">>, <<"ENUM", "NAME">>,
   <<"NAME", "NAME", "EQ", "VALUE">>,
   <<"NAME", "STRING">>,
   <<"EXPORT", "MODE", "NAME", "LT", "NAME", "GT", "NAME", "EQ",
     "NAME", "DOT", "NAME", "LT", "NAME", "COMMA", "NAME", "GT", "LPAREN",
     "RPAREN">>,
   <<"NAME", "LPAREN", "QUALIFIER", "NAME", "NAME", "EQ", "VALUE", "RPAREN",
     "ARROW">>,
   <<"METHOD", "NAME", "LPAREN", "NAME", "DOT", "NAME", "LBRACKET", "RBRACKET",
     "NAME", "COMMA", "NAME", "RPAREN", "ARROW", "NAME">>}

Open(line) ==
  LET opened == {p \in 1..Len(line) : line[p] \in {"LPAREN", "LBRACKET"}}
      closed == {p \in 1..Len(line) : line[p] \in {"RPAREN", "RBRACKET"}}
  IN  Cardinality(opened) > Cardinality(closed)

Unfinished(line) == Last(line) \in Operators \cup {"EQ", "QUESTION"}

\* How deep the lines of a program are indented.
Shapes(n) ==
  {depth \in [1..n -> 0..2] :
     /\ depth[1] = 0
     /\ \A k \in 2..n : depth[k] <= depth[k - 1] + 1}

\* The layout processor leaves these lines apart.
Apart(lines, depth) ==
  \A k \in 1..(Len(lines) - 1) :
    /\ ~Unfinished(lines[k])
    /\ depth[k + 1] > depth[k] =>
         ~Open(lines[k]) /\ Head(lines[k + 1]) \notin Operators

Laid(lines, depth) ==
  LET n == Len(lines)
      repeat(kind, times) == [k \in 1..times |-> kind]
      layout(k) ==
        IF k = 1 THEN <<>>
        ELSE IF depth[k] > depth[k - 1] THEN <<"INDENT">>
        ELSE repeat("DEDENT", depth[k - 1] - depth[k])
      laid(sofar, k) == sofar \o layout(k) \o lines[k] \o <<"NEWLINE">>
  IN  FoldLeft(laid, <<>>, [k \in 1..n |-> k])
      \o repeat("DEDENT", depth[n]) \o <<"EOF">>

Scripts(lines) ==
  {Laid(program.lines, program.depth) :
     program \in
       UNION {{p \in [lines : [1..n -> lines], depth : Shapes(n)] :
                 Apart(p.lines, p.depth)} : n \in 1..(MaxLines - 1)}}

\* With at least one block.
Followed(lines) ==
  {Laid(Append(program.lines, Assign), Append(program.depth, 0)) :
     program \in
       {p \in [lines : [1..MaxLines -> lines],
               depth : {d \in Shapes(MaxLines) :
                          \E k \in 1..MaxLines : d[k] > 0}] :
          Apart(Append(p.lines, Assign), Append(p.depth, 0))}}

\* One statement with three operators, also around brackets, after a sign and
\* with a conditional.
Expressions ==
  LET Signs == {"OR", "AND", "EQEQ", "LT", "MINUS", "STAR", "QUESTION"}
  IN  {<<"NAME", "ASSIGN", "NAME", a, "NAME", b, "NAME", c, "NAME",
         "NEWLINE", "EOF">> : a, b, c \in Signs \ {"QUESTION"}} \cup
      {<<"VERSION", "NEWLINE", "NAME", "ASSIGN", "NAME", a,
         "LPAREN", "NAME", b, "NAME", "RPAREN", c, "NOT", "NAME",
         "NEWLINE", "EOF">> : a, b, c \in Signs} \cup
      {<<"NAME", "ASSIGN", "NAME", a, "NAME", "QUESTION", "NAME", b, "NAME",
         "COLON", "NAME", c, "MINUS", "NAME", "NEWLINE", "EOF">> :
         a, b, c \in Signs \ {"QUESTION"}}

\* Without a last line.
ShortPrograms == Scripts(StatementLines)

MCPrograms ==
  Expressions \cup
  UNION {Scripts(lines) \cup Followed(lines) :
           lines \in {StatementLines, SwitchLines, DeclarationLines}}
=============================================================================
