---------------------------- MODULE ParserProofs ----------------------------
(***************************************************************************)
(* Proofs about Parser, for any programs and any limit of diagnostics: the *)
(* index stays on a token and the EOF stays the last one.                  *)
(*                                                                         *)
(* The argument.  Wherever the code advances without asking for the EOF it *)
(* has just seen, or just expected, a token of another kind; so nothing    *)
(* that waits in the call stack may ever expect the EOF, as Tasks says.    *)
(* The loops that skip tokens stop at the EOF at the latest, and an INDENT *)
(* is added in front of a token that is there.                             *)
(***************************************************************************)
EXTENDS Parser, SequenceTheorems, WellFoundedInduction, TLAPS

-----------------------------------------------------------------------------
(* Tasks. *)

\* The kinds of token that some production expects.
LEMMA KindTypes ==
  {"NAME", "NEWLINE", "INDENT", "DEDENT", "RBRACKET", "RPAREN", "LPAREN", "GT",
   "COLON", "IF", "WHILE", "FOR", "IN", "TO", "SWITCH", "ARROW", "EQ",
   "LBRACKET", "METHOD", "TYPE", "ENUM", "IMPORT", "BREAK", "CONTINUE"}
  \subseteq Kinds \ {"EOF"}
BY DEF Kinds, Operators, Identifiers, Structures

\* What each constructor of tasks makes is a task.
LEMMA TaskTypes ==
  /\ \A name \in Plain \cup Bodies : Do(name) \in Tasks
  /\ \A name \in Counting, n \in Nat, from \in Nat :
       Call(name, "", n, from) \in Tasks
  /\ \A kind \in Kinds \ {"EOF"} : Expect(kind) \in Tasks /\ Closing(kind) \in Tasks
  /\ \A body \in Bodies : Indented(body) \in Tasks
  /\ \A item \in DOMAIN ListEnd : List(item) \in Tasks /\ Comma(item) \in Tasks
  /\ \A node \in NodeKinds, from \in Nat : End(node, from) \in Tasks
  /\ \A from \in Nat, position \in Nat : EndBinary(from, position) \in Tasks
  /\ \A fallback \in Fallbacks, from \in Nat :
       Call("declaration", fallback, 0, from) \in Tasks
  /\ Newline \in Tasks
  /\ \A precedence \in Nat : Expression(precedence) \in Tasks
  /\ \A count \in Nat : Names(count) \in Tasks
<1> USE DEF Tasks, Call
<1>1. \A name \in Plain \cup Bodies : Do(name) \in Tasks
  BY DEF Do
<1>2. \A name \in Counting, n \in Nat, from \in Nat :
        Call(name, "", n, from) \in Tasks
  OBVIOUS
<1>3. \A kind \in Kinds \ {"EOF"} : Expect(kind) \in Tasks /\ Closing(kind) \in Tasks
  BY DEF Expect, Closing
<1>4. \A body \in Bodies : Indented(body) \in Tasks
  BY DEF Indented
<1>5. \A item \in DOMAIN ListEnd : List(item) \in Tasks /\ Comma(item) \in Tasks
  BY DEF List, Comma
<1>6. \A node \in NodeKinds, from \in Nat : End(node, from) \in Tasks
  BY DEF End
<1>7. \A from \in Nat, position \in Nat : EndBinary(from, position) \in Tasks
  BY DEF EndBinary, NodeKinds
<1>8. \A fallback \in Fallbacks, from \in Nat :
        Call("declaration", fallback, 0, from) \in Tasks
  OBVIOUS
<1>9. Newline \in Tasks
  BY DEF Newline, Do, Plain
<1>10. \A precedence \in Nat : Expression(precedence) \in Tasks
  BY DEF Expression, Counting
<1>11. \A count \in Nat : Names(count) \in Tasks
  BY DEF Names, Counting
<1> QED
  BY <1>1, <1>2, <1>3, <1>4, <1>5, <1>6, <1>7, <1>8, <1>9, <1>10, <1>11

\* The task that runs, and those after it.
LEMMA TaskFacts ==
  ASSUME TypeOK, work # <<>>
  PROVE  Task \in Tasks /\ Tail(work) \in Seq(Tasks)
BY HeadTailProperties DEF TypeOK, Task

LEMMA DoingFacts ==
  ASSUME TypeOK, NEW name, Doing(name)
  PROVE  work # <<>> /\ Task \in Tasks /\ Task.do = name
BY TaskFacts DEF Doing, Task

\* What a task is given, by its name.
LEMMA ArgumentFacts ==
  ASSUME NEW task \in Tasks
  PROVE  /\ task.n \in Nat /\ task.from \in Nat
         /\ task.do \in {"expect", "closing"} => task.arg \in Kinds \ {"EOF"}
         /\ task.do \in {"list", "comma"} => task.arg \in DOMAIN ListEnd
         /\ task.do = "indented" => task.arg \in Bodies
         /\ task.do = "end" => task.arg \in NodeKinds
<1>1. task.n \in Nat /\ task.from \in Nat
  <2>1. task.n \in {0} \cup Nat /\ task.from \in {0} \cup Nat
    BY DEF Tasks
  <2> QED
    BY <2>1
<1>2. task.do \in {"expect", "closing"} => task.arg \in Kinds \ {"EOF"}
  <2>1. {"expect", "closing"} \cap Plain = {}
    BY DEF Plain
  <2>2. {"expect", "closing"} \cap (Bodies \cup Counting) = {}
    BY DEF Bodies, Counting
  <2> QED
    BY <2>1, <2>2 DEF Tasks
<1>3. task.do \in {"list", "comma"} => task.arg \in DOMAIN ListEnd
  BY DEF Tasks, Plain, Bodies, Counting
<1>4. task.do = "indented" => task.arg \in Bodies
  BY DEF Tasks, Plain, Bodies, Counting
<1>5. task.do = "end" => task.arg \in NodeKinds
  BY DEF Tasks, Plain, Bodies, Counting
<1> QED
  BY <1>1, <1>2, <1>3, <1>4, <1>5

\* Tasks in a row.
LEMMA Scripts ==
  /\ <<>> \in Seq(Tasks)
  /\ \A a \in Tasks : <<a>> \in Seq(Tasks)
  /\ \A a, b \in Tasks : <<a, b>> \in Seq(Tasks)
  /\ \A a, b, c \in Tasks : <<a, b, c>> \in Seq(Tasks)
  /\ \A a, b, c, d \in Tasks : <<a, b, c, d>> \in Seq(Tasks)
  /\ \A a, b, c, d, e \in Tasks : <<a, b, c, d, e>> \in Seq(Tasks)
  /\ \A a, b, c, d, e, f \in Tasks : <<a, b, c, d, e, f>> \in Seq(Tasks)
  /\ \A a, b, c, d, e, f, g \in Tasks : <<a, b, c, d, e, f, g>> \in Seq(Tasks)
  /\ \A a, b, c, d, e, f, g, h \in Tasks :
       <<a, b, c, d, e, f, g, h>> \in Seq(Tasks)
OBVIOUS

LEMMA Joined ==
  ASSUME NEW first \in Seq(Tasks), NEW second \in Seq(Tasks)
  PROVE  first \o second \in Seq(Tasks)
BY ConcatProperties

-----------------------------------------------------------------------------
(* Tokens. *)

\* Only the EOF has no token after it.
LEMMA TokenFacts ==
  ASSUME TypeOK, NEW p \in 1..Eof
  PROVE  /\ tokens[p] \in Kinds
         /\ tokens[p] # "EOF" => p + 1 \in 1..Eof
         /\ Advanced(p) \in 1..Eof
         /\ AfterNewline(p) \in 1..Eof
BY DEF TypeOK, Eof, Advanced, AfterNewline

\* The same for the token at the index.
LEMMA Here ==
  ASSUME TypeOK
  PROVE  /\ i \in 1..Eof /\ i \in Nat /\ Eof \in Nat
         /\ Peek(0) = tokens[i] /\ Peek(0) \in Kinds
         /\ \A kinds : At(kinds) /\ "EOF" \notin kinds => i + 1 \in 1..Eof
         /\ Advanced(i) \in 1..Eof
         /\ AfterNewline(i) \in 1..Eof
<1>1. i \in 1..Eof /\ Eof \in Nat
  BY DEF TypeOK
<1>2. Peek(0) = tokens[i]
  BY <1>1 DEF Peek
<1> QED
  BY <1>1, <1>2, TokenFacts DEF At

\* What a loop over tokens stops at is a token: the EOF is none of those
\* that it passes.
LEMMA PastFacts ==
  ASSUME TypeOK, NEW p \in 1..Eof, NEW kinds, "EOF" \notin kinds
  PROVE  /\ Past(p, kinds) \in 1..Eof
         /\ Past(p, kinds) >= p
         /\ tokens[Past(p, kinds)] \notin kinds
<1> DEFINE Stops == {q \in Nat : q \in p..Eof /\ tokens[q] \notin kinds}
<1>1. Eof \in Nat /\ p \in Nat /\ Eof \in p..Eof
  BY DEF TypeOK
<1>2. tokens[Eof] = "EOF"
  BY <1>1 DEF TypeOK
<1>3. Eof \in Stops
  BY <1>1, <1>2
<1>4. PICK q \in Stops : \A y \in Stops : ~ (<<y, q>> \in OpToRel(<, Nat))
  BY <1>3, WFMin, NatLessThanWellFounded
<1>5. \A y \in Stops : ~ (y < q)
  BY <1>4 DEF OpToRel
<1>6. /\ q \in p..Eof /\ tokens[q] \notin kinds
      /\ \A r \in p..(q - 1) : tokens[r] \in kinds
  BY <1>5, <1>1
<1>7. /\ Past(p, kinds) \in p..Eof
      /\ tokens[Past(p, kinds)] \notin kinds
  BY <1>6 DEF Past
<1> QED
  BY <1>7, <1>1

-----------------------------------------------------------------------------
(* The shapes of a step. *)

\* Moving to a token and running tasks there.
LEMMA Moved ==
  ASSUME TypeOK, work # <<>>, NEW p \in 1..Eof,
         NEW script \in Seq(Tasks), MoveTo(p, script)
  PROVE  TypeOK'
<1>1. work' \in Seq(Tasks)
  BY TaskFacts, ConcatProperties DEF MoveTo
<1> QED
  BY <1>1 DEF MoveTo, TypeOK, Eof

\* Running tasks without moving.
LEMMA Expanded ==
  ASSUME TypeOK, work # <<>>, NEW script \in Seq(Tasks), Expand(script)
  PROVE  TypeOK'
BY Moved, Here DEF Expand

\* Moving with a diagnostic, of which there are never too many.
LEMMA Failed ==
  ASSUME TypeOK, work # <<>>, Task.do \in Reporting, NEW p \in 1..Eof,
         NEW script \in Seq(Tasks), Fail(p, script)
  PROVE  TypeOK'
<1> DEFINE Error == [at : Nat, by : Reporting]
<1>1. work' \in Seq(Tasks)
  BY TaskFacts, ConcatProperties DEF Fail
<1>2. [at |-> i, by |-> Task.do] \in Error
  BY Here
<1>3. /\ errors \in Seq(Error) /\ Len(errors) <= MaxDiagnostics
      /\ Len(errors) \in Nat
  BY LenProperties DEF TypeOK
<1>4. errors' \in Seq(Error) /\ Len(errors') <= MaxDiagnostics
  <2> HIDE DEF Error
  <2>1. CASE Len(errors) < MaxDiagnostics
    <3>1. errors' = Append(errors, [at |-> i, by |-> Task.do])
      BY <2>1 DEF Fail
    <3>2. errors' \in Seq(Error) /\ Len(errors') = Len(errors) + 1
      BY <3>1, <1>2, <1>3, AppendProperties
    <3> QED
      BY <3>2, <1>3, <2>1, ParserAssumption
  <2>2. CASE ~ (Len(errors) < MaxDiagnostics)
    <3>1. errors' = errors
      BY <2>2 DEF Fail
    <3> QED
      BY <3>1, <1>3
  <2> QED
    BY <2>1, <2>2
<1> QED
  BY <1>1, <1>4 DEF Fail, TypeOK, Eof

\* Consuming a token of an expected kind.
LEMMA Accepted ==
  ASSUME TypeOK, work # <<>>, NEW kinds, "EOF" \notin kinds, At(kinds),
         NEW script \in Seq(Tasks), MoveTo(i + 1, script)
  PROVE  TypeOK'
BY Moved, Here

\* Consuming it if it is there.
LEMMA Optional ==
  ASSUME TypeOK, work # <<>>, NEW kinds, "EOF" \notin kinds,
         NEW taken \in Seq(Tasks), NEW other \in Seq(Tasks),
         IF At(kinds) THEN MoveTo(i + 1, taken) ELSE Expand(other)
  PROVE  TypeOK'
BY Accepted, Expanded

-----------------------------------------------------------------------------
(* The scripts of statements and declarations. *)

LEMMA SimpleType ==
  ASSUME NEW p
  PROVE  Simple(p) \in Seq(Tasks)
<1>1. TupleDecl \in Seq(Tasks)
  <2>1. /\ Expect("LBRACKET") \in Tasks /\ Expect("RBRACKET") \in Tasks
        /\ Expect("EQ") \in Tasks /\ Expression(0) \in Tasks
        /\ Newline \in Tasks
    BY TaskTypes, KindTypes
  <2>2. List("targets") \in Tasks
    BY TaskTypes DEF ListEnd
  <2> QED
    BY <2>1, <2>2 DEF TupleDecl
<1>2. <<Do("var")>> \in Seq(Tasks)
  BY TaskTypes, Scripts DEF Plain
<1>3. <<Expression(0), Do("statementEnd")>> \in Seq(Tasks)
  BY TaskTypes, Scripts DEF Plain
<1> QED
  BY <1>1, <1>2, <1>3 DEF Simple

LEMMA DeclarationType ==
  ASSUME NEW p \in Nat, NEW fallback \in Fallbacks
  PROVE  Declaration(p, fallback) \in Seq(Tasks)
<1>1. /\ Expression(0) \in Tasks /\ Newline \in Tasks
      /\ Call("declaration", fallback, 0, p) \in Tasks
  BY TaskTypes
<1> QED
  BY <1>1 DEF Declaration

LEMMA OtherStatementType ==
  ASSUME NEW p
  PROVE  OtherStatement(p) \in Seq(Tasks)
<1>1. CASE tokens[p] \in Structures
  <2>1. <<Do(tokens[p])>> \in Seq(Tasks)
    BY <1>1, TaskTypes, Scripts DEF Structures, Plain
  <2>2. ~ LooksLikeFunction(p)
    BY <1>1 DEF LooksLikeFunction, Structures, Identifiers
  <2>3. OtherStatement(p) = <<Do(tokens[p])>>
    BY <1>1, <2>2 DEF OtherStatement, Structures
  <2> QED
    BY <2>1, <2>3
<1>2. CASE tokens[p] \in {"BREAK", "CONTINUE"}
  <2>1. <<Expect(tokens[p]), Newline>> \in Seq(Tasks)
    BY <1>2, TaskTypes, KindTypes, Scripts
  <2>2. ~ LooksLikeFunction(p)
    BY <1>2 DEF LooksLikeFunction, Identifiers
  <2>3. OtherStatement(p) = <<Expect(tokens[p]), Newline>>
    BY <1>2, <2>2 DEF OtherStatement, Structures
  <2> QED
    BY <2>1, <2>3
<1>3. CASE tokens[p] \notin Structures \cup {"BREAK", "CONTINUE"}
  <2>1. Do("METHOD") \in Tasks /\ Do("function") \in Tasks
    BY TaskTypes DEF Plain
  <2>2. CASE tokens[p] = "METHOD"
    BY <1>3, <2>1, <2>2 DEF OtherStatement
  <2>3. CASE tokens[p] # "METHOD" /\ LooksLikeFunction(p)
    BY <1>3, <2>1, <2>3 DEF OtherStatement
  <2>4. CASE tokens[p] # "METHOD" /\ ~ LooksLikeFunction(p)
    BY <1>3, <2>4, SimpleType DEF OtherStatement
  <2> QED
    BY <2>2, <2>3, <2>4
<1> QED
  BY <1>1, <1>2, <1>3

LEMMA StatementType ==
  ASSUME NEW p \in Nat
  PROVE  Statement(p) \in Seq(Tasks)
<1>1. Declaration(p, "statement") \in Seq(Tasks)
  BY DeclarationType DEF Fallbacks
<1>2. <<End("statement", p)>> \in Seq(Tasks)
  BY TaskTypes, Scripts DEF NodeKinds, LineNodes
<1>3. OtherStatement(p) \o <<End("statement", p)>> \in Seq(Tasks)
  BY <1>2, OtherStatementType, Joined
<1> QED
  BY <1>1, <1>3 DEF Statement

LEMMA OtherItemType ==
  ASSUME NEW p, NEW exported \in BOOLEAN
  PROVE  OtherItem(p, exported) \in Seq(Tasks)
<1>1. /\ <<Do("function")>> \in Seq(Tasks)
      /\ <<Do("var")>> \in Seq(Tasks)
      /\ <<Do("statement")>> \in Seq(Tasks)
  BY TaskTypes, Scripts DEF Plain
<1>2. CASE LooksLikeFunction(p)
  BY <1>1, <1>2 DEF OtherItem
<1>3. CASE ~ LooksLikeFunction(p) /\ exported
  BY <1>1, <1>3 DEF OtherItem
<1>4. CASE ~ LooksLikeFunction(p) /\ ~ exported
  BY <1>1, <1>4 DEF OtherItem
<1> QED
  BY <1>2, <1>3, <1>4

LEMMA ItemType ==
  ASSUME TypeOK, NEW p, NEW exported \in BOOLEAN
  PROVE  Item(p, exported) \in Seq(Tasks)
<1>1. i \in Nat
  BY Here
<1>2. End("item", i) \in Tasks
  BY <1>1, TaskTypes DEF NodeKinds, LineNodes
<1>3. CASE tokens[p] \in {"IMPORT", "TYPE", "ENUM", "METHOD"}
  <2>1. <<Do(tokens[p]), End("item", i)>> \in Seq(Tasks)
    BY <1>2, <1>3, TaskTypes, Scripts DEF Plain
  <2>2. ~ LooksLikeDeclaration(p)
    BY <1>3 DEF LooksLikeDeclaration
  <2>3. Item(p, exported) = <<Do(tokens[p]), End("item", i)>>
    BY <1>3, <2>2 DEF Item
  <2> QED
    BY <2>1, <2>3
<1>4. CASE /\ tokens[p] \notin {"IMPORT", "TYPE", "ENUM", "METHOD"}
           /\ LooksLikeDeclaration(p)
  <2>1. /\ Declaration(i, "export") \in Seq(Tasks)
        /\ Declaration(i, "item") \in Seq(Tasks)
    BY <1>1, DeclarationType DEF Fallbacks
  <2> QED
    BY <1>4, <2>1 DEF Item
<1>5. CASE /\ tokens[p] \notin {"IMPORT", "TYPE", "ENUM", "METHOD"}
           /\ ~ LooksLikeDeclaration(p)
  <2>1. <<End("item", i)>> \in Seq(Tasks)
    BY <1>2
  <2>2. OtherItem(p, exported) \o <<End("item", i)>> \in Seq(Tasks)
    BY <2>1, OtherItemType, Joined
  <2> QED
    BY <1>5, <2>2 DEF Item
<1> QED
  BY <1>3, <1>4, <1>5

-----------------------------------------------------------------------------
(* The steps. *)

LEMMA TokenSteps ==
  ASSUME TypeOK, Take \/ TakeClosing \/ TakeNewline \/ EndNode
  PROVE  TypeOK'
<1>1. ASSUME Doing("expect") \/ Doing("closing")
      PROVE  /\ work # <<>> /\ "EOF" \notin Expected
             /\ Task.do \in Reporting
  <2>1. work # <<>> /\ Task \in Tasks /\ Task.do \in {"expect", "closing"}
    BY <1>1, DoingFacts
  <2>2. Task.arg # "EOF"
    BY <2>1, ArgumentFacts
  <2> QED
    BY <2>1, <2>2 DEF Expected, Identifiers, Reporting
<1>2. CASE Take
  <2>1. CASE Doing("expect") /\ At(Expected) /\ MoveTo(i + 1, <<>>)
    BY <2>1, <1>1, Accepted, Scripts
  <2>2. CASE Doing("expect") /\ ~At(Expected) /\ Fail(Advanced(i), <<>>)
    BY <2>2, <1>1, Here, Failed, Scripts
  <2> QED
    BY <1>2, <2>1, <2>2 DEF Take
<1>3. CASE TakeClosing
  <2>1. CASE Doing("closing") /\ At(Expected) /\ MoveTo(i + 1, <<>>)
    BY <2>1, <1>1, Accepted, Scripts
  <2>2. CASE /\ Doing("closing") /\ ~At(Expected)
             /\ Fail(IF At(Boundary) THEN i ELSE i + 1, <<>>)
    <3>1. (IF At(Boundary) THEN i ELSE i + 1) \in 1..Eof
      BY Here, TokenFacts DEF At, Boundary
    <3> QED
      BY <2>2, <3>1, <1>1, Failed, Scripts
  <2> QED
    BY <1>3, <2>1, <2>2 DEF TakeClosing
<1>4. CASE TakeNewline
  BY <1>4, DoingFacts, Here, Moved, Scripts DEF TakeNewline
<1>5. CASE EndNode
  <2>1. work # <<>> /\ Task \in Tasks /\ Task.do = "end"
    BY <1>5, DoingFacts DEF EndNode
  <2>2. /\ Task.arg \in NodeKinds /\ Task.n \in Nat /\ Task.from \in Nat
        /\ i - 1 \in Nat /\ Tail(work) \in Seq(Tasks)
    BY <2>1, ArgumentFacts, TaskFacts, Here
  <2>3. [kind |-> Task.arg, from |-> Task.from, to |-> i - 1, n |-> Task.n]
        \in [kind : NodeKinds, from : Nat, to : Nat, n : Nat]
    BY <2>2
  <2>4. nodes' \subseteq [kind : NodeKinds, from : Nat, to : Nat, n : Nat]
    BY <1>5, <2>3 DEF EndNode, TypeOK
  <2> QED
    BY <1>5, <2>2, <2>4 DEF EndNode, TypeOK, Eof
<1> QED
  BY <1>2, <1>3, <1>4, <1>5

\* One round of the loop of any indented body.
LEMMA LinesStep ==
  ASSUME TypeOK, NEW body \in Bodies, NEW p \in 1..Eof,
         NEW item \in Seq(Tasks), Lines(body, p, item)
  PROVE  TypeOK'
<1>1. work # <<>>
  BY DoingFacts DEF Lines
<1>2. <<Expect("DEDENT")>> \in Seq(Tasks)
  BY TaskTypes, KindTypes, Scripts
<1>3. <<Do(body)>> \in Seq(Tasks)
  BY TaskTypes, Scripts
<1>4. item \o <<Do(body)>> \in Seq(Tasks)
  BY <1>3, Joined
<1> QED
  BY <1>1, <1>2, <1>4, Moved DEF Lines

\* Every list has items.
LEMMA ListItemTypes ==
  ASSUME NEW list \in DOMAIN ListEnd
  PROVE  ListItem[list] \in Tasks
<1>1. /\ Expect("NAME") \in Tasks /\ Expression(0) \in Tasks
      /\ Do("parameter") \in Tasks /\ Do("argument") \in Tasks
      /\ Do("type reference") \in Tasks
  BY TaskTypes, KindTypes DEF Plain
<1>2. list \in {"targets", "elements", "parameters", "arguments", "types"}
  BY DEF ListEnd
<1>3. /\ ListItem["targets"] = Expect("NAME")
      /\ ListItem["elements"] = Expression(0)
      /\ ListItem["parameters"] = Do("parameter")
      /\ ListItem["arguments"] = Do("argument")
      /\ ListItem["types"] = Do("type reference")
  BY DEF ListItem
<1> QED
  BY <1>1, <1>2, <1>3

LEMMA BlockSteps ==
  ASSUME TypeOK,
         \/ IndentedBody \/ Statements \/ RequiredBlock \/ RequiredIndent
         \/ NextListItem \/ ListComma
  PROVE  TypeOK'
<1>1. PastNewlines \in 1..Eof /\ i \in Nat
  BY PastFacts, Here DEF PastNewlines
<1>2. CASE IndentedBody
  <2>1. work # <<>> /\ Task.arg \in Bodies
    BY <1>2, DoingFacts, ArgumentFacts DEF IndentedBody
  <2>2. /\ Expect("INDENT") \in Tasks /\ Do(Task.arg) \in Tasks
        /\ End("block", i) \in Tasks
    BY <1>1, <2>1, TaskTypes, KindTypes DEF NodeKinds
  <2> QED
    BY <1>2, <2>1, <2>2, Expanded, Scripts DEF IndentedBody
<1>3. CASE Statements
  <2>1. <<Do("statement")>> \in Seq(Tasks)
    BY TaskTypes, Scripts DEF Plain
  <2> QED
    BY <1>1, <1>3, <2>1, LinesStep DEF Statements, Bodies
<1>4. CASE RequiredBlock
  BY <1>4, DoingFacts, Expanded, TaskTypes, KindTypes, Scripts
     DEF RequiredBlock, Plain
<1>5. CASE RequiredIndent
  BY <1>5, DoingFacts, Expanded, Failed, Here, TaskTypes, Scripts
     DEF RequiredIndent, Bodies, Reporting
<1>6. CASE NextListItem
  <2>1. work # <<>> /\ Task.arg \in DOMAIN ListEnd
    BY <1>6, DoingFacts, ArgumentFacts DEF NextListItem
  <2>2. ListItem[Task.arg] \in Tasks
    BY <2>1, ListItemTypes
  <2>3. Comma(Task.arg) \in Tasks
    BY <2>1, TaskTypes
  <2> QED
    BY <1>6, <2>1, <2>2, <2>3, Expanded, Scripts DEF NextListItem
<1>7. CASE ListComma
  <2>1. work # <<>> /\ Task.arg \in DOMAIN ListEnd
    BY <1>7, DoingFacts, ArgumentFacts DEF ListComma
  <2>2. List(Task.arg) \in Tasks
    BY <2>1, TaskTypes
  <2> QED
    BY <1>7, <2>1, <2>2, Optional, Scripts DEF ListComma
<1> QED
  BY <1>2, <1>3, <1>4, <1>5, <1>6, <1>7

LEMMA PrecedenceType == \A operator \in Operators : Precedence[operator] \in Nat
BY DEF Precedence, Operators

\* What follows the first token of a postfix, and the node it makes.
LEMMA PostfixTypes ==
  ASSUME NEW kind \in {"DOT", "LT", "LPAREN", "LBRACKET"}
  PROVE  PostfixBody[kind] \in Seq(Tasks) /\ PostfixNode[kind] \in NodeKinds
<1>1. /\ <<Do("member")>> \in Seq(Tasks)
      /\ <<List("types"), Expect("GT")>> \in Seq(Tasks)
      /\ <<List("arguments"), Closing("RPAREN")>> \in Seq(Tasks)
      /\ <<Expression(0), Closing("RBRACKET")>> \in Seq(Tasks)
  <2>1. Do("member") \in Tasks
    BY TaskTypes DEF Plain
  <2>2. /\ Expect("GT") \in Tasks /\ Closing("RPAREN") \in Tasks
        /\ Closing("RBRACKET") \in Tasks /\ Expression(0) \in Tasks
    BY TaskTypes, KindTypes
  <2>3. List("types") \in Tasks /\ List("arguments") \in Tasks
    BY TaskTypes DEF ListEnd
  <2> QED
    BY <2>1, <2>2, <2>3, Scripts
<1>2. /\ PostfixBody["DOT"] = <<Do("member")>>
      /\ PostfixBody["LT"] = <<List("types"), Expect("GT")>>
      /\ PostfixBody["LPAREN"] = <<List("arguments"), Closing("RPAREN")>>
      /\ PostfixBody["LBRACKET"] = <<Expression(0), Closing("RBRACKET")>>
  BY DEF PostfixBody
<1>3. PostfixBody[kind] \in Seq(Tasks)
  BY <1>1, <1>2
<1>4. PostfixNode[kind] \in NodeKinds
  <2>1. /\ PostfixNode["DOT"] = "member access" /\ PostfixNode["LT"] = "generic"
        /\ PostfixNode["LPAREN"] = "call" /\ PostfixNode["LBRACKET"] = "history"
    BY DEF PostfixNode
  <2> QED
    BY <2>1 DEF NodeKinds
<1> QED
  BY <1>3, <1>4

LEMMA ExpressionSteps ==
  ASSUME TypeOK,
         \/ ParseExpression \/ ParseOperator \/ ParseConditional
         \/ OperatorsDone \/ ParsePrefix \/ ParsePrimary \/ ParseMember
         \/ ParsePostfix \/ ParseArgument
  PROVE  TypeOK'
<1>1. i \in Nat
  BY Here
<1>2. CASE ParseExpression
  <2>1. work # <<>> /\ Task.n \in Nat
    BY <1>2, DoingFacts, ArgumentFacts DEF ParseExpression
  <2>2. /\ Do("prefix") \in Tasks
        /\ Call("operators", "", Task.n, i) \in Tasks
    BY <1>1, <2>1, TaskTypes DEF Plain, Counting
  <2>3. <<Do("prefix"), Call("operators", "", Task.n, i)>> \in Seq(Tasks)
    BY <2>2, Scripts
  <2>4. work' \in Seq(Tasks)
    BY <1>2, <2>1, <2>3, TaskFacts, Joined DEF ParseExpression
  <2> QED
    BY <1>2, <2>4 DEF ParseExpression, TypeOK, Eof
<1>3. CASE ParseOperator
  <2>1. /\ work # <<>> /\ Task \in Tasks /\ Task.from \in Nat
        /\ At(Operators) /\ Peek(0) \in Operators
    BY <1>3, DoingFacts, ArgumentFacts DEF ParseOperator, At
  <2>2. /\ Expression(Precedence[Peek(0)] + 1) \in Tasks
        /\ EndBinary(Task.from, i) \in Tasks
    <3>1. Precedence[Peek(0)] \in Nat
      BY <2>1, PrecedenceType
    <3>2. Precedence[Peek(0)] + 1 \in Nat
      BY <3>1
    <3> QED
      BY <1>1, <2>1, <3>2, TaskTypes
  <2>3. "EOF" \notin Operators
    BY DEF Operators
  <2> QED
    BY <1>3, <2>1, <2>2, <2>3, Accepted, Scripts DEF ParseOperator
<1>4. CASE ParseConditional
  <2>1. /\ work # <<>> /\ Task \in Tasks /\ Task.from \in Nat
        /\ At({"QUESTION"})
    BY <1>4, DoingFacts, ArgumentFacts DEF ParseConditional
  <2>2. /\ Expression(0) \in Tasks /\ Expect("COLON") \in Tasks
        /\ Expression(ConditionalPrecedence) \in Tasks
        /\ End("conditional", Task.from) \in Tasks
    BY <2>1, TaskTypes, KindTypes DEF NodeKinds, ConditionalPrecedence
  <2> QED
    BY <1>4, <2>1, <2>2, Accepted, Scripts DEF ParseConditional
<1>5. CASE OperatorsDone
  BY <1>5, DoingFacts, Expanded, Scripts DEF OperatorsDone
<1>6. CASE ParsePrefix
  <2>1. work # <<>>
    BY <1>6, DoingFacts DEF ParsePrefix
  <2>2. /\ Expression(UnaryPrecedence) \in Tasks /\ End("unary", i) \in Tasks
        /\ Do("primary") \in Tasks /\ Call("postfix", "", 0, i) \in Tasks
    BY <1>1, TaskTypes DEF UnaryPrecedence, NodeKinds, Plain, Counting
  <2> QED
    BY <1>6, <2>1, <2>2, Optional, Scripts DEF ParsePrefix
<1>7. CASE ParsePrimary
  <2>1. work # <<>> /\ Task.do \in Reporting
    BY <1>7, DoingFacts DEF ParsePrimary, Reporting
  <2>2. CASE At(Literals \cup Identifiers)
    <3>1. ~ At({"LBRACKET"}) /\ ~ At(Structures) /\ ~ At({"LPAREN"})
      BY <2>2 DEF At, Literals, Identifiers, Structures
    <3>2. MoveTo(i + 1, <<>>)
      BY <1>7, <2>2, <3>1 DEF ParsePrimary
    <3>3. "EOF" \notin Literals \cup Identifiers
      BY DEF Literals, Identifiers
    <3> QED
      BY <2>1, <2>2, <3>2, <3>3, Accepted, Scripts
  <2>3. CASE At({"LBRACKET"})
    <3>1. /\ ~ At(Literals \cup Identifiers) /\ ~ At(Structures)
          /\ ~ At({"LPAREN"})
      BY <2>3 DEF At, Literals, Identifiers, Structures
    <3>2. MoveTo(i + 1, <<List("elements"), Closing("RBRACKET"), End("tuple", i)>>)
      BY <1>7, <2>3, <3>1 DEF ParsePrimary
    <3>3. /\ List("elements") \in Tasks /\ Closing("RBRACKET") \in Tasks
          /\ End("tuple", i) \in Tasks
      BY <1>1, TaskTypes, KindTypes DEF ListEnd, NodeKinds
    <3> QED
      BY <2>1, <2>3, <3>2, <3>3, Accepted, Scripts
  <2>4. CASE At(Structures)
    <3>1. /\ ~ At(Literals \cup Identifiers) /\ ~ At({"LBRACKET"})
          /\ ~ At({"LPAREN"})
      BY <2>4 DEF At, Literals, Identifiers, Structures
    <3>2. Expand(<<Do(Peek(0)), End("structure", i)>>)
      BY <1>7, <2>4, <3>1 DEF ParsePrimary
    <3>3. Do(Peek(0)) \in Tasks /\ End("structure", i) \in Tasks
      BY <1>1, <2>4, TaskTypes DEF At, Structures, Plain, NodeKinds
    <3> QED
      BY <2>1, <3>2, <3>3, Expanded, Scripts
  <2>5. CASE At({"LPAREN"})
    <3>1. /\ ~ At(Literals \cup Identifiers) /\ ~ At({"LBRACKET"})
          /\ ~ At(Structures)
      BY <2>5 DEF At, Literals, Identifiers, Structures
    <3>2. MoveTo(i + 1, <<Expression(0), Closing("RPAREN")>>)
      BY <1>7, <2>5, <3>1 DEF ParsePrimary
    <3>3. Expression(0) \in Tasks /\ Closing("RPAREN") \in Tasks
      BY TaskTypes, KindTypes
    <3> QED
      BY <2>1, <2>5, <3>2, <3>3, Accepted, Scripts
  <2>6. CASE /\ ~ At(Literals \cup Identifiers) /\ ~ At({"LBRACKET"})
             /\ ~ At(Structures) /\ ~ At({"LPAREN"})
    <3>1. Fail(Advanced(i), <<>>)
      BY <1>7, <2>6 DEF ParsePrimary
    <3> QED
      BY <2>1, <3>1, Failed, Here, Scripts
  <2> QED
    BY <2>2, <2>3, <2>4, <2>5, <2>6
<1>8. CASE ParseMember
  <2>1. work # <<>> /\ Task.do \in Reporting
    BY <1>8, DoingFacts DEF ParseMember, Reporting
  <2>2. CASE At(NotMemberNames)
    BY <1>8, <2>1, <2>2, Failed, Here, Scripts DEF ParseMember
  <2>3. CASE ~ At(NotMemberNames)
    <3>1. i + 1 \in 1..Eof
      BY <2>3, Here, TokenFacts DEF At, NotMemberNames
    <3> QED
      BY <1>8, <2>1, <2>3, <3>1, Moved, Scripts DEF ParseMember
  <2> QED
    BY <2>2, <2>3
<1>9. CASE ParsePostfix
  <2>1. work # <<>> /\ Task \in Tasks /\ Task.from \in Nat
    BY <1>9, DoingFacts, ArgumentFacts DEF ParsePostfix
  <2>2. CASE At({"DOT", "LPAREN", "LBRACKET"}) \/ LooksLikeTemplate
    <3>1. Peek(0) \in {"DOT", "LT", "LPAREN", "LBRACKET"}
      BY <2>2 DEF At, LooksLikeTemplate
    <3>2. /\ PostfixBody[Peek(0)] \in Seq(Tasks)
          /\ PostfixNode[Peek(0)] \in NodeKinds
      BY <3>1, PostfixTypes
    <3>3. <<End(PostfixNode[Peek(0)], Task.from), Task>> \in Seq(Tasks)
      BY <2>1, <3>2, TaskTypes, Scripts
    <3>4. PostfixBody[Peek(0)] \o <<End(PostfixNode[Peek(0)], Task.from), Task>>
          \in Seq(Tasks)
      BY <3>2, <3>3, Joined
    <3>5. At({"DOT", "LT", "LPAREN", "LBRACKET"})
      BY <3>1 DEF At
    <3> QED
      BY <1>9, <2>1, <2>2, <3>4, <3>5, Accepted DEF ParsePostfix
  <2>3. CASE ~ (At({"DOT", "LPAREN", "LBRACKET"}) \/ LooksLikeTemplate)
    BY <1>9, <2>1, <2>3, Expanded, Scripts DEF ParsePostfix
  <2> QED
    BY <2>2, <2>3
<1>10. CASE ParseArgument
  <2>1. work # <<>> /\ <<Expression(0)>> \in Seq(Tasks)
    BY <1>10, DoingFacts, TaskTypes, Scripts DEF ParseArgument
  <2>2. (IF At(Identifiers \cup {"QUALIFIER"}) /\ Peek(1) = "EQ" THEN i + 2 ELSE i)
        \in 1..Eof
    <3>1. ASSUME At(Identifiers \cup {"QUALIFIER"}), Peek(1) = "EQ"
          PROVE  i + 2 \in 1..Eof
      <4>1. i + 1 \in 1..Eof
        BY <3>1, Here, TokenFacts DEF At, Identifiers
      <4>2. tokens[i + 1] = "EQ"
        BY <3>1, <4>1, Here DEF Peek
      <4>3. (i + 1) + 1 \in 1..Eof
        BY <4>1, <4>2, TokenFacts
      <4> QED
        BY <4>3, <1>1
    <3> QED
      BY <3>1, Here
  <2> QED
    BY <1>10, <2>1, <2>2, Moved DEF ParseArgument
<1> QED
  BY <1>2, <1>3, <1>4, <1>5, <1>6, <1>7, <1>8, <1>9, <1>10

LEMMA ForInType == ForIn \in Seq(Tasks)
BY TaskTypes, KindTypes, Scripts DEF ForIn, Plain

LEMMA NamesDoneType ==
  ASSUME Task.n \in Nat
  PROVE  NamesDone \in Seq(Tasks)
BY TaskTypes, KindTypes, Scripts DEF NamesDone, Counting

LEMMA ConditionAndLoopSteps ==
  ASSUME TypeOK,
         \/ ParseIf \/ ParseElse \/ ParseWhile \/ ParseFor \/ ParseForTarget
         \/ ParseForNames \/ ParseForComma \/ CheckForArity \/ ParseForRange
         \/ ParseForStep
  PROVE  TypeOK'
<1>1. CASE ParseIf
  BY <1>1, DoingFacts, Expanded, TaskTypes, KindTypes, Scripts
     DEF ParseIf, Plain
<1>2. CASE ParseElse
  <2>1. work # <<>>
    BY <1>2, DoingFacts DEF ParseElse
  <2>2. /\ <<Expression(0), Do("requiredBlock"), Do("else")>> \in Seq(Tasks)
        /\ <<Do("requiredBlock")>> \in Seq(Tasks)
    BY TaskTypes, Scripts DEF Plain
  <2>3. CASE At({"ELSE"}) /\ Peek(1) = "IF"
    <3>1. MoveTo(i + 2, <<Expression(0), Do("requiredBlock"), Do("else")>>)
      BY <1>2, <2>3 DEF ParseElse
    <3>2. i + 1 \in 1..Eof
      BY <2>3, Here
    <3>3. tokens[i + 1] = "IF"
      BY <2>3, <3>2, Here DEF Peek
    <3>4. (i + 1) + 1 \in 1..Eof
      BY <3>2, <3>3, TokenFacts
    <3>5. i + 2 \in 1..Eof
      BY <3>4, Here
    <3> QED
      BY <2>1, <2>2, <3>1, <3>5, Moved
  <2>4. CASE At({"ELSE"}) /\ Peek(1) # "IF"
    <3>1. MoveTo(i + 1, <<Do("requiredBlock")>>)
      BY <1>2, <2>4 DEF ParseElse
    <3> QED
      BY <2>1, <2>2, <2>4, <3>1, Accepted
  <2>5. CASE ~ At({"ELSE"})
    <3>1. Expand(<<>>)
      BY <1>2, <2>5 DEF ParseElse
    <3> QED
      BY <2>1, <3>1, Expanded, Scripts
  <2> QED
    BY <2>3, <2>4, <2>5
<1>3. CASE ParseWhile
  BY <1>3, DoingFacts, Expanded, TaskTypes, KindTypes, Scripts
     DEF ParseWhile, Plain
<1>4. CASE ParseFor
  BY <1>4, DoingFacts, Expanded, TaskTypes, KindTypes, Scripts
     DEF ParseFor, Plain
<1>5. CASE ParseForTarget
  <2>1. work # <<>>
    BY <1>5, DoingFacts DEF ParseForTarget
  <2>2. <<Names(0)>> \in Seq(Tasks)
    BY TaskTypes, Scripts
  <2>3. <<Names(0)>> \o ForIn \in Seq(Tasks)
    BY <2>2, ForInType, Joined
  <2>4. <<Expect("NAME"), Do("range")>> \in Seq(Tasks)
    BY TaskTypes, KindTypes, Scripts DEF Plain
  <2> QED
    BY <1>5, <2>1, <2>3, <2>4, Optional DEF ParseForTarget
<1>6. CASE ParseForNames
  <2>1. /\ work # <<>> /\ Task \in Tasks /\ Task.n \in Nat
        /\ Task.do \in Reporting
    BY <1>6, DoingFacts, ArgumentFacts DEF ParseForNames, Reporting
  <2>2. CASE At({"RBRACKET", "EOF"})
    <3>1. Expand(NamesDone)
      BY <1>6, <2>2 DEF ParseForNames, At, Identifiers
    <3> QED
      BY <2>1, <3>1, NamesDoneType, Expanded
  <2>3. CASE At(Identifiers)
    <3>1. MoveTo(i + 1, <<Call("nameComma", "", Task.n + 1, 0)>>)
      BY <1>6, <2>3 DEF ParseForNames, At, Identifiers
    <3>2. Task.n + 1 \in Nat
      BY <2>1
    <3>3. <<Call("nameComma", "", Task.n + 1, 0)>> \in Seq(Tasks)
      BY <3>2, TaskTypes, Scripts DEF Counting
    <3>4. "EOF" \notin Identifiers
      BY DEF Identifiers
    <3> QED
      BY <2>1, <2>3, <3>1, <3>3, <3>4, Accepted
  <2>4. CASE ~ At({"RBRACKET", "EOF"}) /\ ~ At(Identifiers)
    <3>1. Fail(i + 1, <<Task>>)
      BY <1>6, <2>4 DEF ParseForNames
    <3>2. i + 1 \in 1..Eof
      BY <2>4, Here, TokenFacts DEF At
    <3>3. <<Task>> \in Seq(Tasks)
      BY <2>1, Scripts
    <3> QED
      BY <2>1, <3>1, <3>2, <3>3, Failed
  <2> QED
    BY <2>2, <2>3, <2>4
<1>7. CASE ParseForComma
  <2>1. work # <<>> /\ Task.n \in Nat
    BY <1>7, DoingFacts, ArgumentFacts DEF ParseForComma
  <2>2. <<Names(Task.n)>> \in Seq(Tasks)
    BY <2>1, TaskTypes, Scripts
  <2> QED
    BY <1>7, <2>1, <2>2, NamesDoneType, Optional DEF ParseForComma
<1>8. CASE CheckForArity
  BY <1>8, DoingFacts, Expanded, Failed, Here, Scripts
     DEF CheckForArity, Reporting
<1>9. CASE ParseForRange
  <2>1. work # <<>>
    BY <1>9, DoingFacts DEF ParseForRange
  <2>2. /\ Expression(0) \in Tasks /\ Expect("TO") \in Tasks
        /\ Do("by") \in Tasks
        /\ Do("requiredBlock") \in Tasks
    BY TaskTypes, KindTypes DEF Plain
  <2> QED
    BY <1>9, <2>1, <2>2, ForInType, Optional, Scripts DEF ParseForRange
<1>10. CASE ParseForStep
  BY <1>10, DoingFacts, Optional, TaskTypes, Scripts DEF ParseForStep
<1> QED
  BY <1>1, <1>2, <1>3, <1>4, <1>5, <1>6, <1>7, <1>8, <1>9, <1>10

\* An INDENT in front of the next token: the tokens before it stay, the others
\* move up by one, and the EOF with them.
LEMMA EnsureIndentStep ==
  ASSUME TypeOK, EnsureIndent
  PROVE  TypeOK'
<1>1. work # <<>> /\ work' \in Seq(Tasks)
  BY DoingFacts, TaskFacts DEF EnsureIndent
<1>2. /\ tokens \in Seq(Kinds) /\ Len(tokens) \in Nat \ {0} /\ Eof = Len(tokens)
      /\ i \in 1..Len(tokens)
      /\ \A p \in 1..Len(tokens) : tokens[p] = "EOF" <=> p = Len(tokens)
  BY DEF TypeOK, Eof
<1>3. CASE At({"INDENT"})
  BY <1>1, <1>3 DEF EnsureIndent, TypeOK, Eof
<1>4. CASE ~ At({"INDENT"})
  <2> DEFINE before == SubSeq(tokens, 1, i - 1)
             after == SubSeq(tokens, i, Len(tokens))
             marked == before \o <<"INDENT">>
  <2>1. tokens' = marked \o after
    BY <1>2, <1>4 DEF EnsureIndent
  <2>2. \A p \in 1..Len(tokens) : tokens[p] \in Kinds
    BY <1>2, ElementOfSeq
  <2>3. /\ before \in Seq(Kinds) /\ Len(before) = i - 1
        /\ \A p \in 1..(i - 1) : before[p] = tokens[p]
    <3>1. \A p \in 1..(i - 1) : tokens[p] \in Kinds
      BY <1>2, <2>2
    <3>2. i - 1 \in Int /\ 1 \in Int
      BY <1>2
    <3>3. /\ before \in Seq(Kinds)
          /\ Len(before) = IF 1 <= i - 1 THEN i - 1 - 1 + 1 ELSE 0
          /\ \A p \in 1..(i - 1 - 1 + 1) : before[p] = tokens[1 + p - 1]
      BY <3>1, <3>2, SubSeqProperties
    <3> HIDE DEF before
    <3> QED
      BY <3>3, <1>2
  <2>4. /\ after \in Seq(Kinds) /\ Len(after) = Len(tokens) - i + 1
        /\ \A p \in 1..(Len(tokens) - i + 1) : after[p] = tokens[i + p - 1]
    <3>1. \A p \in i..Len(tokens) : tokens[p] \in Kinds
      BY <1>2, <2>2
    <3>2. i \in Int /\ Len(tokens) \in Int
      BY <1>2
    <3>3. /\ after \in Seq(Kinds)
          /\ Len(after) = IF i <= Len(tokens) THEN Len(tokens) - i + 1 ELSE 0
          /\ \A p \in 1..(Len(tokens) - i + 1) : after[p] = tokens[i + p - 1]
      BY <3>1, <3>2, SubSeqProperties
    <3> HIDE DEF after
    <3> QED
      BY <3>3, <1>2
  <2> HIDE DEF before, after
  <2>5. "INDENT" \in Kinds
    BY KindTypes
  <2>6. /\ marked \in Seq(Kinds) /\ Len(marked) = i
        /\ \A p \in 1..i : marked[p] = IF p <= i - 1 THEN tokens[p] ELSE "INDENT"
    <3>1. <<"INDENT">> \in Seq(Kinds) /\ Len(<<"INDENT">>) = 1
      BY <2>5
    <3>2. /\ marked \in Seq(Kinds)
          /\ Len(marked) = Len(before) + Len(<<"INDENT">>)
          /\ \A p \in 1..(Len(before) + Len(<<"INDENT">>)) :
               marked[p] = IF p <= Len(before) THEN before[p]
                           ELSE <<"INDENT">>[p - Len(before)]
      BY <2>3, <3>1, ConcatProperties
    <3>3. Len(marked) = i
      BY <2>3, <3>1, <3>2, <1>2
    <3>4. ASSUME NEW p \in 1..i
          PROVE  marked[p] = IF p <= i - 1 THEN tokens[p] ELSE "INDENT"
      <4>1. CASE p <= i - 1
        BY <4>1, <2>3, <3>1, <3>2, <1>2
      <4>2. CASE p = i
        <5>1. marked[p] = <<"INDENT">>[p - Len(before)] /\ p - Len(before) = 1
          BY <4>2, <2>3, <3>1, <3>2, <1>2
        <5> QED
          BY <5>1, <4>2, <1>2
      <4>3. p <= i - 1 \/ p = i
        BY <1>2
      <4> HIDE DEF marked
      <4> QED
        BY <4>1, <4>2, <4>3
    <3> QED
      BY <3>2, <3>3, <3>4
  <2> HIDE DEF marked
  <2>7. /\ tokens' \in Seq(Kinds) /\ Len(tokens') = Len(tokens) + 1
        /\ \A p \in 1..(Len(tokens) + 1) :
             tokens'[p] = IF p <= i THEN marked[p] ELSE after[p - i]
    <3>1. /\ marked \o after \in Seq(Kinds)
          /\ Len(marked \o after) = Len(marked) + Len(after)
          /\ \A p \in 1..(Len(marked) + Len(after)) :
               (marked \o after)[p] = IF p <= Len(marked) THEN marked[p]
                                      ELSE after[p - Len(marked)]
      BY <2>4, <2>6, ConcatProperties
    <3>2. Len(marked) + Len(after) = Len(tokens) + 1
      BY <2>4, <2>6, <1>2
    <3> QED
      BY <3>1, <3>2, <2>1, <2>6
  <2>8. ASSUME NEW p \in 1..(Len(tokens) + 1)
        PROVE  tokens'[p] = "EOF" <=> p = Len(tokens) + 1
    <3>1. CASE p <= i - 1
      BY <3>1, <2>6, <2>7, <1>2
    <3>2. CASE p = i
      BY <3>2, <2>6, <2>7, <1>2
    <3>3. CASE p > i
      <4>1. p - i \in 1..(Len(tokens) - i + 1) /\ p - 1 \in 1..Len(tokens)
        BY <3>3, <1>2
      <4>2. tokens'[p] = tokens[p - 1]
        <5>1. tokens'[p] = after[p - i]
          BY <3>3, <2>7, <1>2
        <5>2. after[p - i] = tokens[i + (p - i) - 1]
          BY <4>1, <2>4
        <5>3. i + (p - i) - 1 = p - 1
          BY <4>1, <1>2
        <5> QED
          BY <5>1, <5>2, <5>3
      <4> QED
        BY <4>1, <4>2, <1>2
    <3> QED
      BY <3>1, <3>2, <3>3, <1>2
  <2>9. i' = i /\ value' = value /\ errors' = errors /\ nodes' = nodes
    BY DEF EnsureIndent
  <2> QED
    BY <1>1, <1>2, <2>7, <2>8, <2>9 DEF TypeOK, Eof
<1> QED
  BY <1>3, <1>4

LEMMA SwitchSteps ==
  ASSUME TypeOK,
         ParseSwitch \/ ParseSubject \/ Cases \/ ParseCase \/ ParseArm
  PROVE  TypeOK'
<1>1. CASE ParseSwitch
  <2>1. /\ Expect("SWITCH") \in Tasks /\ Do("subject") \in Tasks
        /\ Expect("NEWLINE") \in Tasks /\ Do("ensureIndent") \in Tasks
        /\ Indented("cases") \in Tasks
    BY TaskTypes, KindTypes DEF Plain, Bodies
  <2> QED
    BY <1>1, <2>1, DoingFacts, Expanded, Scripts DEF ParseSwitch
<1>2. CASE ParseSubject
  BY <1>2, DoingFacts, Expanded, TaskTypes, Scripts DEF ParseSubject
<1>3. CASE Cases
  <2>1. <<Do("case")>> \in Seq(Tasks)
    BY TaskTypes, Scripts DEF Plain
  <2>2. PastNewlines \in 1..Eof
    BY PastFacts, Here DEF PastNewlines
  <2> QED
    BY <1>3, <2>1, <2>2, LinesStep DEF Cases, Bodies
<1>4. CASE ParseCase
  <2>1. /\ (IF At({"ARROW"}) THEN <<>> ELSE <<Expression(0)>>) \in Seq(Tasks)
        /\ <<Expect("ARROW"), Do("arm"), End("case", i)>> \in Seq(Tasks)
    <3>1. i \in Nat
      BY Here
    <3>2. <<>> \in Seq(Tasks) /\ <<Expression(0)>> \in Seq(Tasks)
      BY TaskTypes, Scripts
    <3>3. /\ Expect("ARROW") \in Tasks /\ Do("arm") \in Tasks
          /\ End("case", i) \in Tasks
      BY <3>1, TaskTypes, KindTypes DEF Plain, NodeKinds, LineNodes
    <3> QED
      BY <3>2, <3>3, Scripts
  <2>2. (IF At({"ARROW"}) THEN <<>> ELSE <<Expression(0)>>) \o
        <<Expect("ARROW"), Do("arm"), End("case", i)>> \in Seq(Tasks)
    BY <2>1, Joined
  <2> QED
    BY <1>4, <2>2, DoingFacts, Expanded DEF ParseCase
<1>5. CASE ParseArm
  <2>1. /\ <<Do("ensureIndent"), Indented("statements")>> \in Seq(Tasks)
        /\ <<Do("inline")>> \in Seq(Tasks)
    BY TaskTypes, Scripts DEF Plain, Bodies
  <2> QED
    BY <1>5, <2>1, DoingFacts, Optional DEF ParseArm
<1> QED
  BY <1>1, <1>2, <1>3, <1>4, <1>5

\* After the mode and the qualifier of a declaration there is a token.
LEMMA ModifiedFacts ==
  ASSUME TypeOK, NEW p \in 1..Eof
  PROVE  Modified(p) \in 1..Eof
<1> DEFINE q == IF tokens[p] = "MODE" THEN p + 1 ELSE p
<1>1. q \in 1..Eof
  BY TokenFacts
<1>2. (IF tokens[q] = "QUALIFIER" THEN q + 1 ELSE q) \in 1..Eof
  <2> HIDE DEF q
  <2> QED
    BY <1>1, TokenFacts
<1> QED
  BY <1>2 DEF Modified

LEMMA StatementSteps ==
  ASSUME TypeOK,
         \/ InlineBody \/ InlineAssignment \/ InlineComma \/ ParseVarDecl
         \/ ParseStatement \/ EndStatement
  PROVE  TypeOK'
<1>1. <<>> \in Seq(Tasks) /\ <<Newline>> \in Seq(Tasks)
      /\ <<Expression(0)>> \in Seq(Tasks)
      /\ <<Expression(0), Newline>> \in Seq(Tasks)
      /\ <<Do("inline")>> \in Seq(Tasks)
  BY TaskTypes, Scripts DEF Plain
<1>2. CASE InlineBody
  <2>1. /\ <<Do("var"), Do("inlineComma")>> \in Seq(Tasks)
       
        /\ <<Expression(0), Do("inlineAssignment"), Do("inlineComma")>> \in Seq(Tasks)
    BY TaskTypes, Scripts DEF Plain
  <2> QED
    BY <1>1, <1>2, <2>1, DoingFacts, Expanded DEF InlineBody
<1>3. CASE InlineAssignment
  BY <1>1, <1>3, DoingFacts, Optional DEF InlineAssignment
<1>4. CASE InlineComma
  BY <1>1, <1>4, DoingFacts, Optional DEF InlineComma
<1>5. CASE ParseVarDecl
  <2>1. /\ (IF LooksLikeTypeAnnotation(Modified(i))
            THEN <<Do("type reference")>> ELSE <<>>) \in Seq(Tasks)
       
        /\ <<Expect("NAME"), Expect("EQ"), Expression(0), Newline>> \in Seq(Tasks)
    BY TaskTypes, KindTypes, Scripts DEF Plain
  <2>2. (IF LooksLikeTypeAnnotation(Modified(i))
         THEN <<Do("type reference")>> ELSE <<>>) \o
        <<Expect("NAME"), Expect("EQ"), Expression(0), Newline>> \in Seq(Tasks)
    BY <2>1, Joined
  <2>3. Modified(i) \in 1..Eof
    BY Here, ModifiedFacts
  <2> QED
    BY <1>5, <2>2, <2>3, DoingFacts, Moved DEF ParseVarDecl
<1>6. CASE ParseStatement
  <2>1. PastNewlines \in 1..Eof /\ PastNewlines \in Nat
    BY PastFacts, Here DEF PastNewlines
  <2>2. Statement(PastNewlines) \in Seq(Tasks)
    BY <2>1, StatementType
  <2> QED
    BY <1>6, <2>1, <2>2, DoingFacts, Moved DEF ParseStatement
<1>7. CASE EndStatement
  <2>1. work # <<>> /\ Task.do \in Reporting
    BY <1>7, DoingFacts DEF EndStatement, Reporting
  <2>2. CASE At({"ASSIGN"})
    <3>1. MoveTo(i + 1, <<Expression(0), Newline>>)
      BY <1>7, <2>2 DEF EndStatement, At, Boundary
    <3> QED
      BY <1>1, <2>1, <2>2, <3>1, Accepted
  <2>3. CASE At(Boundary)
    <3>1. MoveTo(AfterNewline(i), <<>>)
      BY <1>7, <2>3 DEF EndStatement, At, Boundary
    <3> QED
      BY <1>1, <2>1, <3>1, Here, Moved
  <2>4. CASE ~ At({"ASSIGN"}) /\ ~ At(Boundary)
    <3>1. Fail(LineEnd(i), <<>>)
      BY <1>7, <2>4 DEF EndStatement
    <3>2. "EOF" \notin Kinds \ Boundary
      BY DEF Boundary
    <3>3. Past(i, Kinds \ Boundary) \in 1..Eof
      BY <3>2, Here, PastFacts
    <3>4. LineEnd(i) \in 1..Eof
      BY <3>3, TokenFacts DEF LineEnd
    <3> QED
      BY <1>1, <2>1, <3>1, <3>4, Failed
  <2> QED
    BY <2>2, <2>3, <2>4
<1> QED
  BY <1>2, <1>3, <1>4, <1>5, <1>6, <1>7

LEMMA TypeAndParameterSteps ==
  ASSUME TypeOK,
         \/ ParseTypeRef \/ ParseTypeName \/ ParseArraySuffix \/ ParseParameter
         \/ ParseDefault
  PROVE  TypeOK'
<1>1. CASE ParseTypeRef
  <2>1. <<Expect("NAME"), Do("dots")>> \in Seq(Tasks)
    BY TaskTypes, KindTypes, Scripts DEF Plain
  <2> QED
    BY <1>1, <2>1, DoingFacts, Expanded DEF ParseTypeRef
<1>2. CASE ParseTypeName
  <2>1. work # <<>> /\ Task \in Tasks
    BY <1>2, DoingFacts DEF ParseTypeName
  <2>2. /\ Expect("NAME") \in Tasks /\ Expect("GT") \in Tasks
        /\ List("types") \in Tasks /\ Do("array") \in Tasks
    BY TaskTypes, KindTypes DEF Plain, ListEnd
  <2>3. CASE At({"DOT"})
    <3>1. MoveTo(i + 1, <<Expect("NAME"), Task>>)
      BY <1>2, <2>3 DEF ParseTypeName, At
    <3> QED
      BY <2>1, <2>2, <2>3, <3>1, Accepted, Scripts
  <2>4. CASE At({"LT"})
    <3>1. MoveTo(i + 1, <<List("types"), Expect("GT"), Do("array")>>)
      BY <1>2, <2>4 DEF ParseTypeName, At
    <3> QED
      BY <2>1, <2>2, <2>4, <3>1, Accepted, Scripts
  <2>5. CASE ~ At({"DOT"}) /\ ~ At({"LT"})
    <3>1. Expand(<<Do("array")>>)
      BY <1>2, <2>5 DEF ParseTypeName
    <3> QED
      BY <2>1, <2>2, <3>1, Expanded, Scripts
  <2> QED
    BY <2>3, <2>4, <2>5
<1>3. CASE ParseArraySuffix
  <2>1. <<Expect("RBRACKET")>> \in Seq(Tasks) /\ <<>> \in Seq(Tasks)
    BY TaskTypes, KindTypes, Scripts
  <2> QED
    BY <1>3, <2>1, DoingFacts, Optional DEF ParseArraySuffix
<1>4. CASE ParseParameter
  <2> DEFINE p == IF At({"QUALIFIER"}) THEN i + 1 ELSE i
             annotated == IF LooksLikeTypeAnnotation(p)
                          THEN <<Do("type reference")>> ELSE <<>>
  <2>1. p \in 1..Eof
    BY Here
  <2>2. /\ annotated \in Seq(Tasks)
        /\ <<Expect("NAME"), Do("default")>> \in Seq(Tasks)
    <3> HIDE DEF p
    <3> QED
      BY TaskTypes, KindTypes, Scripts DEF Plain
  <2>3. annotated \o <<Expect("NAME"), Do("default")>> \in Seq(Tasks)
    BY <2>2, Joined
  <2>4. work # <<>>
    BY <1>4, DoingFacts DEF ParseParameter
  <2>5. MoveTo(p, annotated \o <<Expect("NAME"), Do("default")>>)
    BY <1>4 DEF ParseParameter
  <2> HIDE DEF p, annotated
  <2> QED
    BY <2>1, <2>3, <2>4, <2>5, Moved
<1>5. CASE ParseDefault
  BY <1>5, DoingFacts, Optional, TaskTypes, Scripts DEF ParseDefault
<1> QED
  BY <1>1, <1>2, <1>3, <1>4, <1>5

LEMMA CallableSteps ==
  ASSUME TypeOK,
         \/ ParseFunctionDecl \/ ParseMethodDecl \/ ParseReceiver
         \/ ParseOtherParameters \/ ParseFunctionBody
  PROVE  TypeOK'
<1>1. List("parameters") \in Tasks
  BY TaskTypes DEF ListEnd
<1>2. /\ Expect("NAME") \in Tasks /\ Expect("LPAREN") \in Tasks
      /\ Expect("RPAREN") \in Tasks /\ Expect("ARROW") \in Tasks
      /\ Expect("METHOD") \in Tasks
  BY TaskTypes, KindTypes
<1>3. /\ Do("body") \in Tasks /\ Do("receiver") \in Tasks
      /\ Do("otherParameters") \in Tasks /\ Do("type reference") \in Tasks
      /\ Do("inline") \in Tasks
  BY TaskTypes DEF Plain
<1>4. CASE ParseFunctionDecl
  BY <1>1, <1>2, <1>3, <1>4, DoingFacts, Expanded, Scripts DEF ParseFunctionDecl
<1>5. CASE ParseMethodDecl
  BY <1>2, <1>3, <1>5, DoingFacts, Expanded, Scripts DEF ParseMethodDecl
<1>6. CASE ParseReceiver
  BY <1>2, <1>3, <1>6, DoingFacts, Expanded, Scripts DEF ParseReceiver
<1>7. CASE ParseOtherParameters
  BY <1>1, <1>7, DoingFacts, Optional, Scripts DEF ParseOtherParameters
<1>8. CASE ParseFunctionBody
  <2>1. Indented("statements") \in Tasks
    BY TaskTypes DEF Bodies
  <2> QED
    BY <1>3, <1>8, <2>1, DoingFacts, Optional, Scripts DEF ParseFunctionBody
<1> QED
  BY <1>4, <1>5, <1>6, <1>7, <1>8

LEMMA DeclarationSteps ==
  ASSUME TypeOK,
         \/ ParseTypeDecl \/ Fields \/ ParseField \/ ParseEnumDecl \/ Members
         \/ ParseTitle \/ ParseImport \/ ParseImportPath
  PROVE  TypeOK'
<1>1. /\ Expect("TYPE") \in Tasks /\ Expect("ENUM") \in Tasks
      /\ Expect("IMPORT") \in Tasks /\ Expect("NAME") \in Tasks
      /\ Expect("NEWLINE") \in Tasks /\ Newline \in Tasks
      /\ Indented("fields") \in Tasks /\ Indented("members") \in Tasks
  BY TaskTypes, KindTypes DEF Bodies
<1>2. /\ Do("type reference") \in Tasks /\ Do("default") \in Tasks
      /\ Do("title") \in Tasks /\ Do("path") \in Tasks
      /\ <<Do("field")>> \in Seq(Tasks)
  BY TaskTypes, Scripts DEF Plain
<1>3. PastNewlines \in 1..Eof /\ PastNewlines \in Nat
  BY PastFacts, Here DEF PastNewlines
<1>4. CASE ParseTypeDecl
  BY <1>1, <1>4, DoingFacts, Expanded, Scripts DEF ParseTypeDecl
<1>5. CASE Fields
  BY <1>2, <1>3, <1>5, LinesStep DEF Fields, Bodies
<1>6. CASE ParseField
  <2> DEFINE p == Past(i, Annotations \cup {"NEWLINE"})
  <2>1. p \in 1..Eof /\ p \in Nat
    BY PastFacts, Here DEF Annotations
  <2>2. work # <<>>
    BY <1>6, DoingFacts DEF ParseField
  <2>3. MoveTo(p, <<Do("type reference"), Expect("NAME"), Do("default"),
                    Newline, End("field", p)>>)
    BY <1>6 DEF ParseField
  <2> HIDE DEF p
  <2>4. End("field", p) \in Tasks
    BY <2>1, TaskTypes DEF NodeKinds, LineNodes
  <2> QED
    BY <1>1, <1>2, <2>1, <2>2, <2>3, <2>4, Moved, Scripts
<1>7. CASE ParseEnumDecl
  BY <1>1, <1>7, DoingFacts, Expanded, Scripts DEF ParseEnumDecl
<1>8. CASE Members
  <2>1. End("member", PastNewlines) \in Tasks
    BY <1>3, TaskTypes DEF NodeKinds, LineNodes
  <2>2. <<Expect("NAME"), Do("title"), Newline, End("member", PastNewlines)>>
        \in Seq(Tasks)
    BY <1>1, <1>2, <2>1, Scripts
  <2> QED
    BY <1>3, <1>8, <2>2, LinesStep DEF Members, Bodies
<1>9. CASE ParseTitle
  BY <1>9, DoingFacts, Here, Moved, Scripts DEF ParseTitle
<1>10. CASE ParseImport
  BY <1>1, <1>2, <1>10, DoingFacts, Expanded, Scripts DEF ParseImport
<1>11. CASE ParseImportPath
  <2> DEFINE p == Past(i, Identifiers \cup {"INTEGER", "SLASH"})
  <2>1. p \in 1..Eof
    BY PastFacts, Here DEF Identifiers
  <2>2. work # <<>>
    BY <1>11, DoingFacts DEF ParseImportPath
  <2>3. IF tokens[p] = "AS" THEN MoveTo(p + 1, <<Expect("NAME")>>)
        ELSE MoveTo(p, <<>>)
    BY <1>11 DEF ParseImportPath
  <2>4. <<Expect("NAME")>> \in Seq(Tasks) /\ <<>> \in Seq(Tasks)
    BY <1>1, Scripts
  <2> HIDE DEF p
  <2> QED
    BY <2>1, <2>2, <2>3, <2>4, Moved, TokenFacts
<1> QED
  BY <1>4, <1>5, <1>6, <1>7, <1>8, <1>9, <1>10, <1>11

LEMMA ProgramSteps ==
  ASSUME TypeOK,
         \/ ParseVersion \/ ParseLeading \/ MoreImports \/ ParseItems
         \/ ParseItem \/ ParseDeclaration
  PROVE  TypeOK'
<1>1. /\ PastNewlines \in 1..Eof /\ tokens[PastNewlines] \in Kinds
      /\ i \in 1..Eof /\ i \in Nat
  BY PastFacts, Here, TokenFacts DEF PastNewlines
<1>2. /\ Do("leading") \in Tasks /\ Do("moreImports") \in Tasks
      /\ Do("items") \in Tasks /\ Do("item") \in Tasks /\ Do("IMPORT") \in Tasks
  BY TaskTypes DEF Plain
<1>3. /\ End("item", i) \in Tasks /\ End("statement", i) \in Tasks
  BY <1>1, TaskTypes DEF NodeKinds, LineNodes
<1>4. CASE ParseVersion
  <2> DEFINE q == IF tokens[PastNewlines] = "VERSION" THEN PastNewlines + 1
                  ELSE PastNewlines
  <2>1. q \in 1..Eof
    BY <1>1, TokenFacts
  <2>2. work # <<>> /\ <<Do("leading")>> \in Seq(Tasks)
    BY <1>2, <1>4, DoingFacts, Scripts DEF ParseVersion
  <2>3. MoveTo(Past(q, {"NEWLINE"}), <<Do("leading")>>)
    BY <1>4 DEF ParseVersion
  <2> HIDE DEF q
  <2>4. Past(q, {"NEWLINE"}) \in 1..Eof
    BY <2>1, PastFacts
  <2> QED
    BY <2>2, <2>3, <2>4, Moved
<1>5. CASE ParseLeading
  <2>1. work # <<>>
    BY <1>5, DoingFacts DEF ParseLeading
  <2>2. CASE At({"IMPORT"})
    <3>1. ~ LooksLikeDeclaration(i)
      BY <1>1, <2>2, Here DEF At, LooksLikeDeclaration
    <3>2. Expand(<<Do("IMPORT"), End("item", i), Do("moreImports")>>)
      BY <1>5, <2>2, <3>1 DEF ParseLeading
    <3> QED
      BY <1>2, <1>3, <2>1, <3>2, Expanded, Scripts
  <2>3. CASE ~ At({"IMPORT"}) /\ LooksLikeDeclaration(i)
    <3>1. Expand(Declaration(i, "leading") \o <<Do("items")>>)
      BY <1>5, <2>3 DEF ParseLeading
    <3>2. /\ Declaration(i, "leading") \in Seq(Tasks)
          /\ <<Do("items")>> \in Seq(Tasks)
      BY <1>1, <1>2, DeclarationType, Scripts DEF Fallbacks
    <3>3. Declaration(i, "leading") \o <<Do("items")>> \in Seq(Tasks)
      BY <3>2, Joined
    <3> QED
      BY <2>1, <3>1, <3>3, Expanded
  <2>4. CASE ~ At({"IMPORT"}) /\ ~ LooksLikeDeclaration(i)
    <3>1. Expand(<<Do("items")>>)
      BY <1>5, <2>4 DEF ParseLeading
    <3> QED
      BY <1>2, <2>1, <3>1, Expanded, Scripts
  <2> QED
    BY <2>2, <2>3, <2>4
<1>6. CASE MoreImports
  BY <1>1, <1>2, <1>6, DoingFacts, Moved, Scripts DEF MoreImports
<1>7. CASE ParseItems
  <2> DEFINE p == Past(i, Annotations \cup {"NEWLINE"})
             rest == IF tokens[p] = "EOF" THEN <<>> ELSE <<Do("item"), Do("items")>>
  <2>1. p \in 1..Eof
    BY PastFacts, Here DEF Annotations
  <2>2. work # <<>>
    BY <1>7, DoingFacts DEF ParseItems
  <2>3. MoveTo(p, rest)
    BY <1>7 DEF ParseItems
  <2>4. rest \in Seq(Tasks)
    <3> HIDE DEF p
    <3> QED
      BY <1>2, Scripts
  <2> HIDE DEF p, rest
  <2> QED
    BY <2>1, <2>2, <2>3, <2>4, Moved
<1>8. CASE ParseItem
  <2>1. /\ Item(i + 1, TRUE) \in Seq(Tasks)
        /\ Item(i, FALSE) \in Seq(Tasks)
    BY ItemType
  <2> QED
    BY <1>8, <2>1, DoingFacts, Optional DEF ParseItem
<1>9. CASE ParseDeclaration
  <2>1. work # <<>> /\ Task.from \in Nat
    BY <1>9, DoingFacts, ArgumentFacts DEF ParseDeclaration
  <2>2. CASE value = "call"
    <3>1. Expand(<<End("declaration", Task.from)>>)
      BY <1>9, <2>2 DEF ParseDeclaration
    <3>2. <<End("declaration", Task.from)>> \in Seq(Tasks)
      BY <2>1, TaskTypes, Scripts DEF NodeKinds, LineNodes
    <3> QED
      BY <2>1, <3>1, <3>2, Expanded
  <2>3. CASE value # "call" /\ Task.arg = "leading"
    <3>1. Expand(<<>>)
      BY <1>9, <2>3 DEF ParseDeclaration
    <3> QED
      BY <2>1, <3>1, Expanded, Scripts
  <2>4. CASE value # "call" /\ Task.arg = "statement"
    <3>1. Expand(Simple(i) \o <<End("statement", i)>>)
      BY <1>9, <2>4 DEF ParseDeclaration
    <3>2. <<End("statement", i)>> \in Seq(Tasks)
      BY <1>3, Scripts
    <3>3. Simple(i) \o <<End("statement", i)>> \in Seq(Tasks)
      BY <3>2, SimpleType, Joined
    <3> QED
      BY <2>1, <3>1, <3>3, Expanded
  <2>5. CASE value # "call" /\ Task.arg \notin {"leading", "statement"}
    <3>1. Expand(OtherItem(i, Task.arg = "export") \o <<End("item", i)>>)
      BY <1>9, <2>5 DEF ParseDeclaration
    <3>2. <<End("item", i)>> \in Seq(Tasks)
      BY <1>3, Scripts
    <3>3. OtherItem(i, Task.arg = "export") \in Seq(Tasks)
      BY OtherItemType
    <3>4. OtherItem(i, Task.arg = "export") \o <<End("item", i)>> \in Seq(Tasks)
      BY <3>2, <3>3, Joined
    <3> QED
      BY <2>1, <3>1, <3>4, Expanded
  <2> QED
    BY <2>2, <2>3, <2>4, <2>5
<1> QED
  BY <1>4, <1>5, <1>6, <1>7, <1>8, <1>9

-----------------------------------------------------------------------------
(* The theorem. *)

LEMMA InitialType == Init => TypeOK
<1> SUFFICES ASSUME Init
             PROVE  TypeOK
  OBVIOUS
<1>1. /\ tokens \in Seq(Kinds) /\ Eof \in Nat \ {0}
      /\ \A p \in 1..Eof : tokens[p] = "EOF" <=> p = Eof
      /\ i \in 1..Eof
  BY ParserAssumption DEF Init, Eof
<1>2. work \in Seq(Tasks)
  BY TaskTypes, Scripts DEF Init, Plain
<1>3. value \in NodeKinds \cup {"none"}
  BY DEF Init
<1>4. /\ errors \in Seq([at : Nat, by : Reporting])
      /\ Len(errors) <= MaxDiagnostics
  BY ParserAssumption, EmptySeq DEF Init
<1>5. nodes \subseteq [kind : NodeKinds, from : Nat, to : Nat, n : Nat]
  BY DEF Init
<1> QED
  BY <1>1, <1>2, <1>3, <1>4, <1>5 DEF TypeOK

LEMMA Step ==
  ASSUME TypeOK, Next
  PROVE  TypeOK'
BY TokenSteps, BlockSteps, ExpressionSteps, ConditionAndLoopSteps,
   EnsureIndentStep, SwitchSteps, StatementSteps, TypeAndParameterSteps,
   CallableSteps, DeclarationSteps, ProgramSteps
   DEF Next

\* In every program, well-formed or not, the index stays on a token, the EOF
\* stays the last one, also when an INDENT is added, and no call ever waits for
\* the EOF (_advance, _expect and the loops of parser/).
THEOREM ParserTypeCorrect == Spec => []TypeOK
<1>1. TypeOK /\ [Next]_vars => TypeOK'
  <2> SUFFICES ASSUME TypeOK, [Next]_vars
               PROVE  TypeOK'
    OBVIOUS
  <2>1. CASE Next
    BY <2>1, Step
  <2>2. CASE UNCHANGED vars
    BY <2>2 DEF vars, TypeOK, Eof
  <2> QED
    BY <2>1, <2>2
<1> QED
  BY InitialType, <1>1, PTL DEF Spec
=============================================================================
