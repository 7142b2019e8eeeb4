------------------------------- MODULE Parser -------------------------------
(***************************************************************************)
(* The recursive-descent parser (parser/): how the token index moves over  *)
(* the tokens of the layout processor, what is reported, where it recovers *)
(* and which stretches of tokens become nodes.                             *)
(*                                                                         *)
(* The call stack is a sequence of tasks, the next one first: a step runs  *)
(* one task, which moves the index or is replaced by the tasks of its      *)
(* body.  A token is cut down to its kind (the literals, the assignments   *)
(* and the operators of one precedence to one kind each; an identifier     *)
(* that names a script type is a HEAD), a node to the tokens it spans.     *)
(* What nodes and documentation contain is left out.                       *)
(***************************************************************************)
EXTENDS Integers, Sequences, FiniteSets

CONSTANTS
  Programs,      \* the sequences of tokens to parse
  MaxDiagnostics \* max_diagnostics

Operators == {"OR", "AND", "EQEQ", "LT", "GT", "PLUS", "MINUS", "STAR", "SLASH"}

Precedence ==
  [operator \in Operators |->
     CASE operator = "OR" -> 10
       [] operator = "AND" -> 20
       [] operator = "EQEQ" -> 30
       [] operator \in {"LT", "GT"} -> 40
       [] operator \in {"PLUS", "MINUS"} -> 50
       [] operator \in {"STAR", "SLASH"} -> 60]

ConditionalPrecedence == 5
UnaryPrecedence == 70

Identifiers == {"NAME", "HEAD"}
Literals == {"INTEGER", "STRING", "VALUE"}
Annotations == {"VERSION", "ANNOTATION"}

Structures == {"IF", "SWITCH", "FOR", "WHILE"}

Kinds ==
  UNION {Operators, Identifiers, Literals, Annotations, Structures,
         {"NOT", "QUESTION", "COLON", "COMMA", "DOT", "ARROW", "EQ", "ASSIGN",
          "LPAREN", "RPAREN", "LBRACKET", "RBRACKET", "MODE", "QUALIFIER",
          "ELSE", "IN", "TO", "BY", "BREAK", "CONTINUE", "IMPORT", "AS",
          "EXPORT", "TYPE", "ENUM", "METHOD",
          "NEWLINE", "INDENT", "DEDENT", "EOF"}}

\* The parser is only given what ends in its only EOF.
ASSUME ParserAssumption ==
  /\ MaxDiagnostics \in Nat
  /\ \A program \in Programs :
       /\ program \in Seq(Kinds) /\ Len(program) \in Nat \ {0}
       /\ \A p \in 1..Len(program) : program[p] = "EOF" <=> p = Len(program)

VARIABLES
  tokens, \* self.tokens
  i,      \* self.i
  work,   \* the tasks left to run
  value,  \* the class of the expression parsed last
  errors, \* the diagnostics: where, and by which task
  nodes   \* the nodes built: [kind, from, to, n]

vars == <<tokens, i, work, value, errors, nodes>>

-----------------------------------------------------------------------------
(* Tasks. *)

\* A call, with its argument, the number and the position it is given.
Call(name, arg, n, from) == [do |-> name, arg |-> arg, n |-> n, from |-> from]

Do(name) == Call(name, "", 0, 0)
Expect(kind) == Call("expect", kind, 0, 0)
Closing(kind) == Call("closing", kind, 0, 0)
Newline == Do("newline")
Expression(precedence) == Call("expression", "", precedence, 0)
End(node, from) == Call("end", node, 0, from)
EndBinary(from, position) == Call("end", "binary", position, from)
Indented(body) == Call("indented", body, 0, 0)
List(item) == Call("list", item, 0, 0)
Comma(item) == Call("comma", item, 0, 0)
Names(count) == Call("names", "", count, 0)

-----------------------------------------------------------------------------
(* Reading the tokens. *)

Eof == Len(tokens)

\* _peek: never past the EOF.
Peek(n) == IF i + n <= Eof THEN tokens[i + n] ELSE tokens[Eof]

At(kinds) == Peek(0) \in kinds

\* Where a loop that advances over tokens of these kinds stops.
Past(p, kinds) ==
  CHOOSE q \in p..Eof : /\ tokens[q] \notin kinds
                        /\ \A r \in p..(q - 1) : tokens[r] \in kinds

PastNewlines == Past(i, {"NEWLINE"})

\* _consume_optional_newline, for a position.
AfterNewline(p) == IF tokens[p] = "NEWLINE" THEN p + 1 ELSE p

Boundary == {"NEWLINE", "DEDENT", "EOF"}
BlockEnd == {"DEDENT", "EOF"}

MutantAdvanced(p) == p + 1

\* _advance: the EOF stays.
Advanced(p) == IF tokens[p] = "EOF" THEN p ELSE p + 1

\* _recover_to_line_end.
LineEnd(p) == AfterNewline(Past(p, Kinds \ Boundary))

-----------------------------------------------------------------------------
(* Lookahead. *)

\* _scan_type_ref: the position after a type reference, or after the list of
\* them that fills a template and its GT; 0 if there is none.
TypeScan ==
  LET dotted[p \in 1..Eof] ==
        IF tokens[p] = "DOT" /\ tokens[p + 1] \in Identifiers
        THEN dotted[p + 2] ELSE p
      array(p) ==
        IF p # 0 /\ tokens[p] = "LBRACKET" /\ tokens[p + 1] = "RBRACKET"
        THEN p + 2 ELSE p
      scan[what \in {"type", "list"}, p \in 1..Eof] ==
        IF what = "type"
        THEN IF tokens[p] \notin Identifiers THEN 0
             ELSE LET named == dotted[p + 1]
                  IN  array(IF tokens[named] = "LT" THEN scan["list", named + 1]
                            ELSE named)
        ELSE LET next == scan["type", p]
             IN  CASE next = 0 -> 0
                   [] next # 0 /\ tokens[next] = "COMMA" -> scan["list", next + 1]
                   [] next # 0 /\ tokens[next] = "GT" -> next + 1
                   [] OTHER -> 0
  IN  scan

LooksLikeTypeAnnotation(p) ==
  LET next == TypeScan["type", p]
  IN  /\ next # 0 /\ tokens[next] \in Identifiers
      /\ tokens[next + 1] \in {"EQ", "COMMA", "RPAREN"}

\* After the mode and the qualifier of a declaration.
Modified(p) ==
  LET q == IF tokens[p] = "MODE" THEN p + 1 ELSE p
  IN  IF tokens[q] = "QUALIFIER" THEN q + 1 ELSE q

LooksLikeVarDecl(p) ==
  LET q == Modified(p)
      next == TypeScan["type", q]
  IN  \/ tokens[q] \in Identifiers /\ tokens[q + 1] = "EQ"
      \/ LooksLikeTypeAnnotation(q) /\ tokens[next + 1] = "EQ"

LooksLikeTemplate ==
  /\ At({"LT"})
  /\ LET next == TypeScan["list", i + 1]
     IN  next # 0 /\ tokens[next] \in {"LPAREN", "DOT"}

LooksLikeTuple(p) ==
  LET close == Past(p + 1, Kinds \ {"RBRACKET", "EOF"})
  IN  /\ tokens[p] = "LBRACKET"
      /\ \E q \in (p + 1)..close : tokens[q] = "COMMA"
      /\ tokens[close] = "RBRACKET" /\ tokens[close + 1] = "EQ"

LooksLikeDeclaration(p) == tokens[p] = "HEAD" /\ tokens[p + 1] = "LPAREN"

Unclosed(p, q) ==
  LET count[r \in (p - 1)..q] ==
        IF r = p - 1 THEN 0
        ELSE CASE tokens[r] = "LPAREN" -> count[r - 1] + 1
               [] tokens[r] = "RPAREN" -> count[r - 1] - 1
               [] OTHER -> count[r - 1]
  IN  count[q]

\* The bracket opened after the name closes on the same line, before an arrow.
LooksLikeFunction(p) ==
  /\ tokens[p] \in Identifiers /\ tokens[p + 1] = "LPAREN"
  /\ \E q \in (p + 2)..Past(p, Kinds \ {"NEWLINE", "EOF"}) :
       /\ tokens[q] = "RPAREN" /\ tokens[q + 1] = "ARROW"
       /\ Unclosed(p, q) = 0
       /\ \A r \in (p + 1)..(q - 1) : Unclosed(p, r) > 0

-----------------------------------------------------------------------------
(* Running tasks. *)

Doing(name) == work # <<>> /\ Head(work).do = name

Task == Head(work)

\* The task moves to p, and the tasks of script follow.
MoveTo(p, script) ==
  /\ i' = p
  /\ work' = script \o Tail(work)
  /\ UNCHANGED <<tokens, value, errors, nodes>>

Expand(script) == MoveTo(i, script)

\* _diag: a diagnostic at the next token.
Fail(p, script) ==
  /\ errors' = IF Len(errors) < MaxDiagnostics
               THEN Append(errors, [at |-> i, by |-> Task.do]) ELSE errors
  /\ i' = p
  /\ work' = script \o Tail(work)
  /\ UNCHANGED <<tokens, value, nodes>>

Expected == IF Task.arg = "NAME" THEN Identifiers ELSE {Task.arg}

MutantTake ==
  \/ Doing("expect") /\ At(Expected) /\ MoveTo(i + 1, <<>>)
  \/ Doing("expect") /\ ~At(Expected) /\ Fail(i, <<Task>>)

\* _expect: a token that is not the expected one is consumed.
Take ==
  \/ Doing("expect") /\ At(Expected) /\ MoveTo(i + 1, <<>>)
  \/ Doing("expect") /\ ~At(Expected) /\ Fail(Advanced(i), <<>>)

\* _expect_closing: the end of a line, of a block or of the file stays.
TakeClosing ==
  \/ Doing("closing") /\ At(Expected) /\ MoveTo(i + 1, <<>>)
  \/ Doing("closing") /\ ~At(Expected) /\ Fail(IF At(Boundary) THEN i ELSE i + 1, <<>>)

\* _consume_optional_newline.
TakeNewline == Doing("newline") /\ MoveTo(AfterNewline(i), <<>>)

\* A node is built.
EndNode ==
  /\ Doing("end")
  /\ nodes' = nodes \cup {[kind |-> Task.arg, from |-> Task.from,
                           to |-> i - 1, n |-> Task.n]}
  /\ value' = Task.arg
  /\ work' = Tail(work)
  /\ UNCHANGED <<tokens, i, errors>>

-----------------------------------------------------------------------------
(* Blocks and lists. *)

\* An INDENT and what follows it up to its DEDENT.
IndentedBody ==
  /\ Doing("indented")
  /\ Expand(<<Expect("INDENT"), Do(Task.arg), End("block", i)>>)

MutantLines(body, p, item) ==
  /\ Doing(body)
  /\ IF tokens[p] \in BlockEnd THEN MoveTo(Advanced(p), <<>>)
     ELSE MoveTo(p, item \o <<Do(body)>>)

\* One round of the loop of an indented body: item is what a line holds.
Lines(body, p, item) ==
  /\ Doing(body)
  /\ IF tokens[p] \in BlockEnd THEN MoveTo(p, <<Expect("DEDENT")>>)
     ELSE MoveTo(p, item \o <<Do(body)>>)

\* parse_block_after_indent.
Statements == Lines("statements", PastNewlines, <<Do("statement")>>)

\* parse_required_block.
RequiredBlock ==
  Doing("requiredBlock") /\ Expand(<<Expect("NEWLINE"), Do("requiredIndent")>>)

MutantRequiredIndent ==
  /\ Doing("requiredIndent")
  /\ IF At({"INDENT"}) THEN Expand(<<Indented("statements")>>)
     ELSE Fail(Advanced(i), <<>>)

RequiredIndent ==
  /\ Doing("requiredIndent")
  /\ IF At({"INDENT"}) THEN Expand(<<Indented("statements")>>)
     ELSE Fail(i, <<>>)

\* The loops of parse_params, parse_tuple_decl, parse_tuple_expr and of the
\* arguments of calls and of templates.
ListEnd ==
  [targets |-> "RBRACKET", elements |-> "RBRACKET", parameters |-> "RPAREN",
   arguments |-> "RPAREN", types |-> "GT"]

ListItem ==
  [targets |-> Expect("NAME"), elements |-> Expression(0),
   parameters |-> Do("parameter"), arguments |-> Do("argument"),
   types |-> Do("type reference")]

NextListItem ==
  /\ Doing("list")
  /\ IF At({ListEnd[Task.arg], "EOF"}) THEN Expand(<<>>)
     ELSE Expand(<<ListItem[Task.arg], Comma(Task.arg)>>)

ListComma ==
  /\ Doing("comma")
  /\ IF At({"COMMA"}) THEN MoveTo(i + 1, <<List(Task.arg)>>) ELSE Expand(<<>>)

-----------------------------------------------------------------------------
(* Expressions. *)

\* parse_expression: the first operand.
ParseExpression ==
  /\ Doing("expression")
  /\ value' = "none"
  /\ work' = <<Do("prefix"),
               Call("operators", "", Task.n, i)>> \o Tail(work)
  /\ UNCHANGED <<tokens, i, errors, nodes>>

ParseOperator ==
  /\ Doing("operators") /\ At(Operators) /\ Precedence[Peek(0)] >= Task.n
  /\ MoveTo(i + 1, <<Expression(Precedence[Peek(0)] + 1),
                     EndBinary(Task.from, i), Task>>)

BelongsHere ==
  \/ At(Operators) /\ Precedence[Peek(0)] >= Task.n
  \/ At({"QUESTION"}) /\ Task.n <= ConditionalPrecedence

ParseConditional ==
  /\ Doing("operators") /\ At({"QUESTION"}) /\ Task.n <= ConditionalPrecedence
  /\ MoveTo(i + 1, <<Expression(0), Expect("COLON"),
                     Expression(ConditionalPrecedence),
                     End("conditional", Task.from), Task>>)

OperatorsDone == Doing("operators") /\ ~BelongsHere /\ Expand(<<>>)

ParsePrefix ==
  /\ Doing("prefix")
  /\ IF At({"PLUS", "MINUS", "NOT"})
     THEN MoveTo(i + 1, <<Expression(UnaryPrecedence), End("unary", i)>>)
     ELSE Expand(<<Do("primary"), Call("postfix", "", 0, i)>>)

ParsePrimary ==
  /\ Doing("primary")
  /\ CASE At(Literals \cup Identifiers) -> MoveTo(i + 1, <<>>)
       [] At({"LBRACKET"}) ->
            MoveTo(i + 1, <<List("elements"), Closing("RBRACKET"),
                            End("tuple", i)>>)
       [] At(Structures) -> Expand(<<Do(Peek(0)), End("structure", i)>>)
       [] At({"LPAREN"}) ->
            MoveTo(i + 1, <<Expression(0), Closing("RPAREN")>>)
       [] OTHER -> Fail(Advanced(i), <<>>)

\* _expect_member_name.
NotMemberNames ==
  {"EOF", "NEWLINE", "INDENT", "DEDENT", "LPAREN", "RPAREN", "LBRACKET",
   "RBRACKET", "COMMA", "DOT", "EQ", "ARROW"}

ParseMember ==
  /\ Doing("member")
  /\ IF At(NotMemberNames) THEN Fail(Advanced(i), <<>>) ELSE MoveTo(i + 1, <<>>)

\* What follows the opening token of a postfix.
PostfixBody ==
  [DOT |-> <<Do("member")>>,
   LT |-> <<List("types"), Expect("GT")>>,
   LPAREN |-> <<List("arguments"), Closing("RPAREN")>>,
   LBRACKET |-> <<Expression(0), Closing("RBRACKET")>>]

PostfixNode ==
  [DOT |-> "member access", LT |-> "generic", LPAREN |-> "call",
   LBRACKET |-> "history"]

ParsePostfix ==
  /\ Doing("postfix")
  /\ IF At({"DOT", "LPAREN", "LBRACKET"}) \/ LooksLikeTemplate
     THEN MoveTo(i + 1, PostfixBody[Peek(0)] \o
                        <<End(PostfixNode[Peek(0)], Task.from), Task>>)
     ELSE Expand(<<>>)

ParseArgument ==
  /\ Doing("argument")
  /\ MoveTo(IF At(Identifiers \cup {"QUALIFIER"}) /\ Peek(1) = "EQ" THEN i + 2
            ELSE i,
            <<Expression(0)>>)

-----------------------------------------------------------------------------
(* Structures. *)

ParseIf ==
  Doing("IF") /\ Expand(<<Expect("IF"), Expression(0), Do("requiredBlock"),
                          Do("else")>>)

ParseElse ==
  /\ Doing("else")
  /\ CASE At({"ELSE"}) /\ Peek(1) = "IF" ->
            MoveTo(i + 2, <<Expression(0), Do("requiredBlock"), Do("else")>>)
       [] At({"ELSE"}) /\ Peek(1) # "IF" ->
            MoveTo(i + 1, <<Do("requiredBlock")>>)
       [] OTHER -> Expand(<<>>)

ParseWhile ==
  Doing("WHILE") /\ Expand(<<Expect("WHILE"), Expression(0),
                             Do("requiredBlock")>>)

ParseFor == Doing("FOR") /\ Expand(<<Expect("FOR"), Do("forTarget")>>)

ForIn == <<Expect("IN"), Expression(0), Do("requiredBlock")>>

ParseForTarget ==
  /\ Doing("forTarget")
  /\ IF At({"LBRACKET"}) THEN MoveTo(i + 1, <<Names(0)>> \o ForIn)
     ELSE Expand(<<Expect("NAME"), Do("range")>>)

\* The loop over the names between the brackets counts them in n.
NamesDone ==
  <<Expect("RBRACKET"), Call("arity", "", Task.n, 0)>>

ParseForNames ==
  /\ Doing("names")
  /\ CASE At({"RBRACKET", "EOF"}) -> Expand(NamesDone)
       [] At(Identifiers) ->
            MoveTo(i + 1, <<Call("nameComma", "", Task.n + 1, 0)>>)
       [] OTHER -> Fail(i + 1, <<Task>>)

ParseForComma ==
  /\ Doing("nameComma")
  /\ IF At({"COMMA"}) THEN MoveTo(i + 1, <<Names(Task.n)>>)
     ELSE Expand(NamesDone)

\* FOR_IN_TARGET_ARITY.
CheckForArity ==
  /\ Doing("arity")
  /\ IF Task.n \in {1, 2} THEN Expand(<<>>) ELSE Fail(i, <<>>)

ParseForRange ==
  /\ Doing("range")
  /\ IF At({"EQ"})
     THEN MoveTo(i + 1, <<Expression(0), Expect("TO"), Expression(0), Do("by"),
                          Do("requiredBlock")>>)
     ELSE Expand(ForIn)

ParseForStep ==
  /\ Doing("by")
  /\ IF At({"BY"}) THEN MoveTo(i + 1, <<Expression(0)>>) ELSE Expand(<<>>)

ParseSwitch ==
  /\ Doing("SWITCH")
  /\ Expand(<<Expect("SWITCH"), Do("subject"), Expect("NEWLINE"),
              Do("ensureIndent"), Indented("cases")>>)

ParseSubject ==
  /\ Doing("subject")
  /\ Expand(IF At({"NEWLINE"}) THEN <<>> ELSE <<Expression(0)>>)

\* The INDENT that is missing is put into the tokens, but no DEDENT.
EnsureIndent ==
  /\ Doing("ensureIndent")
  /\ tokens' = IF At({"INDENT"}) THEN tokens
               ELSE SubSeq(tokens, 1, i - 1) \o <<"INDENT">> \o
                    SubSeq(tokens, i, Eof)
  /\ work' = Tail(work)
  /\ UNCHANGED <<i, value, errors, nodes>>

Cases == Lines("cases", PastNewlines, <<Do("case")>>)

ParseCase ==
  /\ Doing("case")
  /\ Expand((IF At({"ARROW"}) THEN <<>> ELSE <<Expression(0)>>) \o
            <<Expect("ARROW"), Do("arm"), End("case", i)>>)

ParseArm ==
  /\ Doing("arm")
  /\ IF At({"NEWLINE"})
     THEN MoveTo(i + 1, <<Do("ensureIndent"), Indented("statements")>>)
     ELSE Expand(<<Do("inline")>>)

-----------------------------------------------------------------------------
(* Statements. *)

\* parse_inline_sequence_body.
InlineBody ==
  /\ Doing("inline")
  /\ Expand(IF At(Boundary) THEN <<Newline>>
            ELSE IF LooksLikeVarDecl(i) THEN <<Do("var"), Do("inlineComma")>>
            ELSE <<Expression(0), Do("inlineAssignment"), Do("inlineComma")>>)

InlineAssignment ==
  /\ Doing("inlineAssignment")
  /\ IF At({"ASSIGN"}) THEN MoveTo(i + 1, <<Expression(0)>>) ELSE Expand(<<>>)

InlineComma ==
  /\ Doing("inlineComma")
  /\ IF At({"COMMA"}) THEN MoveTo(i + 1, <<Do("inline")>>)
     ELSE Expand(<<Newline>>)

ParseVarDecl ==
  /\ Doing("var")
  /\ MoveTo(Modified(i),
            (IF LooksLikeTypeAnnotation(Modified(i))
             THEN <<Do("type reference")>> ELSE <<>>) \o
            <<Expect("NAME"), Expect("EQ"), Expression(0), Newline>>)

TupleDecl ==
  <<Expect("LBRACKET"), List("targets"), Expect("RBRACKET"), Expect("EQ"),
    Expression(0), Newline>>

\* The statements tried after the declaration statement.
Simple(p) ==
  CASE LooksLikeTuple(p) -> TupleDecl
    [] LooksLikeVarDecl(p) -> <<Do("var")>>
    [] OTHER -> <<Expression(0), Do("statementEnd")>>

\* fallback: whose part the expression is, should it not be a declaration.
Declaration(p, fallback) ==
  <<Expression(0), Newline,
    Call("declaration", fallback, 0, p)>>

OtherStatement(p) ==
  CASE tokens[p] \in Structures -> <<Do(tokens[p])>>
    [] tokens[p] \in {"BREAK", "CONTINUE"} -> <<Expect(tokens[p]), Newline>>
    [] tokens[p] = "METHOD" -> <<Do("METHOD")>>
    [] LooksLikeFunction(p) -> <<Do("function")>>
    [] OTHER -> Simple(p)

Statement(p) ==
  IF LooksLikeDeclaration(p) /\ ~LooksLikeFunction(p)
  THEN Declaration(p, "statement")
  ELSE OtherStatement(p) \o <<End("statement", p)>>

ParseStatement ==
  Doing("statement") /\ MoveTo(PastNewlines, Statement(PastNewlines))

EndStatement ==
  /\ Doing("statementEnd")
  /\ CASE At({"ASSIGN"}) -> MoveTo(i + 1, <<Expression(0), Newline>>)
       [] At(Boundary) -> MoveTo(AfterNewline(i), <<>>)
       [] OTHER -> Fail(LineEnd(i), <<>>)

-----------------------------------------------------------------------------
(* Declarations. *)

ParseTypeRef ==
  Doing("type reference") /\ Expand(<<Expect("NAME"), Do("dots")>>)

ParseTypeName ==
  /\ Doing("dots")
  /\ CASE At({"DOT"}) -> MoveTo(i + 1, <<Expect("NAME"), Task>>)
       [] At({"LT"}) ->
            MoveTo(i + 1, <<List("types"), Expect("GT"), Do("array")>>)
       [] OTHER -> Expand(<<Do("array")>>)

ParseArraySuffix ==
  /\ Doing("array")
  /\ IF At({"LBRACKET"}) THEN MoveTo(i + 1, <<Expect("RBRACKET")>>)
     ELSE Expand(<<>>)

ParseParameter ==
  /\ Doing("parameter")
  /\ LET p == IF At({"QUALIFIER"}) THEN i + 1 ELSE i
     IN  MoveTo(p, (IF LooksLikeTypeAnnotation(p)
                    THEN <<Do("type reference")>> ELSE <<>>) \o
                   <<Expect("NAME"), Do("default")>>)

ParseDefault ==
  /\ Doing("default")
  /\ IF At({"EQ"}) THEN MoveTo(i + 1, <<Expression(0)>>) ELSE Expand(<<>>)

ParseFunctionDecl ==
  /\ Doing("function")
  /\ Expand(<<Expect("NAME"), Expect("LPAREN"), List("parameters"),
              Expect("RPAREN"), Expect("ARROW"), Do("body")>>)

ParseMethodDecl ==
  /\ Doing("METHOD")
  /\ Expand(<<Expect("METHOD"), Expect("NAME"), Expect("LPAREN"),
              Do("receiver"), Do("otherParameters"), Expect("RPAREN"),
              Expect("ARROW"), Do("body")>>)

ParseReceiver ==
  /\ Doing("receiver")
  /\ Expand(IF At({"RPAREN"}) THEN <<>>
            ELSE <<Do("type reference"), Expect("NAME")>>)

ParseOtherParameters ==
  /\ Doing("otherParameters")
  /\ IF At({"COMMA"}) THEN MoveTo(i + 1, <<List("parameters")>>)
     ELSE Expand(<<>>)

ParseFunctionBody ==
  /\ Doing("body")
  /\ IF At({"NEWLINE"}) THEN MoveTo(i + 1, <<Indented("statements")>>)
     ELSE Expand(<<Do("inline")>>)

ParseTypeDecl ==
  /\ Doing("TYPE")
  /\ Expand(<<Expect("TYPE"), Expect("NAME"), Expect("NEWLINE"),
              Indented("fields")>>)

Fields == Lines("fields", PastNewlines, <<Do("field")>>)

\* The annotations of a field may take the parser to the end of the block.
ParseField ==
  /\ Doing("field")
  /\ LET p == Past(i, Annotations \cup {"NEWLINE"})
     IN  MoveTo(p, <<Do("type reference"), Expect("NAME"), Do("default"),
                     Newline, End("field", p)>>)

ParseEnumDecl ==
  /\ Doing("ENUM")
  /\ Expand(<<Expect("ENUM"), Expect("NAME"), Expect("NEWLINE"),
              Indented("members")>>)

Members ==
  Lines("members", PastNewlines, <<Expect("NAME"), Do("title"), Newline,
                                   End("member", PastNewlines)>>)

ParseTitle ==
  Doing("title") /\ MoveTo(IF At({"STRING"}) THEN i + 1 ELSE i, <<>>)

ParseImport ==
  Doing("IMPORT") /\ Expand(<<Expect("IMPORT"), Do("path"), Newline>>)

ParseImportPath ==
  /\ Doing("path")
  /\ LET p == Past(i, Identifiers \cup {"INTEGER", "SLASH"})
     IN  IF tokens[p] = "AS" THEN MoveTo(p + 1, <<Expect("NAME")>>)
         ELSE MoveTo(p, <<>>)

-----------------------------------------------------------------------------
(* The program. *)

\* parse: the version, if it comes first.
ParseVersion ==
  /\ Doing("program")
  /\ LET p == PastNewlines
         q == IF tokens[p] = "VERSION" THEN p + 1 ELSE p
     IN  MoveTo(Past(q, {"NEWLINE"}), <<Do("leading")>>)

\* The imports before the declaration statement, and that.
ParseLeading ==
  /\ Doing("leading")
  /\ CASE At({"IMPORT"}) ->
            Expand(<<Do("IMPORT"), End("item", i), Do("moreImports")>>)
       [] LooksLikeDeclaration(i) ->
            Expand(Declaration(i, "leading") \o <<Do("items")>>)
       [] OTHER -> Expand(<<Do("items")>>)

MoreImports == Doing("moreImports") /\ MoveTo(PastNewlines, <<Do("leading")>>)

ParseItems ==
  /\ Doing("items")
  /\ LET p == Past(i, Annotations \cup {"NEWLINE"})
     IN  MoveTo(p, IF tokens[p] = "EOF" THEN <<>>
                   ELSE <<Do("item"), Do("items")>>)

\* What parse_top_level_item tries after the declaration statement.
OtherItem(p, exported) ==
  CASE LooksLikeFunction(p) -> <<Do("function")>>
    [] ~LooksLikeFunction(p) /\ exported -> <<Do("var")>>
    [] OTHER -> <<Do("statement")>>

Item(p, exported) ==
  CASE tokens[p] \in {"IMPORT", "TYPE", "ENUM", "METHOD"} ->
         <<Do(tokens[p]), End("item", i)>>
    [] LooksLikeDeclaration(p) ->
         Declaration(i, IF exported THEN "export" ELSE "item")
    [] OTHER -> OtherItem(p, exported) \o <<End("item", i)>>

ParseItem ==
  /\ Doing("item")
  /\ IF At({"EXPORT"}) THEN MoveTo(i + 1, Item(i + 1, TRUE))
     ELSE Expand(Item(i, FALSE))

\* What looked like a declaration statement is one if it is a call; if not, it
\* is dropped, and the next statement is parsed in its place.
ParseDeclaration ==
  /\ Doing("declaration")
  /\ Expand(CASE value = "call" -> <<End("declaration", Task.from)>>
              [] value # "call" /\ Task.arg = "leading" -> <<>>
              [] value # "call" /\ Task.arg = "statement" ->
                   Simple(i) \o <<End("statement", i)>>
              [] OTHER -> OtherItem(i, Task.arg = "export") \o
                          <<End("item", i)>>)

-----------------------------------------------------------------------------
Init ==
  /\ tokens \in Programs
  /\ i = 1
  /\ work = <<Do("program")>>
  /\ value = "none"
  /\ errors = <<>>
  /\ nodes = {}

Next ==
  \/ Take \/ TakeClosing \/ TakeNewline \/ EndNode
  \/ IndentedBody \/ Statements \/ RequiredBlock \/ RequiredIndent
  \/ NextListItem \/ ListComma
  \/ ParseExpression \/ ParseOperator \/ ParseConditional \/ OperatorsDone
  \/ ParsePrefix \/ ParsePrimary \/ ParseMember \/ ParsePostfix \/ ParseArgument
  \/ ParseIf \/ ParseElse \/ ParseWhile
  \/ ParseFor \/ ParseForTarget \/ ParseForNames \/ ParseForComma
  \/ CheckForArity \/ ParseForRange \/ ParseForStep
  \/ ParseSwitch \/ ParseSubject \/ EnsureIndent \/ Cases \/ ParseCase
  \/ ParseArm
  \/ InlineBody \/ InlineAssignment \/ InlineComma
  \/ ParseVarDecl \/ ParseStatement \/ EndStatement
  \/ ParseTypeRef \/ ParseTypeName \/ ParseArraySuffix \/ ParseParameter
  \/ ParseDefault \/ ParseFunctionDecl \/ ParseMethodDecl \/ ParseReceiver
  \/ ParseOtherParameters \/ ParseFunctionBody
  \/ ParseTypeDecl \/ Fields \/ ParseField \/ ParseEnumDecl \/ Members
  \/ ParseTitle \/ ParseImport \/ ParseImportPath
  \/ ParseVersion \/ ParseLeading \/ MoreImports \/ ParseItems \/ ParseItem
  \/ ParseDeclaration

\* One call that runs without waiting for anything: it never just stops.
Spec == Init /\ [][Next]_vars /\ WF_vars(Next)

-----------------------------------------------------------------------------
(* Properties. *)

Finished == work = <<>>
Clean == Finished /\ errors = <<>>

\* What lines are made of.
LineNodes ==
  {"item", "declaration", "statement", "case", "field", "member"}

\* Calls by what they are given.
Plain ==
  {"newline", "prefix", "primary", "member", "argument",
   "IF", "else", "WHILE", "FOR", "forTarget", "range", "by",
   "SWITCH", "subject", "ensureIndent", "case", "arm",
   "inline", "inlineAssignment", "inlineComma", "var", "statement",
   "statementEnd", "requiredBlock", "requiredIndent",
   "type reference", "dots", "array", "parameter", "default",
   "function", "METHOD", "receiver", "otherParameters", "body",
   "TYPE", "field", "ENUM", "title", "IMPORT", "path",
   "program", "leading", "moreImports", "items", "item"}
Counting ==
  {"expression", "operators", "postfix", "names", "nameComma", "arity"}
Bodies == {"statements", "cases", "fields", "members"}
Fallbacks == {"statement", "leading", "item", "export"}
NodeKinds ==
  LineNodes \cup
  {"block", "binary", "unary", "conditional", "tuple", "structure",
   "member access", "generic", "call", "history"}

\* Nothing is ever waiting for the EOF.
Tasks ==
  [do : Plain \cup Bodies, arg : {""}, n : {0}, from : {0}] \cup
  [do : Counting, arg : {""}, n : Nat, from : Nat] \cup
  [do : {"expect", "closing"}, arg : Kinds \ {"EOF"}, n : {0}, from : {0}] \cup
  [do : {"indented"}, arg : Bodies, n : {0}, from : {0}] \cup
  [do : {"list", "comma"}, arg : DOMAIN ListEnd, n : {0}, from : {0}] \cup
  [do : {"end"}, arg : NodeKinds, n : Nat, from : Nat] \cup
  [do : {"declaration"}, arg : Fallbacks, n : {0}, from : Nat]

Reporting ==
  {"expect", "closing", "primary", "member", "names", "arity", "statementEnd",
   "requiredIndent"}

\* The type invariant of a parser: the index is on a token; the EOF, which no
\* insertion of an INDENT may move from the end, is the last one only and never
\* expected.
TypeOK ==
  /\ tokens \in Seq(Kinds) /\ Eof \in Nat \ {0}
  /\ \A p \in 1..Eof : tokens[p] = "EOF" <=> p = Eof
  /\ i \in 1..Eof
  /\ work \in Seq(Tasks)
  /\ value \in NodeKinds \cup {"none"}
  /\ errors \in Seq([at : Nat, by : Reporting]) /\ Len(errors) <= MaxDiagnostics
  /\ nodes \subseteq [kind : NodeKinds, from : Nat, to : Nat, n : Nat]

\* "so callers inside loops cannot stall forever": the parser comes to its end
\* on every sequence of tokens, whatever is wrong with it and however many
\* INDENTs it adds on the way.
Terminates == <>Finished

\* The DEDENT that ends what the INDENT at p begins.
Closes(p, q) ==
  LET depth[r \in (p - 1)..q] ==
        IF r = p - 1 THEN 0
        ELSE CASE tokens[r] = "INDENT" -> depth[r - 1] + 1
               [] tokens[r] = "DEDENT" -> depth[r - 1] - 1
               [] OTHER -> depth[r - 1]
  IN  depth[q] = 0 /\ \A r \in p..(q - 1) : depth[r] > 0

Positions(kind) == {p \in 1..Eof : tokens[p] = kind}

\* Unless something was reported, the blocks of the tree are those of the
\* layout: each runs from an INDENT to its own DEDENT.  An INDENT that the
\* parser added takes the DEDENT of another block, so a program in which it
\* added one never passes silently.
BlocksFollowLayout ==
  Clean =>
    LET pairs == {pair \in Positions("INDENT") \X Positions("DEDENT") :
                    pair[1] < pair[2] /\ Closes(pair[1], pair[2])}
    IN  /\ {<<node.from, node.to>> :
               node \in {m \in nodes : m.kind = "block"}} = pairs
        /\ {pair[1] : pair \in pairs} = Positions("INDENT")
        /\ {pair[2] : pair \in pairs} = Positions("DEDENT")

\* A bracket left open at the end of a line, and a block that does not follow
\* its header: reported without consuming anything.
KeptInPlace(error) ==
  \/ error.by = "requiredIndent"
  \/ error.by = "closing" /\ tokens[error.at] \in Boundary

LineStarts ==
  {p \in 1..Eof :
     /\ tokens[p] \notin Boundary \cup Annotations \cup {"INDENT", "ELSE"}
     /\ p > 1 => tokens[p - 1] \in {"NEWLINE", "INDENT", "DEDENT"}}

\* The line at p follows a block, or the place of a missing one.
FollowsBlock(p) ==
  \/ p > 1 /\ tokens[p - 1] = "DEDENT"
  \/ \E e \in 1..Len(errors) : errors[e] = [at |-> p, by |-> "requiredIndent"]

\* If the block belongs to an expression, the line could be the rest of it.
MayJoin(p) ==
  FollowsBlock(p) /\ tokens[p] \in Operators \cup {"LPAREN", "LBRACKET", "ARROW"}

\* The line at p may be the expression that ParseDeclaration drops.
MayBeDropped(p) ==
  LooksLikeDeclaration(IF tokens[p] = "EXPORT" THEN p + 1 ELSE p)

Begins(p) == \E node \in nodes : node.kind \in LineNodes /\ node.from = p

NothingConsumed ==
  Finished /\ \A e \in 1..Len(errors) : KeptInPlace(errors[e])

\* "so the outer statement/block parser can recover subsequent statements":
\* open brackets and missing blocks cost no later line.  Every line begins a
\* statement, a case, a field or a member.
LaterLinesRecovered ==
  NothingConsumed =>
    \A p \in LineStarts : MayJoin(p) \/ MayBeDropped(p) \/ Begins(p)

\* "bad_block_indentation_does_not_eat_following_statement", and a correct block
\* does so less: the line that follows begins a statement of its own.  Not true
\* of the code.
FollowingStatementKept ==
  NothingConsumed =>
    \A p \in LineStarts : FollowsBlock(p) => MayBeDropped(p) \/ Begins(p)

Count(kinds, p, q) == Cardinality({r \in p..q : tokens[r] \in kinds})

\* Position p of a node is not within brackets that open in the node.
Unbracketed(p, node) ==
  Count({"LPAREN", "LBRACKET"}, node.from, p - 1) =
  Count({"RPAREN", "RBRACKET"}, node.from, p - 1)

\* The operations of expressions without structures in them.
Operations ==
  {node \in nodes :
     /\ node.kind = "binary"
     /\ \A p \in node.from..node.to : tokens[p] \notin Structures}

Binds(node) == Precedence[tokens[node.n]]

\* The tree is the one of the precedences: an operand without brackets on the
\* left binds at least as tightly as its operator, one on the right more
\* tightly, and a conditional is never an operand.
OperandsBindTighter ==
  Clean =>
    \A outer \in Operations :
      /\ \A inner \in Operations \ {outer} :
           /\ outer.from <= inner.from /\ inner.to <= outer.to
           /\ Unbracketed(inner.from, outer)
           => IF inner.n < outer.n THEN Binds(inner) >= Binds(outer)
              ELSE Binds(inner) > Binds(outer)
      /\ \A p \in outer.from..outer.to :
           tokens[p] = "QUESTION" => ~Unbracketed(p, outer)

\* A tree without errors is the tree of the text: its blocks are those of the
\* layout, its operations those of the precedences (parse_block and
\* parse_expression).
TreeFollowsText == BlocksFollowLayout /\ OperandsBindTighter
=============================================================================
