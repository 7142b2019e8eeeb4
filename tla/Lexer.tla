-------------------------------- MODULE Lexer --------------------------------
(***************************************************************************)
(* The lexer (lexer/lexer.py): a text becomes tokens, each with the place  *)
(* it has in the text.                                                     *)
(*                                                                         *)
(* A text is a sequence of atoms: characters, cut down to the classes that *)
(* the lexer tells apart.  A colour literal is one atom, for none of its   *)
(* prefixes is a token.  The loop body is one step, but for strings,       *)
(* which are read atom by atom.  Positions count from 1.                   *)
(***************************************************************************)
EXTENDS Integers, Sequences, FiniteSets

CONSTANT Texts      \* the texts that may be read

\* E: a letter that may begin an exponent.  FOREIGN: a letter that is not
\* ASCII.  RAISED: a digit that is not decimal, as a superscript.  MARK: what
\* makes a comment an annotation and begins no token.  OTHER: an operator; those
\* of two characters are one atom, but for EQUALS after SLASH, SIGN or EQUALS.
Atoms == {"SPACE", "NEWLINE", "SLASH", "MARK", "QUOTE", "APOSTROPHE",
          "BACKSLASH", "COLOR", "DIGIT", "RAISED", "DOT", "E", "LETTER",
          "FOREIGN", "SIGN", "EQUALS", "OTHER"}

ASSUME LexerAssumption == Texts \subseteq Seq(Atoms)

VARIABLES
  text,
  i,           \* the next position
  line,
  tokens,
  diagnostics, \* [code, at]
  string,      \* the string that is being read, or NoString
  skipped,     \* the positions read without a token
  status       \* how lex ended

lexerVars == <<text, i, line, tokens, diagnostics, string, skipped, status>>

Kinds == {"NEWLINE", "ANNOTATION", "STRING", "COLOR", "INTEGER", "FLOAT",
          "IDENTIFIER", "OPERATOR", "EOF"}

Quotes == {"QUOTE", "APOSTROPHE"}
Digits == {"DIGIT", "RAISED"}
Letters == {"LETTER", "E"}
Operators == {"SLASH", "SIGN", "DOT", "EQUALS", "OTHER"}

NoString == [first |-> 0, width |-> 0, line |-> 0]

\* _peek and _eof.
At(p) == IF p \in 1..Len(text) THEN text[p] ELSE "END"

AllIn(p, q, class) == \A r \in p..q : At(r) \in class

\* Where a scan from p over a class of atoms stops.
Stop(p, class) ==
  CHOOSE q \in p..(Len(text) + 1) :
    At(q) \notin class /\ AllIn(p, q - 1, class)

Token(kind, first, end, at) ==
  [kind |-> kind, first |-> first, last |-> end - 1, line |-> at]

Running == status = "RUNNING" /\ string = NoString /\ i <= Len(text)

\* Tokens of one line that end before end.
Emit(kind, end) ==
  /\ tokens' = Append(tokens, Token(kind, i, end, line))
  /\ i' = end
  /\ UNCHANGED <<text, line, diagnostics, string, skipped, status>>

Skip(end) ==
  /\ skipped' = skipped \cup i..(end - 1)
  /\ i' = end
  /\ UNCHANGED <<text, line, tokens, string, status>>

Blank ==
  /\ Running /\ At(i) = "SPACE"
  /\ Skip(i + 1)
  /\ UNCHANGED diagnostics

Newline ==
  /\ Running /\ At(i) = "NEWLINE"
  /\ tokens' = Append(tokens, Token("NEWLINE", i, i + 1, line))
  /\ i' = i + 1
  /\ line' = line + 1
  /\ UNCHANGED <<text, diagnostics, string, skipped, status>>

AtComment == At(i) = "SLASH" /\ At(i + 1) = "SLASH"

CommentEnd == Stop(i, Atoms \ {"NEWLINE"})

\* _lex_comment_or_annotation.
Comment ==
  /\ Running /\ AtComment
  /\ At(i + 2) # "MARK"
  /\ Skip(CommentEnd)
  /\ UNCHANGED diagnostics

Annotation ==
  /\ Running /\ AtComment
  /\ At(i + 2) = "MARK"
  /\ Emit("ANNOTATION", CommentEnd)

Color ==
  /\ Running /\ At(i) = "COLOR"
  /\ Emit("COLOR", i + 1)

-----------------------------------------------------------------------------
(* Numbers, names and operators. *)

AtNumber ==
  \/ At(i) \in Digits
  \/ At(i) = "DOT" /\ At(i + 1) \in Digits

SignWidth(p) == IF At(p) = "SIGN" THEN 1 ELSE 0

NumberEnd(p) ==
  LET whole == Stop(p, Digits)
      mantissa == IF At(whole) = "DOT" THEN Stop(whole + 1, Digits) ELSE whole
      exponent == mantissa + 1 + SignWidth(mantissa + 1)
  IN  IF At(mantissa) = "E" /\ At(exponent) \in Digits
      THEN Stop(exponent, Digits)
      ELSE mantissa

IsFloat(p, end) == \E r \in p..(end - 1) : At(r) \in {"DOT", "E"}

\* isdigit holds of more than int and float accept.
Readable(p, end) == \A r \in p..(end - 1) : At(r) # "RAISED"

\* _lex_number.
Number ==
  /\ Running /\ AtNumber
  /\ LET end == NumberEnd(i)
     IN  /\ Readable(i, end)
         /\ Emit(IF IsFloat(i, end) THEN "FLOAT" ELSE "INTEGER", end)

Raise(exception) ==
  /\ status' = exception
  /\ UNCHANGED <<text, i, line, tokens, diagnostics, string, skipped>>

\* int or float raises.
NumberFails ==
  /\ Running /\ AtNumber
  /\ ~Readable(i, NumberEnd(i))
  /\ Raise("ValueError")

\* _lex_identifier: isalpha let it in.
Identifier ==
  /\ Running /\ At(i) \in Letters
  /\ Emit("IDENTIFIER", Stop(i, Letters \cup {"DIGIT"}))

\* The assertion that the pattern of identifiers matches here.
IdentifierFails ==
  /\ Running /\ At(i) = "FOREIGN"
  /\ Raise("AssertionError")

\* The operators of two atoms are tried before those of one.
OperatorWidth(p) ==
  IF At(p) \in {"SLASH", "SIGN", "EQUALS"} /\ At(p + 1) = "EQUALS" THEN 2 ELSE 1

Operator ==
  /\ Running /\ At(i) \in Operators
  /\ ~AtComment /\ ~AtNumber
  /\ Emit("OPERATOR", i + OperatorWidth(i))

Unknown ==
  /\ Running /\ At(i) \in {"MARK", "BACKSLASH"}
  /\ diagnostics' = diagnostics \cup {[code |-> "UNKNOWN_TOKEN", at |-> i]}
  /\ Skip(i + 1)

-----------------------------------------------------------------------------
(* _lex_string. *)

Repeated(p, quote, width) == AllIn(p, p + width - 1, {quote})

DelimiterWidth(p) == IF Repeated(p, At(p), 3) THEN 3 ELSE 1

OpenString ==
  /\ Running /\ At(i) \in Quotes
  /\ string' = [first |-> i, width |-> DelimiterWidth(i), line |-> line]
  /\ i' = i + DelimiterWidth(i)
  /\ UNCHANGED <<text, line, tokens, diagnostics, skipped, status>>

InString == status = "RUNNING" /\ string # NoString

AtDelimiter == Repeated(i, At(string.first), string.width)

\* What ends a string: the code leaves its loop at a newline only if the
\* delimiter is one quote.
BrokenOff ==
  \/ i > Len(text)
  \/ At(i) = "NEWLINE" /\ string.width = 1

EndString(end) ==
  /\ tokens' = Append(tokens, Token("STRING", string.first, end, string.line))
  /\ i' = end
  /\ string' = NoString
  /\ UNCHANGED <<text, line, skipped, status>>

CloseString ==
  /\ InString /\ AtDelimiter
  /\ EndString(i + string.width)
  /\ UNCHANGED diagnostics

UnterminatedString ==
  /\ InString /\ ~AtDelimiter /\ BrokenOff
  /\ EndString(i)
  /\ diagnostics' =
       diagnostics \cup {[code |-> "UNTERMINATED_STRING", at |-> string.first]}

\* The atom after a backslash is taken too, unless the text ends there.
EscapeEnd(p) == IF p + 1 > Len(text) THEN p + 1 ELSE p + 2

MutantEscapes == FALSE

Escapes == At(i) = "BACKSLASH"

Escape ==
  /\ InString /\ ~AtDelimiter /\ ~BrokenOff /\ Escapes
  /\ i' = EscapeEnd(i)
  /\ UNCHANGED <<text, line, tokens, diagnostics, string, skipped, status>>

LineAfter == IF At(i) = "NEWLINE" THEN line + 1 ELSE line

StringAtom ==
  /\ InString /\ ~AtDelimiter /\ ~BrokenOff /\ ~Escapes
  /\ i' = i + 1
  /\ line' = LineAfter
  /\ UNCHANGED <<text, tokens, diagnostics, string, skipped, status>>

Finish ==
  /\ status = "RUNNING" /\ string = NoString /\ i > Len(text)
  /\ tokens' = Append(tokens, Token("EOF", i, i, line))
  /\ status' = "DONE"
  /\ UNCHANGED <<text, i, line, diagnostics, string, skipped>>

-----------------------------------------------------------------------------

Init ==
  /\ text \in Texts
  /\ i = 1
  /\ line = 1
  /\ tokens = <<>>
  /\ diagnostics = {}
  /\ string = NoString
  /\ skipped = {}
  /\ status = "RUNNING"

Next ==
  \/ Blank \/ Newline \/ Comment \/ Annotation \/ Color
  \/ Number \/ NumberFails \/ Identifier \/ IdentifierFails
  \/ Operator \/ Unknown
  \/ OpenString \/ CloseString \/ UnterminatedString \/ Escape \/ StringAtom
  \/ Finish

Spec == Init /\ [][Next]_lexerVars

-----------------------------------------------------------------------------
(* Properties. *)

Positions == 1..Len(text)

\* The type invariant of Lexer.
TypeOK ==
  /\ text \in Seq(Atoms)
  /\ i \in 1..(Len(text) + 1)
  /\ line \in Nat \ {0}
  /\ \A k \in 1..Len(tokens) :
       tokens[k] \in [kind : Kinds, first : Nat, last : Nat, line : Nat]
  /\ diagnostics \subseteq
       [code : {"UNKNOWN_TOKEN", "UNTERMINATED_STRING"}, at : Positions]
  /\ string = NoString \/
       string \in [first : Positions, width : {1, 3}, line : Nat]
  /\ skipped \subseteq Positions
  /\ status \in {"RUNNING", "DONE", "AssertionError", "ValueError"}

Span(token) == token.first..token.last

\* Of what is not in a token: an atom of a comment.
InComment(p) ==
  \E s \in 1..p : /\ text[s] = "SLASH" /\ At(s + 1) = "SLASH"
                  /\ s..p \subseteq skipped
                  /\ \A r \in s..p : text[r] # "NEWLINE"

\* Tokens stand in the order of the text and every atom read is in exactly one
\* of them, is blank, is in a comment, or was reported; in particular a newline
\* makes a NEWLINE token exactly if it is in no string.
Accounted ==
  LET read == 1..((IF string = NoString THEN i ELSE string.first) - 1)
  IN  /\ \A j, k \in 1..Len(tokens) :
           j < k => tokens[j].last < tokens[k].first
      /\ UNION {Span(tokens[k]) : k \in 1..Len(tokens)} = read \ skipped
      /\ skipped \subseteq read
      /\ \A p \in skipped :
           \/ text[p] = "SPACE"
           \/ [code |-> "UNKNOWN_TOKEN", at |-> p] \in diagnostics
           \/ InComment(p)
      /\ \A k \in 1..Len(tokens) :
           (\E p \in Span(tokens[k]) : text[p] = "NEWLINE") =>
             \/ tokens[k].kind = "STRING"
             \/ tokens[k].kind = "NEWLINE" /\ tokens[k].first = tokens[k].last

\* How many backslashes stand before position p of a body that begins at s.
Backslashes(s, p) ==
  CHOOSE n \in 0..(p - s) :
    /\ AllIn(p - n, p - 1, {"BACKSLASH"})
    /\ n = p - s \/ At(p - n - 1) # "BACKSLASH"

Unescaped(s, p) == Backslashes(s, p) % 2 = 0

\* Where a string that begins at first may end, by the rule that an even number
\* of backslashes escapes nothing.
Delimiters(first) ==
  LET width == DelimiterWidth(first)
      body == first + width
  IN  {p \in body..(Len(text) - width + 1) :
         Repeated(p, text[first], width) /\ Unescaped(body, p)}

LineBreaks(first) ==
  IF DelimiterWidth(first) = 3 THEN {}
  ELSE {p \in (first + 1)..Len(text) :
          text[p] = "NEWLINE" /\ Unescaped(first + 1, p)}

\* A string ends with its first unescaped delimiter; if a line break or the end
\* of the text comes first it ends there and is reported.
StringsEndAtDelimiters ==
  \A k \in 1..Len(tokens) :
    LET token == tokens[k]
        ends == Delimiters(token.first)
        breaks == LineBreaks(token.first)
        reported == [code |-> "UNTERMINATED_STRING", at |-> token.first]
    IN  token.kind = "STRING" =>
          IF \E p \in ends : \A q \in ends \cup breaks : p <= q
          THEN /\ reported \notin diagnostics
               /\ \A q \in ends :
                    token.last - DelimiterWidth(token.first) + 1 <= q
               /\ token.last - DelimiterWidth(token.first) + 1 \in ends
          ELSE /\ reported \in diagnostics
               /\ token.last + 1 \in breaks \cup {Len(text) + 1}
               /\ \A q \in breaks : token.last + 1 <= q

\* The numerals, by their form.
IsMantissa(p, q) ==
  \/ p <= q /\ AllIn(p, q, Digits)
  \/ p < q /\ \E d \in p..q : /\ text[d] = "DOT"
                              /\ AllIn(p, d - 1, Digits)
                              /\ AllIn(d + 1, q, Digits)

IsNumeral(p, q) ==
  \/ IsMantissa(p, q)
  \/ \E e \in p..q :
       /\ text[e] = "E" /\ IsMantissa(p, e - 1)
       /\ LET digits == e + 1 + SignWidth(e + 1)
          IN  digits <= q /\ AllIn(digits, q, Digits)

\* A number token is the longest numeral at its place: the lookahead of the
\* exponent neither takes a letter from a name nor leaves digits behind.
NumbersAreLongest ==
  \A k \in 1..Len(tokens) :
    LET token == tokens[k]
    IN  token.kind \in {"INTEGER", "FLOAT"} =>
          /\ IsNumeral(token.first, token.last)
          /\ \A q \in (token.last + 1)..Len(text) : ~IsNumeral(token.first, q)

\* A newline that a backslash escapes in a string.
EscapedNewline(p) ==
  /\ text[p] = "NEWLINE"
  /\ \E k \in 1..Len(tokens) :
       /\ tokens[k].kind = "STRING" /\ p \in Span(tokens[k])
       /\ ~Unescaped(tokens[k].first + DelimiterWidth(tokens[k].first), p)

\* The line of a token is that of its first atom, through strings of several
\* lines; of the newlines only the escaped ones are not counted.
LinesCounted ==
  \A k \in 1..Len(tokens) :
    tokens[k].line =
      1 + Cardinality({p \in 1..(tokens[k].first - 1) :
                         text[p] = "NEWLINE" /\ ~EscapedNewline(p)})

\* The tokens are the lexemes of the text, each where it stands (lex and its
\* helpers).
TokensFaithful ==
  /\ TypeOK
  /\ Accounted
  /\ StringsEndAtDelimiters
  /\ NumbersAreLongest
  /\ LinesCounted
=============================================================================
