------------------------------ MODULE LexerProofs ------------------------------
(***************************************************************************)
(* Proofs about Lexer, for texts of any length: the tokens are the lexemes *)
(* of the text.                                                            *)
(*                                                                         *)
(* The argument.  Up to the first position that is not yet accounted for,  *)
(* which is where the next token begins, or where the string that is being *)
(* read began, the tokens and what was skipped divide the text.  A step    *)
(* adds a stretch that begins at that position to one of the two.  That a  *)
(* scan ends at all, and past what it began with, is a matter of the       *)
(* least position outside the class that it runs over.                     *)
(*                                                                         *)
(* Where a number ends depends on the text alone.  While a string is read  *)
(* its position is never escaped, and nothing that may end the string lies *)
(* behind it: a step over a backslash passes over an atom that is escaped, *)
(* which therefore ends nothing, and the number of backslashes before what *)
(* follows is even.  The line is the number of newlines passed, but for    *)
(* the escaped ones, which become part of the string's token when it is    *)
(* complete.                                                               *)
(***************************************************************************)
EXTENDS Lexer, FiniteSetTheorems, WellFoundedInduction, TLAPS

\* The first position that no token and nothing skipped may cover yet.
Bound == IF string = NoString THEN i ELSE string.first

TokenType == [kind : Kinds, first : Nat, last : Int, line : Nat]

Lists ==
  /\ tokens \in Seq(TokenType)
  /\ \A k \in 1..Len(tokens) :
       /\ tokens[k].first \in 1..Bound
       /\ tokens[k].last \in 0..(Bound - 1)

InQuotes ==
  string # NoString => /\ At(string.first) \in Quotes
                       /\ string.first < i

IInv == TypeOK /\ Lists /\ InQuotes /\ Accounted

-----------------------------------------------------------------------------
(***************************************************************************)
(* Scans.                                                                  *)
(***************************************************************************)

\* A set of naturals has a least element.
LEMMA LeastPosition ==
  ASSUME NEW T \in SUBSET Nat, T # {}
  PROVE  \E x \in T : \A y \in T : x <= y
<1>1. PICK x \in T : \A y \in T : ~(<<y, x>> \in OpToRel(<, Nat))
  BY WFMin, NatLessThanWellFounded
<1>2. \A y \in T : ~(y < x)
  BY <1>1 DEF OpToRel
<1>3. QED
  BY <1>2

\* A scan stops within the text or at its end, past nothing outside its class.
LEMMA StopScan ==
  ASSUME text \in Seq(Atoms), NEW class \in SUBSET Atoms,
         NEW p \in 1..(Len(text) + 1)
  PROVE  /\ Stop(p, class) \in p..(Len(text) + 1)
         /\ At(Stop(p, class)) \notin class
         /\ \A r \in p..(Stop(p, class) - 1) : At(r) \in class
<1> DEFINE outside == {q \in p..(Len(text) + 1) : At(q) \notin class}
<1>1. Len(text) \in Nat
  OBVIOUS
<1>2. Len(text) + 1 \in outside
  <2>1. At(Len(text) + 1) = "END"
    BY <1>1 DEF At
  <2>2. "END" \notin Atoms
    BY DEF Atoms
  <2>3. QED
    BY <1>1, <2>1, <2>2
<1>3. PICK q \in outside : \A r \in outside : q <= r
  <2>1. outside \in SUBSET Nat /\ outside # {}
    BY <1>1, <1>2
  <2> HIDE DEF outside
  <2>2. QED
    BY <2>1, LeastPosition
<1>4. AllIn(p, q - 1, class)
  BY <1>1, <1>3 DEF AllIn
<1>5. \E s \in p..(Len(text) + 1) : At(s) \notin class /\ AllIn(p, s - 1, class)
  BY <1>3, <1>4
<1>6. /\ Stop(p, class) \in p..(Len(text) + 1)
      /\ At(Stop(p, class)) \notin class /\ AllIn(p, Stop(p, class) - 1, class)
  BY <1>5 DEF Stop
<1>7. QED
  BY <1>6 DEF AllIn

\* An atom that is there is at a position of the text.
LEMMA Within ==
  ASSUME text \in Seq(Atoms), NEW p \in Int, At(p) \in Atoms
  PROVE  p \in 1..Len(text) /\ text[p] = At(p)
BY DEF At, Atoms

\* A scan from an atom of its class goes on.
LEMMA StopAdvances ==
  ASSUME text \in Seq(Atoms), NEW class \in SUBSET Atoms,
         NEW p \in 1..Len(text), At(p) \in class
  PROVE  /\ Stop(p, class) \in (p + 1)..(Len(text) + 1)
         /\ \A r \in p..(Stop(p, class) - 1) : r \in 1..Len(text) /\ text[r] \in class
<1>1. Len(text) \in Nat
  OBVIOUS
<1>2. /\ Stop(p, class) \in p..(Len(text) + 1)
      /\ At(Stop(p, class)) \notin class
      /\ \A r \in p..(Stop(p, class) - 1) : At(r) \in class
  BY <1>1, StopScan
<1>3. Stop(p, class) # p
  BY <1>2
<1>4. \A r \in p..(Stop(p, class) - 1) : r \in 1..Len(text) /\ text[r] \in class
  BY <1>1, <1>2 DEF At
<1>5. QED
  BY <1>1, <1>2, <1>3, <1>4

NumberAtoms == Digits \cup {"DOT", "E", "SIGN"}

\* A number is a stretch of atoms of numbers, and not empty.
LEMMA NumberScan ==
  ASSUME text \in Seq(Atoms), NEW p \in 1..Len(text),
         \/ At(p) \in Digits
         \/ At(p) = "DOT" /\ At(p + 1) \in Digits
  PROVE  /\ NumberEnd(p) \in (p + 1)..(Len(text) + 1)
         /\ \A r \in p..(NumberEnd(p) - 1) : At(r) \in NumberAtoms
<1> DEFINE whole == Stop(p, Digits)
           mantissa == IF At(whole) = "DOT" THEN Stop(whole + 1, Digits) ELSE whole
           exponent == mantissa + 1 + SignWidth(mantissa + 1)
<1>1. Len(text) \in Nat /\ Digits \in SUBSET Atoms
  BY DEF Digits, Atoms
<1>2. /\ whole \in p..(Len(text) + 1) /\ At(whole) \notin Digits
      /\ \A r \in p..(whole - 1) : At(r) \in Digits
  BY <1>1, StopScan
<1> HIDE DEF whole
<1>3. /\ mantissa \in (p + 1)..(Len(text) + 1)
      /\ \A r \in p..(mantissa - 1) : At(r) \in Digits \cup {"DOT"}
  <2>1. CASE At(whole) = "DOT"
    <3>1. whole \in 1..Len(text)
      BY <2>1, <1>1, <1>2 DEF At
    <3>2. /\ mantissa \in (whole + 1)..(Len(text) + 1)
          /\ \A r \in (whole + 1)..(mantissa - 1) : At(r) \in Digits
      BY <2>1, <3>1, <1>1, StopScan
    <3>3. ASSUME NEW r \in p..(mantissa - 1)
          PROVE  At(r) \in Digits \cup {"DOT"}
      <4>1. CASE r < whole
        BY <4>1, <1>1, <1>2, <3>1, <3>2
      <4>2. CASE r = whole
        BY <4>2, <2>1
      <4>3. CASE r > whole
        BY <4>3, <1>1, <1>2, <3>1, <3>2
      <4>4. QED
        BY <4>1, <4>2, <4>3, <1>1, <1>2, <3>1, <3>2
    <3>4. QED
      BY <3>2, <3>3, <1>1, <1>2
  <2>2. CASE At(whole) # "DOT"
    <3>1. whole # p
      BY <2>2, <1>2 DEF Digits
    <3>2. QED
      BY <2>2, <3>1, <1>1, <1>2
  <2>3. QED
    BY <2>1, <2>2
<1> HIDE DEF mantissa
<1>4. CASE At(mantissa) = "E" /\ At(exponent) \in Digits
  <2>1. mantissa \in 1..Len(text)
    BY <1>4, <1>1, <1>3 DEF At
  <2>2. exponent \in Int /\ exponent \in {mantissa + 1, mantissa + 2}
    BY <1>1, <1>3 DEF SignWidth
  <2>3. exponent \in 1..Len(text)
    BY <1>4, <1>1, <2>2, Within
  <2>4. /\ Stop(exponent, Digits) \in (exponent + 1)..(Len(text) + 1)
        /\ \A r \in exponent..(Stop(exponent, Digits) - 1) : At(r) \in Digits
    BY <1>4, <1>1, <2>3, StopScan, StopAdvances
  <2>5. NumberEnd(p) = Stop(exponent, Digits)
    BY <1>4 DEF NumberEnd, whole, mantissa
  <2>6. At(mantissa + 1) = "SIGN" \/ exponent = mantissa + 1
    BY <1>1, <1>3 DEF SignWidth
  <2> HIDE DEF exponent
  <2>7. ASSUME NEW r \in p..(Stop(exponent, Digits) - 1)
        PROVE  At(r) \in NumberAtoms
    <3>1. CASE r < mantissa
      BY <3>1, <1>1, <1>3, <2>4 DEF NumberAtoms
    <3>2. CASE r = mantissa
      BY <3>2, <1>4 DEF NumberAtoms
    <3>3. CASE r = mantissa + 1 /\ r < exponent
      BY <3>3, <2>6, <1>3 DEF NumberAtoms
    <3>4. CASE r >= exponent
      BY <3>4, <2>2, <2>4 DEF NumberAtoms
    <3>5. r < mantissa \/ r = mantissa \/ (r = mantissa + 1 /\ r < exponent)
            \/ r >= exponent
      BY <1>1, <1>3, <2>2
    <3>6. QED
      BY <3>1, <3>2, <3>3, <3>4, <3>5, Zenon
  <2>8. Stop(exponent, Digits) \in (p + 1)..(Len(text) + 1)
    BY <1>1, <1>3, <2>2, <2>4
  <2>9. QED
    BY <2>5, <2>7, <2>8
<1>5. CASE ~(At(mantissa) = "E" /\ At(exponent) \in Digits)
  <2>1. NumberEnd(p) = mantissa
    BY <1>5 DEF NumberEnd, whole, mantissa
  <2>2. QED
    BY <2>1, <1>3 DEF NumberAtoms
<1>6. QED
  BY <1>4, <1>5

-----------------------------------------------------------------------------
(***************************************************************************)
(* The shapes of steps.                                                    *)
(***************************************************************************)

\* What the invariant says of the places of strings.
LEMMA BoundPlace ==
  ASSUME IInv
  PROVE  /\ Len(text) \in Nat
         /\ Bound \in 1..i /\ i \in 1..(Len(text) + 1)
         /\ string = NoString => Bound = i
         /\ string # NoString => Bound = string.first /\ Bound \in 1..Len(text)
<1>1. text \in Seq(Atoms) /\ i \in 1..(Len(text) + 1)
  BY DEF IInv, TypeOK
<1>2. string # NoString => string.first \in 1..Len(text) /\ string.first < i
  BY DEF IInv, TypeOK, InQuotes, Positions
<1>3. QED
  BY <1>1, <1>2 DEF Bound

\* A token is appended that begins at the bound and ends before the new one.
LEMMA TokenStep ==
  ASSUME IInv, NEW kind \in Kinds, NEW end \in Bound..(Len(text) + 1),
         NEW at \in Nat,
         tokens' = Append(tokens, Token(kind, Bound, end, at)),
         i' = end, string' = NoString, skipped' = skipped, text' = text,
         line' \in Nat \ {0}, status' \in {"RUNNING", "DONE"},
         diagnostics \subseteq diagnostics',
         diagnostics' \subseteq
           [code : {"UNKNOWN_TOKEN", "UNTERMINATED_STRING"}, at : Positions],
         (\E p \in Bound..(end - 1) : text[p] = "NEWLINE") =>
           \/ kind = "STRING"
           \/ kind = "NEWLINE" /\ end = Bound + 1
  PROVE  IInv'
<1> DEFINE new == Token(kind, Bound, end, at)
           n == Len(tokens)
<1>1. /\ Len(text) \in Nat /\ Bound \in Nat /\ Bound >= 1 /\ end \in Nat /\ end >= Bound
      /\ tokens \in Seq(TokenType) /\ n \in Nat
  BY BoundPlace DEF IInv, Lists
<1>2. new \in TokenType /\ new.first = Bound /\ new.last = end - 1 /\ new.kind = kind
  BY <1>1 DEF Token, TokenType
<1> HIDE DEF new
<1>3. /\ tokens' \in Seq(TokenType) /\ Len(tokens') = n + 1
      /\ \A k \in 1..n : tokens'[k] = tokens[k]
      /\ tokens'[n + 1] = new
  BY <1>1, <1>2 DEF new
<1>4. Bound' = end
  BY DEF Bound
<1>5. \A k \in 1..(n + 1) : k \in 1..n \/ k = n + 1
  BY <1>1
<1>6. \A k \in 1..n : tokens[k].first \in 1..Bound /\ tokens[k].last \in 0..(Bound - 1)
  BY DEF IInv, Lists
<1>7. Lists'
  <2>1. \A k \in 1..(n + 1) : /\ tokens'[k].first \in 1..end
                             /\ tokens'[k].last \in 0..(end - 1)
    <3>1. new.first \in 1..end /\ new.last \in 0..(end - 1)
      BY <1>1, <1>2
    <3>2. /\ \A p \in 1..Bound : p \in 1..end
          /\ \A p \in 0..(Bound - 1) : p \in 0..(end - 1)
      BY <1>1
    <3>3. \A k \in 1..n : tokens[k].first \in 1..end /\ tokens[k].last \in 0..(end - 1)
      BY <1>6, <3>2
    <3>4. QED
      BY <1>3, <1>5, <3>1, <3>3
  <2>2. QED
    BY <1>3, <1>4, <2>1 DEF Lists
<1>8. TypeOK'
  <2>1. end \in 1..(Len(text) + 1)
    BY <1>1
  <2>2. \A k \in 1..(n + 1) :
          tokens'[k] \in [kind : Kinds, first : Nat, last : Nat, line : Nat]
    <3>1. TypeOK
      BY DEF IInv
    <3>2. new \in [kind : Kinds, first : Nat, last : Nat, line : Nat]
      BY <1>1 DEF new, Token
    <3>3. QED
      BY <1>3, <1>5, <3>1, <3>2 DEF TypeOK
  <2>3. QED
    BY <2>1, <2>2, <1>3 DEF IInv, TypeOK, Positions
<1>9. InQuotes'
  BY DEF InQuotes
<1>10. Accounted'
  <2>1. /\ UNION {Span(tokens[k]) : k \in 1..n} = (1..(Bound - 1)) \ skipped
        /\ skipped \subseteq 1..(Bound - 1)
    BY DEF IInv, Accounted, Bound
  <2>2. \A j, k \in 1..(n + 1) : j < k => tokens'[j].last < tokens'[k].first
    <3>1. \A j, k \in 1..n : j < k => tokens[j].last < tokens[k].first
      BY DEF IInv, Accounted
    <3>2. \A j \in 1..n : tokens[j].last < new.first
      BY <1>1, <1>2, <1>6
    <3>3. \A j, k \in 1..(n + 1) : j < k => j \in 1..n
      BY <1>1
    <3>4. QED
      BY <1>3, <1>5, <3>1, <3>2, <3>3
  <2>3. UNION {Span(tokens'[k]) : k \in 1..(n + 1)}
          = (UNION {Span(tokens[k]) : k \in 1..n}) \cup Span(new)
    <3>1. n + 1 \in 1..(n + 1) /\ \A k \in 1..n : k \in 1..(n + 1)
      BY <1>1
    <3>2. /\ \A k \in 1..n : Span(tokens'[k]) = Span(tokens[k])
          /\ Span(tokens'[n + 1]) = Span(new)
      BY <1>3
    <3> HIDE DEF n
    <3>3. QED
      BY <3>1, <3>2, <1>5, Zenon
  <2>4. Span(new) = Bound..(end - 1)
    BY <1>2 DEF Span
  <2>5. UNION {Span(tokens'[k]) : k \in 1..(n + 1)} = (1..(end - 1)) \ skipped
    <3>1. 1..(end - 1) = (1..(Bound - 1)) \cup (Bound..(end - 1))
      BY <1>1
    <3>2. (Bound..(end - 1)) \cap skipped = {}
      BY <1>1, <2>1
    <3>3. QED
      BY <2>1, <2>3, <2>4, <3>1, <3>2, Zenon
  <2>6. skipped \subseteq 1..(end - 1)
    BY <1>1, <2>1
  <2>7. \A p \in skipped :
           \/ text[p] = "SPACE"
           \/ [code |-> "UNKNOWN_TOKEN", at |-> p] \in diagnostics'
           \/ InComment(p)'
    BY DEF IInv, Accounted, InComment, At
  <2>8. \A k \in 1..(n + 1) :
          (\E p \in Span(tokens'[k]) : text[p] = "NEWLINE") =>
             \/ tokens'[k].kind = "STRING"
             \/ tokens'[k].kind = "NEWLINE" /\ tokens'[k].first = tokens'[k].last
    <3>1. (\E p \in Span(new) : text[p] = "NEWLINE") =>
             \/ new.kind = "STRING"
             \/ new.kind = "NEWLINE" /\ new.first = new.last
      BY <1>1, <1>2, <2>4
    <3>2. \A k \in 1..n :
            (\E p \in Span(tokens[k]) : text[p] = "NEWLINE") =>
               \/ tokens[k].kind = "STRING"
               \/ tokens[k].kind = "NEWLINE" /\ tokens[k].first = tokens[k].last
      BY DEF IInv, Accounted
    <3>3. QED
      BY <1>3, <1>5, <3>1, <3>2
  <2>9. (IF string' = NoString THEN i' ELSE string'.first) = end
    OBVIOUS
  <2>10. QED
    BY <2>2, <2>5, <2>6, <2>7, <2>8, <2>9, <1>3 DEF Accounted, Span
<1>11. QED
  BY <1>7, <1>8, <1>9, <1>10 DEF IInv

\* Between tokens a stretch is passed over, for a reason.
LEMMA SkipStep ==
  ASSUME IInv, string = NoString, NEW end \in (i + 1)..(Len(text) + 1),
         skipped' = skipped \cup i..(end - 1), i' = end,
         UNCHANGED <<text, line, tokens, string, status>>,
         diagnostics \subseteq diagnostics',
         diagnostics' \subseteq
           [code : {"UNKNOWN_TOKEN", "UNTERMINATED_STRING"}, at : Positions],
         \A p \in i..(end - 1) :
           \/ text[p] = "SPACE"
           \/ [code |-> "UNKNOWN_TOKEN", at |-> p] \in diagnostics'
           \/ InComment(p)'
  PROVE  IInv'
<1>1. /\ Len(text) \in Nat /\ i \in Nat /\ i >= 1 /\ end \in Nat /\ end > i
      /\ Bound = i /\ Bound' = end
  BY BoundPlace DEF Bound
<1>2. Lists'
  BY <1>1 DEF IInv, Lists
<1>3. TypeOK'
  <2>1. i..(end - 1) \subseteq Positions /\ end \in 1..(Len(text) + 1)
    BY <1>1 DEF Positions
  <2>2. QED
    BY <2>1 DEF IInv, TypeOK, Positions
<1>4. InQuotes'
  BY DEF InQuotes
<1>5. Accounted'
  <2>1. /\ UNION {Span(tokens[k]) : k \in 1..Len(tokens)} = (1..(i - 1)) \ skipped
        /\ skipped \subseteq 1..(i - 1)
    BY DEF IInv, Accounted
  <2>2. (1..(end - 1)) \ skipped' = (1..(i - 1)) \ skipped
          /\ skipped' \subseteq 1..(end - 1)
    BY <1>1, <2>1
  <2>3. \A p \in skipped :
           \/ text[p] = "SPACE"
           \/ [code |-> "UNKNOWN_TOKEN", at |-> p] \in diagnostics'
           \/ InComment(p)'
    BY DEF IInv, Accounted, InComment, At
  <2>4. (IF string' = NoString THEN i' ELSE string'.first) = end
    OBVIOUS
  <2>5. /\ \A j, k \in 1..Len(tokens) : j < k => tokens[j].last < tokens[k].first
        /\ \A k \in 1..Len(tokens) :
              (\E p \in Span(tokens[k]) : text[p] = "NEWLINE") =>
                 \/ tokens[k].kind = "STRING"
                 \/ tokens[k].kind = "NEWLINE" /\ tokens[k].first = tokens[k].last
    BY DEF IInv, Accounted
  <2>6. QED
    BY <2>1, <2>2, <2>3, <2>4, <2>5 DEF Accounted, Span
<1>6. QED
  BY <1>2, <1>3, <1>4, <1>5 DEF IInv

\* Within a string, and at its beginning, nothing is accounted for yet.
LEMMA StringStep ==
  ASSUME IInv, UNCHANGED <<text, tokens, diagnostics, skipped, status>>,
         line' \in Nat \ {0}, i' \in (i + 1)..(Len(text) + 1),
         string' \in [first : Positions, width : {1, 3}, line : Nat],
         string'.first = Bound, At(Bound) \in Quotes
  PROVE  IInv'
<1>1. /\ Len(text) \in Nat /\ Bound \in 1..i /\ i \in 1..(Len(text) + 1)
  BY BoundPlace
<1>2. string' # NoString
  BY DEF Positions, NoString
<1>3. Bound' = Bound
  BY <1>2 DEF Bound
<1>4. Lists'
  BY <1>3 DEF IInv, Lists
<1>5. TypeOK'
  BY <1>1 DEF IInv, TypeOK, Positions
<1>6. InQuotes'
  <2>1. At(string.first)' = At(Bound)
    BY DEF At
  <2>2. QED
    BY <1>1, <2>1 DEF InQuotes
<1>7. Accounted'
  <2>1. \A p : InComment(p)' = InComment(p)
    BY DEF InComment, At
  <2>2. (IF string = NoString THEN i ELSE string.first)'
           = IF string = NoString THEN i ELSE string.first
    BY <1>2 DEF Bound
  <2> DEFINE read == 1..((IF string = NoString THEN i ELSE string.first) - 1)
  <2>3. read' = read
    BY <2>2
  <2>4. /\ \A j, k \in 1..Len(tokens) :
             j < k => tokens[j].last < tokens[k].first
        /\ UNION {Span(tokens[k]) : k \in 1..Len(tokens)} = read \ skipped
        /\ skipped \subseteq read
        /\ \A p \in skipped : \/ text[p] = "SPACE"
                              \/ [code |-> "UNKNOWN_TOKEN", at |-> p] \in diagnostics
                              \/ InComment(p)
        /\ \A k \in 1..Len(tokens) :
             (\E p \in Span(tokens[k]) : text[p] = "NEWLINE") =>
               \/ tokens[k].kind = "STRING"
               \/ tokens[k].kind = "NEWLINE" /\ tokens[k].first = tokens[k].last
    BY DEF IInv, Accounted
  <2>5. Accounted' <=>
        /\ \A j, k \in 1..Len(tokens) :
             j < k => tokens[j].last < tokens[k].first
        /\ UNION {Span(tokens[k]) : k \in 1..Len(tokens)} = read' \ skipped
        /\ skipped \subseteq read'
        /\ \A p \in skipped : \/ text[p] = "SPACE"
                              \/ [code |-> "UNKNOWN_TOKEN", at |-> p] \in diagnostics
                              \/ InComment(p)'
        /\ \A k \in 1..Len(tokens) :
             (\E p \in Span(tokens[k]) : text[p] = "NEWLINE") =>
               \/ tokens[k].kind = "STRING"
               \/ tokens[k].kind = "NEWLINE" /\ tokens[k].first = tokens[k].last
    BY DEF Accounted, Span
  <2> HIDE DEF read
  <2>6. QED
    BY <2>1, <2>3, <2>4, <2>5
<1>8. QED
  BY <1>4, <1>5, <1>6, <1>7 DEF IInv

-----------------------------------------------------------------------------
(***************************************************************************)
(* The steps.                                                              *)
(***************************************************************************)

LEMMA InitInv == Init => IInv
<1> SUFFICES ASSUME Init
             PROVE  IInv
  OBVIOUS
<1>1. text \in Seq(Atoms) /\ Len(text) \in Nat
  BY LexerAssumption DEF Init
<1>2. tokens \in Seq(TokenType) /\ Len(tokens) = 0 /\ 1..Len(tokens) = {}
  BY DEF Init
<1>3. string = NoString /\ i = 1 /\ skipped = {} /\ (1..(i - 1)) = {}
  BY DEF Init
<1>4. TypeOK
  BY <1>1, <1>2 DEF Init, TypeOK
<1>5. Lists /\ InQuotes
  BY <1>2, <1>3 DEF Lists, InQuotes
<1>6. Accounted
  BY <1>2, <1>3 DEF Accounted
<1>7. QED
  BY <1>4, <1>5, <1>6 DEF IInv

\* A token of one line: from the position on, and without a newline.
LEMMA EmitStep ==
  ASSUME IInv, Running, NEW kind \in Kinds, NEW end \in (i + 1)..(Len(text) + 1),
         Emit(kind, end),
         \A p \in i..(end - 1) : text[p] # "NEWLINE"
  PROVE  IInv'
<1>1. /\ Bound = i /\ string = NoString /\ status = "RUNNING"
      /\ Len(text) \in Nat /\ i \in 1..(Len(text) + 1)
  BY BoundPlace DEF Running
<1>2. end \in Bound..(Len(text) + 1)
  BY <1>1
<1>3. line \in Nat \ {0} /\ diagnostics \subseteq
         [code : {"UNKNOWN_TOKEN", "UNTERMINATED_STRING"}, at : Positions]
  BY DEF IInv, TypeOK
<1>4. QED
  BY <1>1, <1>2, <1>3, TokenStep DEF Emit

\* What holds where the loop of lex is at the beginning of a token.
LEMMA AtBeginning ==
  ASSUME IInv, Running
  PROVE  /\ text \in Seq(Atoms) /\ Len(text) \in Nat
         /\ i \in 1..Len(text) /\ At(i) = text[i]
         /\ string = NoString /\ status = "RUNNING" /\ Bound = i
         /\ line \in Nat \ {0}
         /\ diagnostics \subseteq
              [code : {"UNKNOWN_TOKEN", "UNTERMINATED_STRING"}, at : Positions]
BY BoundPlace DEF IInv, TypeOK, Running, At

\* A blank, and an atom that begins no token.
LEMMA OneSkipped ==
  ASSUME IInv, Blank \/ Unknown
  PROVE  IInv'
<1>1. Running /\ string = NoString
  BY DEF Blank, Unknown, Running
<1>2. /\ i + 1 \in (i + 1)..(Len(text) + 1) /\ i..((i + 1) - 1) = {i}
      /\ At(i) = text[i] /\ i \in Positions
  BY <1>1, AtBeginning DEF Positions
<1>3. /\ skipped' = skipped \cup i..((i + 1) - 1) /\ i' = i + 1
      /\ UNCHANGED <<text, line, tokens, string, status>>
      /\ diagnostics \subseteq diagnostics'
  BY DEF Blank, Unknown, Skip
<1>4. diagnostics' \subseteq
        [code : {"UNKNOWN_TOKEN", "UNTERMINATED_STRING"}, at : Positions]
  BY <1>1, <1>2, AtBeginning DEF Blank, Unknown
<1>5. text[i] = "SPACE" \/ [code |-> "UNKNOWN_TOKEN", at |-> i] \in diagnostics'
  BY <1>2 DEF Blank, Unknown
<1>6. \A p \in i..((i + 1) - 1) :
         \/ text[p] = "SPACE"
         \/ [code |-> "UNKNOWN_TOKEN", at |-> p] \in diagnostics'
         \/ InComment(p)'
  BY <1>2, <1>5
<1>7. QED
  BY <1>1, <1>2, <1>3, <1>4, <1>6, SkipStep

\* A comment, and one that is an annotation, runs to the end of its line.
LEMMA CommentScan ==
  ASSUME IInv, Running, AtComment
  PROVE  /\ CommentEnd \in (i + 1)..(Len(text) + 1)
         /\ \A p \in i..(CommentEnd - 1) : p \in 1..Len(text) /\ text[p] # "NEWLINE"
<1>1. At(i) \in Atoms \ {"NEWLINE"}
  BY DEF AtComment, Atoms
<1>2. QED
  BY <1>1, AtBeginning, StopAdvances DEF CommentEnd

LEMMA CommentSkipped ==
  ASSUME IInv, Comment
  PROVE  IInv'
<1>1. Running /\ AtComment /\ string = NoString
  BY DEF Comment, Running
<1>2. /\ CommentEnd \in (i + 1)..(Len(text) + 1)
      /\ \A p \in i..(CommentEnd - 1) : p \in 1..Len(text) /\ text[p] # "NEWLINE"
  BY <1>1, CommentScan
<1>3. /\ skipped' = skipped \cup i..(CommentEnd - 1) /\ i' = CommentEnd
      /\ UNCHANGED <<text, line, tokens, string, status, diagnostics>>
  BY DEF Comment, Skip
<1>4. ASSUME NEW p \in i..(CommentEnd - 1)
      PROVE  InComment(p)'
  <2>1. PICK s \in Nat : s = i
    BY <1>1, AtBeginning
  <2>2. text'[s] = "SLASH" /\ At(s + 1)' = "SLASH" /\ s \in 1..p
    BY <1>1, <1>3, <2>1, AtBeginning DEF AtComment, At
  <2>3. s..p \subseteq skipped' /\ \A r \in s..p : text'[r] # "NEWLINE"
    BY <1>1, <1>2, <1>3, <2>1, AtBeginning
  <2>4. QED
    BY <2>2, <2>3 DEF InComment
<1>5. QED
  BY <1>1, <1>2, <1>3, <1>4, AtBeginning, SkipStep

LEMMA AnnotationEmitted ==
  ASSUME IInv, Annotation
  PROVE  IInv'
<1>1. Running /\ AtComment /\ Emit("ANNOTATION", CommentEnd) /\ "ANNOTATION" \in Kinds
  BY DEF Annotation, Kinds
<1>2. QED
  BY <1>1, CommentScan, EmitStep

LEMMA ColorEmitted ==
  ASSUME IInv, Color
  PROVE  IInv'
<1>1. Running /\ Emit("COLOR", i + 1) /\ "COLOR" \in Kinds /\ At(i) = "COLOR"
  BY DEF Color, Kinds
<1>2. i + 1 \in (i + 1)..(Len(text) + 1)
        /\ \A p \in i..((i + 1) - 1) : text[p] # "NEWLINE"
  BY <1>1, AtBeginning
<1>3. QED
  BY <1>1, <1>2, EmitStep

LEMMA NewlineEmitted ==
  ASSUME IInv, Newline
  PROVE  IInv'
<1>1. Running /\ "NEWLINE" \in Kinds
  BY DEF Newline, Kinds
<1>2. /\ i + 1 \in Bound..(Len(text) + 1) /\ Bound = i /\ string = NoString
      /\ line \in Nat /\ line + 1 \in Nat \ {0} /\ status = "RUNNING"
      /\ diagnostics \subseteq
           [code : {"UNKNOWN_TOKEN", "UNTERMINATED_STRING"}, at : Positions]
  BY <1>1, AtBeginning
<1>3. QED
  BY <1>1, <1>2, TokenStep DEF Newline

LEMMA NumberEmitted ==
  ASSUME IInv, Number
  PROVE  IInv'
<1> DEFINE end == NumberEnd(i)
           kind == IF IsFloat(i, end) THEN "FLOAT" ELSE "INTEGER"
<1>1. Running /\ AtNumber /\ Emit(kind, end) /\ kind \in Kinds
  BY DEF Number, Kinds
<1>2. /\ end \in (i + 1)..(Len(text) + 1)
      /\ \A r \in i..(end - 1) : At(r) \in NumberAtoms
  BY <1>1, AtBeginning, NumberScan DEF AtNumber
<1> HIDE DEF end, kind
<1>3. \A r \in i..(end - 1) : text[r] # "NEWLINE"
  BY <1>1, <1>2, AtBeginning DEF At, NumberAtoms, Digits
<1>4. QED
  BY <1>1, <1>2, <1>3, EmitStep

LEMMA IdentifierEmitted ==
  ASSUME IInv, Identifier
  PROVE  IInv'
<1> DEFINE class == Letters \cup {"DIGIT"}
<1>1. /\ Running /\ Emit("IDENTIFIER", Stop(i, class)) /\ "IDENTIFIER" \in Kinds
      /\ At(i) \in class /\ class \in SUBSET Atoms /\ "NEWLINE" \notin class
  BY DEF Identifier, Kinds, Letters, Atoms
<1> HIDE DEF class
<1>2. /\ Stop(i, class) \in (i + 1)..(Len(text) + 1)
      /\ \A p \in i..(Stop(i, class) - 1) : text[p] \in class
  BY <1>1, AtBeginning, StopAdvances
<1>3. QED
  BY <1>1, <1>2, EmitStep

LEMMA OperatorEmitted ==
  ASSUME IInv, Operator
  PROVE  IInv'
<1> DEFINE end == i + OperatorWidth(i)
<1>1. Running /\ Emit("OPERATOR", end) /\ "OPERATOR" \in Kinds /\ At(i) \in Operators
  BY DEF Operator, Kinds
<1>2. /\ end \in (i + 1)..(Len(text) + 1)
      /\ \A p \in i..(end - 1) : text[p] # "NEWLINE"
  <2>1. CASE OperatorWidth(i) = 1
    BY <2>1, <1>1, AtBeginning DEF Operators
  <2>2. CASE OperatorWidth(i) # 1
    <3>1. OperatorWidth(i) = 2 /\ At(i + 1) = "EQUALS"
      BY <2>2 DEF OperatorWidth
    <3>2. i + 1 \in 1..Len(text) /\ text[i + 1] = "EQUALS"
      BY <3>1, <1>1, AtBeginning, Within DEF Atoms
    <3>3. \A p \in i..(end - 1) : p = i \/ p = i + 1
      BY <3>1, <1>1, AtBeginning
    <3>4. text[i] # "NEWLINE"
      BY <1>1, AtBeginning DEF Operators
    <3>5. QED
      BY <1>1, <3>1, <3>2, <3>3, <3>4, AtBeginning
  <2>3. QED
    BY <2>1, <2>2
<1> HIDE DEF end
<1>3. QED
  BY <1>1, <1>2, EmitStep

\* A repeated atom is there as often as it is looked for.
LEMMA RepeatedWithin ==
  ASSUME text \in Seq(Atoms), NEW p \in Int, NEW quote \in Quotes,
         NEW width \in {1, 3}, Repeated(p, quote, width)
  PROVE  p + width - 1 \in 1..Len(text)
<1>1. p + width - 1 \in p..(p + width - 1) /\ p + width - 1 \in Int
  OBVIOUS
<1>2. At(p + width - 1) \in Atoms
  BY <1>1 DEF Repeated, AllIn, Quotes, Atoms
<1>3. QED
  BY <1>1, <1>2, Within

LEMMA StringOpened ==
  ASSUME IInv, OpenString
  PROVE  IInv'
<1>1. Running /\ At(i) \in Quotes
  BY DEF OpenString
<1>2. DelimiterWidth(i) \in {1, 3}
        /\ i + DelimiterWidth(i) \in (i + 1)..(Len(text) + 1)
  <2>1. CASE Repeated(i, At(i), 3)
    <3>1. i + 3 - 1 \in 1..Len(text)
      BY <2>1, <1>1, AtBeginning, RepeatedWithin
    <3>2. QED
      BY <2>1, <3>1, <1>1, AtBeginning DEF DelimiterWidth
  <2>2. CASE ~Repeated(i, At(i), 3)
    BY <2>2, <1>1, AtBeginning DEF DelimiterWidth
  <2>3. QED
    BY <2>1, <2>2
<1>3. /\ string' = [first |-> i, width |-> DelimiterWidth(i), line |-> line]
      /\ i' = i + DelimiterWidth(i)
      /\ UNCHANGED <<text, line, tokens, diagnostics, skipped, status>>
  BY DEF OpenString
<1>4. string' \in [first : Positions, width : {1, 3}, line : Nat]
        /\ string'.first = Bound
  BY <1>1, <1>2, <1>3, AtBeginning DEF Positions
<1>5. QED
  BY <1>1, <1>2, <1>3, <1>4, AtBeginning, StringStep

\* What holds within a string.
LEMMA AtString ==
  ASSUME IInv, InString
  PROVE  /\ text \in Seq(Atoms) /\ Len(text) \in Nat /\ i \in 1..(Len(text) + 1)
         /\ string \in [first : Positions, width : {1, 3}, line : Nat]
         /\ Bound = string.first /\ Bound \in 1..Len(text) /\ Bound < i
         /\ At(Bound) \in Quotes
         /\ status = "RUNNING" /\ line \in Nat \ {0}
         /\ diagnostics \subseteq
              [code : {"UNKNOWN_TOKEN", "UNTERMINATED_STRING"}, at : Positions]
BY BoundPlace DEF IInv, TypeOK, InQuotes, InString, Bound

LEMMA StringEnded ==
  ASSUME IInv, CloseString \/ UnterminatedString
  PROVE  IInv'
<1>1. InString /\ "STRING" \in Kinds
  BY DEF CloseString, UnterminatedString, Kinds
<1>2. PICK end \in Bound..(Len(text) + 1) : EndString(end)
  <2>1. CASE CloseString
    <3>1. i + string.width - 1 \in 1..Len(text)
      BY <2>1, <1>1, AtString, RepeatedWithin DEF CloseString, AtDelimiter
    <3>2. i + string.width \in Bound..(Len(text) + 1)
      BY <3>1, <1>1, AtString
    <3>3. QED
      BY <2>1, <3>2 DEF CloseString
  <2>2. CASE UnterminatedString
    BY <2>2, <1>1, AtString DEF UnterminatedString
  <2>3. QED
    BY <2>1, <2>2
<1>3. /\ diagnostics \subseteq diagnostics'
      /\ diagnostics' \subseteq
           [code : {"UNKNOWN_TOKEN", "UNTERMINATED_STRING"}, at : Positions]
  BY <1>1, AtString DEF CloseString, UnterminatedString
<1>4. string.line \in Nat /\ line \in Nat \ {0} /\ status = "RUNNING"
        /\ Bound = string.first
  BY <1>1, AtString
<1>5. /\ tokens' = Append(tokens, Token("STRING", Bound, end, string.line))
      /\ i' = end /\ string' = NoString /\ UNCHANGED <<text, line, skipped, status>>
  BY <1>2, <1>4 DEF EndString
<1>6. QED
  BY <1>1, <1>3, <1>4, <1>5, TokenStep

LEMMA StringRead ==
  ASSUME IInv, Escape \/ StringAtom
  PROVE  IInv'
<1>1. InString /\ i <= Len(text)
  <2>1. InString /\ ~(i > Len(text))
    BY DEF Escape, StringAtom, BrokenOff
  <2>2. QED
    BY <2>1, AtString
<1>2. /\ i' \in (i + 1)..(Len(text) + 1) /\ line' \in Nat \ {0}
      /\ UNCHANGED <<text, tokens, diagnostics, string, skipped, status>>
  BY <1>1, AtString DEF Escape, StringAtom, EscapeEnd, LineAfter
<1>3. QED
  BY <1>1, <1>2, AtString, StringStep

LEMMA EndReached ==
  ASSUME IInv, Finish
  PROVE  IInv'
<1>1. /\ string = NoString /\ status = "RUNNING" /\ "EOF" \in Kinds
      /\ tokens' = Append(tokens, Token("EOF", i, i, line)) /\ status' = "DONE"
      /\ UNCHANGED <<text, i, line, diagnostics, string, skipped>>
  BY DEF Finish, Kinds
<1>2. /\ Bound = i /\ i \in Bound..(Len(text) + 1)
      /\ i \in Int /\ i..(i - 1) = {}
  BY <1>1, BoundPlace
<1>3. line \in Nat \ {0} /\ diagnostics \subseteq
         [code : {"UNKNOWN_TOKEN", "UNTERMINATED_STRING"}, at : Positions]
  BY DEF IInv, TypeOK
<1>4. QED
  BY <1>1, <1>2, <1>3, TokenStep

LEMMA NothingRead ==
  ASSUME IInv, NumberFails \/ IdentifierFails \/ UNCHANGED lexerVars
  PROVE  IInv'
<1>1. /\ UNCHANGED <<text, i, line, tokens, diagnostics, string, skipped>>
      /\ status' \in {"ValueError", "AssertionError", status}
  BY DEF NumberFails, IdentifierFails, Raise, lexerVars
<1>2. TypeOK' /\ Lists' /\ InQuotes'
  BY <1>1 DEF IInv, TypeOK, Lists, InQuotes, Bound, Positions, At
<1>3. Accounted'
  BY <1>1 DEF IInv, Accounted, InComment, At, Span
<1>4. QED
  BY <1>2, <1>3 DEF IInv

-----------------------------------------------------------------------------

NumberAt(p) ==
  \/ At(p) \in Digits
  \/ At(p) = "DOT" /\ At(p + 1) \in Digits

-----------------------------------------------------------------------------
(***************************************************************************)
(* Numbers.                                                                *)
(***************************************************************************)

\* The part of a number before its exponent is a mantissa, and no longer
\* stretch is one.
LEMMA MantissaIsLongest ==
  ASSUME text \in Seq(Atoms), NEW p \in 1..Len(text), NumberAt(p),
         NEW whole, whole = Stop(p, Digits),
         NEW m, m = IF At(whole) = "DOT" THEN Stop(whole + 1, Digits) ELSE whole
  PROVE  /\ m \in (p + 1)..(Len(text) + 1)
         /\ IsMantissa(p, m - 1)
         /\ \A r \in p..(m - 1) : At(r) \in Digits \cup {"DOT"}
         /\ \A q \in m..Len(text) : ~IsMantissa(p, q)
<1>1. Len(text) \in Nat /\ Digits \in SUBSET Atoms /\ "DOT" \notin Digits
  BY DEF Digits, Atoms
<1>2. /\ whole \in p..(Len(text) + 1) /\ At(whole) \notin Digits
      /\ \A r \in p..(whole - 1) : At(r) \in Digits
  BY <1>1, StopScan
<1>3. \A r \in 1..Len(text) : At(r) = text[r]
  BY DEF At
<1>4. CASE At(whole) = "DOT"
  <2>1. whole \in 1..Len(text) /\ text[whole] = "DOT" /\ m = Stop(whole + 1, Digits)
    BY <1>4, <1>1, <1>2 DEF At
  <2>2. /\ m \in (whole + 1)..(Len(text) + 1) /\ At(m) \notin Digits
        /\ \A r \in (whole + 1)..(m - 1) : At(r) \in Digits
    BY <2>1, <1>1, StopScan
  <2>3. p < m - 1
    <3>1. CASE whole = p
      <4>1. At(p + 1) \in Digits
        BY <3>1, <1>2 DEF NumberAt
      <4>2. m # p + 1
        BY <4>1, <2>2, <3>1
      <4>3. QED
        BY <3>1, <4>2, <2>2, <1>1
    <3>2. CASE whole # p
      BY <3>2, <1>1, <1>2, <2>2
    <3>3. QED
      BY <3>1, <3>2
  <2>4. IsMantissa(p, m - 1)
    <3>1. whole \in p..(m - 1)
      BY <1>1, <1>2, <2>2
    <3>2. AllIn(p, whole - 1, Digits) /\ AllIn(whole + 1, m - 1, Digits)
      BY <1>2, <2>2 DEF AllIn
    <3>3. QED
      BY <2>1, <2>3, <3>1, <3>2 DEF IsMantissa
  <2>5. \A r \in p..(m - 1) : At(r) \in Digits \cup {"DOT"}
    <3>1. \A r \in p..(m - 1) :
            r \in p..(whole - 1) \/ r = whole \/ r \in (whole + 1)..(m - 1)
      BY <1>1, <1>2, <2>2
    <3>2. QED
      BY <3>1, <1>2, <1>4, <2>2
  <2>6. ASSUME NEW q \in m..Len(text), IsMantissa(p, q)
        PROVE  FALSE
    <3>1. whole \in p..q /\ m \in p..q /\ whole < m /\ q \in Nat
      BY <1>1, <1>2, <2>2
    <3>2. ~AllIn(p, q, Digits)
      BY <3>1, <1>2 DEF AllIn
    <3>3. PICK d \in p..q : /\ text[d] = "DOT" /\ AllIn(p, d - 1, Digits)
                            /\ AllIn(d + 1, q, Digits)
      BY <2>6, <3>2 DEF IsMantissa
    <3>4. ~(d < whole)
      <4>1. ASSUME d < whole PROVE FALSE
        <5>1. d \in p..(whole - 1) /\ d \in 1..Len(text)
          BY <4>1, <3>1, <1>1
        <5>2. QED
          BY <5>1, <1>1, <1>2, <1>3, <3>3
      <4>2. QED
        BY <4>1
    <3>5. ~(d > whole)
      <4>1. ASSUME d > whole PROVE FALSE
        <5>1. whole \in p..(d - 1)
          BY <4>1, <3>1, <1>1
        <5>2. QED
          BY <5>1, <1>2, <3>3 DEF AllIn
      <4>2. QED
        BY <4>1
    <3>6. m \in (d + 1)..q
      BY <3>1, <3>4, <3>5, <1>1
    <3>7. QED
      BY <3>3, <3>6, <2>2 DEF AllIn
  <2>7. QED
    BY <1>1, <1>2, <2>2, <2>4, <2>5, <2>6
<1>5. CASE At(whole) # "DOT"
  <2>1. m = whole /\ whole # p
    BY <1>5, <1>2 DEF NumberAt
  <2>2. m \in (p + 1)..(Len(text) + 1)
    BY <2>1, <1>1, <1>2
  <2>3. IsMantissa(p, m - 1)
    BY <2>1, <2>2, <1>1, <1>2 DEF IsMantissa, AllIn
  <2>4. ASSUME NEW q \in m..Len(text), IsMantissa(p, q)
        PROVE  FALSE
    <3>1. m \in p..q /\ m \in 1..Len(text) /\ q \in Nat
      BY <1>1, <2>2
    <3>2. ~AllIn(p, q, Digits)
      BY <3>1, <2>1, <1>2 DEF AllIn
    <3>3. PICK d \in p..q : /\ text[d] = "DOT" /\ AllIn(p, d - 1, Digits)
                            /\ AllIn(d + 1, q, Digits)
      BY <2>4, <3>2 DEF IsMantissa
    <3>4. d # m
      BY <3>1, <3>3, <2>1, <1>3, <1>5
    <3>5. m \in p..(d - 1) \/ m \in (d + 1)..q
      BY <3>1, <3>3, <3>4
    <3>6. QED
      BY <3>3, <3>5, <2>1, <1>2 DEF AllIn
  <2>5. QED
    BY <2>1, <2>2, <2>3, <2>4, <1>2
<1>6. QED
  BY <1>4, <1>5

\* Where _lex_number stops is the end of the longest numeral that begins there.
LEMMA NumberIsLongest ==
  ASSUME text \in Seq(Atoms), NEW p \in 1..Len(text), NumberAt(p)
  PROVE  /\ IsNumeral(p, NumberEnd(p) - 1)
         /\ \A q \in NumberEnd(p)..Len(text) : ~IsNumeral(p, q)
<1> DEFINE whole == Stop(p, Digits)
           m == IF At(whole) = "DOT" THEN Stop(whole + 1, Digits) ELSE whole
           exponent == m + 1 + SignWidth(m + 1)
<1>1. /\ Len(text) \in Nat /\ Digits \in SUBSET Atoms
      /\ "E" \notin Digits \cup {"DOT"}
  BY DEF Digits, Atoms
<1>2. /\ m \in (p + 1)..(Len(text) + 1)
      /\ IsMantissa(p, m - 1)
      /\ \A r \in p..(m - 1) : At(r) \in Digits \cup {"DOT"}
      /\ \A q \in m..Len(text) : ~IsMantissa(p, q)
  BY MantissaIsLongest
<1>3. NumberEnd(p) = IF At(m) = "E" /\ At(exponent) \in Digits
                     THEN Stop(exponent, Digits) ELSE m
  BY DEF NumberEnd
<1> HIDE DEF m, whole
<1>4. \A r \in 1..Len(text) : At(r) = text[r]
  BY DEF At
\* The exponent of any numeral stands where the mantissa ends.
<1>5. ASSUME NEW q \in p..Len(text), IsNumeral(p, q), ~IsMantissa(p, q)
      PROVE  At(m) = "E" /\ exponent <= q /\ AllIn(exponent, q, Digits)
  <2>1. PICK e \in p..q : /\ text[e] = "E" /\ IsMantissa(p, e - 1)
                          /\ e + 1 + SignWidth(e + 1) <= q
                          /\ AllIn(e + 1 + SignWidth(e + 1), q, Digits)
    BY <1>5 DEF IsNumeral
  <2>2. ~(e > m)
    <3>1. ASSUME e > m PROVE FALSE
      <4>1. e - 1 \in m..Len(text)
        BY <3>1, <1>1, <1>2
      <4>2. QED
        BY <4>1, <2>1, <1>2
    <3>2. QED
      BY <3>1
  <2>3. ~(e < m)
    <3>1. ASSUME e < m PROVE FALSE
      <4>1. e \in p..(m - 1) /\ e \in 1..Len(text)
        BY <3>1, <1>1, <1>2
      <4>2. QED
        BY <4>1, <2>1, <1>1, <1>2, <1>4
    <3>2. QED
      BY <3>1
  <2>4. e = m /\ e \in 1..Len(text)
    BY <2>2, <2>3, <1>1, <1>2
  <2>5. QED
    BY <2>1, <2>4, <1>4
<1>6. CASE At(m) = "E" /\ At(exponent) \in Digits
  <2>1. m \in 1..Len(text) /\ text[m] = "E"
    BY <1>6, <1>1, <1>2 DEF At
  <2>2. exponent \in {m + 1, m + 2} /\ exponent \in Int
    BY <2>1, <1>1 DEF SignWidth
  <2>3. exponent \in 1..Len(text)
    BY <1>6, <1>1, <2>2, Within
  <2>4. /\ Stop(exponent, Digits) \in (exponent + 1)..(Len(text) + 1)
        /\ At(Stop(exponent, Digits)) \notin Digits
        /\ \A r \in exponent..(Stop(exponent, Digits) - 1) : At(r) \in Digits
    BY <1>6, <1>1, <2>3, StopScan, StopAdvances
  <2> DEFINE end == Stop(exponent, Digits)
  <2>5. IsNumeral(p, end - 1)
    <3>1. /\ m \in p..(end - 1) /\ exponent <= end - 1
          /\ AllIn(exponent, end - 1, Digits)
      BY <1>1, <1>2, <2>2, <2>4 DEF AllIn
    <3>2. QED
      BY <3>1, <2>1, <1>2 DEF IsNumeral
  <2>6. ASSUME NEW q \in end..Len(text), IsNumeral(p, q)
        PROVE  FALSE
    <3>1. q \in p..Len(text) /\ q \in m..Len(text) /\ end \in exponent..q
      BY <1>1, <1>2, <2>2, <2>4
    <3>2. AllIn(exponent, q, Digits)
      BY <3>1, <2>6, <1>2, <1>5
    <3>3. QED
      BY <3>1, <3>2, <2>4 DEF AllIn
  <2>7. QED
    BY <1>3, <1>6, <2>5, <2>6
<1>7. CASE ~(At(m) = "E" /\ At(exponent) \in Digits)
  <2>1. NumberEnd(p) = m
    BY <1>3, <1>7
  <2>2. ASSUME NEW q \in m..Len(text), IsNumeral(p, q)
        PROVE  FALSE
    <3>1. q \in p..Len(text) /\ q \in Nat
      BY <1>1, <1>2
    <3>2. At(m) = "E" /\ exponent <= q /\ AllIn(exponent, q, Digits)
      BY <3>1, <2>2, <1>2, <1>5
    <3>3. exponent \in exponent..q
      BY <3>1, <3>2, <1>1, <1>2 DEF SignWidth
    <3>4. QED
      BY <3>2, <3>3, <1>7 DEF AllIn
  <2>3. QED
    BY <2>1, <2>2, <1>2 DEF IsNumeral
<1>8. QED
  BY <1>6, <1>7

-----------------------------------------------------------------------------
(***************************************************************************)
(* Backslashes.                                                            *)
(***************************************************************************)

\* That n backslashes, and no more, stand before p.
Run(s, p, n) ==
  /\ n \in 0..(p - s)
  /\ AllIn(p - n, p - 1, {"BACKSLASH"})
  /\ n = p - s \/ At(p - n - 1) # "BACKSLASH"

\* There is one such number, and it is what is counted.
LEMMA RunIsBackslashes ==
  ASSUME NEW s \in Nat, NEW p \in Nat, s <= p
  PROVE  /\ Run(s, p, Backslashes(s, p))
         /\ \A n : Run(s, p, n) => n = Backslashes(s, p)
<1> DEFINE starts == {q \in s..p : AllIn(q, p - 1, {"BACKSLASH"})}
<1>1. p \in starts /\ starts \in SUBSET Nat
  BY DEF AllIn
<1>2. PICK q \in starts : \A r \in starts : q <= r
  <2> HIDE DEF starts
  <2>1. QED
    BY <1>1, LeastPosition
<1>3. Run(s, p, p - q)
  <2>1. p - q \in 0..(p - s) /\ p - (p - q) = q /\ p - (p - q) - 1 = q - 1
    BY <1>2
  <2>2. ASSUME q # s, At(q - 1) = "BACKSLASH"
        PROVE  FALSE
    <3>1. q - 1 \in s..p /\ \A r \in (q - 1)..(p - 1) : r = q - 1 \/ r \in q..(p - 1)
      BY <2>2, <1>2
    <3>2. AllIn(q - 1, p - 1, {"BACKSLASH"})
      BY <3>1, <2>2, <1>2 DEF AllIn
    <3>3. QED
      BY <3>1, <3>2, <1>2
  <2>3. q = s => p - q = p - s
    OBVIOUS
  <2>4. QED
    BY <2>1, <2>2, <2>3, <1>2 DEF Run
<1>4. ASSUME NEW n, NEW l, Run(s, p, n), Run(s, p, l), n < l
      PROVE  FALSE
  <2>1. n \in 0..(p - s) /\ l \in 0..(p - s)
    BY <1>4 DEF Run
  <2>2. p - n - 1 \in (p - l)..(p - 1) /\ n # p - s
    BY <1>4, <2>1
  <2>3. QED
    BY <1>4, <2>1, <2>2 DEF Run, AllIn
<1>5. Run(s, p, Backslashes(s, p))
  <2>1. \E n \in 0..(p - s) : /\ AllIn(p - n, p - 1, {"BACKSLASH"})
                              /\ n = p - s \/ At(p - n - 1) # "BACKSLASH"
    BY <1>3 DEF Run
  <2>2. QED
    BY <2>1 DEF Backslashes, Run
<1>6. ASSUME NEW n, Run(s, p, n)
      PROVE  n = Backslashes(s, p)
  <2>1. n \in Int /\ Backslashes(s, p) \in Int
    BY <1>5, <1>6 DEF Run
  <2>2. ~(n < Backslashes(s, p)) /\ ~(Backslashes(s, p) < n)
    BY <1>4, <1>5, <1>6
  <2>3. QED
    BY <2>1, <2>2
<1>7. QED
  BY <1>5, <1>6

\* The count from one position to the next.
LEMMA BackslashesStep ==
  ASSUME NEW s \in Nat, NEW p \in Nat, s <= p
  PROVE  /\ Backslashes(s, s) = 0
         /\ Backslashes(s, p) \in Nat
         /\ Backslashes(s, p + 1)
              = IF At(p) = "BACKSLASH" THEN Backslashes(s, p) + 1 ELSE 0
<1>1. Backslashes(s, s) = 0
  <2>1. Run(s, s, Backslashes(s, s))
    BY RunIsBackslashes
  <2>2. QED
    BY <2>1 DEF Run
<1>2. Run(s, p, Backslashes(s, p)) /\ Backslashes(s, p) \in 0..(p - s)
  BY RunIsBackslashes DEF Run
<1> DEFINE n == Backslashes(s, p)
<1>3. CASE At(p) = "BACKSLASH"
  <2> HIDE DEF n
  <2>1. /\ n + 1 \in 0..((p + 1) - s) /\ (p + 1) - (n + 1) = p - n /\ (p + 1) - 1 = p
        /\ (p + 1) - (n + 1) - 1 = p - n - 1
        /\ n = p - s => n + 1 = (p + 1) - s
        /\ \A r \in (p - n)..p : r = p \/ r \in (p - n)..(p - 1)
    BY <1>2 DEF n
  <2>2. AllIn(p - n, p, {"BACKSLASH"})
    BY <2>1, <1>2, <1>3 DEF Run, AllIn, n
  <2>3. Run(s, p + 1, n + 1)
    BY <2>1, <2>2, <1>2 DEF Run, n
  <2>4. p + 1 \in Nat /\ s <= p + 1
    OBVIOUS
  <2>5. n + 1 = Backslashes(s, p + 1)
    BY <2>3, <2>4, RunIsBackslashes
  <2>6. QED
    BY <1>1, <1>2, <1>3, <2>5 DEF n
<1>4. CASE At(p) # "BACKSLASH"
  <2>1. /\ 0 \in 0..((p + 1) - s) /\ (p + 1) - 0 - 1 = p
        /\ ((p + 1) - 0)..((p + 1) - 1) = {}
    OBVIOUS
  <2>2. Run(s, p + 1, 0)
    BY <2>1, <1>4 DEF Run, AllIn
  <2>3. p + 1 \in Nat /\ s <= p + 1
    OBVIOUS
  <2>4. 0 = Backslashes(s, p + 1)
    BY <2>2, <2>3, RunIsBackslashes
  <2>5. QED
    BY <1>1, <1>2, <1>4, <2>4
<1>5. QED
  BY <1>3, <1>4

\* An unescaped backslash escapes what follows it and nothing else.
LEMMA EscapedByOne ==
  ASSUME NEW s \in Nat, NEW p \in Nat, s <= p, Unescaped(s, p)
  PROVE  /\ At(p) # "BACKSLASH" => Unescaped(s, p + 1)
         /\ At(p) = "BACKSLASH" => ~Unescaped(s, p + 1) /\ Unescaped(s, p + 2)
<1>1. /\ p + 1 \in Nat /\ s <= p + 1 /\ (p + 1) + 1 = p + 2
      /\ Backslashes(s, p) \in Nat /\ Backslashes(s, p) % 2 = 0
  BY BackslashesStep DEF Unescaped
<1>2. CASE At(p) # "BACKSLASH"
  BY <1>2, BackslashesStep DEF Unescaped
<1>3. CASE At(p) = "BACKSLASH"
  <2>1. Backslashes(s, p + 1) = Backslashes(s, p) + 1
    BY <1>3, BackslashesStep
  <2>2. Backslashes(s, p + 2) = IF At(p + 1) = "BACKSLASH"
                                THEN Backslashes(s, p) + 2 ELSE 0
    <3>1. Backslashes(s, (p + 1) + 1) = IF At(p + 1) = "BACKSLASH"
                                        THEN Backslashes(s, p + 1) + 1 ELSE 0
      BY <1>1, BackslashesStep
    <3>2. (Backslashes(s, p) + 1) + 1 = Backslashes(s, p) + 2
      BY <1>1
    <3>3. QED
      BY <1>1, <2>1, <3>1, <3>2
  <2>3. /\ (Backslashes(s, p) + 1) % 2 # 0
        /\ (Backslashes(s, p) + 2) % 2 = 0 /\ 0 % 2 = 0
    BY <1>1
  <2>4. QED
    BY <1>3, <2>1, <2>2, <2>3 DEF Unescaped
<1>4. QED
  BY <1>2, <1>3

-----------------------------------------------------------------------------
(***************************************************************************)
(* The steps, by what they do to the tokens.                               *)
(***************************************************************************)

Numerals == {"INTEGER", "FLOAT"}

\* A token that is not a string.
Lexeme(kind, end) ==
  /\ kind \in Kinds \ {"STRING"} /\ end \in i..(Len(text) + 1)
  /\ tokens' = Append(tokens, Token(kind, i, end, line))
  /\ i' = end
  /\ kind \in Numerals => i <= Len(text) /\ NumberAt(i) /\ end = NumberEnd(i)
  /\ IF kind = "NEWLINE"
     THEN i <= Len(text) /\ text[i] = "NEWLINE" /\ end = i + 1 /\ line' = line + 1
     ELSE line' = line /\ \A p \in i..(end - 1) : text[p] # "NEWLINE"
  /\ string = NoString
  /\ UNCHANGED <<text, diagnostics, string>>

\* What makes no token.
Passed(end) ==
  /\ end \in i..(Len(text) + 1)
  /\ \A p \in i..(end - 1) : text[p] # "NEWLINE"
  /\ i' = end
  /\ \A d \in diagnostics' : d \in diagnostics \/ d.code = "UNKNOWN_TOKEN"
  /\ diagnostics \subseteq diagnostics'
  /\ string = NoString
  /\ UNCHANGED <<text, line, tokens, string>>

Idle == UNCHANGED <<text, i, line, tokens, diagnostics, string>>

LEMMA StepInv ==
  ASSUME IInv, [Next]_lexerVars
  PROVE  IInv'
BY OneSkipped, CommentSkipped, AnnotationEmitted, ColorEmitted,
   NewlineEmitted, NumberEmitted, IdentifierEmitted, OperatorEmitted,
   StringOpened, StringEnded, StringRead, EndReached, NothingRead
   DEF Next

\* Tokens of one line have no newline in them.
LEMMA EmitIsLexeme ==
  ASSUME IInv, IInv', Running, NEW kind, NEW end, end >= i, Emit(kind, end),
         kind \in Kinds \ {"STRING", "NEWLINE"},
         kind \in Numerals => NumberAt(i) /\ end = NumberEnd(i)
  PROVE  Lexeme(kind, end)
<1>1. /\ i \in 1..Len(text) /\ string = NoString /\ Len(text) \in Nat
      /\ tokens' = Append(tokens, Token(kind, i, end, line)) /\ i' = end
      /\ UNCHANGED <<text, line, diagnostics, string>>
  BY AtBeginning DEF Emit
<1>2. end \in 1..(Len(text) + 1)
  BY <1>1 DEF IInv, TypeOK
<1>3. \A p \in i..(end - 1) : text[p] # "NEWLINE"
  <2>1. tokens \in Seq(TokenType) /\ Len(tokens) \in Nat
    BY DEF IInv, Lists
  <2>2. /\ Len(tokens) + 1 \in 1..Len(tokens')
        /\ tokens'[Len(tokens) + 1] = Token(kind, i, end, line)
    BY <1>1, <2>1
  <2>3. (\E p \in Span(Token(kind, i, end, line)) : text[p] = "NEWLINE") =>
          kind \in {"STRING", "NEWLINE"}
    BY <1>1, <2>2 DEF IInv, Accounted, Token
  <2>4. QED
    BY <2>3 DEF Span, Token
<1>4. QED
  BY <1>1, <1>2, <1>3 DEF Lexeme

LEMMA Shapes ==
  ASSUME IInv, [Next]_lexerVars
  PROVE  \/ \E kind, end : Lexeme(kind, end)
         \/ \E end : Passed(end)
         \/ Idle
         \/ OpenString \/ CloseString \/ UnterminatedString
         \/ Escape \/ StringAtom
<1>1. IInv'
  BY StepInv
<1>2. CASE Blank \/ Unknown
  <2>1. Running /\ At(i) # "NEWLINE"
    BY <1>2 DEF Blank, Unknown
  <2>2. /\ i + 1 \in i..(Len(text) + 1) /\ i..((i + 1) - 1) = {i}
        /\ text[i] = At(i) /\ string = NoString
    BY <2>1, AtBeginning
  <2>3. Passed(i + 1)
    BY <1>2, <2>1, <2>2 DEF Blank, Unknown, Skip, Passed
  <2>4. QED
    BY <2>3
<1>3. CASE Comment
  <2>1. /\ CommentEnd \in (i + 1)..(Len(text) + 1) /\ i \in Nat
        /\ \A p \in i..(CommentEnd - 1) : text[p] # "NEWLINE"
        /\ string = NoString /\ Len(text) \in Nat
    BY <1>3, CommentScan, AtBeginning DEF Comment
  <2>2. CommentEnd \in i..(Len(text) + 1)
    BY <2>1
  <2>3. Passed(CommentEnd)
    BY <1>3, <2>1, <2>2 DEF Comment, Skip, Passed
  <2>4. QED
    BY <2>3
<1>4. CASE Newline
  <2>1. /\ Running /\ At(i) = "NEWLINE"
        /\ tokens' = Append(tokens, Token("NEWLINE", i, i + 1, line))
        /\ i' = i + 1 /\ line' = line + 1
        /\ UNCHANGED <<text, diagnostics, string>>
    BY <1>4 DEF Newline
  <2>2. /\ i <= Len(text) /\ text[i] = "NEWLINE" /\ string = NoString
        /\ i + 1 \in i..(Len(text) + 1)
    BY <2>1, AtBeginning
  <2>3. Lexeme("NEWLINE", i + 1)
    BY <2>1, <2>2 DEF Lexeme, Kinds, Numerals
  <2>4. QED
    BY <2>3
<1>5. CASE Annotation
  <2>1. /\ Running /\ Emit("ANNOTATION", CommentEnd) /\ CommentEnd >= i
        /\ "ANNOTATION" \in Kinds \ {"STRING", "NEWLINE"} /\ "ANNOTATION" \notin Numerals
    BY <1>5, CommentScan, AtBeginning DEF Annotation, Kinds, Numerals
  <2>2. QED
    BY <1>1, <2>1, EmitIsLexeme
<1>6. CASE Color
  <2>1. /\ Running /\ Emit("COLOR", i + 1) /\ i + 1 >= i
        /\ "COLOR" \in Kinds \ {"STRING", "NEWLINE"} /\ "COLOR" \notin Numerals
    BY <1>6, AtBeginning DEF Color, Kinds, Numerals
  <2>2. QED
    BY <1>1, <2>1, EmitIsLexeme
<1>7. CASE Number
  <2> DEFINE kind == IF IsFloat(i, NumberEnd(i)) THEN "FLOAT" ELSE "INTEGER"
  <2>1. /\ Running /\ NumberAt(i) /\ Emit(kind, NumberEnd(i))
        /\ kind \in Kinds \ {"STRING", "NEWLINE"}
    BY <1>7 DEF Number, AtNumber, NumberAt, Kinds
  <2>2. NumberEnd(i) >= i
    BY <2>1, AtBeginning, NumberScan DEF NumberAt
  <2> HIDE DEF kind
  <2>3. QED
    BY <1>1, <2>1, <2>2, EmitIsLexeme
<1>8. CASE Identifier
  <2> DEFINE class == Letters \cup {"DIGIT"}
  <2>1. /\ Running /\ Emit("IDENTIFIER", Stop(i, class))
        /\ "IDENTIFIER" \in Kinds \ {"STRING", "NEWLINE"} /\ "IDENTIFIER" \notin Numerals
        /\ class \in SUBSET Atoms /\ At(i) \in class
    BY <1>8 DEF Identifier, Letters, Atoms, Kinds, Numerals
  <2> HIDE DEF class
  <2>2. Stop(i, class) >= i
    BY <2>1, AtBeginning, StopAdvances
  <2>3. QED
    BY <1>1, <2>1, <2>2, EmitIsLexeme
<1>9. CASE Operator
  <2>1. /\ Running /\ Emit("OPERATOR", i + OperatorWidth(i))
        /\ "OPERATOR" \in Kinds \ {"STRING", "NEWLINE"} /\ "OPERATOR" \notin Numerals
        /\ i + OperatorWidth(i) >= i
    BY <1>9, AtBeginning DEF Operator, OperatorWidth, Kinds, Numerals
  <2>2. QED
    BY <1>1, <2>1, EmitIsLexeme
<1>10. CASE Finish
  <2>1. /\ i \in 1..(Len(text) + 1) /\ i > Len(text) /\ Len(text) \in Nat
        /\ string = NoString
        /\ tokens' = Append(tokens, Token("EOF", i, i, line))
        /\ UNCHANGED <<text, i, line, diagnostics, string>>
    BY <1>10, BoundPlace DEF Finish
  <2>2. i \in i..(Len(text) + 1) /\ i..(i - 1) = {}
    BY <2>1
  <2>3. Lexeme("EOF", i)
    BY <2>1, <2>2 DEF Lexeme, Kinds, Numerals
  <2>4. QED
    BY <2>3
<1>11. CASE NumberFails \/ IdentifierFails \/ UNCHANGED lexerVars
  BY <1>11 DEF NumberFails, IdentifierFails, Raise, lexerVars, Idle
<1>12. QED
  BY <1>2, <1>3, <1>4, <1>5, <1>6, <1>7, <1>8, <1>9, <1>10, <1>11 DEF Next

\* What is appended is the last token, and the others stay.
LEMMA TokensGrow ==
  ASSUME IInv, NEW t, tokens' = Append(tokens, t)
  PROVE  /\ Len(tokens) \in Nat /\ Len(tokens') = Len(tokens) + 1
         /\ tokens'[Len(tokens) + 1] = t
         /\ \A k \in 1..Len(tokens') : \/ k \in 1..Len(tokens) /\ tokens'[k] = tokens[k]
                                       \/ k = Len(tokens) + 1
BY DEF IInv, Lists

-----------------------------------------------------------------------------
(***************************************************************************)
(* Number tokens.                                                          *)
(***************************************************************************)

NumbersRead ==
  \A k \in 1..Len(tokens) :
    LET token == tokens[k]
    IN  token.kind \in Numerals =>
          /\ token.first \in 1..Len(text)
          /\ NumberAt(token.first)
          /\ token.last = NumberEnd(token.first) - 1

\* The end of a number depends on the text alone.
LEMMA SameNumber ==
  ASSUME text' = text, NEW p \in Nat
  PROVE  NumberAt(p)' = NumberAt(p) /\ NumberEnd(p)' = NumberEnd(p)
BY DEF NumberAt, NumberEnd, Stop, AllIn, At, SignWidth

LEMMA NumbersStep ==
  ASSUME IInv, NumbersRead, [Next]_lexerVars
  PROVE  NumbersRead'
<1>1. CASE tokens' = tokens /\ text' = text
  BY <1>1, SameNumber DEF NumbersRead
<1>2. ASSUME text' = text, NEW t, tokens' = Append(tokens, t),
             t.kind \in Numerals => /\ t.first \in 1..Len(text)
                                   /\ NumberAt(t.first)
                                   /\ t.last = NumberEnd(t.first) - 1
      PROVE  NumbersRead'
  BY <1>2, TokensGrow, SameNumber DEF NumbersRead
<1>3. ASSUME NEW kind, NEW end, Lexeme(kind, end)
      PROVE  NumbersRead'
  <2>1. i \in 1..(Len(text) + 1)
    BY DEF IInv, TypeOK
  <2>2. QED
    BY <2>1, <1>2, <1>3 DEF Lexeme, Token
<1>4. CASE CloseString \/ UnterminatedString
  <2>1. PICK end : EndString(end)
    BY <1>4 DEF CloseString, UnterminatedString
  <2>2. QED
    BY <2>1, <1>2 DEF EndString, Token, Numerals
<1>5. QED
  BY <1>1, <1>3, <1>4, Shapes
     DEF Passed, Idle, OpenString, Escape, StringAtom

LEMMA NumbersFaithful ==
  ASSUME IInv, NumbersRead
  PROVE  NumbersAreLongest
<1>1. SUFFICES ASSUME NEW k \in 1..Len(tokens), tokens[k].kind \in {"INTEGER", "FLOAT"}
               PROVE  /\ IsNumeral(tokens[k].first, tokens[k].last)
                      /\ \A q \in (tokens[k].last + 1)..Len(text) :
                           ~IsNumeral(tokens[k].first, q)
  BY DEF NumbersAreLongest
<1>2. /\ tokens[k].first \in 1..Len(text) /\ NumberAt(tokens[k].first)
      /\ tokens[k].last = NumberEnd(tokens[k].first) - 1
  BY <1>1 DEF NumbersRead, Numerals
<1>3. text \in Seq(Atoms)
  BY DEF IInv, TypeOK
<1>4. NumberEnd(tokens[k].first) \in Int
  BY <1>2, <1>3, NumberScan DEF NumberAt
<1>5. tokens[k].last + 1 = NumberEnd(tokens[k].first)
  BY <1>2, <1>4
<1>6. QED
  BY <1>2, <1>3, <1>5, NumberIsLongest

-----------------------------------------------------------------------------
(***************************************************************************)
(* Strings.                                                                *)
(***************************************************************************)

Body == string.first + string.width

\* What is known of a string while it is read.
StringOpen ==
  string # NoString =>
    /\ string.width = DelimiterWidth(string.first)
    /\ Body <= i
    /\ i <= Len(text) => Unescaped(Body, i)
    /\ \A q \in Delimiters(string.first) \cup LineBreaks(string.first) : i <= q

\* Only strings that are complete have been reported.
Reported ==
  /\ \A d \in diagnostics : d.code = "UNTERMINATED_STRING" => d.at < Bound
  /\ \A k \in 1..Len(tokens) :
       tokens[k].kind = "STRING" => tokens[k].first < Bound

StringsRead == StringOpen /\ Reported /\ StringsEndAtDelimiters

\* Where a string may end depends on the text alone.
LEMMA SameEnds ==
  ASSUME text' = text, NEW p \in Nat
  PROVE  /\ DelimiterWidth(p)' = DelimiterWidth(p)
         /\ Delimiters(p)' = Delimiters(p) /\ LineBreaks(p)' = LineBreaks(p)
         /\ \A s \in Nat : Unescaped(s, p)' = Unescaped(s, p)
BY DEF DelimiterWidth, Repeated, Delimiters, LineBreaks, Unescaped, Backslashes, AllIn, At

\* A delimiter begins where the string's quote is repeated, and only there.
LEMMA EndsBeyond ==
  ASSUME IInv, InString, StringOpen
  PROVE  /\ Len(text) \in Nat /\ string.first \in 1..Len(text) /\ string.width \in {1, 3}
         /\ i \in Body..(Len(text) + 1) /\ Body \in Nat
         /\ string.first + DelimiterWidth(string.first) = Body
         /\ \A q \in Delimiters(string.first) \cup LineBreaks(string.first) :
              q \in i..Len(text) /\ Unescaped(Body, q)
         /\ ~AtDelimiter => i \notin Delimiters(string.first)
         /\ ~BrokenOff => i <= Len(text) /\ Unescaped(Body, i)
                          /\ i \notin LineBreaks(string.first)
<1> DEFINE first == string.first
           width == string.width
<1>1. /\ Len(text) \in Nat /\ first \in 1..Len(text) /\ width \in {1, 3}
      /\ i \in 1..(Len(text) + 1)
      /\ text[first] = At(first)
  BY AtString DEF At, Positions
<1>2. /\ string # NoString /\ width = DelimiterWidth(first) /\ Body <= i
      /\ Body = first + width
      /\ i <= Len(text) => Unescaped(Body, i)
      /\ \A q \in Delimiters(first) \cup LineBreaks(first) : i <= q
  BY DEF StringOpen, InString, Body
<1>3. \A q \in Delimiters(first) :
        /\ q \in Body..(Len(text) - width + 1) /\ Unescaped(Body, q)
        /\ Repeated(q, At(first), width)
  BY <1>1, <1>2 DEF Delimiters
<1>4. \A q \in LineBreaks(first) :
        /\ width = 1 /\ q \in Body..Len(text) /\ Unescaped(Body, q)
        /\ text[q] = "NEWLINE"
  BY <1>1, <1>2 DEF LineBreaks
<1>5. \A q \in Delimiters(first) \cup LineBreaks(first) :
        q \in i..Len(text) /\ Unescaped(Body, q)
  BY <1>1, <1>2, <1>3, <1>4
<1>6. ~BrokenOff => i <= Len(text) /\ i \notin LineBreaks(first)
  <2>1. ~BrokenOff => i <= Len(text) /\ ~(At(i) = "NEWLINE" /\ width = 1)
    BY <1>1 DEF BrokenOff
  <2>2. i <= Len(text) => At(i) = text[i]
    BY <1>1 DEF At
  <2>3. QED
    BY <2>1, <2>2, <1>4
<1>7. QED
  BY <1>1, <1>2, <1>3, <1>5, <1>6 DEF AtDelimiter

\* What StringsEndAtDelimiters asks of one token.
Unterminated(token) == [code |-> "UNTERMINATED_STRING", at |-> token.first]

EndsRight(token) ==
  LET ends == Delimiters(token.first)
      breaks == LineBreaks(token.first)
      last == token.last - DelimiterWidth(token.first) + 1
  IN  IF \E p \in ends : \A q \in ends \cup breaks : p <= q
      THEN /\ Unterminated(token) \notin diagnostics
           /\ \A q \in ends : last <= q
           /\ last \in ends
      ELSE /\ Unterminated(token) \in diagnostics
           /\ token.last + 1 \in breaks \cup {Len(text) + 1}
           /\ \A q \in breaks : token.last + 1 <= q

LEMMA EndsRightOfAll ==
  StringsEndAtDelimiters
    <=> \A k \in 1..Len(tokens) : tokens[k].kind = "STRING" => EndsRight(tokens[k])
BY DEF StringsEndAtDelimiters, EndsRight, Unterminated

LEMMA EndsRightKept ==
  ASSUME text' = text, NEW token, token.first \in Nat,
         Unterminated(token) \in diagnostics' <=> Unterminated(token) \in diagnostics
  PROVE  EndsRight(token)' <=> EndsRight(token)
BY SameEnds DEF EndsRight, Unterminated

\* A step that reports nothing but the string it completes keeps what is known
\* of the others.
LEMMA StringsStep ==
  ASSUME IInv, IInv', StringsRead, text' = text, StringOpen',
         diagnostics \subseteq diagnostics',
         \A d \in diagnostics' : \/ d \in diagnostics
                                 \/ d.code = "UNKNOWN_TOKEN"
                                 \/ d.at = Bound /\ Bound < Bound',
         Bound <= Bound',
         \/ tokens' = tokens
         \/ \E t : /\ tokens' = Append(tokens, t)
                   /\ t.kind = "STRING" =>
                       t.first = Bound /\ Bound < Bound' /\ EndsRight(t)'
  PROVE  StringsRead'
<1>1. /\ Bound \in Nat /\ Bound' \in Nat
      /\ \A d \in diagnostics : d.at \in Nat
      /\ \A k \in 1..Len(tokens) : tokens[k].first \in Nat
  BY DEF IInv, TypeOK, Lists, Bound, Positions
<1>2. PICK t : \/ tokens' = tokens
               \/ /\ tokens' = Append(tokens, t)
                  /\ t.kind = "STRING" =>
                       t.first = Bound /\ Bound < Bound' /\ EndsRight(t)'
  OBVIOUS
<1>3. \A k \in 1..Len(tokens') :
        \/ k \in 1..Len(tokens) /\ tokens'[k] = tokens[k]
        \/ tokens'[k] = t /\ tokens' = Append(tokens, t)
  BY <1>2, TokensGrow
<1>4. Reported'
  <2>1. \A d \in diagnostics' : d.code = "UNTERMINATED_STRING" => d.at < Bound'
    BY <1>1 DEF StringsRead, Reported
  <2>2. \A k \in 1..Len(tokens') :
          tokens'[k].kind = "STRING" => tokens'[k].first < Bound'
    BY <1>1, <1>2, <1>3 DEF StringsRead, Reported
  <2>3. QED
    BY <2>1, <2>2 DEF Reported
<1>5. ASSUME NEW k \in 1..Len(tokens), tokens[k].kind = "STRING"
      PROVE  \E token : token = tokens[k] /\ EndsRight(token)'
  <2>1. PICK token : token = tokens[k]
    OBVIOUS
  <2>2. token.first \in Nat /\ token.first < Bound /\ EndsRight(token)
    BY <2>1, <1>1, <1>5, EndsRightOfAll DEF StringsRead, Reported
  <2>3. Unterminated(token) \in diagnostics' <=> Unterminated(token) \in diagnostics
    BY <2>2, <1>1 DEF Unterminated
  <2>4. EndsRight(token)'
    BY <2>2, <2>3, EndsRightKept
  <2>5. QED
    BY <2>1, <2>4
<1>6. \A k \in 1..Len(tokens') :
        tokens'[k].kind = "STRING" => EndsRight(tokens[k])'
  <2> SUFFICES ASSUME NEW k \in 1..Len(tokens'), tokens'[k].kind = "STRING"
               PROVE  EndsRight(tokens[k])'
    OBVIOUS
  <2>1. \E token : token = tokens'[k] /\ EndsRight(token)'
    BY <1>2, <1>3, <1>5
  <2>2. QED
    BY <2>1
<1>7. StringsEndAtDelimiters'
  BY <1>6 DEF StringsEndAtDelimiters, EndsRight, Unterminated
<1>8. QED
  BY <1>4, <1>7 DEF StringsRead

LEMMA StringsIdle ==
  ASSUME IInv, IInv', StringsRead,
         \/ \E kind, end : Lexeme(kind, end)
         \/ \E end : Passed(end)
         \/ Idle
  PROVE  StringsRead'
<1>1. CASE Idle
  <2>1. /\ string' = string /\ i' = i /\ text' = text
        /\ tokens' = tokens /\ diagnostics' = diagnostics
    BY <1>1 DEF Idle
  <2>2. StringOpen'
    <3>1. SUFFICES ASSUME string # NoString
                   PROVE  /\ string.width = DelimiterWidth(string.first)'
                          /\ Body <= i
                          /\ i <= Len(text) => Unescaped(Body, i)'
                          /\ \A q \in (Delimiters(string.first)
                                         \cup LineBreaks(string.first))' : i <= q
      BY <2>1 DEF StringOpen, Body
    <3>2. /\ string.first \in Nat /\ i \in Nat /\ Body \in Nat
      BY <3>1, BoundPlace DEF IInv, TypeOK, Positions, Body
    <3>3. QED
      BY <2>1, <3>1, <3>2, SameEnds DEF StringsRead, StringOpen, Body
  <2>3. Bound' = Bound /\ Bound \in Nat
    BY <2>1, BoundPlace DEF Bound
  <2>4. QED
    BY <2>1, <2>2, <2>3, StringsStep
<1>2. ASSUME NEW kind, NEW end, Lexeme(kind, end)
      PROVE  StringsRead'
  <2>1. /\ string = NoString /\ string' = NoString /\ i' = end /\ text' = text
        /\ tokens' = Append(tokens, Token(kind, i, end, line))
        /\ diagnostics' = diagnostics /\ kind # "STRING" /\ end >= i
    BY <1>2, BoundPlace DEF Lexeme
  <2>2. Bound <= Bound'
    BY <2>1 DEF Bound
  <2>3. StringOpen' /\ Token(kind, i, end, line).kind # "STRING"
    BY <2>1 DEF StringOpen, Token
  <2>4. QED
    BY <2>1, <2>2, <2>3, StringsStep
<1>3. ASSUME NEW end, Passed(end)
      PROVE  StringsRead'
  <2>1. /\ string = NoString /\ string' = NoString /\ i' = end /\ text' = text
        /\ tokens' = tokens /\ end >= i /\ diagnostics \subseteq diagnostics'
        /\ \A d \in diagnostics' : d \in diagnostics \/ d.code = "UNKNOWN_TOKEN"
    BY <1>3, BoundPlace DEF Passed
  <2>2. Bound <= Bound' /\ StringOpen'
    BY <2>1 DEF Bound, StringOpen
  <2>3. QED
    BY <2>1, <2>2, StringsStep
<1>4. QED
  BY <1>1, <1>2, <1>3

LEMMA StringBegun ==
  ASSUME IInv, IInv', StringsRead, OpenString
  PROVE  StringsRead'
<1>1. /\ string' = [first |-> i, width |-> DelimiterWidth(i), line |-> line]
      /\ i' = i + DelimiterWidth(i) /\ i \in 1..Len(text) /\ Len(text) \in Nat
      /\ text' = text /\ tokens' = tokens /\ diagnostics' = diagnostics
      /\ Bound = i /\ text \in Seq(Atoms)
  BY AtBeginning DEF OpenString
<1>2. string' # NoString
  BY <1>1 DEF NoString
<1>3. PICK s : s = i
  OBVIOUS
<1>4. PICK body : body = i + DelimiterWidth(i)
  OBVIOUS
<1>5. DelimiterWidth(s) \in {1, 3} /\ body = s + DelimiterWidth(s) /\ s \in Nat /\ body \in Nat
  BY <1>1, <1>3, <1>4 DEF DelimiterWidth
<1>6. Unescaped(body, body)
  <2>1. body <= body
    BY <1>5
  <2>2. Backslashes(body, body) = 0
    BY <1>5, <2>1, BackslashesStep
  <2>3. QED
    BY <2>2 DEF Unescaped
<1>7. \A q \in Delimiters(s) \cup LineBreaks(s) : body <= q
  <2>1. \A q \in Delimiters(s) : body <= q
    BY <1>1, <1>5 DEF Delimiters
  <2>2. \A q \in LineBreaks(s) : body <= q
    BY <1>1, <1>5 DEF LineBreaks
  <2>3. QED
    BY <2>1, <2>2
<1>8. /\ DelimiterWidth(s)' = DelimiterWidth(s)
      /\ Delimiters(s)' = Delimiters(s) /\ LineBreaks(s)' = LineBreaks(s)
      /\ Unescaped(body, body)' = Unescaped(body, body)
  BY <1>1, <1>5, SameEnds
<1>9. string'.first = s /\ string'.width = DelimiterWidth(s) /\ i' = body /\ Body' = body
  BY <1>1, <1>3, <1>4, <1>5 DEF Body
<1>10. StringOpen'
  <2>1. /\ string'.width = DelimiterWidth(s)'
        /\ Body' <= i' /\ Unescaped(body, body)'
        /\ \A q \in (Delimiters(s) \cup LineBreaks(s))' : i' <= q
    BY <1>5, <1>6, <1>7, <1>8, <1>9
  <2>2. QED
    BY <2>1, <1>9 DEF StringOpen
<1>11. Bound' = i /\ Bound <= Bound'
  BY <1>1, <1>2 DEF Bound
<1>12. QED
  BY <1>1, <1>10, <1>11, StringsStep

\* What an escape covers ends nothing.
LEMMA StringGoesOn ==
  ASSUME IInv, IInv', StringsRead, Escape \/ StringAtom
  PROVE  StringsRead'
<1>1. /\ InString /\ ~AtDelimiter /\ ~BrokenOff /\ StringOpen
      /\ text' = text /\ tokens' = tokens /\ diagnostics' = diagnostics /\ string' = string
  BY DEF Escape, StringAtom, StringsRead
<1>2. PICK s, body, p : s = string.first /\ body = Body /\ p = i
  OBVIOUS
<1>3. /\ Len(text) \in Nat /\ s \in Nat /\ body \in Nat /\ p \in body..Len(text)
      /\ Unescaped(body, p) /\ Body' = body /\ string # NoString
      /\ string.width = DelimiterWidth(s)
      /\ \A q \in Delimiters(s) \cup LineBreaks(s) :
           q \in p..Len(text) /\ Unescaped(body, q) /\ q # p
  BY <1>1, <1>2, EndsBeyond DEF StringOpen, InString, Body
<1>4. /\ p + 1 \in body..i' /\ i' \in Nat
      /\ i' <= Len(text) => Unescaped(body, i')
      /\ \A q \in Delimiters(s) \cup LineBreaks(s) : i' <= q
  <2>1. CASE StringAtom
    <3>1. i' = p + 1 /\ At(p) # "BACKSLASH"
      BY <2>1, <1>2 DEF StringAtom, Escapes
    <3>2. Unescaped(body, p + 1)
      BY <1>3, <3>1, EscapedByOne
    <3>3. QED
      BY <1>3, <3>1, <3>2
  <2>2. CASE Escape
    <3>1. At(p) = "BACKSLASH" /\ i' = IF p + 1 > Len(text) THEN p + 1 ELSE p + 2
      BY <2>2, <1>2 DEF Escape, Escapes, EscapeEnd
    <3>2. ~Unescaped(body, p + 1) /\ Unescaped(body, p + 2)
      BY <1>3, <3>1, EscapedByOne
    <3>3. \A q \in Delimiters(s) \cup LineBreaks(s) : q \in p..Len(text) /\ q # p /\ q # p + 1
      BY <1>3, <3>2
    <3>4. QED
      BY <1>3, <3>1, <3>2, <3>3
  <2>3. QED
    BY <2>1, <2>2
<1>5. PICK n : n = i'
  OBVIOUS
<1>6. /\ DelimiterWidth(s)' = DelimiterWidth(s)
      /\ Delimiters(s)' = Delimiters(s) /\ LineBreaks(s)' = LineBreaks(s)
      /\ Unescaped(body, n)' = Unescaped(body, n)
  BY <1>1, <1>3, <1>4, <1>5, SameEnds
<1>7. StringOpen'
  <2>1. /\ string'.width = DelimiterWidth(s)' /\ Body' <= i'
        /\ i' <= Len(text') => Unescaped(body, n)'
        /\ \A q \in (Delimiters(s) \cup LineBreaks(s))' : i' <= q
    BY <1>1, <1>3, <1>4, <1>5, <1>6
  <2>2. string'.first = s
    BY <1>1, <1>2
  <2>3. QED
    BY <2>1, <2>2, <1>3, <1>5 DEF StringOpen
<1>8. Bound' = Bound /\ Bound \in Nat
  BY <1>1, <1>3, BoundPlace DEF Bound
<1>9. QED
  BY <1>1, <1>7, <1>8, StringsStep

LEMMA StringClosed ==
  ASSUME IInv, StringsRead, CloseString,
         NEW token, token = Token("STRING", string.first, i + string.width, string.line)
  PROVE  /\ token.first = Bound /\ i' > Bound
         /\ Unterminated(token) \notin diagnostics' /\ diagnostics' = diagnostics
         /\ EndsRight(token)
<1>1. /\ InString /\ AtDelimiter /\ StringOpen /\ i' = i + string.width
      /\ diagnostics' = diagnostics
  BY DEF CloseString, EndString, StringsRead
<1>2. /\ text \in Seq(Atoms) /\ Len(text) \in Nat /\ At(string.first) \in Quotes
      /\ Bound = string.first /\ Bound < i /\ Bound \in Nat /\ i \in Nat
      /\ At(string.first) = text[string.first]
  BY <1>1, AtString DEF At
<1>3. /\ string.width \in {1, 3} /\ i \in Body..(Len(text) + 1) /\ Body \in Nat
      /\ string.first + DelimiterWidth(string.first) = Body
      /\ string.width = DelimiterWidth(string.first)
      /\ i <= Len(text) => Unescaped(Body, i)
      /\ \A q \in Delimiters(string.first) \cup LineBreaks(string.first) : q >= i
  BY <1>1, EndsBeyond DEF StringOpen, InString
<1>4. i + string.width - 1 \in 1..Len(text)
  BY <1>1, <1>2, <1>3, RepeatedWithin DEF AtDelimiter
<1>5. i \in Body..(Len(text) - string.width + 1) /\ Unescaped(Body, i)
  BY <1>2, <1>3, <1>4
<1>6. i \in Delimiters(string.first)
  BY <1>1, <1>2, <1>3, <1>5 DEF Delimiters, AtDelimiter
<1>7. /\ token.first = string.first /\ token.last = i + string.width - 1
      /\ token.last - DelimiterWidth(token.first) + 1 = i
  BY <1>2, <1>3 DEF Token
<1>8. Unterminated(token) \notin diagnostics
  BY <1>2, <1>7 DEF Unterminated, StringsRead, Reported
<1>9. EndsRight(token)
  BY <1>3, <1>6, <1>7, <1>8 DEF EndsRight
<1>10. QED
  BY <1>1, <1>2, <1>3, <1>7, <1>8, <1>9

LEMMA StringBrokenOff ==
  ASSUME IInv, StringsRead, UnterminatedString,
         NEW token, token = Token("STRING", string.first, i, string.line)
  PROVE  /\ token.first = Bound /\ i' = i /\ i > Bound
         /\ diagnostics' = diagnostics \cup {Unterminated(token)}
         /\ ~ \E p \in Delimiters(token.first) :
                \A q \in Delimiters(token.first) \cup LineBreaks(token.first) : p <= q
         /\ token.last + 1 \in LineBreaks(token.first) \cup {Len(text) + 1}
         /\ \A q \in LineBreaks(token.first) : token.last + 1 <= q
<1>1. /\ InString /\ ~AtDelimiter /\ BrokenOff /\ StringOpen /\ i' = i
      /\ token.first = string.first /\ token.last = i - 1
      /\ diagnostics' = diagnostics \cup {Unterminated(token)}
  BY DEF UnterminatedString, EndString, StringsRead, Token, Unterminated
<1>2. Bound = string.first /\ Bound < i /\ Bound \in Nat /\ i \in Nat
  BY <1>1, AtString
<1>3. /\ string.width \in {1, 3} /\ i \in Body..(Len(text) + 1) /\ Body \in Nat
      /\ string.first \in Nat /\ Body = string.first + string.width
      /\ string.width = DelimiterWidth(string.first) /\ Len(text) \in Nat
      /\ i <= Len(text) => Unescaped(Body, i)
      /\ \A q \in Delimiters(string.first) \cup LineBreaks(string.first) :
           q \in i..Len(text)
      /\ i \notin Delimiters(string.first)
  BY <1>1, EndsBeyond DEF StringOpen, InString, Body
<1>4. token.last + 1 = i
  BY <1>1, <1>2
<1>5. CASE i > Len(text)
  <2>1. Delimiters(string.first) \cup LineBreaks(string.first) = {} /\ i = Len(text) + 1
    BY <1>3, <1>5
  <2>2. QED
    BY <1>1, <1>2, <1>4, <2>1
<1>6. CASE i <= Len(text)
  <2>1. At(i) = "NEWLINE" /\ string.width = 1 /\ text[i] = "NEWLINE"
    BY <1>1, <1>2, <1>3, <1>6 DEF BrokenOff, At
  <2>2. i \in LineBreaks(string.first)
    BY <1>3, <1>6, <2>1 DEF LineBreaks
  <2>3. ASSUME NEW p \in Delimiters(string.first),
               \A q \in Delimiters(string.first) \cup LineBreaks(string.first) : p <= q
        PROVE  FALSE
    <3>1. p <= i /\ p \in i..Len(text) /\ p # i
      BY <1>3, <2>2, <2>3
    <3>2. QED
      BY <3>1, <1>3
  <2>4. QED
    BY <1>1, <1>2, <1>3, <1>4, <2>2, <2>3
<1>7. QED
  BY <1>2, <1>3, <1>5, <1>6

LEMMA StringsDone ==
  ASSUME IInv, IInv', StringsRead, CloseString \/ UnterminatedString
  PROVE  StringsRead'
<1>1. /\ string # NoString /\ string' = NoString /\ text' = text
      /\ StringOpen' /\ Bound' = i' /\ string.first \in Nat
  BY AtString DEF CloseString, UnterminatedString, EndString, InString, StringOpen,
                  Bound, NoString, Positions
<1>2. CASE CloseString
  <2>1. PICK token : token = Token("STRING", string.first, i + string.width, string.line)
    OBVIOUS
  <2>2. /\ token.first = Bound /\ i' > Bound
        /\ Unterminated(token) \notin diagnostics' /\ diagnostics' = diagnostics
        /\ EndsRight(token)
    BY <1>2, <2>1, StringClosed
  <2>3. tokens' = Append(tokens, token) /\ token.first \in Nat
    BY <1>1, <1>2, <2>1 DEF CloseString, EndString, Token
  <2>4. EndsRight(token)'
    BY <1>1, <2>2, <2>3, EndsRightKept
  <2>5. Bound < Bound' /\ Bound <= Bound'
    BY <1>1, <2>2, BoundPlace DEF IInv, TypeOK
  <2>6. QED
    BY <1>1, <2>2, <2>3, <2>4, <2>5, StringsStep
<1>3. CASE UnterminatedString
  <2>1. PICK token : token = Token("STRING", string.first, i, string.line)
    OBVIOUS
  <2>2. /\ token.first = Bound /\ i' = i /\ i > Bound
        /\ diagnostics' = diagnostics \cup {Unterminated(token)}
        /\ ~ \E p \in Delimiters(token.first) :
               \A q \in Delimiters(token.first) \cup LineBreaks(token.first) : p <= q
        /\ token.last + 1 \in LineBreaks(token.first) \cup {Len(text) + 1}
        /\ \A q \in LineBreaks(token.first) : token.last + 1 <= q
    BY <1>3, <2>1, StringBrokenOff
  <2>3. tokens' = Append(tokens, token) /\ token.first \in Nat
    BY <1>1, <1>3, <2>1 DEF UnterminatedString, EndString, Token
  <2>4. /\ Delimiters(token.first)' = Delimiters(token.first)
        /\ LineBreaks(token.first)' = LineBreaks(token.first)
    BY <1>1, <2>3, SameEnds
  <2>5. EndsRight(token)'
    BY <1>1, <2>2, <2>4 DEF EndsRight, Unterminated
  <2>6. /\ Bound < Bound' /\ Bound <= Bound'
        /\ \A d \in diagnostics' : d \in diagnostics \/ d.at = Bound
    BY <1>1, <2>2, BoundPlace DEF IInv, TypeOK, Unterminated
  <2>7. QED
    BY <1>1, <2>2, <2>3, <2>5, <2>6, StringsStep
<1>4. QED
  BY <1>2, <1>3

LEMMA StringsInvariant ==
  ASSUME IInv, StringsRead, [Next]_lexerVars
  PROVE  StringsRead'
BY StepInv, Shapes, StringsIdle, StringBegun, StringGoesOn, StringsDone

-----------------------------------------------------------------------------
(***************************************************************************)
(* Lines.                                                                  *)
(***************************************************************************)

EscapedIn(token, p) ==
  /\ token.kind = "STRING" /\ p \in Span(token)
  /\ ~Unescaped(token.first + DelimiterWidth(token.first), p)

\* The newlines before b that are counted, and those of a string so far.
Lines(b) == {p \in 1..(b - 1) : text[p] = "NEWLINE" /\ ~EscapedNewline(p)}

Inside == {p \in string.first..(i - 1) : text[p] = "NEWLINE" /\ Unescaped(Body, p)}

StartLine == IF string = NoString THEN line ELSE string.line

LinesRead ==
  /\ StartLine = 1 + Cardinality(Lines(Bound))
  /\ string # NoString => line = string.line + Cardinality(Inside)
  /\ LinesCounted

LEMMA LinesFinite ==
  ASSUME NEW b \in Nat
  PROVE  IsFiniteSet(Lines(b)) /\ Cardinality(Lines(b)) \in Nat
<1>1. IsFiniteSet(1..(b - 1)) /\ Lines(b) \in SUBSET (1..(b - 1))
  BY FS_Interval DEF Lines
<1>2. QED
  BY <1>1, FS_Subset, FS_CardinalityType

LEMMA InsideFinite ==
  ASSUME string.first \in Nat, i \in Nat
  PROVE  IsFiniteSet(Inside) /\ Cardinality(Inside) \in Nat
<1>1. IsFiniteSet(string.first..(i - 1)) /\ Inside \in SUBSET (string.first..(i - 1))
  BY FS_Interval DEF Inside
<1>2. QED
  BY <1>1, FS_Subset, FS_CardinalityType

LEMMA SameEscape ==
  ASSUME text' = text, NEW token, token.first \in Nat, NEW p \in Nat
  PROVE  EscapedIn(token, p)' <=> EscapedIn(token, p)
<1>1. PICK s : s = token.first + DelimiterWidth(token.first)
  OBVIOUS
<1>2. s \in Nat /\ DelimiterWidth(token.first)' = DelimiterWidth(token.first)
  BY <1>1, SameEnds DEF DelimiterWidth
<1>3. Unescaped(s, p)' = Unescaped(s, p)
  BY <1>2, SameEnds
<1>4. QED
  BY <1>1, <1>2, <1>3 DEF EscapedIn, Span

LEMMA EscapedByToken ==
  ASSUME NEW p
  PROVE  EscapedNewline(p) <=> /\ text[p] = "NEWLINE"
                               /\ \E k \in 1..Len(tokens) : EscapedIn(tokens[k], p)
BY DEF EscapedNewline, EscapedIn

\* A new token changes nothing before it and decides what is escaped in it.
LEMMA EscapedAfter ==
  ASSUME IInv, text' = text, NEW t, t.first = Bound,
         tokens' = tokens \/ tokens' = Append(tokens, t),
         NEW p \in 1..Len(text)
  PROVE  /\ p < Bound => (EscapedNewline(p)' <=> EscapedNewline(p))
         /\ p >= Bound => (EscapedNewline(p)' <=>
              text[p] = "NEWLINE" /\ tokens' = Append(tokens, t) /\ EscapedIn(t, p))
<1>1. /\ Bound \in Nat /\ Len(text) \in Nat /\ p \in Nat
      /\ \A k \in 1..Len(tokens) :
           tokens[k].first \in Nat /\ tokens[k].last \in 0..(Bound - 1)
      /\ tokens \in Seq(TokenType) /\ Len(tokens) \in Nat
  BY BoundPlace DEF IInv, Lists
<1>2. \A k \in 1..Len(tokens) : EscapedIn(tokens[k], p) => p < Bound
  BY <1>1 DEF EscapedIn, Span
<1>3. EscapedIn(t, p) => p >= Bound
  BY <1>1 DEF EscapedIn, Span
<1>4. \A k \in 1..Len(tokens') :
        \/ k \in 1..Len(tokens) /\ tokens'[k] = tokens[k]
        \/ tokens'[k] = t /\ tokens' = Append(tokens, t)
  BY TokensGrow
<1>5. /\ \A k \in 1..Len(tokens) : k \in 1..Len(tokens') /\ tokens'[k] = tokens[k]
      /\ tokens' = Append(tokens, t) => \E k \in 1..Len(tokens') : tokens'[k] = t
  BY <1>1, TokensGrow
<1>6. (\E k \in 1..Len(tokens') : EscapedIn(tokens'[k], p)) <=>
        \/ \E k \in 1..Len(tokens) : EscapedIn(tokens[k], p)
        \/ tokens' = Append(tokens, t) /\ EscapedIn(t, p)
  BY <1>4, <1>5
<1>7. \A token : token.first \in Nat => (EscapedIn(token, p)' <=> EscapedIn(token, p))
  BY <1>1, SameEscape
<1>8. \A k \in 1..Len(tokens') : tokens'[k].first \in Nat
  BY <1>1, <1>4
<1>9. EscapedNewline(p)' <=> /\ text[p] = "NEWLINE"
                             /\ \E k \in 1..Len(tokens') : EscapedIn(tokens'[k], p)
  <2>1. \A k \in 1..Len(tokens') : EscapedIn(tokens[k], p)' <=> EscapedIn(tokens'[k], p)
    <3> SUFFICES ASSUME NEW k \in 1..Len(tokens')
                 PROVE  EscapedIn(tokens[k], p)' <=> EscapedIn(tokens'[k], p)
      OBVIOUS
    <3>1. PICK token : token = tokens'[k]
      OBVIOUS
    <3>2. EscapedIn(token, p)' <=> EscapedIn(token, p)
      BY <3>1, <1>7, <1>8
    <3>3. QED
      BY <3>1, <3>2
  <2>2. EscapedNewline(p)' <=> /\ text'[p] = "NEWLINE"
                               /\ \E k \in 1..Len(tokens') : EscapedIn(tokens[k], p)'
    BY DEF EscapedNewline, EscapedIn
  <2>3. QED
    BY <2>1, <2>2
<1>10. EscapedNewline(p) <=> /\ text[p] = "NEWLINE"
                              /\ \E k \in 1..Len(tokens) : EscapedIn(tokens[k], p)
  BY EscapedByToken
<1>11. CASE p < Bound
  <2>1. ~EscapedIn(t, p) /\ ~(p >= Bound)
    BY <1>1, <1>3, <1>11
  <2>2. QED
    BY <2>1, <1>6, <1>9, <1>10
<1>12. CASE ~(p < Bound)
  <2>1. \A k \in 1..Len(tokens) : ~EscapedIn(tokens[k], p)
    BY <1>2, <1>12
  <2>2. QED
    BY <2>1, <1>6, <1>9, <1>12
<1>13. QED
  BY <1>11, <1>12

LEMMA LinesBefore ==
  ASSUME IInv, text' = text, NEW t, t.first = Bound,
         tokens' = tokens \/ tokens' = Append(tokens, t),
         NEW b \in 1..Bound
  PROVE  Lines(b)' = Lines(b)
<1>1. /\ Bound \in Nat /\ Bound - 1 <= Len(text) /\ Len(text) \in Nat
  BY BoundPlace
<1>2. \A p \in 1..(b - 1) : p \in 1..Len(text) /\ p < Bound
  BY <1>1
<1>3. \A p \in 1..(b - 1) : EscapedNewline(p)' <=> EscapedNewline(p)
  BY <1>2, EscapedAfter
<1>4. Lines(b)' = {p \in 1..(b - 1) : text[p] = "NEWLINE" /\ ~EscapedNewline(p)'}
  BY DEF Lines
<1>5. QED
  BY <1>3, <1>4 DEF Lines

\* The line of a token is that of the place where it begins.
LEMMA TokenLines ==
  ASSUME IInv, LinesRead, text' = text, NEW t, t.first = Bound, t.line = StartLine,
         tokens' = tokens \/ tokens' = Append(tokens, t)
  PROVE  LinesCounted'
<1>1. LinesCounted' <=>
        \A k \in 1..Len(tokens') :
          tokens'[k].line = 1 + Cardinality(Lines(tokens[k].first)')
  BY DEF LinesCounted, Lines
<1>2. \A k \in 1..Len(tokens) :
        tokens[k].line = 1 + Cardinality(Lines(tokens[k].first))
  BY DEF LinesRead, LinesCounted, Lines
<1>3. \A k \in 1..Len(tokens') :
        \/ k \in 1..Len(tokens) /\ tokens'[k] = tokens[k]
        \/ tokens'[k] = t
  BY TokensGrow
<1>4. /\ \A k \in 1..Len(tokens) : tokens[k].first \in 1..Bound
      /\ Bound \in 1..Bound
  BY BoundPlace DEF IInv, Lists
<1>5. \A b \in 1..Bound : Lines(b)' = Lines(b)
  BY LinesBefore
<1>6. SUFFICES ASSUME NEW k \in 1..Len(tokens')
               PROVE  tokens'[k].line = 1 + Cardinality(Lines(tokens[k].first)')
  BY <1>1
<1>7. PICK b : b = tokens'[k].first
  OBVIOUS
<1>8. b \in 1..Bound /\ tokens'[k].line = 1 + Cardinality(Lines(b))
  BY <1>2, <1>3, <1>4, <1>7 DEF LinesRead
<1>9. Lines(tokens[k].first)' = Lines(b)
  BY <1>5, <1>7, <1>8
<1>10. QED
  BY <1>8, <1>9

\* Whatever is read between strings, or at the beginning of one.
LEMMA LinesOutside ==
  ASSUME IInv, IInv', LinesRead, text' = text, string = NoString,
         NEW t, t.first = Bound, t.line = line, t.kind # "STRING",
         tokens' = tokens \/ tokens' = Append(tokens, t),
         Bound' >= Bound,
         \/ /\ StartLine' = line
            /\ \A p \in Bound..(Bound' - 1) : text[p] # "NEWLINE"
         \/ /\ StartLine' = line + 1
            /\ text[Bound] = "NEWLINE" /\ Bound' = Bound + 1,
         string' # NoString => line' = string'.line + Cardinality(Inside')
  PROVE  LinesRead'
<1>1. /\ Bound \in Nat /\ Bound >= 1 /\ Bound' \in Nat /\ Bound' - 1 <= Len(text)
      /\ Len(text) \in Nat /\ StartLine = line /\ line \in Nat
  BY BoundPlace DEF StartLine, IInv, TypeOK, Positions, Bound
<1>2. LinesCounted'
  BY <1>1, TokenLines
<1>3. line = 1 + Cardinality(Lines(Bound)) /\ IsFiniteSet(Lines(Bound))
      /\ Cardinality(Lines(Bound)) \in Nat
  BY <1>1, LinesFinite DEF LinesRead
<1>4. PICK b, c : b = Bound /\ c = Bound'
  OBVIOUS
<1>5. b \in Nat /\ c \in Nat /\ b >= 1 /\ b <= c /\ c - 1 <= Len(text)
  BY <1>1, <1>4
<1>6. /\ 1..(c - 1) = (1..(b - 1)) \cup (b..(c - 1))
      /\ \A p \in 1..(b - 1) : p \in 1..Len(text) /\ p < b
      /\ \A p \in b..(c - 1) : p \in 1..Len(text) /\ p >= b
  BY <1>1, <1>5
<1>7. /\ \A p \in 1..(b - 1) : EscapedNewline(p)' <=> EscapedNewline(p)
      /\ \A p \in b..(c - 1) : ~EscapedNewline(p)'
  BY <1>4, <1>6, EscapedAfter DEF EscapedIn
<1>8. Lines(Bound)' = Lines(b) \cup {p \in b..(c - 1) : text[p] = "NEWLINE"}
  <2>1. Lines(Bound)' = {p \in 1..(c - 1) : text[p] = "NEWLINE" /\ ~EscapedNewline(p)'}
    BY <1>4 DEF Lines
  <2>2. Lines(b) = {p \in 1..(b - 1) : text[p] = "NEWLINE" /\ ~EscapedNewline(p)}
    BY DEF Lines
  <2>3. QED
    BY <2>1, <2>2, <1>6, <1>7, Zenon
<1>9. CASE /\ StartLine' = line
           /\ \A p \in Bound..(Bound' - 1) : text[p] # "NEWLINE"
  <2>1. {p \in b..(c - 1) : text[p] = "NEWLINE"} = {}
    BY <1>4, <1>9
  <2>2. Lines(Bound)' = Lines(Bound)
    BY <1>4, <1>8, <2>1
  <2>3. QED
    BY <1>2, <1>3, <1>9, <2>2 DEF LinesRead
<1>10. CASE /\ StartLine' = line + 1
            /\ text[Bound] = "NEWLINE" /\ Bound' = Bound + 1
  <2>1. b..(c - 1) = {b}
    BY <1>1, <1>4, <1>10
  <2>2. {p \in b..(c - 1) : text[p] = "NEWLINE"} = {b}
    BY <1>4, <1>10, <2>1
  <2>3. b \notin Lines(b)
    BY <1>5 DEF Lines
  <2>4. Cardinality(Lines(b) \cup {b}) = Cardinality(Lines(b)) + 1
    BY <1>3, <1>4, <2>3, FS_AddElement
  <2>5. StartLine' = 1 + Cardinality(Lines(Bound)')
    <3>1. Cardinality(Lines(Bound)') = Cardinality(Lines(Bound)) + 1
      BY <1>4, <1>8, <2>2, <2>4
    <3>2. QED
      BY <1>3, <1>10, <3>1
  <2>6. QED
    BY <1>2, <2>5 DEF LinesRead
<1>11. QED
  BY <1>9, <1>10

\* A step of a string that goes on.
LEMMA LinesInString ==
  ASSUME IInv, IInv', LinesRead, text' = text, tokens' = tokens,
         string # NoString, string' = string,
         line' = string.line + Cardinality(Inside')
  PROVE  LinesRead'
<1> DEFINE t == Token("EOF", Bound, Bound, StartLine)
<1>1. t.first = Bound /\ t.line = StartLine
  BY DEF Token
<1> HIDE DEF t
<1>2. Bound' = Bound /\ StartLine' = StartLine /\ Bound \in 1..Bound
  BY BoundPlace DEF Bound, StartLine
<1>3. LinesCounted'
  BY <1>1, TokenLines
<1>4. Lines(Bound)' = Lines(Bound)
  <2>1. PICK b : b = Bound
    OBVIOUS
  <2>2. Lines(b)' = Lines(b)
    BY <1>1, <1>2, <2>1, LinesBefore
  <2>3. QED
    BY <1>2, <2>1, <2>2
<1>5. QED
  BY <1>2, <1>3, <1>4 DEF LinesRead

LEMMA LinesIdle ==
  ASSUME IInv, IInv', LinesRead,
         \/ \E kind, end : Lexeme(kind, end)
         \/ \E end : Passed(end)
         \/ Idle
  PROVE  LinesRead'
<1> DEFINE t == Token("EOF", i, i, line)
<1>1. t.first = i /\ t.line = line /\ t.kind = "EOF"
  BY DEF Token
<1> HIDE DEF t
<1>2. i \in Nat /\ Len(text) \in Nat
  BY BoundPlace
<1>3. ASSUME NEW kind, NEW end, Lexeme(kind, end)
      PROVE  LinesRead'
  <2>1. /\ string = NoString /\ string' = NoString /\ i' = end /\ text' = text
        /\ tokens' = Append(tokens, Token(kind, i, end, line))
        /\ kind # "STRING" /\ end >= i
        /\ Bound = i /\ Bound' = i' /\ StartLine' = line'
    BY <1>2, <1>3 DEF Lexeme, Bound, StartLine
  <2>2. /\ Token(kind, i, end, line).kind # "STRING"
        /\ Token(kind, i, end, line).first = Bound
        /\ Token(kind, i, end, line).line = line
    BY <2>1 DEF Token
  <2>3. \/ /\ StartLine' = line
           /\ \A p \in Bound..(Bound' - 1) : text[p] # "NEWLINE"
        \/ /\ StartLine' = line + 1
           /\ text[Bound] = "NEWLINE" /\ Bound' = Bound + 1
    BY <2>1, <1>3 DEF Lexeme
  <2>4. QED
    BY <2>1, <2>2, <2>3, LinesOutside
<1>4. ASSUME NEW end, Passed(end)
      PROVE  LinesRead'
  <2>1. /\ string = NoString /\ string' = NoString /\ i' = end /\ text' = text
        /\ tokens' = tokens /\ end >= i
        /\ Bound = i /\ Bound' = i' /\ StartLine' = line
        /\ \A p \in Bound..(Bound' - 1) : text[p] # "NEWLINE"
    BY <1>2, <1>4 DEF Passed, Bound, StartLine
  <2>2. QED
    BY <1>1, <2>1, LinesOutside
<1>5. CASE Idle /\ string = NoString
  <2>1. /\ string' = NoString /\ i' = i /\ text' = text
        /\ tokens' = tokens /\ Bound = i /\ Bound' = i /\ StartLine' = line
        /\ \A p \in Bound..(Bound' - 1) : text[p] # "NEWLINE"
    BY <1>2, <1>5 DEF Idle, Bound, StartLine
  <2>2. QED
    BY <1>1, <1>2, <1>5, <2>1, LinesOutside
<1>6. CASE Idle /\ string # NoString
  <2>1. text' = text /\ tokens' = tokens /\ string' = string /\ i' = i /\ line' = line
    BY <1>6 DEF Idle
  <2>2. Inside' = Inside
    <3>1. \A p \in string.first..(i - 1) : Unescaped(Body, p)' = Unescaped(Body, p)
      BY <2>1 DEF Unescaped, Backslashes, AllIn, At, Body
    <3>2. QED
      BY <2>1, <3>1 DEF Inside
  <2>3. line' = string.line + Cardinality(Inside')
    BY <1>6, <2>1, <2>2 DEF LinesRead
  <2>4. QED
    BY <1>6, <2>1, <2>3, LinesInString
<1>7. QED
  BY <1>3, <1>4, <1>5, <1>6

LEMMA LinesBegun ==
  ASSUME IInv, IInv', LinesRead, OpenString
  PROVE  LinesRead'
<1> DEFINE t == Token("EOF", i, i, line)
<1>1. t.first = i /\ t.line = line /\ t.kind = "EOF"
  BY DEF Token
<1> HIDE DEF t
<1>2. /\ string' = [first |-> i, width |-> DelimiterWidth(i), line |-> line]
      /\ i' = i + DelimiterWidth(i) /\ i \in 1..Len(text) /\ Len(text) \in Nat
      /\ text' = text /\ tokens' = tokens /\ line' = line
      /\ Bound = i /\ string = NoString /\ line \in Nat /\ At(i) \in Quotes
      /\ At(i) = text[i]
  BY AtBeginning DEF OpenString
<1>3. string' # NoString /\ Bound' = i /\ StartLine' = line
  BY <1>2 DEF NoString, Bound, StartLine
<1>4. \A p \in i..(i' - 1) : At(p) = At(i)
  <2>1. CASE Repeated(i, At(i), 3)
    <3>1. i' = i + 3
      BY <1>2, <2>1 DEF DelimiterWidth
    <3>2. QED
      BY <1>2, <2>1, <3>1 DEF Repeated, AllIn
  <2>2. CASE ~Repeated(i, At(i), 3)
    <3>1. i' = i + 1
      BY <1>2, <2>2 DEF DelimiterWidth
    <3>2. QED
      BY <1>2, <3>1
  <2>3. QED
    BY <2>1, <2>2
<1>5. \A p \in i..(i' - 1) : text[p] # "NEWLINE"
  <2>1. i' - 1 \in Nat /\ i' - 1 <= Len(text)
    BY <1>2, BoundPlace DEF IInv, TypeOK
  <2>2. \A p \in i..(i' - 1) : At(p) = text[p]
    BY <1>2, <2>1 DEF At
  <2>3. QED
    BY <1>2, <1>4, <2>2 DEF Quotes
<1>6. Inside' = {}
  BY <1>2, <1>5 DEF Inside
<1>7. line' = string'.line + Cardinality(Inside')
  BY <1>2, <1>6, FS_EmptySet
<1>8. \A p \in Bound..(Bound' - 1) : text[p] # "NEWLINE"
  BY <1>2, <1>3
<1>9. QED
  BY <1>1, <1>2, <1>3, <1>7, <1>8, LinesOutside

\* Of the newlines in a string only those that are not escaped are counted.
LEMMA LinesGoOn ==
  ASSUME IInv, IInv', StringsRead, LinesRead, Escape \/ StringAtom
  PROVE  LinesRead'
<1>1. /\ InString /\ ~AtDelimiter /\ ~BrokenOff /\ StringOpen /\ LinesRead
      /\ text' = text /\ tokens' = tokens /\ string' = string
  BY DEF Escape, StringAtom, StringsRead
<1>2. PICK s, body, p, n : s = string.first /\ body = Body /\ p = i /\ n = i'
  OBVIOUS
<1>3. /\ Len(text) \in Nat /\ s \in Nat /\ body \in Nat /\ p \in body..Len(text)
      /\ s <= body /\ n \in Nat
      /\ Unescaped(body, p) /\ Body' = body /\ string # NoString /\ At(p) = text[p]
  BY <1>1, <1>2, EndsBeyond DEF InString, Body, At, IInv, TypeOK
<1>4. Inside = {q \in s..(p - 1) : text[q] = "NEWLINE" /\ Unescaped(body, q)}
  BY <1>2 DEF Inside
<1>5. Inside' = {q \in s..(n - 1) : text[q] = "NEWLINE" /\ Unescaped(body, q)}
  <2>1. Inside' = {q \in s..(n - 1) : text[q] = "NEWLINE" /\ Unescaped(body, q)'}
    BY <1>1, <1>2, <1>3 DEF Inside
  <2>2. \A q \in s..(n - 1) : Unescaped(body, q)' = Unescaped(body, q)
    BY <1>1, <1>3, SameEnds
  <2>3. QED
    BY <2>1, <2>2
<1>6. line = string.line + Cardinality(Inside)
  BY <1>1, <1>3 DEF LinesRead
<1>7. line' = string.line + Cardinality(Inside')
  <2>1. CASE Escape
    <3>1. At(p) = "BACKSLASH" /\ line' = line /\ n \in {p + 1, p + 2}
      BY <1>2, <2>1 DEF Escape, Escapes, EscapeEnd
    <3>2. ~Unescaped(body, p + 1)
      BY <1>3, <3>1, EscapedByOne
    <3>3. \A q \in s..(n - 1) : q \in s..(p - 1) \/ q = p \/ q = p + 1
      BY <1>3, <3>1
    <3>4. \A q \in s..(p - 1) : q \in s..(n - 1)
      BY <1>3, <3>1
    <3>5. text[p] # "NEWLINE"
      BY <1>3, <3>1
    <3>6. Inside' = Inside
      BY <1>4, <1>5, <3>2, <3>3, <3>4, <3>5, Zenon
    <3>7. QED
      BY <1>6, <3>1, <3>6
  <2>2. CASE StringAtom /\ At(i) = "NEWLINE"
    <3>1. n = p + 1 /\ line' = line + 1 /\ text[p] = "NEWLINE"
      BY <1>2, <1>3, <2>2 DEF StringAtom, LineAfter
    <3>2. s..(n - 1) = (s..(p - 1)) \cup {p} /\ p \notin s..(p - 1)
      BY <1>3, <3>1
    <3>3. Inside' = Inside \cup {p}
      BY <1>3, <1>4, <1>5, <3>1, <3>2, Zenon
    <3>4. IsFiniteSet(Inside) /\ Cardinality(Inside) \in Nat /\ p \notin Inside
      BY <1>2, <1>3, <1>4, <3>2, InsideFinite
    <3>5. Cardinality(Inside') = Cardinality(Inside) + 1
      BY <3>3, <3>4, FS_AddElement
    <3>6. string.line \in Nat
      BY <1>1, AtString
    <3>7. QED
      BY <1>6, <3>1, <3>4, <3>5, <3>6
  <2>3. CASE StringAtom /\ At(i) # "NEWLINE"
    <3>1. n = p + 1 /\ line' = line /\ text[p] # "NEWLINE"
      BY <1>2, <1>3, <2>3 DEF StringAtom, LineAfter
    <3>2. s..(n - 1) = (s..(p - 1)) \cup {p}
      BY <1>3, <3>1
    <3>3. Inside' = Inside
      BY <1>4, <1>5, <3>1, <3>2, Zenon
    <3>4. QED
      BY <1>6, <3>1, <3>3
  <2>4. QED
    BY <2>1, <2>2, <2>3
<1>8. QED
  BY <1>1, <1>3, <1>7, LinesInString

\* The newlines of a string become those of its token.
LEMMA LinesDone ==
  ASSUME IInv, IInv', StringsRead, LinesRead, CloseString \/ UnterminatedString
  PROVE  LinesRead'
<1>1. /\ InString /\ StringOpen /\ text' = text /\ line' = line /\ string' = NoString
      /\ string # NoString /\ Bound' = i' /\ StartLine' = line
      /\ StartLine = string.line /\ Bound = string.first
  BY DEF CloseString, UnterminatedString, EndString, StringsRead, InString, Bound, StartLine
<1>2. PICK s, body, p, n : s = string.first /\ body = Body /\ p = i /\ n = i'
  OBVIOUS
<1>3. /\ Len(text) \in Nat /\ s \in 1..Len(text) /\ body \in Nat /\ p \in body..(Len(text) + 1)
      /\ s + DelimiterWidth(s) = body /\ string.width \in {1, 3}
      /\ n \in Nat /\ n - 1 <= Len(text) /\ s <= p
  BY <1>1, <1>2, EndsBeyond DEF Body, IInv, TypeOK
<1>4. PICK t : t = Token("STRING", s, n, string.line)
  OBVIOUS
<1>5. tokens' = Append(tokens, t) /\ t.first = Bound /\ t.line = StartLine
  BY <1>1, <1>2, <1>4
     DEF CloseString, UnterminatedString, EndString, Token
<1>6. n >= p /\ \A q \in p..(n - 1) : text[q] # "NEWLINE"
  <2>1. CASE CloseString
    <3>1. n = p + string.width /\ \A q \in p..(n - 1) : At(q) = At(s)
      BY <1>2, <1>3, <2>1 DEF CloseString, EndString, AtDelimiter, Repeated, AllIn
    <3>2. \A q \in p..(n - 1) : At(q) = text[q]
      BY <1>3 DEF At
    <3>3. At(s) # "NEWLINE"
      BY <1>1, <1>2, AtString DEF Quotes
    <3>4. QED
      BY <1>3, <3>1, <3>2, <3>3
  <2>2. CASE UnterminatedString
    BY <1>2, <1>3, <2>2 DEF UnterminatedString, EndString
  <2>3. QED
    BY <2>1, <2>2
<1>7. /\ 1..(n - 1) = (1..(s - 1)) \cup (s..(p - 1)) \cup (p..(n - 1))
      /\ (1..(s - 1)) \cap (s..(p - 1)) = {}
      /\ \A q \in 1..(s - 1) : q \in 1..Len(text) /\ q < s
      /\ \A q \in s..(p - 1) : q \in 1..Len(text) /\ q >= s /\ q \in s..(n - 1) /\ q \in Nat
  BY <1>3, <1>6
<1>8. /\ \A q \in 1..(s - 1) : EscapedNewline(q)' <=> EscapedNewline(q)
      /\ \A q \in s..(p - 1) :
           EscapedNewline(q)' <=> text[q] = "NEWLINE" /\ EscapedIn(t, q)
  BY <1>1, <1>2, <1>5, <1>7, EscapedAfter
<1>9. \A q \in s..(p - 1) : EscapedIn(t, q) <=> ~Unescaped(body, q)
  <2>1. t.kind = "STRING" /\ t.first = s /\ t.last = n - 1
    BY <1>4 DEF Token
  <2>2. QED
    BY <1>3, <1>7, <2>1 DEF EscapedIn, Span
<1>10. Lines(s) = {q \in 1..(s - 1) : text[q] = "NEWLINE" /\ ~EscapedNewline(q)}
  BY DEF Lines
<1>11. Inside = {q \in s..(p - 1) : text[q] = "NEWLINE" /\ Unescaped(body, q)}
  BY <1>2 DEF Inside
<1>12. Lines(Bound)' = Lines(s) \cup Inside
  <2>1. Lines(Bound)' = {q \in 1..(n - 1) : text[q] = "NEWLINE" /\ ~EscapedNewline(q)'}
    BY <1>1, <1>2 DEF Lines
  <2>2. \A q \in s..(p - 1) :
          text[q] = "NEWLINE" => (EscapedNewline(q)' <=> ~Unescaped(body, q))
    BY <1>8, <1>9
  <2>3. \A q : q \in Lines(Bound)' <=> q \in Lines(s) \cup Inside
    <3>1. ASSUME NEW q, q \in Lines(Bound)'
          PROVE  q \in Lines(s) \cup Inside
      BY <1>6, <1>7, <1>8, <1>10, <1>11, <2>1, <2>2, <3>1
    <3>2. ASSUME NEW q, q \in Lines(s) \cup Inside
          PROVE  q \in Lines(Bound)'
      BY <1>7, <1>8, <1>10, <1>11, <2>1, <2>2, <3>2
    <3>3. QED
      BY <3>1, <3>2
  <2>4. QED
    BY <2>3, Zenon
<1>13. Lines(s) \cap Inside = {}
  BY <1>7, <1>10, <1>11
<1>14. /\ IsFiniteSet(Lines(s)) /\ Cardinality(Lines(s)) \in Nat
       /\ IsFiniteSet(Inside) /\ Cardinality(Inside) \in Nat
  <2>1. s \in Nat /\ string.first \in Nat /\ i \in Nat
    BY <1>2, <1>3
  <2>2. QED
    BY <2>1, LinesFinite, InsideFinite
<1>15. Cardinality(Lines(Bound)') = Cardinality(Lines(s)) + Cardinality(Inside)
  <2>1. Cardinality(Lines(s) \cup Inside)
          = Cardinality(Lines(s)) + Cardinality(Inside) - Cardinality(Lines(s) \cap Inside)
    BY <1>14, FS_Union
  <2>2. Cardinality(Lines(s) \cap Inside) = 0
    BY <1>13, FS_EmptySet
  <2>3. QED
    BY <1>12, <1>14, <2>1, <2>2
<1>16. StartLine' = 1 + Cardinality(Lines(Bound)')
  <2>1. string.line = 1 + Cardinality(Lines(s)) /\ line = string.line + Cardinality(Inside)
    BY <1>1, <1>2 DEF LinesRead
  <2>2. QED
    BY <1>1, <1>14, <1>15, <2>1
<1>17. LinesCounted'
  BY <1>1, <1>5, TokenLines
<1>18. QED
  BY <1>1, <1>16, <1>17 DEF LinesRead

LEMMA LinesInvariant ==
  ASSUME IInv, StringsRead, LinesRead, [Next]_lexerVars
  PROVE  LinesRead'
BY StepInv, Shapes, LinesIdle, LinesBegun, LinesGoOn, LinesDone

-----------------------------------------------------------------------------

LEMMA TokensInit ==
  ASSUME Init
  PROVE  NumbersRead /\ StringsRead /\ LinesRead
<1>1. Len(tokens) = 0 /\ 1..Len(tokens) = {} /\ string = NoString /\ i = 1 /\ line = 1
      /\ diagnostics = {}
  BY DEF Init
<1>2. NumbersRead /\ StringsRead
  BY <1>1 DEF NumbersRead, StringsRead, StringOpen, Reported, StringsEndAtDelimiters
<1>3. Lines(Bound) = {}
  BY <1>1 DEF Lines, Bound
<1>4. StartLine = 1 + Cardinality(Lines(Bound))
  BY <1>1, <1>3, FS_EmptySet DEF StartLine
<1>5. LinesRead
  BY <1>1, <1>4 DEF LinesRead, LinesCounted
<1>6. QED
  BY <1>2, <1>5

\* The tokens are the lexemes of the text: each atom read is in one of them or
\* accounted for, a number is the longest numeral, a string ends with its first
\* unescaped delimiter, or is reported, and lines are counted through strings.
THEOREM LexerFaithful == Spec => []TokensFaithful
<1> DEFINE TInv == IInv /\ NumbersRead /\ StringsRead /\ LinesRead
<1>1. Init => TInv
  BY InitInv, TokensInit
<1>2. TInv /\ [Next]_lexerVars => TInv'
  BY StepInv, NumbersStep, StringsInvariant, LinesInvariant
<1>3. TInv => TokensFaithful
  BY NumbersFaithful DEF IInv, StringsRead, LinesRead, TokensFaithful
<1>4. QED
  BY <1>1, <1>2, <1>3, PTL DEF Spec
=============================================================================
