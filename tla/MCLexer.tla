------------------------------ MODULE MCLexer ------------------------------
(* Texts for model-checking Lexer: over each of three alphabets, all that are *)
(* long enough and no longer.                                                 *)
EXTENDS Lexer

Over(alphabet, length) == UNION {[1..n -> alphabet] : n \in 0..length}

\* Seven atoms hold a triple-quoted string with an escape in it.
StringTexts == Over({"QUOTE", "BACKSLASH", "NEWLINE", "SLASH", "LETTER"}, 7)

\* Six atoms hold a number with a point and a signed exponent.
NumberTexts ==
  Over({"DIGIT", "DOT", "E", "SIGN", "RAISED", "SPACE", "EQUALS"}, 6)

\* Four of the other classes bring each before and after each other.
ClassTexts ==
  Over({"SPACE", "NEWLINE", "SLASH", "MARK", "COLOR", "APOSTROPHE",
        "BACKSLASH", "FOREIGN", "RAISED", "DIGIT", "OTHER"}, 4)

MCTexts == StringTexts \cup NumberTexts \cup ClassTexts
=============================================================================
