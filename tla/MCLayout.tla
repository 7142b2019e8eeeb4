------------------------------ MODULE MCLayout ------------------------------
(* Physical lines for model-checking Layout. *)
EXTENDS Layout

CONSTANT Indents

Shapes ==
  {<<"WORD">>, <<"WORD", "OPERATOR">>, <<"OPERATOR">>, <<"WORD", "OPEN">>,
   <<"CLOSE">>, <<"ANNOTATION">>}

MCLines == [indent : Indents, tokens : Shapes]
=============================================================================
