----------------------------- MODULE MCAnalyzer -----------------------------
(* Programs and builtins for model-checking Analyzer. *)
EXTENDS Analyzer

CONSTANTS f, e, a

Decl(node, name, parts) ==
  [node |-> node, name |-> name, parts |-> parts, receiver |-> name,
   exported |-> FALSE]

Body == Decl("STATEMENTS", f, <<>>)

\* An indicator of these items, whose bodies hold these statements.
ProgramOf(items, statements, names, maxSymbols, maxScopes) ==
  [items |-> items, script |-> "indicator", reassigned |-> {},
   builtins |-> <<>>, statements |-> statements, names |-> names,
   symbols |-> maxSymbols, scopes |-> maxScopes]

\* Control flow: a function before the statements, a method after them.
ControlPrograms ==
  LET of(items) ==
        ProgramOf(items,
                  {"BLOCK", "WHILE", "FORRANGE", "FORIN", "BREAK", "NESTED"},
                  {f}, 4, 4)
  IN  {of(<<Decl("FUNCTION", f, <<>>), Body>>),
       of(<<Body, Decl("METHOD", f, <<f>>)>>)}

Heads_ == {[span |-> 3, step |-> NoStep], [span |-> NonLiteral, step |-> 1]}

\* A namespace and a dotted type.
SharedBuiltins ==
  LET builtin(n, kind) == [name |-> n, kind |-> kind, type |-> "unknown",
                           qualifier |-> "series"]
  IN  <<builtin(a, "BUILTIN"), builtin(<<e, a>>, "TYPE")>>

\* Declarations that share names with each other, with builtins and with the
\* local variables of the statements around them.
SharedPrograms ==
  LET of(items, names) ==
        [ProgramOf(items, {"BLOCK", "TUPLE", "USE", "CALL"}, names, 8, 3)
           EXCEPT !.builtins = SharedBuiltins]
  IN  {of(<<Decl("ENUM", e, <<a>>), Decl("TYPE", e, <<a>>)>>, {}),
       of(<<Decl("TYPE", e, <<a, a>>), Decl("ENUM", e, <<a, a>>)>>, {}),
       of(<<Decl("IMPORT", e, <<>>), Decl("ENUM", f, <<a>>), Body>>, {e, f}),
       of(<<Body, Decl("TYPE", f, <<a>>)>>, {f, a}),
       ProgramOf(<<Decl("TYPE", f, <<a, a>>)>>, {}, {}, 5, 2)}

\* Functions and methods that share their names, and an exported one.
CallPrograms ==
  LET of(items) ==
        ProgramOf(items, {"BLOCK", "NESTED", "DECLARATION"}, {f, a}, 4, 3)
      exported == [Decl("FUNCTION", f, <<>>) EXCEPT !.exported = TRUE]
  IN  {of(<<Body, Decl("FUNCTION", f, <<a>>), Decl("FUNCTION", f, <<>>)>>),
       of(<<Decl("METHOD", f, <<a>>), Body>>)}
      \cup {[of(<<Body, exported>>) EXCEPT !.script = script] :
              script \in {"strategy", "library", Unstated}}

\* Variables that are, and are not, assigned somewhere.
VariablePrograms ==
  {[ProgramOf(<<Body>>, {"VAR", "REASSIGN", "BLOCK"}, {a}, 2, 2)
      EXCEPT !.script = "library", !.reassigned = names] : names \in {{}, {a}}}

MCPrograms ==
  ControlPrograms \cup SharedPrograms \cup CallPrograms \cup VariablePrograms

MCMembers == {<<e, a>>, <<f, a>>}
=============================================================================
