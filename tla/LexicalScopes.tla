--------------------------- MODULE LexicalScopes ---------------------------
(***************************************************************************)
(* What the analyzer's scope manager promises: block-structured name       *)
(* lookup.  There is a stack of scopes, a declaration binds a name in the  *)
(* innermost open scope, and what a name means is the binding made by the  *)
(* innermost open scope that has one.  Closing a scope forgets everything  *)
(* the scope bound, and nothing else.                                      *)
(*                                                                         *)
(* Bindings are numbered; 0 stands for "no binding".                       *)
(***************************************************************************)
EXTENDS Naturals, Sequences

CONSTANT Names          \* the identifiers of a program

VARIABLES env,          \* the open scopes, outermost first: each [Names -> Nat]
          used,         \* the largest binding number given out so far
          meaning       \* what each name means now: [Names -> Nat]

lexicalVars == <<env, used, meaning>>

Unbound == [n \in Names |-> 0]

\* The binding of n that the innermost scope of e having one makes.
Innermost(e, n) ==
  LET binders == {i \in 1..Len(e) : e[i][n] # 0}
  IN  IF binders = {} THEN 0
      ELSE e[CHOOSE i \in binders : \A j \in binders : j <= i][n]

Meaning(e) == [n \in Names |-> Innermost(e, n)]

Init ==
  /\ env = <<>>
  /\ used = 0
  /\ meaning = Unbound

Open ==
  /\ env' = Append(env, Unbound)
  /\ meaning' = meaning
  /\ used' = used

\* A name is bound, or bound again, in the innermost scope to a number that
\* was never used before.
Declare(n) ==
  /\ env # <<>>
  /\ used' > used
  /\ env' = [env EXCEPT ![Len(env)][n] = used']
  /\ meaning' = [meaning EXCEPT ![n] = used']

\* Numbers may be spent on declarations that bind no name of Names.
Skip ==
  /\ used' > used
  /\ UNCHANGED <<env, meaning>>

Close ==
  /\ env # <<>>
  /\ env' = SubSeq(env, 1, Len(env) - 1)
  /\ meaning' = Meaning(env')
  /\ used' = used

Next == Open \/ Close \/ Skip \/ \E n \in Names : Declare(n)

Spec == Init /\ [][Next]_lexicalVars
=============================================================================
