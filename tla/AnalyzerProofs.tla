--------------------------- MODULE AnalyzerProofs ---------------------------
(***************************************************************************)
(* Proofs about the scope manager and about Analyzer, for any programs,    *)
(* names, bounds and loop heads.  Of the scope manager: that lookup finds  *)
(* the innermost declaration and that it implements LexicalScopes.  Of the *)
(* walk: that it keeps the rules of the scope manager, that its scopes and *)
(* counters are those of what is running, that what is judged by a counter *)
(* is judged by what encloses it, that no assignment is refused for a      *)
(* qualifier the walk itself inferred, and that the names predeclaration   *)
(* defined mean the same to the end.                                       *)
(*                                                                         *)
(* The walk.  What a handler does to the scopes it leaves in todo, so      *)
(* the invariant speaks of what is still to be done: todo is a plan that   *)
(* opens at most one scope and closes at most one, last, and each of its   *)
(* definitions is allowed in the scope it will be made in, under what has  *)
(* been reported (Orderly).  The stack has the scopes of the frames but    *)
(* for one still to be opened or closed (Following), the counters count    *)
(* the frames of their kind (Counting), the table of symbols agrees with   *)
(* the dictionary (TablesAgree).  What is refused for an export or an      *)
(* assignment follows from the passes before the walk (Policing,           *)
(* ConstantsKept).  Together they are Walking, which the scope manager's   *)
(* IInv makes inductive and which in turn shows that every operation is    *)
(* one ScopeManager permits.                                               *)
(*                                                                         *)
(* What the predeclared names mean is a second invariant on top of it,     *)
(* Meaning: the global scope records every name predeclaration is through  *)
(* with, so that a later declaration of it there is refused; that is why   *)
(* two items of one name have been reported, why an enum's members can     *)
(* only be taken by a type whose name is reported, and why two functions   *)
(* of one name cannot both be unreported.                                  *)
(*                                                                         *)
(* Each operation on the scopes has a lemma, each shape of a plan, each    *)
(* handler, and each way of entering and leaving a frame.                  *)
(***************************************************************************)
EXTENDS Analyzer, SequenceTheorems, FiniteSetTheorems, WellFoundedInduction, TLAPS

-----------------------------------------------------------------------------
(***************************************************************************)
(* The scope manager, for any sets of names, any kinds of symbols and      *)
(* scopes and any bounds: the types of its state, that a declared          *)
(* identifier resolves to its innermost declaration, and that it therefore *)
(* implements LexicalScopes.                                               *)
(*                                                                         *)
(* The argument.  For one identifier, call its history followed by its     *)
(* entry in the flat dictionary its trail.  Ids grow along the trail and   *)
(* grow with the depth of the declaring scopes.  Every id an open scope    *)
(* recorded is on the trail, and nothing on the trail is younger than a    *)
(* recorded id unless a deeper open scope recorded it.  So the last of the *)
(* trail, the dictionary entry, is the innermost declaration, and removing *)
(* it when its scope closes exposes the next one.                          *)
(*                                                                         *)
(* For the refinement: what the mapping says a name means is what _resolve *)
(* answers, and by the invariant that is what block structure makes of the *)
(* open scopes.  So a step that closes a scope maps to Close because the   *)
(* invariant holds after it, and the other steps change one meaning at     *)
(* most.                                                                   *)
(***************************************************************************)

SymbolId(i, n) == stack[i].symbols[n]

\* Ids grow along the trail of n.
TrailGrows(n) ==
  /\ flat[n].id < nextId
  /\ \A q \in 1..Len(history[n]) : history[n][q].id < flat[n].id
  /\ \A p, q \in 1..Len(history[n]) :
       p < q => history[n][p].id < history[n][q].id

\* Deeper scopes declared n later.
DepthGrows(n) ==
  \A i, j \in Declaring(n) : i < j => SymbolId(i, n) < SymbolId(j, n)

\* What an open scope recorded is on the trail.
Recorded(n) ==
  \A i \in Declaring(n) :
    \/ flat[n].id = SymbolId(i, n)
    \/ \E q \in 1..Len(history[n]) : history[n][q].id = SymbolId(i, n)

\* What is on the trail after a recorded id was recorded deeper.
Covered(n) ==
  \A i \in Declaring(n) :
    /\ flat[n].id > SymbolId(i, n) =>
         \E j \in Declaring(n) : j > i /\ SymbolId(j, n) = flat[n].id
    /\ \A q \in 1..Len(history[n]) :
         history[n][q].id > SymbolId(i, n) =>
           \E j \in Declaring(n) :
             j > i /\ SymbolId(j, n) = history[n][q].id

\* A symbol s of n was declared where its kind may be, by the scope that
\* recorded it; the global scope still records a name it declared.
Placed(n, s) ==
  /\ s.scope \in 1..Len(scopes)
  /\ s.kind = "BUILTIN" => scopes[s.scope] = "GLOBAL"
  /\ s.kind = "VARIABLE" => scopes[s.scope] # "TYPE_DECL"
  /\ \A i \in Declaring(n) : SymbolId(i, n) = s.id => s.scope = stack[i].id
  /\ stack # <<>> /\ scopes[s.scope] = "GLOBAL" => Binds(stack[1], n)

TrailPlaced(n) ==
  /\ flat[n].id # 0 => Placed(n, flat[n])
  /\ \A q \in 1..Len(history[n]) : Placed(n, history[n][q])

\* The open scopes are of this program, and only the first is global.
ScopesNested ==
  /\ scopes = <<>> => stack = <<>>
  /\ \A i \in 1..Len(stack) :
       /\ stack[i].id \in 1..Len(scopes)
       /\ scopes[stack[i].id] = "GLOBAL" <=> i = 1

NameInv(n) ==
  /\ TrailGrows(n)
  /\ DepthGrows(n)
  /\ Recorded(n)
  /\ Covered(n)
  /\ TrailPlaced(n)

IInv ==
  /\ TypeOK
  /\ ScopesNested
  /\ \A n \in Names : NameInv(n)

-----------------------------------------------------------------------------
(* Types. *)

\* The last element of a sequence that is not empty.
LEMMA LastOfSeq ==
  ASSUME NEW S, NEW s \in Seq(S), s # <<>>
  PROVE  /\ Len(s) \in Nat \ {0}
         /\ Len(s) \in 1..Len(s)
         /\ s[Len(s)] \in S
         /\ SubSeq(s, 1, Len(s) - 1) \in Seq(S)
         /\ Len(SubSeq(s, 1, Len(s) - 1)) = Len(s) - 1
         /\ \A i \in 1..(Len(s) - 1) : SubSeq(s, 1, Len(s) - 1)[i] = s[i]
<1>1. Len(s) \in Nat \ {0}
  BY EmptySeq, LenProperties
<1>2. s[Len(s)] \in S
  BY <1>1, ElementOfSeq
<1>3. \A i \in 1..(Len(s) - 1) : s[i] \in S
  BY <1>1, ElementOfSeq
<1> DEFINE front == SubSeq(s, 1, Len(s) - 1)
<1>4. /\ front \in Seq(S)
      /\ Len(front) = IF 1 <= Len(s) - 1 THEN Len(s) - 1 - 1 + 1 ELSE 0
      /\ \A i \in 1..(Len(s) - 1 - 1 + 1) : front[i] = s[1 + i - 1]
  <2> DEFINE k == Len(s) - 1
  <2>1. k \in Int /\ 1 \in Int
    BY <1>1
  <2>2. \A i \in 1..k : s[i] \in S
    BY <1>3
  <2> HIDE DEF k
  <2>3. /\ SubSeq(s, 1, k) \in Seq(S)
        /\ Len(SubSeq(s, 1, k)) = IF 1 <= k THEN k - 1 + 1 ELSE 0
        /\ \A i \in 1..(k - 1 + 1) : SubSeq(s, 1, k)[i] = s[1 + i - 1]
    BY <2>1, <2>2, SubSeqProperties
  <2>4. QED
    BY <2>3 DEF k
<1>5. Len(front) = Len(s) - 1
  <2>1. Len(front) = IF 1 <= Len(s) - 1 THEN Len(s) - 1 - 1 + 1 ELSE 0
    BY <1>4
  <2> HIDE DEF front
  <2>2. (IF 1 <= Len(s) - 1 THEN Len(s) - 1 - 1 + 1 ELSE 0) = Len(s) - 1
    <3>1. \A m \in Nat \ {0} :
            (IF 1 <= m - 1 THEN m - 1 - 1 + 1 ELSE 0) = m - 1
      OBVIOUS
    <3>2. QED BY <1>1, <3>1, Zenon
  <2>3. QED BY <2>1, <2>2
<1>6. \A i \in 1..(Len(s) - 1) : front[i] = s[i]
  <2> HIDE DEF front
  <2>1. SUFFICES ASSUME NEW i \in 1..(Len(s) - 1) PROVE front[i] = s[i]
    OBVIOUS
  <2>2. i \in 1..(Len(s) - 1 - 1 + 1) /\ 1 + i - 1 = i
    BY <1>1, <2>1
  <2>3. QED BY <1>4, <2>2
<1>7. QED BY <1>1, <1>2, <1>4, <1>5, <1>6

ScopeRecord == [id : 1..MaxScopes, symbols : [AllNames -> 0..MaxSymbols]]

LEMMA InitTypeOK == Init => TypeOK
BY ScopeAssumption DEF Init, TypeOK, NoSymbol

LEMMA DefineTypeOK ==
  ASSUME TypeOK, NEW n \in AllNames, NEW kind \in SymbolKinds,
         NEW allowExisting \in BOOLEAN, stack # <<>>,
         \A i \in 1..Len(stack) : stack[i].id \in 1..MaxScopes,
         Define(n, kind, allowExisting)
  PROVE  TypeOK'
<1>1. CASE DefineRejected(n, kind, allowExisting)
  BY <1>1 DEF TypeOK, DefineRejected
<1>2. CASE DefineAccepted(n, kind, allowExisting)
  <2> USE <1>2 DEF DefineAccepted
  <2> DEFINE k == Len(stack)
  <2>1. /\ nextId \in 1..MaxSymbols
        /\ MaxSymbols \in Nat
    BY ScopeAssumption DEF TypeOK
  <2>s. stack \in Seq(ScopeRecord)
    BY DEF TypeOK, ScopeRecord
  <2>2. /\ k \in 1..Len(stack)
        /\ stack[k] \in ScopeRecord
    BY <2>s, LastOfSeq
  <2>3. stack' \in Seq(ScopeRecord)
    <3> DEFINE top == [id |-> Top.id,
                       symbols |-> [Top.symbols EXCEPT ![n] = nextId]]
    <3>1. top \in ScopeRecord
      BY <2>1, <2>2 DEF ScopeRecord, Top
    <3>2. stack' = [stack EXCEPT ![k] = top]
      OBVIOUS
    <3> HIDE DEF k, top
    <3>3. [stack EXCEPT ![k] = top] \in Seq(ScopeRecord)
      BY <2>s, <2>2, <3>1, ExceptSeq
    <3>4. QED
      BY <3>2, <3>3
  <2>4. history' \in [AllNames -> Seq(Symbol)]
    <3>1. flat[n].id # 0 => flat[n] \in Symbol
      BY DEF TypeOK, NoSymbol
    <3>2. Saved(n) \in Seq(Symbol)
      BY <3>1 DEF TypeOK, Saved
    <3> HIDE DEF Saved
    <3>3. QED BY <3>2 DEF TypeOK
  <2>5. flat' \in [AllNames -> Symbol \cup {NoSymbol}]
    <3>1. [id |-> nextId, kind |-> kind, scope |-> Top.id] \in Symbol
      BY <2>1, <2>2 DEF Symbol, Top, ScopeRecord
    <3>2. QED BY <3>1 DEF TypeOK
  <2>6. nextId' \in 1..(MaxSymbols + 1)
    BY <2>1
  <2>7. QED
    BY <2>3, <2>4, <2>5, <2>6 DEF TypeOK, ScopeRecord
<1>3. QED BY <1>1, <1>2 DEF Define

LEMMA PushTypeOK ==
  ASSUME TypeOK, NEW kind \in ScopeKinds, PushScope(kind)
  PROVE  TypeOK'
<1> USE DEF PushScope
<1>1. /\ Len(scopes) \in Nat
      /\ Len(scopes) < MaxScopes
      /\ MaxScopes \in Nat /\ MaxSymbols \in Nat
  BY ScopeAssumption DEF TypeOK
<1>2. scopes' \in Seq(ScopeKinds) /\ Len(scopes') <= MaxScopes
  BY <1>1 DEF TypeOK
<1>3. [id |-> Len(scopes) + 1, symbols |-> [m \in AllNames |-> 0]] \in ScopeRecord
  BY <1>1 DEF ScopeRecord
<1>4. stack' \in Seq(ScopeRecord)
  BY <1>3 DEF TypeOK, ScopeRecord
<1>5. QED
  BY <1>2, <1>4 DEF TypeOK, ScopeRecord

LEMMA PopTypeOK ==
  ASSUME TypeOK, PopScope
  PROVE  TypeOK'
<1> USE DEF PopScope
<1>1. stack' \in Seq(ScopeRecord)
  <2>1. stack \in Seq(ScopeRecord)
    BY DEF TypeOK, ScopeRecord
  <2>2. QED BY <2>1, LastOfSeq
<1>2. ASSUME NEW n \in AllNames, Restores(n)
      PROVE  /\ history[n][Len(history[n])] \in Symbol
             /\ SubSeq(history[n], 1, Len(history[n]) - 1) \in Seq(Symbol)
  <2>1. history[n] \in Seq(Symbol) /\ history[n] # <<>>
    BY <1>2 DEF TypeOK, Restores
  <2>2. QED BY <2>1, LastOfSeq
<1>3. flat' \in [AllNames -> Symbol \cup {NoSymbol}]
  BY <1>2 DEF TypeOK
<1>4. history' \in [AllNames -> Seq(Symbol)]
  BY <1>2 DEF TypeOK
<1>5. QED
  BY <1>1, <1>3, <1>4 DEF TypeOK, ScopeRecord

\* Every step keeps the types of the scope manager's state.
LEMMA NextTypeOK == TypeOK /\ [Next]_scopeVars => TypeOK'
<1> SUFFICES ASSUME TypeOK, [Next]_scopeVars PROVE TypeOK'
  OBVIOUS
<1>1. CASE Declare
  <2>1. \A i \in 1..Len(stack) : stack[i].id \in 1..MaxScopes
    <3>1. stack \in Seq(ScopeRecord)
      BY DEF TypeOK, ScopeRecord
    <3>2. \A i \in 1..Len(stack) : stack[i] \in ScopeRecord
      BY <3>1, ElementOfSeq
    <3>3. QED BY <3>2 DEF ScopeRecord
  <2>2. PICK n \in AllNames, kind \in UsedKinds, allowExisting \in BOOLEAN :
          Define(n, kind, allowExisting)
    BY <1>1 DEF Declare
  <2>3. kind \in SymbolKinds
    BY ScopeAssumption
  <2>4. QED BY <1>1, <2>1, <2>2, <2>3, DefineTypeOK DEF Declare
<1>2. CASE Open
  BY <1>2, PushTypeOK, ScopeAssumption DEF Open
<1>3. CASE PopScope
  BY <1>3, PopTypeOK
<1>4. CASE UNCHANGED scopeVars
  BY <1>4 DEF TypeOK, scopeVars
<1>5. QED BY <1>1, <1>2, <1>3, <1>4 DEF Next

\* The scope manager's state has its types, for every value of the constants.
THEOREM TypeCorrect == Spec => []TypeOK
<1>1. Init => TypeOK
  BY InitTypeOK
<1>2. TypeOK /\ [Next]_scopeVars => TypeOK'
  BY NextTypeOK
<1>3. QED BY <1>1, <1>2, PTL DEF Spec

-----------------------------------------------------------------------------
(* Consequences of the invariant, and of the types. *)

\* The types of the parts the invariant speaks of.
LEMMA Parts ==
  ASSUME TypeOK
  PROVE  /\ Len(stack) \in Nat
         /\ Len(scopes) \in Nat
         /\ nextId \in Nat \ {0}
         /\ \A i \in 1..Len(stack) :
              /\ stack[i] \in ScopeRecord
              /\ stack[i].id \in Nat
              /\ \A n \in AllNames : SymbolId(i, n) \in Nat
         /\ \A n \in AllNames :
              /\ flat[n].id \in Nat
              /\ flat[n].id # 0 => flat[n] \in Symbol
              /\ history[n] \in Seq(Symbol)
              /\ Len(history[n]) \in Nat
              /\ \A q \in 1..Len(history[n]) :
                   /\ history[n][q] \in Symbol
                   /\ history[n][q].id \in Nat \ {0}
<1>0. MaxSymbols \in Nat /\ MaxScopes \in Nat
  BY ScopeAssumption
<1>1. stack \in Seq(ScopeRecord)
  BY DEF TypeOK, ScopeRecord
<1>2. \A i \in 1..Len(stack) : stack[i] \in ScopeRecord
  BY <1>1, ElementOfSeq
<1>3. Len(stack) \in Nat /\ Len(scopes) \in Nat /\ nextId \in Nat \ {0}
  BY <1>0 DEF TypeOK
<1>4. \A i \in 1..Len(stack) :
        /\ stack[i].id \in Nat
        /\ \A n \in AllNames : SymbolId(i, n) \in Nat
  BY <1>0, <1>2 DEF ScopeRecord, SymbolId
<1>5. ASSUME NEW n \in AllNames
      PROVE  /\ flat[n].id \in Nat
             /\ flat[n].id # 0 => flat[n] \in Symbol
             /\ history[n] \in Seq(Symbol)
             /\ Len(history[n]) \in Nat
             /\ \A q \in 1..Len(history[n]) :
                  /\ history[n][q] \in Symbol
                  /\ history[n][q].id \in Nat \ {0}
  <2>1. flat[n] \in Symbol \cup {NoSymbol} /\ history[n] \in Seq(Symbol)
    BY DEF TypeOK
  <2>2. \A s \in Symbol : s.id \in Nat \ {0}
    BY <1>0 DEF Symbol
  <2>3. flat[n].id \in Nat /\ (flat[n].id # 0 => flat[n] \in Symbol)
    BY <2>1, <2>2 DEF NoSymbol
  <2>4. \A q \in 1..Len(history[n]) : history[n][q] \in Symbol
    BY <2>1, ElementOfSeq
  <2>5. QED BY <2>1, <2>2, <2>3, <2>4
<1>6. QED BY <1>2, <1>3, <1>4, <1>5

\* The innermost declaration of an identifier is its dictionary entry.
LEMMA InnermostIsFlat ==
  ASSUME IInv, NEW n \in Names, NEW k \in Declaring(n),
         \A j \in Declaring(n) : j <= k
  PROVE  flat[n].id = SymbolId(k, n)
<1> n \in AllNames
  BY DEF AllNames
<1>1. NameInv(n) /\ TypeOK
  BY DEF IInv
<1>2. /\ Declaring(n) \subseteq 1..Len(stack) /\ Len(stack) \in Nat
      /\ \A i \in 1..Len(stack) : SymbolId(i, n) \in Nat
      /\ flat[n].id \in Nat
      /\ \A q \in 1..Len(history[n]) : history[n][q].id \in Nat
  BY <1>1, Parts DEF Declaring
<1>3. ~ flat[n].id > SymbolId(k, n)
  BY <1>1, <1>2 DEF NameInv, Covered
<1>4. flat[n].id = SymbolId(k, n) \/
        \E q \in 1..Len(history[n]) : history[n][q].id = SymbolId(k, n)
  BY <1>1 DEF NameInv, Recorded
<1>5. \A q \in 1..Len(history[n]) : history[n][q].id < flat[n].id
  BY <1>1 DEF NameInv, TrailGrows
<1>6. QED BY <1>2, <1>3, <1>4, <1>5

-----------------------------------------------------------------------------
(* The invariant is inductive. *)

LEMMA InitIInv == Init => IInv
<1> SUFFICES ASSUME Init PROVE IInv
  OBVIOUS
<1>1. TypeOK
  BY InitTypeOK
<1>2. Len(stack) = 0 /\ \A n : Declaring(n) = {}
  BY DEF Init, Declaring
<1>3. ScopesNested
  BY <1>2 DEF Init, ScopesNested
<1>4. ASSUME NEW n \in Names PROVE NameInv(n)
  <2>1. flat[n] = NoSymbol /\ history[n] = <<>> /\ nextId = 1
    BY DEF Init, AllNames
  <2>2. Len(history[n]) = 0
    BY <2>1
  <2>3. QED
    BY <1>2, <2>1, <2>2
    DEF NameInv, TrailGrows, DepthGrows, Recorded, Covered, TrailPlaced, NoSymbol
<1>5. QED BY <1>1, <1>3, <1>4 DEF IInv

\* An identifier that a step leaves alone keeps its part of the invariant.
LEMMA NameFrame ==
  ASSUME NEW n \in Names, NameInv(n),
         Len(scopes) \in Nat, scopes' = scopes,
         nextId \in Nat, flat[n].id \in Nat,
         nextId' = nextId \/ nextId' = nextId + 1,
         flat'[n] = flat[n], history'[n] = history[n],
         Len(stack') = Len(stack), (stack' = <<>>) <=> (stack = <<>>),
         \A i \in 1..Len(stack) :
           stack'[i].id = stack[i].id /\ stack'[i].symbols[n] = stack[i].symbols[n],
         stack # <<>> => 1 \in 1..Len(stack)
  PROVE  NameInv(n)'
<1>1. Declaring(n)' = Declaring(n)
  BY DEF Declaring, Binds
<1>2. \A i \in Declaring(n) : SymbolId(i, n)' = SymbolId(i, n)
  BY DEF Declaring, SymbolId
<1>3. TrailGrows(n)'
  <2>1. TrailGrows(n)
    BY DEF NameInv
  <2>2. nextId' >= nextId
    OBVIOUS
  <2>3. flat'[n].id < nextId'
    BY <2>1, <2>2 DEF TrailGrows
  <2>4. QED BY <2>1, <2>3 DEF TrailGrows
<1>4. DepthGrows(n)'
  BY <1>1, <1>2 DEF NameInv, DepthGrows
<1>5. Recorded(n)'
  BY <1>1, <1>2 DEF NameInv, Recorded
<1>6. Covered(n)'
  BY <1>1, <1>2 DEF NameInv, Covered
<1>7. ASSUME NEW s, Placed(n, s) PROVE Placed(n, s)'
  <2>1. \A i \in Declaring(n) : stack'[i].id = stack[i].id
    BY DEF Declaring
  <2>2. stack # <<>> => (Binds(stack[1], n) <=> Binds(stack'[1], n))
    BY DEF Binds
  <2>3. QED BY <1>1, <1>2, <1>7, <2>1, <2>2 DEF Placed, Binds
<1>8. TrailPlaced(n)'
  BY <1>7 DEF NameInv, TrailPlaced
<1>9. QED BY <1>3, <1>4, <1>5, <1>6, <1>8 DEF NameInv

\* What an accepted definition does to the stack.
LEMMA DefineEffect ==
  ASSUME TypeOK, stack # <<>>, NEW n \in AllNames,
         NEW kind, NEW allowExisting, DefineAccepted(n, kind, allowExisting)
  PROVE  /\ Len(stack) \in 1..Len(stack)
         /\ stack' # <<>>
         /\ Len(stack') = Len(stack)
         /\ \A i \in 1..Len(stack) :
              /\ stack'[i].id = stack[i].id
              /\ \A m \in AllNames :
                   stack'[i].symbols[m] =
                     IF i = Len(stack) /\ m = n THEN nextId
                     ELSE stack[i].symbols[m]
<1>1. stack \in Seq(ScopeRecord)
  BY DEF TypeOK, ScopeRecord
<1>2. Len(stack) \in 1..Len(stack)
  BY <1>1, LastOfSeq
<1> DEFINE k == Len(stack)
           top == [id |-> Top.id, symbols |-> [Top.symbols EXCEPT ![n] = nextId]]
<1>3. stack' = [stack EXCEPT ![k] = top]
  BY DEF DefineAccepted
<1>4. Top \in ScopeRecord /\ Top = stack[k]
  BY <1>1, <1>2, ElementOfSeq DEF Top
<1>5. /\ top.id = stack[k].id
      /\ \A m \in AllNames :
           top.symbols[m] = IF m = n THEN nextId ELSE stack[k].symbols[m]
  BY <1>4 DEF ScopeRecord
<1> HIDE DEF top
<1>6. /\ Len(stack') = Len(stack)
      /\ \A i \in 1..Len(stack) : stack'[i] = IF i = k THEN top ELSE stack[i]
  BY <1>1, <1>2, <1>3
<1>7. stack' # <<>>
  BY <1>2, <1>6
<1>8. QED BY <1>2, <1>5, <1>6, <1>7

\* An accepted definition of an identifier keeps its part of the invariant.
LEMMA DefineNameInv ==
  ASSUME IInv, stack # <<>>, NEW n \in Names,
         NEW kind \in SymbolKinds, NEW allowExisting \in BOOLEAN,
         Permitted(n, kind, allowExisting),
         DefineAccepted(n, kind, allowExisting)
  PROVE  NameInv(n)'
<1> n \in AllNames /\ n \notin Members
  BY ScopeAssumption DEF AllNames
<1> DEFINE k == Len(stack)
           here == scopes[Top.id]
<1>1. TypeOK /\ ScopesNested /\ NameInv(n)
  BY DEF IInv
<1>2. /\ k \in 1..Len(stack) /\ stack' # <<>> /\ Len(stack') = Len(stack)
      /\ \A i \in 1..Len(stack) :
           /\ stack'[i].id = stack[i].id
           /\ stack'[i].symbols[n] = IF i = k THEN nextId ELSE stack[i].symbols[n]
  BY <1>1, DefineEffect
<1>3. /\ Len(stack) \in Nat /\ Len(scopes) \in Nat /\ nextId \in Nat \ {0}
      /\ \A i \in 1..Len(stack) : SymbolId(i, n) \in Nat
      /\ flat[n].id \in Nat
      /\ history[n] \in Seq(Symbol) /\ Len(history[n]) \in Nat
      /\ flat[n].id # 0 => flat[n] \in Symbol
      /\ \A q \in 1..Len(history[n]) : history[n][q].id \in Nat \ {0}
  BY <1>1, Parts
<1>4. /\ flat'[n] = [id |-> nextId, kind |-> kind, scope |-> Top.id]
      /\ nextId' = nextId + 1
      /\ scopes' = scopes
  BY <1>1 DEF DefineAccepted, TypeOK
<1>5. flat[n].id < nextId
  BY <1>1 DEF NameInv, TrailGrows
<1>6. \A i \in Declaring(n) : SymbolId(i, n) < nextId
  <2>1. SUFFICES ASSUME NEW i \in Declaring(n) PROVE SymbolId(i, n) < nextId
    OBVIOUS
  <2>2. CASE flat[n].id = SymbolId(i, n)
    BY <1>5, <2>2
  <2>3. CASE \E q \in 1..Len(history[n]) : history[n][q].id = SymbolId(i, n)
    <3>1. PICK q \in 1..Len(history[n]) : history[n][q].id = SymbolId(i, n)
      BY <2>3
    <3>2. history[n][q].id < flat[n].id
      BY <1>1 DEF NameInv, TrailGrows
    <3>3. history[n][q].id \in Nat
      BY <1>3
    <3> DEFINE a == history[n][q].id
               b == flat[n].id
    <3>4. a \in Nat /\ b \in Nat /\ nextId \in Nat /\ a < b /\ b < nextId
      BY <1>3, <1>5, <3>2, <3>3
    <3>5. a = SymbolId(i, n)
      BY <3>1
    <3> HIDE DEF a, b
    <3>6. QED BY <3>4, <3>5
  <2>4. QED BY <1>1, <2>2, <2>3 DEF NameInv, Recorded
\* The history after the step: the displaced symbol, if any, is its last.
<1>7. /\ \A q \in 1..Len(history'[n]) :
           \/ q \in 1..Len(history[n]) /\ history'[n][q] = history[n][q]
           \/ q = Len(history[n]) + 1 /\ flat[n].id # 0 /\ history'[n][q] = flat[n]
      /\ \A q \in 1..Len(history[n]) :
           q \in 1..Len(history'[n]) /\ history'[n][q] = history[n][q]
      /\ flat[n].id # 0 =>
           /\ Len(history[n]) + 1 \in 1..Len(history'[n])
           /\ history'[n][Len(history[n]) + 1] = flat[n]
  <2>1. CASE flat[n].id # 0
    <3>1. history'[n] = Append(history[n], flat[n])
      BY <1>1, <2>1 DEF DefineAccepted, Saved, TypeOK
    <3>2. QED BY <1>3, <2>1, <3>1, AppendProperties
  <2>2. CASE flat[n].id = 0
    <3>1. history'[n] = history[n]
      BY <1>1, <2>2 DEF DefineAccepted, Saved, TypeOK
    <3>2. QED BY <2>2, <3>1
  <2>3. QED BY <2>1, <2>2
\* Only the global scope declares a name twice.
<1>8. here = "GLOBAL" <=> k = 1
  BY <1>1, <1>2 DEF ScopesNested, Top
<1>9. k \in Declaring(n) => k = 1
  <2>1. SUFFICES ASSUME k \in Declaring(n), k # 1 PROVE FALSE
    OBVIOUS
  <2>2. Binds(Top, n)
    BY <2>1 DEF Declaring, Top
  <2>3. ~allowExisting
    BY <1>8, <2>1 DEF Permitted
  <2>4. flat[n].kind = "BUILTIN"
    BY <2>2, <2>3 DEF DefineAccepted, Rejected, ShadowsBuiltin
  <2>5. flat[n].id = SymbolId(k, n)
    <3>1. \A j \in Declaring(n) : j <= k
      BY <1>3 DEF Declaring
    <3>2. QED BY <2>1, <3>1, InnermostIsFlat
  <2>6. flat[n].id # 0
    BY <2>2, <2>5 DEF Binds, Top, SymbolId
  <2>7. Placed(n, flat[n])
    BY <1>1, <2>6 DEF NameInv, TrailPlaced
  <2>8. scopes[flat[n].scope] = "GLOBAL" /\ flat[n].scope = Top.id
    BY <2>1, <2>4, <2>5, <2>7 DEF Placed, Top
  <2>9. QED BY <1>8, <2>1, <2>8
\* The scopes that declare n after the step, and the ids they recorded.
<1>10. /\ k \in Declaring(n)' /\ stack'[k].symbols[n] = nextId
       /\ \A i \in Declaring(n)' :
            i # k => /\ i \in Declaring(n) /\ i < k
                     /\ stack'[i].symbols[n] = SymbolId(i, n)
       /\ \A i \in Declaring(n) :
            i # k => /\ i \in Declaring(n)'
                     /\ stack'[i].symbols[n] = SymbolId(i, n)
       /\ Declaring(n)' \subseteq 1..k /\ Declaring(n) \subseteq 1..k
  BY <1>2, <1>3 DEF Declaring, Binds, SymbolId
<1>11. \A i \in Declaring(n) : SymbolId(i, n) \in Nat \ {0}
  BY <1>3 DEF Declaring, Binds, SymbolId
<1>12. /\ flat'[n].id = nextId /\ nextId \in Nat /\ nextId' = nextId + 1
       /\ k \in Nat \ {0} /\ k \in 1..Len(stack)
  BY <1>2, <1>3, <1>4
\* The ids of the trail, old and new.
<1>13. /\ \A q \in 1..Len(history'[n]) :
            history'[n][q].id \in Nat /\ history'[n][q].id < nextId
       /\ \A p, q \in 1..Len(history'[n]) :
            p < q => history'[n][p].id < history'[n][q].id
  <2>1. /\ \A q \in 1..Len(history[n]) : history[n][q].id < flat[n].id
        /\ \A p, q \in 1..Len(history[n]) :
             p < q => history[n][p].id < history[n][q].id
    BY <1>1 DEF NameInv, TrailGrows
  <2> DEFINE L == Len(history[n])
             h(q) == history[n][q].id
             f == flat[n].id
  <2>2. /\ L \in Nat /\ f \in Nat /\ f < nextId
        /\ \A q \in 1..L : h(q) \in Nat /\ h(q) < f
        /\ \A p, q \in 1..L : p < q => h(p) < h(q)
    BY <1>3, <1>5, <2>1
  <2>3. \A q \in 1..Len(history'[n]) :
          \/ q \in 1..L /\ history'[n][q].id = h(q)
          \/ q = L + 1 /\ history'[n][q].id = f
    BY <1>7
  <2> HIDE DEF L, h, f
  <2>4. \A q \in 1..Len(history'[n]) :
          history'[n][q].id \in Nat /\ history'[n][q].id < nextId
    BY <1>12, <2>2, <2>3
  <2>5. ASSUME NEW p \in 1..Len(history'[n]), NEW q \in 1..Len(history'[n]), p < q
        PROVE  history'[n][p].id < history'[n][q].id
    <3>1. p \in 1..L /\ history'[n][p].id = h(p)
      BY <2>2, <2>3, <2>5
    <3>2. CASE q = L + 1
      BY <2>2, <2>3, <3>1, <3>2
    <3>3. CASE q # L + 1
      BY <2>2, <2>3, <2>5, <3>1, <3>3
    <3>4. QED BY <3>2, <3>3
  <2>6. QED BY <2>4, <2>5
<1> HIDE DEF k, here
<1>14. TrailGrows(n)'
  <2>1. flat'[n].id < nextId'
    BY <1>12
  <2>2. \A q \in 1..Len(history'[n]) : history'[n][q].id < flat'[n].id
    BY <1>12, <1>13
  <2>3. QED BY <1>13, <2>1, <2>2 DEF TrailGrows
<1>15. DepthGrows(n)'
  <2>1. \A i, j \in Declaring(n) : i < j => SymbolId(i, n) < SymbolId(j, n)
    BY <1>1 DEF NameInv, DepthGrows
  <2>2. SUFFICES ASSUME NEW i \in Declaring(n)', NEW j \in Declaring(n)', i < j
                 PROVE  stack'[i].symbols[n] < stack'[j].symbols[n]
    BY DEF DepthGrows, SymbolId
  <2>3. i # k
    BY <1>10, <1>12, <2>2
  <2>4. i \in Declaring(n) /\ stack'[i].symbols[n] = SymbolId(i, n)
    BY <1>10, <2>3
  <2>5. CASE j = k
    BY <1>6, <1>10, <2>4, <2>5
  <2>6. CASE j # k
    BY <1>10, <2>1, <2>2, <2>4, <2>6
  <2>7. QED BY <2>5, <2>6
<1>16. Recorded(n)'
  <2>1. SUFFICES ASSUME NEW i \in Declaring(n)'
                 PROVE  \/ flat'[n].id = stack'[i].symbols[n]
                        \/ \E q \in 1..Len(history'[n]) :
                              history'[n][q].id = stack'[i].symbols[n]
    BY DEF Recorded, SymbolId
  <2>2. CASE i = k
    BY <1>10, <1>12, <2>2
  <2>3. CASE i # k
    <3>1. i \in Declaring(n) /\ stack'[i].symbols[n] = SymbolId(i, n)
      BY <1>10, <2>3
    <3>2. CASE flat[n].id = SymbolId(i, n)
      <4>1. flat[n].id # 0
        BY <1>11, <3>1, <3>2
      <4>2. QED BY <1>7, <3>1, <3>2, <4>1
    <3>3. CASE \E q \in 1..Len(history[n]) : history[n][q].id = SymbolId(i, n)
      BY <1>7, <3>1, <3>3
    <3>4. QED BY <1>1, <3>1, <3>2, <3>3 DEF NameInv, Recorded
  <2>4. QED BY <2>2, <2>3
<1>17. Covered(n)'
  <2>1. SUFFICES
          ASSUME NEW i \in Declaring(n)'
          PROVE  /\ flat'[n].id > stack'[i].symbols[n] =>
                      \E j \in Declaring(n)' :
                        j > i /\ stack'[j].symbols[n] = flat'[n].id
                 /\ \A q \in 1..Len(history'[n]) :
                      history'[n][q].id > stack'[i].symbols[n] =>
                        \E j \in Declaring(n)' :
                          j > i /\ stack'[j].symbols[n] = history'[n][q].id
    BY DEF Covered, SymbolId
  <2>2. CASE i = k
    <3>1. stack'[i].symbols[n] = nextId
      BY <1>10, <2>2
    <3>2. ~ flat'[n].id > stack'[i].symbols[n]
      BY <1>12, <3>1
    <3>3. \A q \in 1..Len(history'[n]) : ~ history'[n][q].id > stack'[i].symbols[n]
      BY <1>12, <1>13, <3>1
    <3>4. QED BY <3>2, <3>3
  <2>3. CASE i # k
    <3>1. /\ i \in Declaring(n) /\ i < k
          /\ stack'[i].symbols[n] = SymbolId(i, n)
      BY <1>10, <2>3
    <3>2. k > i
      BY <1>10, <1>12, <3>1
    <3>3. \E j \in Declaring(n)' : j > i /\ stack'[j].symbols[n] = flat'[n].id
      BY <1>10, <1>12, <3>2
    \* The scope that covered an entry of the old trail still does: it is not
    \* the top scope, which declares n twice only if it is the only one.
    <3>4. ASSUME NEW v, \E j \in Declaring(n) : j > i /\ SymbolId(j, n) = v
          PROVE  \E j \in Declaring(n)' : j > i /\ stack'[j].symbols[n] = v
      <4>1. PICK j \in Declaring(n) : j > i /\ SymbolId(j, n) = v
        BY <3>4
      <4>2. j # k
        <5>1. i \in 1..k /\ j \in 1..k /\ k \in Nat
          BY <1>10, <1>12
        <5>2. QED BY <1>9, <3>1, <4>1, <5>1
      <4>3. QED BY <1>10, <4>1, <4>2
    <3>5. ASSUME NEW q \in 1..Len(history'[n]),
                 history'[n][q].id > stack'[i].symbols[n]
          PROVE  \E j \in Declaring(n)' :
                   j > i /\ stack'[j].symbols[n] = history'[n][q].id
      <4>1. CASE q \in 1..Len(history[n]) /\ history'[n][q] = history[n][q]
        <5>1. \E j \in Declaring(n) : j > i /\ SymbolId(j, n) = history'[n][q].id
          BY <1>1, <3>1, <3>5, <4>1 DEF NameInv, Covered
        <5>2. QED BY <3>4, <5>1
      <4>2. CASE history'[n][q] = flat[n]
        <5>1. \E j \in Declaring(n) : j > i /\ SymbolId(j, n) = history'[n][q].id
          BY <1>1, <3>1, <3>5, <4>2 DEF NameInv, Covered
        <5>2. QED BY <3>4, <5>1
      <4>3. QED BY <1>7, <4>1, <4>2
    <3>6. QED BY <3>3, <3>5
  <2>4. QED BY <2>2, <2>3
<1>18. TrailPlaced(n)'
  <2>1. Top.id \in 1..Len(scopes) /\ Top.id = stack[k].id
    BY <1>1, <1>2 DEF ScopesNested, Top, k
  <2>2. flat'[n].id # 0 => Placed(n, flat[n])'
    <3>1. \A i \in Declaring(n)' :
            stack'[i].symbols[n] = nextId => Top.id = stack'[i].id
      <4>1. SUFFICES ASSUME NEW i \in Declaring(n)', stack'[i].symbols[n] = nextId
                     PROVE  Top.id = stack'[i].id
        OBVIOUS
      <4>2. i = k
        BY <1>6, <1>10, <1>11, <1>12, <4>1
      <4>3. QED BY <1>2, <1>12, <2>1, <4>2
    <3>2. kind = "BUILTIN" => scopes[Top.id] = "GLOBAL"
      BY DEF Permitted
    <3>3. kind = "VARIABLE" => scopes[Top.id] # "TYPE_DECL"
      BY DEF Permitted
    <3>4. scopes[Top.id] = "GLOBAL" => stack'[1].symbols[n] # 0
      BY <1>3, <1>8, <1>10 DEF here
    <3>5. flat'[n].scope = Top.id /\ flat'[n].kind = kind
      BY <1>4
    <3>6. QED
      BY <1>4, <1>12, <2>1, <3>1, <3>2, <3>3, <3>4, <3>5
      DEF Placed, SymbolId, Binds
  <2>3. ASSUME NEW s, Placed(n, s), s.id < nextId, s.id \in Nat
        PROVE  /\ s.scope \in 1..Len(scopes')
               /\ s.kind = "BUILTIN" => scopes'[s.scope] = "GLOBAL"
               /\ s.kind = "VARIABLE" => scopes'[s.scope] # "TYPE_DECL"
               /\ \A i \in Declaring(n)' :
                    stack'[i].symbols[n] = s.id => s.scope = stack'[i].id
               /\ stack' # <<>> /\ scopes'[s.scope] = "GLOBAL"
                    => stack'[1].symbols[n] # 0
    <3>1. \A i \in Declaring(n)' :
            stack'[i].symbols[n] = s.id => s.scope = stack'[i].id
      <4>1. SUFFICES ASSUME NEW i \in Declaring(n)', stack'[i].symbols[n] = s.id
                     PROVE  s.scope = stack'[i].id
        OBVIOUS
      <4>2. i # k
        BY <1>10, <1>12, <2>3, <4>1
      <4>3. i \in Declaring(n) /\ SymbolId(i, n) = s.id
        BY <1>10, <4>1, <4>2
      <4>4. i \in 1..Len(stack)
        BY <4>3 DEF Declaring
      <4>5. s.scope = stack[i].id
        BY <2>3, <4>3 DEF Placed
      <4>6. QED BY <1>2, <4>4, <4>5
    <3>2. stack # <<>> /\ Binds(stack[1], n) => stack'[1].symbols[n] # 0
      <4>1. 1 \in 1..Len(stack)
        BY <1>3, <1>12
      <4>2. QED BY <1>2, <1>3, <4>1 DEF Binds
    <3>3. QED BY <1>4, <2>3, <3>1, <3>2 DEF Placed
  <2>4. ASSUME NEW q \in 1..Len(history'[n])
        PROVE  Placed(n, history[n][q])'
    <3>1. history'[n][q].id < nextId /\ history'[n][q].id \in Nat
      BY <1>13
    <3>2. Placed(n, history'[n][q])
      BY <1>1, <1>7 DEF NameInv, TrailPlaced
    <3>3. QED BY <2>3, <3>1, <3>2 DEF Placed, SymbolId, Binds
  <2>5. QED BY <2>2, <2>4 DEF TrailPlaced
<1>19. QED BY <1>14, <1>15, <1>16, <1>17, <1>18 DEF NameInv

LEMMA DeclareIInv ==
  ASSUME IInv, Declare
  PROVE  IInv'
<1>1. PICK n \in AllNames, kind \in UsedKinds, allowExisting \in BOOLEAN :
        /\ Permitted(n, kind, allowExisting)
        /\ Define(n, kind, allowExisting)
  BY DEF Declare
<1>2. TypeOK /\ ScopesNested /\ stack # <<>> /\ kind \in SymbolKinds
  BY ScopeAssumption DEF IInv, Declare
<1>3. TypeOK'
  <2>1. \A i \in 1..Len(stack) : stack[i].id \in 1..MaxScopes
    BY <1>2, Parts DEF ScopeRecord
  <2>2. QED BY <1>1, <1>2, <2>1, DefineTypeOK
<1>4. CASE DefineRejected(n, kind, allowExisting)
  <2>1. UNCHANGED <<scopes, stack, flat, history, nextId>>
    BY <1>4 DEF DefineRejected
  <2>2. ScopesNested'
    BY <1>2, <2>1 DEF ScopesNested
  <2>3. ASSUME NEW m \in Names PROVE NameInv(m)'
    <3>1. NameInv(m) /\ m \in AllNames
      BY DEF IInv, AllNames
    <3>2. QED
      BY <2>1, <3>1 DEF NameInv, TrailGrows, DepthGrows, Recorded, Covered,
        TrailPlaced, Placed, Declaring, Binds, SymbolId
  <2>4. QED BY <1>3, <2>2, <2>3 DEF IInv
<1>5. CASE DefineAccepted(n, kind, allowExisting)
  <2>1. /\ Len(stack) \in 1..Len(stack) /\ stack' # <<>>
        /\ Len(stack') = Len(stack)
        /\ \A i \in 1..Len(stack) :
             /\ stack'[i].id = stack[i].id
             /\ \A m \in AllNames :
                  stack'[i].symbols[m] =
                    IF i = Len(stack) /\ m = n THEN nextId
                    ELSE stack[i].symbols[m]
    BY <1>2, <1>5, DefineEffect
  <2>2. scopes' = scopes
    BY <1>5 DEF DefineAccepted
  <2>3. ScopesNested'
    BY <1>2, <2>1, <2>2 DEF ScopesNested
  <2>4. ASSUME NEW m \in Names PROVE NameInv(m)'
    <3>1. NameInv(m) /\ m \in AllNames
      BY DEF IInv, AllNames
    <3>2. CASE m = n
      BY <1>1, <1>2, <1>5, <3>2, DefineNameInv
    <3>3. CASE m # n
      <4>1. /\ flat'[m] = flat[m] /\ history'[m] = history[m]
            /\ nextId' = nextId + 1
        BY <1>2, <1>5, <3>1, <3>3 DEF DefineAccepted, TypeOK
      <4>2. \A i \in 1..Len(stack) :
              /\ stack'[i].id = stack[i].id
              /\ stack'[i].symbols[m] = stack[i].symbols[m]
        BY <2>1, <3>1, <3>3
      <4>3. /\ Len(scopes) \in Nat /\ nextId \in Nat /\ flat[m].id \in Nat
            /\ Len(stack) \in Nat
        BY <1>2, <3>1, Parts
      <4>4. 1 \in 1..Len(stack)
        BY <2>1, <4>3
      <4>5. QED
        BY <1>2, <2>1, <2>2, <3>1, <4>1, <4>2, <4>3, <4>4, NameFrame
    <3>4. QED BY <3>2, <3>3
  <2>5. QED BY <1>3, <2>3, <2>4 DEF IInv
<1>6. QED BY <1>1, <1>4, <1>5 DEF Define

\* A new scope declares nothing.
LEMMA OpenIInv ==
  ASSUME IInv, Open
  PROVE  IInv'
<1>1. PICK kind \in UsedScopes : MayOpen(kind) /\ PushScope(kind)
  BY DEF Open
<1>2. TypeOK /\ ScopesNested /\ kind \in ScopeKinds
  BY ScopeAssumption DEF IInv
<1>3. TypeOK'
  BY <1>1, <1>2, PushTypeOK
<1> DEFINE k == Len(stack)
           new == [id |-> Len(scopes) + 1, symbols |-> [m \in AllNames |-> 0]]
<1>4. /\ k \in Nat /\ Len(scopes) \in Nat
      /\ stack \in Seq(ScopeRecord) /\ scopes \in Seq(ScopeKinds)
  BY <1>2, Parts DEF TypeOK, ScopeRecord
<1>5. new \in ScopeRecord
  BY <1>1, <1>2, <1>4, ScopeAssumption DEF PushScope, TypeOK, ScopeRecord
<1>6. /\ Len(stack') = k + 1 /\ stack' # <<>>
      /\ \A i \in 1..k : stack'[i] = stack[i]
      /\ stack'[k + 1] = new
  BY <1>1, <1>4, <1>5, AppendProperties, SMTT(30) DEF PushScope
<1>7. /\ Len(scopes') = Len(scopes) + 1
      /\ \A i \in 1..Len(scopes) : scopes'[i] = scopes[i]
      /\ scopes'[Len(scopes) + 1] = kind
  BY <1>1, <1>2, <1>4, AppendProperties DEF PushScope
<1>8. kind = "GLOBAL" <=> k = 0
  <2>1. CASE scopes = <<>>
    BY <1>1, <1>2, <2>1 DEF MayOpen, ScopesNested
  <2>2. CASE scopes # <<>>
    BY <1>1, <1>4, <2>2, EmptySeq DEF MayOpen
  <2>3. QED BY <2>1, <2>2
<1>9. ScopesNested'
  <2>1. scopes' # <<>>
    BY <1>4, <1>7
  <2>2. ASSUME NEW i \in 1..Len(stack')
        PROVE  /\ stack'[i].id \in 1..Len(scopes')
               /\ scopes'[stack'[i].id] = "GLOBAL" <=> i = 1
    <3>1. CASE i \in 1..k
      BY <1>2, <1>4, <1>6, <1>7, <3>1 DEF ScopesNested
    <3>2. CASE i = k + 1
      <4>1. stack'[i].id = Len(scopes) + 1
        BY <1>6, <3>2
      <4>2. QED BY <1>4, <1>7, <1>8, <3>2, <4>1
    <3>3. QED BY <1>4, <1>6, <3>1, <3>2
  <2>3. QED BY <2>1, <2>2 DEF ScopesNested
<1>10. ASSUME NEW n \in Names PROVE NameInv(n)'
  <2>1. NameInv(n) /\ n \in AllNames
    BY DEF IInv, AllNames
  <2>2. flat' = flat /\ history' = history /\ nextId' = nextId
    BY <1>1 DEF PushScope
  <2>3. Declaring(n)' = Declaring(n)
    <3>1. ~ (stack'[k + 1].symbols[n] # 0)
      BY <1>6, <2>1
    <3>2. \A i : i \in 1..(k + 1) <=> i \in 1..k \/ i = k + 1
      BY <1>4
    <3>3. QED BY <1>6, <3>1, <3>2 DEF Declaring, Binds
  <2>4. \A i \in Declaring(n) : stack'[i] = stack[i]
    BY <1>6 DEF Declaring
  <2>5. ASSUME NEW s, Placed(n, s)
        PROVE  /\ s.scope \in 1..Len(scopes')
               /\ scopes'[s.scope] = scopes[s.scope]
               /\ stack # <<>>
               /\ Binds(stack[1], n) => Binds(stack'[1], n)
    <3>1. s.scope \in 1..Len(scopes)
      BY <2>5 DEF Placed
    <3>2. scopes # <<>>
      BY <1>4, <3>1
    <3>3. stack # <<>>
      BY <1>1, <3>2 DEF MayOpen
    <3>4. 1 \in 1..k
      BY <1>4, <3>3, EmptySeq
    <3>5. QED BY <1>4, <1>6, <1>7, <3>1, <3>3, <3>4 DEF Binds
  <2>6. TrailPlaced(n)'
    <3>1. ASSUME NEW s, Placed(n, s)
          PROVE  /\ s.scope \in 1..Len(scopes')
                 /\ s.kind = "BUILTIN" => scopes'[s.scope] = "GLOBAL"
                 /\ s.kind = "VARIABLE" => scopes'[s.scope] # "TYPE_DECL"
                 /\ \A i \in Declaring(n)' :
                      stack'[i].symbols[n] = s.id => s.scope = stack'[i].id
                 /\ stack' # <<>> /\ scopes'[s.scope] = "GLOBAL"
                      => stack'[1].symbols[n] # 0
      BY <2>3, <2>4, <2>5, <3>1 DEF Placed, SymbolId, Binds
    <3>2. flat[n].id # 0 => Placed(n, flat[n])'
      <4>1. flat[n].id # 0 => Placed(n, flat[n])
        BY <2>1 DEF NameInv, TrailPlaced
      <4>2. QED BY <2>2, <3>1, <4>1 DEF Placed, SymbolId, Binds
    <3>3. ASSUME NEW q \in 1..Len(history[n])
          PROVE  Placed(n, history[n][q])'
      <4>1. Placed(n, history[n][q])
        BY <2>1 DEF NameInv, TrailPlaced
      <4>2. QED BY <2>2, <3>1, <4>1 DEF Placed, SymbolId, Binds
    <3>4. QED BY <2>2, <3>2, <3>3 DEF TrailPlaced
  <2>7. TrailGrows(n)'
    BY <2>1, <2>2 DEF NameInv, TrailGrows
  <2>8. \A i \in Declaring(n) : SymbolId(i, n)' = SymbolId(i, n)
    BY <2>4 DEF SymbolId
  <2>9. DepthGrows(n)'
    BY <2>1, <2>3, <2>8 DEF NameInv, DepthGrows
  <2>10. Recorded(n)'
    BY <2>1, <2>2, <2>3, <2>8 DEF NameInv, Recorded
  <2>11. Covered(n)'
    BY <2>1, <2>2, <2>3, <2>8 DEF NameInv, Covered
  <2>12. QED
    BY <2>6, <2>7, <2>9, <2>10, <2>11 DEF NameInv
<1>11. QED BY <1>3, <1>9, <1>10 DEF IInv

\* Closing a scope removes its own declarations and exposes the next ones.
LEMMA PopIInv ==
  ASSUME IInv, PopScope
  PROVE  IInv'
<1>1. TypeOK /\ ScopesNested
  BY DEF IInv
<1>2. TypeOK'
  BY <1>1, PopTypeOK
<1> DEFINE k == Len(stack)
<1>3. stack \in Seq(ScopeRecord) /\ stack # <<>>
  BY <1>1 DEF TypeOK, ScopeRecord, PopScope
<1>4. /\ k \in Nat \ {0} /\ k \in 1..Len(stack)
      /\ Len(stack') = k - 1
      /\ \A i \in 1..(k - 1) : stack'[i] = stack[i]
  BY <1>3, LastOfSeq DEF PopScope
<1>5. stack' # <<>> => 1 \in 1..(k - 1)
  <2>1. stack' \in Seq(ScopeRecord)
    BY <1>3, LastOfSeq DEF PopScope
  <2>2. QED BY <1>4, <2>1, EmptySeq
<1>6. scopes' = scopes /\ nextId' = nextId
  BY DEF PopScope
<1>7. ScopesNested'
  <2>1. \A i \in 1..(k - 1) : i \in 1..Len(stack)
    BY <1>4
  <2>2. scopes # <<>>
    BY <1>1, <1>3 DEF ScopesNested
  <2>3. QED BY <1>1, <1>4, <1>6, <2>1, <2>2 DEF ScopesNested
<1>8. ASSUME NEW n \in Names PROVE NameInv(n)'
  <2> n \in AllNames /\ n \notin Members
    BY ScopeAssumption DEF AllNames
  <2>1. NameInv(n)
    BY DEF IInv
  <2>2. /\ nextId \in Nat
        /\ \A i \in 1..Len(stack) : SymbolId(i, n) \in Nat
        /\ flat[n].id \in Nat
        /\ history[n] \in Seq(Symbol) /\ Len(history[n]) \in Nat
        /\ \A q \in 1..Len(history[n]) : history[n][q].id \in Nat \ {0}
    BY <1>1, Parts
  <2>3. /\ Declaring(n)' = Declaring(n) \ {k}
        /\ Declaring(n) \subseteq 1..k
        /\ \A i \in Declaring(n)' : i < k /\ stack'[i] = stack[i]
        /\ \A i \in Declaring(n)' : stack'[i].symbols[n] = SymbolId(i, n)
    <3>1. \A i : i \in 1..(k - 1) <=> i \in 1..k /\ i # k
      BY <1>4
    <3>2. \A i : i \in Declaring(n)' <=>
                 i \in 1..(k - 1) /\ stack'[i].symbols[n] # 0
      BY <1>4 DEF Declaring, Binds
    <3>3. \A i : i \in Declaring(n) <=>
                 i \in 1..k /\ stack[i].symbols[n] # 0
      BY DEF Declaring, Binds
    <3>4. \A i \in 1..(k - 1) : i < k
      BY <1>4
    <3>5. QED BY <1>4, <3>1, <3>2, <3>3, <3>4 DEF SymbolId
  <2>4. /\ flat'[n] = IF Restores(n) THEN history[n][Len(history[n])] ELSE flat[n]
        /\ history'[n] = IF Restores(n)
                         THEN SubSeq(history[n], 1, Len(history[n]) - 1)
                         ELSE history[n]
    BY DEF PopScope
  \* What an open scope declared stays where it was.
  <2>5. ASSUME NEW s, Placed(n, s)
        PROVE  /\ s.scope \in 1..Len(scopes')
               /\ s.kind = "BUILTIN" => scopes'[s.scope] = "GLOBAL"
               /\ s.kind = "VARIABLE" => scopes'[s.scope] # "TYPE_DECL"
               /\ \A i \in Declaring(n)' :
                    stack'[i].symbols[n] = s.id => s.scope = stack'[i].id
               /\ stack' # <<>> /\ scopes'[s.scope] = "GLOBAL"
                    => stack'[1].symbols[n] # 0
    <3>1. stack' # <<>> => stack'[1] = stack[1]
      BY <1>4, <1>5
    <3>2. QED BY <1>3, <1>6, <2>3, <2>5, <3>1 DEF Placed, SymbolId, Binds
  <2>6. CASE Restores(n)
    <3> DEFINE L == Len(history[n])
    <3>1. /\ history[n] # <<>> /\ k \in Declaring(n)
          /\ flat[n].id = SymbolId(k, n)
      BY <1>4, <2>6 DEF Restores, Declaring, Top, SymbolId
    <3>2. /\ L \in Nat \ {0} /\ L \in 1..L
          /\ Len(history'[n]) = L - 1
          /\ \A q \in 1..(L - 1) : history'[n][q] = history[n][q]
          /\ flat'[n] = history[n][L]
      BY <2>2, <2>4, <2>6, <3>1, LastOfSeq
    <3>3. /\ flat[n].id < nextId
          /\ \A q \in 1..L : history[n][q].id < flat[n].id
          /\ \A p, q \in 1..L : p < q => history[n][p].id < history[n][q].id
      BY <2>1 DEF NameInv, TrailGrows
    <3>4. \A q \in 1..(L - 1) : q \in 1..L /\ q < L
      BY <3>2
    <3> HIDE DEF L
    <3>5. TrailGrows(n)'
      <4>1. flat'[n].id < nextId'
        <5>1. history[n][L].id < flat[n].id /\ history[n][L].id \in Nat
          BY <2>2, <3>2, <3>3 DEF L
        <5> DEFINE a == history[n][L].id
                   b == flat[n].id
        <5>2. a \in Nat /\ b \in Nat /\ nextId \in Nat /\ a < b /\ b < nextId
          BY <2>2, <3>3, <5>1
        <5> HIDE DEF a, b
        <5>3. a < nextId
          BY <5>2
        <5>4. QED BY <1>6, <3>2, <5>3 DEF a
      <4>2. \A q \in 1..(L - 1) : history'[n][q].id < flat'[n].id
        BY <3>2, <3>3, <3>4
      <4>3. \A p, q \in 1..(L - 1) :
              p < q => history'[n][p].id < history'[n][q].id
        BY <3>2, <3>3, <3>4
      <4>4. QED BY <3>2, <4>1, <4>2, <4>3 DEF TrailGrows
    <3>6. Recorded(n)'
      <4>1. SUFFICES ASSUME NEW i \in Declaring(n)'
                     PROVE  \/ flat'[n].id = stack'[i].symbols[n]
                            \/ \E q \in 1..Len(history'[n]) :
                                  history'[n][q].id = stack'[i].symbols[n]
        BY DEF Recorded, SymbolId
      <4>2. i \in Declaring(n) /\ i < k /\ stack'[i].symbols[n] = SymbolId(i, n)
        BY <2>3
      <4>3. SymbolId(i, n) < SymbolId(k, n)
        BY <2>1, <3>1, <4>2 DEF NameInv, DepthGrows
      <4>4. SymbolId(i, n) # flat[n].id
        BY <1>4, <2>2, <2>3, <3>1, <4>2, <4>3
      <4>5. PICK q \in 1..L : history[n][q].id = SymbolId(i, n)
        BY <2>1, <4>2, <4>4 DEF NameInv, Recorded, L
      <4>6. q = L \/ q \in 1..(L - 1)
        BY <3>2
      <4>7. QED BY <3>2, <4>2, <4>5, <4>6
    <3>7. Covered(n)'
      <4>1. SUFFICES
              ASSUME NEW i \in Declaring(n)'
              PROVE  /\ flat'[n].id > stack'[i].symbols[n] =>
                          \E j \in Declaring(n)' :
                            j > i /\ stack'[j].symbols[n] = flat'[n].id
                     /\ \A q \in 1..Len(history'[n]) :
                          history'[n][q].id > stack'[i].symbols[n] =>
                            \E j \in Declaring(n)' :
                              j > i /\ stack'[j].symbols[n] = history'[n][q].id
        BY DEF Covered, SymbolId
      <4>2. i \in Declaring(n) /\ stack'[i].symbols[n] = SymbolId(i, n)
        BY <2>3
      <4>3. ASSUME NEW q \in 1..L, history[n][q].id > SymbolId(i, n)
            PROVE  \E j \in Declaring(n)' :
                     j > i /\ stack'[j].symbols[n] = history[n][q].id
        <5>1. PICK j \in Declaring(n) :
                j > i /\ SymbolId(j, n) = history[n][q].id
          BY <2>1, <4>2, <4>3 DEF NameInv, Covered, L
        <5>2. history[n][q].id < flat[n].id /\ history[n][q].id \in Nat
          BY <2>2, <3>3 DEF L
        <5>3. j # k
          BY <2>2, <3>1, <5>1, <5>2
        <5>4. QED BY <2>3, <5>1, <5>3
      <4>4. QED BY <3>2, <3>4, <4>2, <4>3
    <3>8. TrailPlaced(n)'
      <4>1. flat'[n].id # 0 => Placed(n, flat[n])'
        <5>1. Placed(n, history[n][L])
          BY <2>1, <3>2 DEF NameInv, TrailPlaced, L
        <5>2. QED BY <2>5, <3>2, <5>1 DEF Placed, SymbolId, Binds
      <4>2. ASSUME NEW q \in 1..Len(history'[n])
            PROVE  Placed(n, history[n][q])'
        <5>1. q \in 1..L /\ history'[n][q] = history[n][q]
          BY <3>2, <3>4
        <5>2. Placed(n, history[n][q])
          BY <2>1, <5>1 DEF NameInv, TrailPlaced, L
        <5>3. QED BY <2>5, <5>1, <5>2 DEF Placed, SymbolId, Binds
      <4>3. QED BY <4>1, <4>2 DEF TrailPlaced
    <3>9. DepthGrows(n)'
      BY <2>1, <2>3 DEF NameInv, DepthGrows, SymbolId
    <3>10. QED BY <3>5, <3>6, <3>7, <3>8, <3>9 DEF NameInv
  <2>7. CASE ~Restores(n)
    <3>1. flat'[n] = flat[n] /\ history'[n] = history[n]
      BY <2>4, <2>7
    \* Either the closed scope did not declare n, or no open scope does now.
    <3>2. k \notin Declaring(n) \/ Declaring(n)' = {}
      <4>1. SUFFICES ASSUME k \in Declaring(n) PROVE Declaring(n)' = {}
        OBVIOUS
      <4>2. flat[n].id = SymbolId(k, n)
        <5>1. \A j \in Declaring(n) : j <= k
          BY <1>4, <2>3
        <5>2. QED BY <4>1, <5>1, InnermostIsFlat
      <4>3. Kept(Top, n) \/ history[n] = <<>>
        BY <2>7, <4>1, <4>2 DEF Restores, Declaring, Top, SymbolId
      <4>4. CASE Kept(Top, n)
        <5>1. scopes[stack[k].id] = "GLOBAL"
          BY <4>4 DEF Kept, Top
        <5>2. k = 1
          BY <1>1, <1>4, <5>1 DEF ScopesNested
        <5>3. Declaring(n) \subseteq {1}
          BY <2>3, <5>2
        <5>4. QED BY <2>3, <5>2, <5>3
      <4>5. CASE history[n] = <<>>
        <5>1. SUFFICES ASSUME NEW i \in Declaring(n)' PROVE FALSE
          OBVIOUS
        <5>2. i \in Declaring(n) /\ i < k
          BY <2>3
        <5>3. SymbolId(i, n) < SymbolId(k, n)
          BY <2>1, <4>1, <5>2 DEF NameInv, DepthGrows
        <5>4. Len(history[n]) = 0
          BY <4>5
        <5>5. flat[n].id = SymbolId(i, n)
          BY <2>1, <5>2, <5>4 DEF NameInv, Recorded
        <5>6. QED BY <2>2, <4>2, <5>3, <5>5
      <4>6. QED BY <4>3, <4>4, <4>5
    <3>3. TrailGrows(n)'
      BY <1>6, <2>1, <3>1 DEF NameInv, TrailGrows
    <3>4. DepthGrows(n)'
      BY <2>1, <2>3 DEF NameInv, DepthGrows, SymbolId
    <3>5. Recorded(n)'
      BY <2>1, <2>3, <3>1 DEF NameInv, Recorded, SymbolId
    <3>6. Covered(n)'
      <4>1. CASE Declaring(n)' = {}
        BY <4>1 DEF Covered
      <4>2. CASE k \notin Declaring(n)
        <5>1. Declaring(n)' = Declaring(n)
          BY <2>3, <4>2
        <5>2. \A i \in Declaring(n) : stack'[i].symbols[n] = SymbolId(i, n)
          BY <2>3, <5>1
        <5>3. QED BY <2>1, <3>1, <5>1, <5>2 DEF NameInv, Covered, SymbolId
      <4>3. QED BY <3>2, <4>1, <4>2
    <3>7. TrailPlaced(n)'
      <4>1. flat[n].id # 0 => Placed(n, flat[n])'
        <5>1. flat[n].id # 0 => Placed(n, flat[n])
          BY <2>1 DEF NameInv, TrailPlaced
        <5>2. QED BY <2>5, <3>1, <5>1 DEF Placed, SymbolId, Binds
      <4>2. ASSUME NEW q \in 1..Len(history[n])
            PROVE  Placed(n, history[n][q])'
        <5>1. Placed(n, history[n][q])
          BY <2>1 DEF NameInv, TrailPlaced
        <5>2. QED BY <2>5, <3>1, <5>1 DEF Placed, SymbolId, Binds
      <4>3. QED BY <3>1, <4>1, <4>2 DEF TrailPlaced
    <3>8. QED BY <3>3, <3>4, <3>5, <3>6, <3>7 DEF NameInv
  <2>8. QED BY <2>6, <2>7
<1>9. QED BY <1>2, <1>7, <1>8 DEF IInv

\* Every step keeps the inductive invariant.
LEMMA NextIInv == IInv /\ [Next]_scopeVars => IInv'
<1> SUFFICES ASSUME IInv, [Next]_scopeVars PROVE IInv'
  OBVIOUS
<1>1. CASE Declare
  BY <1>1, DeclareIInv
<1>2. CASE Open
  BY <1>2, OpenIInv
<1>3. CASE PopScope
  BY <1>3, PopIInv
<1>4. CASE UNCHANGED scopeVars
  <2>1. /\ scopes' = scopes /\ stack' = stack /\ flat' = flat
        /\ history' = history /\ nextId' = nextId
    BY <1>4 DEF scopeVars
  <2>2. TypeOK' /\ ScopesNested'
    BY <1>4, <2>1, NextTypeOK DEF IInv, ScopesNested
  <2>3. ASSUME NEW n \in Names PROVE NameInv(n)'
    <3>1. NameInv(n)
      BY DEF IInv
    <3>2. Declaring(n)' = Declaring(n)
      BY <2>1 DEF Declaring, Binds
    <3>3. TrailGrows(n)' /\ DepthGrows(n)'
      BY <2>1, <3>1, <3>2 DEF NameInv, TrailGrows, DepthGrows, SymbolId
    <3>4. Recorded(n)'
      BY <2>1, <3>1, <3>2 DEF NameInv, Recorded, SymbolId
    <3>5. Covered(n)'
      BY <2>1, <3>1, <3>2 DEF NameInv, Covered, SymbolId
    <3>6. TrailPlaced(n)'
      BY <2>1, <3>1, <3>2 DEF NameInv, TrailPlaced, Placed, SymbolId, Binds
    <3>7. QED BY <3>3, <3>4, <3>5, <3>6 DEF NameInv
  <2>4. QED BY <2>2, <2>3 DEF IInv
<1>5. QED BY <1>1, <1>2, <1>3, <1>4 DEF Next

LEMMA InvariantHolds == Spec => []IInv
<1>1. Init => IInv
  BY InitIInv
<1>2. IInv /\ [Next]_scopeVars => IInv'
  BY NextIInv
<1>3. QED BY <1>1, <1>2, PTL DEF Spec

-----------------------------------------------------------------------------
(* What follows. *)

\* An identifier that open scopes declare resolves, at every moment of every
\* behaviour, to the symbol of the innermost of them: what _define and
\* _pop_scope keep in the flat dictionary is block structure.
THEOREM ResolvesInnermost == Spec => []ResolvesToInnermost
<1>1. IInv => ResolvesToInnermost
  <2> SUFFICES ASSUME IInv, NEW n \in Names, NEW i \in 1..Len(stack),
                      Innermost(n, i)
               PROVE  Resolve(n).id = stack[i].symbols[n]
    BY DEF ResolvesToInnermost
  <2>1. i \in Declaring(n) /\ \A j \in Declaring(n) : j <= i
    BY DEF Innermost
  <2>2. flat[n].id = stack[i].symbols[n]
    BY <2>1, InnermostIsFlat DEF SymbolId
  <2>3. stack[i].symbols[n] # 0 /\ Binds(stack[i], n)
    BY <2>1 DEF Declaring, Binds
  <2>4. Live(n)
    BY <2>2, <2>3 DEF Live
  <2>5. QED BY <2>2, <2>3, <2>4 DEF Resolve
<1>2. QED BY <1>1, InvariantHolds, PTL

\* A variable whose scope has closed is out of reach of _resolve, although
\* _pop_scope leaves it in the dictionary when it displaced nothing.
THEOREM ClosedVariablesUnresolved == Spec => []DeadVariablesUnresolved
<1>1. IInv => DeadVariablesUnresolved
  <2> SUFFICES ASSUME IInv, stack # <<>>, NEW n \in Names,
                      Declaring(n) = {}, Resolve(n).kind = "VARIABLE"
               PROVE  FALSE
    BY DEF DeadVariablesUnresolved
  <2>1. flat[n].id # 0 /\ Resolve(n) = flat[n]
    BY DEF Resolve, NoSymbol
  <2>2. flat[n].kind = "VARIABLE"
    BY <2>1
  <2>3. ~Live(n)
    BY DEF Live, Declaring
  <2>4. scopes[flat[n].scope] \in {"GLOBAL", "TYPE_DECL"}
    BY <2>1, <2>2, <2>3 DEF Resolve, NoSymbol, AlwaysVisibleScopes,
      AlwaysVisibleKinds
  <2>5. Placed(n, flat[n])
    BY <2>1 DEF IInv, NameInv, TrailPlaced
  <2>6. Binds(stack[1], n)
    BY <2>2, <2>4, <2>5 DEF Placed
  <2>7. 1 \in 1..Len(stack)
    BY Parts, LastOfSeq DEF IInv
  <2>8. QED BY <2>6, <2>7 DEF Declaring
<1>2. QED BY <1>1, InvariantHolds, PTL

-----------------------------------------------------------------------------
(* The scope manager implements LexicalScopes. *)

\* The refinement mapping of ScopeManager!Lexical.
Env == [i \in 1..Len(stack) |-> [n \in Names |-> stack[i].symbols[n]]]

Meanings == [n \in Names |-> IF Declaring(n) # {} THEN Resolve(n).id ELSE 0]

Binding == [Names -> Nat]

\* The scopes as LexicalScopes sees them.
EnvFits ==
  /\ Env \in Seq(Binding)
  /\ Len(stack) \in Nat /\ Len(Env) = Len(stack)
  /\ \A i \in 1..Len(stack) : \A n \in Names : Env[i][n] = stack[i].symbols[n]

LEMMA EnvOfStack == TypeOK => EnvFits
<1> SUFFICES ASSUME TypeOK
             PROVE  EnvFits
  OBVIOUS
<1>1. Len(stack) \in Nat
  BY Parts
<1>2. \A i \in 1..Len(stack) : \A n \in Names : stack[i].symbols[n] \in Nat
  BY Parts DEF SymbolId, AllNames
<1>3. Env \in [1..Len(stack) -> Binding]
  BY <1>2 DEF Env, Binding
<1>4. Env \in Seq(Binding) /\ Len(Env) = Len(stack)
  <2> HIDE DEF Env, Binding
  <2> QED
    BY <1>1, <1>3
<1>5. \A i \in 1..Len(stack) : \A n \in Names : Env[i][n] = stack[i].symbols[n]
  BY DEF Env
<1> QED
  BY <1>1, <1>4, <1>5 DEF EnvFits

\* The symbol in the dictionary is that of the innermost declaring scope.
LEMMA FlatHasAScope ==
  ASSUME IInv, NEW n \in Names, Declaring(n) # {}
  PROVE  \E k \in Declaring(n) :
           /\ SymbolId(k, n) = flat[n].id
           /\ \A j \in Declaring(n) : j <= k
<1> n \in AllNames
  BY DEF AllNames
<1>1. NameInv(n) /\ TypeOK
  BY DEF IInv
<1>2. /\ Declaring(n) \subseteq 1..Len(stack) /\ Len(stack) \in Nat
      /\ \A i \in 1..Len(stack) : SymbolId(i, n) \in Nat
      /\ flat[n].id \in Nat
      /\ \A q \in 1..Len(history[n]) : history[n][q].id \in Nat
  BY <1>1, Parts DEF Declaring
<1>3. \A i \in Declaring(n) : SymbolId(i, n) <= flat[n].id
  <2> SUFFICES ASSUME NEW i \in Declaring(n)
               PROVE  SymbolId(i, n) <= flat[n].id
    OBVIOUS
  <2>1. \/ flat[n].id = SymbolId(i, n)
        \/ \E q \in 1..Len(history[n]) : history[n][q].id = SymbolId(i, n)
    BY <1>1 DEF NameInv, Recorded
  <2>2. \A q \in 1..Len(history[n]) : history[n][q].id < flat[n].id
    BY <1>1 DEF NameInv, TrailGrows
  <2> QED
    BY <1>2, <2>1, <2>2
<1>4. PICK i \in Declaring(n) : TRUE
  OBVIOUS
<1>5. PICK k \in Declaring(n) : SymbolId(k, n) = flat[n].id
  <2>1. CASE SymbolId(i, n) = flat[n].id
    BY <2>1
  <2>2. CASE flat[n].id > SymbolId(i, n)
    BY <1>1, <2>2 DEF NameInv, Covered
  <2> QED
    BY <1>2, <1>3, <1>4, <2>1, <2>2
<1>6. ASSUME NEW j \in Declaring(n)
      PROVE  j <= k
  <2>1. k < j => SymbolId(k, n) < SymbolId(j, n)
    BY <1>1 DEF NameInv, DepthGrows
  <2>2. SymbolId(j, n) <= SymbolId(k, n)
    BY <1>3, <1>5
  <2>3. j \in Nat /\ k \in Nat /\ SymbolId(j, n) \in Nat /\ SymbolId(k, n) \in Nat
    BY <1>2
  <2> QED
    BY <2>1, <2>2, <2>3
<1> QED
  BY <1>5, <1>6

LEMMA DeclaredMeans ==
  ASSUME NEW n \in Names, NEW k \in Declaring(n), SymbolId(k, n) = flat[n].id
  PROVE  Resolve(n).id = flat[n].id
<1>1. flat[n].id # 0 /\ Live(n)
  BY DEF Declaring, Binds, SymbolId, Live
<1> QED
  BY <1>1 DEF Resolve

\* What _resolve answers is what block structure says.
LEMMA MeantIsLexical == IInv => Meanings = Lexical!Meaning(Env)
<1> SUFFICES ASSUME IInv, NEW n \in Names
             PROVE  Meanings[n] = Lexical!Innermost(Env, n)
  BY DEF Meanings, Lexical!Meaning
<1>1. TypeOK
  BY DEF IInv
<1>2. /\ Len(Env) = Len(stack)
      /\ \A i \in 1..Len(stack) : Env[i][n] = stack[i].symbols[n]
  BY <1>1, EnvOfStack DEF EnvFits
<1> DEFINE binders == {i \in 1..Len(Env) : Env[i][n] # 0}
<1>3. binders = Declaring(n)
  BY <1>2 DEF Declaring, Binds
<1>4. CASE Declaring(n) = {}
  BY <1>3, <1>4 DEF Meanings, Lexical!Innermost
<1>5. CASE Declaring(n) # {}
  <2>1. PICK k \in Declaring(n) :
          /\ SymbolId(k, n) = flat[n].id
          /\ \A j \in Declaring(n) : j <= k
    BY <1>5, FlatHasAScope
  <2>2. Declaring(n) \subseteq Nat
    BY <1>1, Parts DEF Declaring
  <2>3. \A i \in Declaring(n) : (\A j \in Declaring(n) : j <= i) => i = k
    BY <2>1, <2>2
  <2>4. (CHOOSE i \in Declaring(n) : \A j \in Declaring(n) : j <= i) = k
    BY <2>1, <2>3
  <2>5. Lexical!Innermost(Env, n) = Env[k][n]
    BY <1>3, <1>5, <2>4 DEF Lexical!Innermost
  <2>6. Env[k][n] = SymbolId(k, n)
    BY <1>2, <2>1 DEF Declaring, SymbolId
  <2> QED
    BY <1>5, <2>1, <2>5, <2>6, DeclaredMeans DEF Meanings
<1> QED
  BY <1>4, <1>5

-----------------------------------------------------------------------------
(***************************************************************************)
(* Steps.                                                                  *)
(***************************************************************************)
\* The abstract actions in terms of the refinement mapping.
LEMMA MappedActions ==
  /\ Lexical!Init <=> Env = <<>> /\ nextId - 1 = 0 /\ Meanings = Lexical!Unbound
  /\ Lexical!Open <=> /\ Env' = Append(Env, Lexical!Unbound)
                      /\ Meanings' = Meanings /\ nextId' - 1 = nextId - 1
  /\ \A n : Lexical!Declare(n) <=>
       /\ Env # <<>> /\ nextId' - 1 > nextId - 1
       /\ Env' = [Env EXCEPT ![Len(Env)][n] = nextId' - 1]
       /\ Meanings' = [Meanings EXCEPT ![n] = nextId' - 1]
  /\ Lexical!Skip <=> /\ nextId' - 1 > nextId - 1
                      /\ Env' = Env /\ Meanings' = Meanings
  /\ Lexical!Close <=> /\ Env # <<>>
                       /\ Env' = SubSeq(Env, 1, Len(Env) - 1)
                       /\ Meanings' = Lexical!Meaning(Env') /\ nextId' - 1 = nextId - 1
BY DEF Lexical!Init, Lexical!Open, Lexical!Declare, Lexical!Skip, Lexical!Close,
       Env, Meanings

LEMMA EnvAfter ==
  ASSUME TypeOK'
  PROVE  /\ Env' \in Seq(Binding)
         /\ Len(stack') \in Nat /\ Len(Env') = Len(stack')
         /\ \A i \in 1..Len(stack') : \A n \in Names :
              Env'[i][n] = stack'[i].symbols[n]
<1>1. TypeOK' => EnvFits'
  BY EnvOfStack, PTL
<1> QED
  BY <1>1 DEF EnvFits

\* Two lists of bindings that agree on all names are the same list.
LEMMA SameBindings ==
  ASSUME NEW e \in Seq(Binding), NEW f \in Seq(Binding), Len(e) = Len(f),
         \A i \in 1..Len(e) : \A n \in Names : e[i][n] = f[i][n]
  PROVE  e = f
<1>1. \A i \in 1..Len(e) : e[i] \in Binding /\ f[i] \in Binding
  BY ElementOfSeq
<1>2. ASSUME NEW i \in 1..Len(e)
      PROVE  e[i] = f[i]
  <2>1. \A n \in Names : e[i][n] = f[i][n]
    OBVIOUS
  <2>2. f[i] \in [Names -> Nat]
    BY <1>1, Zenon DEF Binding
  <2>3. e[i] \in [Names -> Nat]
    BY <1>1, Zenon DEF Binding
  <2>4. e[i] = [n \in Names |-> e[i][n]]
    BY <2>3
  <2>5. f[i] = [n \in Names |-> f[i][n]]
    BY <2>2
  <2> QED
    BY <2>1, <2>4, <2>5, Zenon
<1> QED
  BY <1>2, SeqEqual

LEMMA InitRefines == Init => Lexical!Init
<1> SUFFICES ASSUME Init
             PROVE  Env = <<>> /\ nextId - 1 = 0 /\ Meanings = Lexical!Unbound
  BY MappedActions
<1>1. Env \in Seq(Binding) /\ Len(Env) = 0
  BY InitTypeOK, EnvOfStack DEF EnvFits, Init
<1>2. \A n \in Names : Declaring(n) = {}
  BY DEF Init, Declaring
<1>3. Meanings = Lexical!Unbound
  BY <1>2 DEF Meanings, Lexical!Unbound
<1> QED
  BY <1>1, <1>3, EmptySeq DEF Init

\* A name that a step on the dictionary leaves alone keeps its meaning.
LEMMA OtherNamesKeepTheirMeaning ==
  ASSUME NEW n \in Names, scopes' = scopes,
         flat[n].id # 0 => flat[n].scope \in 1..Len(scopes),
         flat'[n] = flat[n], Len(stack') = Len(stack),
         \A i \in 1..Len(stack) : stack'[i].symbols[n] = stack[i].symbols[n]
  PROVE  Meanings'[n] = Meanings[n]
<1>1. Declaring(n)' = Declaring(n) /\ (Live(n)' <=> Live(n))
  BY DEF Declaring, Binds, Live
<1>2. Resolve(n)' = Resolve(n)
  BY <1>1 DEF Resolve
<1> QED
  BY <1>1, <1>2 DEF Meanings

LEMMA DefineRefines ==
  ASSUME IInv, IInv', stack # <<>>, NEW n \in AllNames, NEW kind \in SymbolKinds,
         NEW allowExisting, DefineAccepted(n, kind, allowExisting)
  PROVE  IF n \in Names THEN Lexical!Declare(n) ELSE Lexical!Skip
<1>1. TypeOK /\ TypeOK'
  BY DEF IInv
<1>2. /\ Len(stack) \in 1..Len(stack) /\ Len(stack') = Len(stack)
      /\ \A i \in 1..Len(stack) : \A m \in AllNames :
           stack'[i].symbols[m] =
             IF i = Len(stack) /\ m = n THEN nextId ELSE stack[i].symbols[m]
  BY <1>1, DefineEffect
<1>3. /\ Env \in Seq(Binding) /\ Len(Env) = Len(stack)
      /\ \A i \in 1..Len(stack) : \A m \in Names : Env[i][m] = stack[i].symbols[m]
  BY <1>1, EnvOfStack DEF EnvFits
<1>4. /\ Env' \in Seq(Binding) /\ Len(Env') = Len(stack)
      /\ \A i \in 1..Len(stack) : \A m \in Names : Env'[i][m] = stack'[i].symbols[m]
  BY <1>1, <1>2, EnvAfter
<1>5. nextId \in Nat \ {0} /\ nextId' = nextId + 1
  BY <1>1, Parts DEF DefineAccepted
<1>6. ASSUME NEW m \in Names, m # n
      PROVE  Meanings'[m] = Meanings[m]
  <2>1. m \in AllNames /\ flat'[m] = flat[m] /\ scopes' = scopes
    BY <1>1, <1>6 DEF AllNames, DefineAccepted, TypeOK
  <2>2. \A i \in 1..Len(stack) : stack'[i].symbols[m] = stack[i].symbols[m]
    BY <1>2, <1>6, <2>1
  <2>3. flat[m].id # 0 => flat[m].scope \in 1..Len(scopes)
    BY DEF IInv, NameInv, TrailPlaced, Placed
  <2> QED
    BY <1>2, <2>1, <2>2, <2>3, OtherNamesKeepTheirMeaning
<1>7. CASE n \in Names
  <2> DEFINE k == Len(Env)
             inner == [Env[k] EXCEPT ![n] = nextId]
             env == [Env EXCEPT ![k] = inner]
  <2>1. k \in 1..Len(Env) /\ Env[k] \in Binding
    BY <1>2, <1>3, ElementOfSeq
  <2>2. inner \in Binding /\ \A m \in Names :
          inner[m] = IF m = n THEN nextId ELSE Env[k][m]
    BY <1>5, <2>1 DEF Binding
  <2> HIDE DEF inner
  <2>3. /\ env \in Seq(Binding) /\ Len(env) = Len(Env)
        /\ \A i \in 1..Len(Env) : env[i] = IF i = k THEN inner ELSE Env[i]
    BY <1>3, <2>1, <2>2, ExceptSeq
  <2> HIDE DEF env
  <2>4. ASSUME NEW i \in 1..Len(Env'), NEW m \in Names
        PROVE  Env'[i][m] = env[i][m]
    <3>1. i \in 1..Len(stack) /\ i \in 1..Len(Env) /\ m \in AllNames
      BY <1>3, <1>4 DEF AllNames
    <3>2. Env'[i][m] = IF i = Len(stack) /\ m = n THEN nextId
                       ELSE stack[i].symbols[m]
      BY <1>2, <1>4, <3>1
    <3>3. env[i][m] = IF i = k /\ m = n THEN nextId ELSE Env[i][m]
      BY <2>2, <2>3, <3>1
    <3> QED
      BY <1>3, <3>1, <3>2, <3>3
  <2>5. Env' = env
    BY <1>3, <1>4, <2>3, <2>4, SameBindings
  <2>6. Env' = [Env EXCEPT ![Len(Env)][n] = nextId]
    BY <2>5 DEF env, inner
  <2>7. Env # <<>>
    BY <2>1
  <2>8. Meanings'[n] = nextId
    <3>1. stack'[Len(stack)].symbols[n] = nextId
      BY <1>2
    <3>2. Len(stack) \in Declaring(n)'
      BY <1>2, <1>5, <3>1 DEF Declaring, Binds
    <3>3. flat'[n].id = nextId /\ flat'[n] # NoSymbol
      BY <1>1, <1>5 DEF DefineAccepted, TypeOK, NoSymbol
    <3>4. Live(n)'
      BY <1>2, <1>5, <3>1, <3>3 DEF Live, Binds
    <3>5. Resolve(n)' = flat'[n]
      BY <1>5, <3>3, <3>4 DEF Resolve
    <3> QED
      BY <1>7, <3>2, <3>3, <3>5 DEF Meanings
  <2>9. Meanings' = [Meanings EXCEPT ![n] = nextId]
    <3>1. /\ Meanings' = [m \in Names |-> Meanings'[m]]
          /\ Meanings = [m \in Names |-> Meanings[m]]
      BY DEF Meanings
    <3> HIDE DEF Meanings
    <3> QED
      BY <1>6, <1>7, <2>8, <3>1
  <2>10. nextId' - 1 = nextId /\ nextId' - 1 > nextId - 1
    BY <1>5
  <2> QED
    BY <1>7, <2>6, <2>7, <2>9, <2>10, MappedActions
<1>8. CASE n \notin Names
  <2>1. ASSUME NEW i \in 1..Len(Env'), NEW m \in Names
        PROVE  Env'[i][m] = Env[i][m]
    <3>1. i \in 1..Len(stack) /\ m \in AllNames /\ m # n
      BY <1>4, <1>8 DEF AllNames
    <3> QED
      BY <1>2, <1>3, <1>4, <3>1
  <2>2. Env' = Env
    BY <1>3, <1>4, <2>1, SameBindings
  <2>3. Meanings' = Meanings
    <3>1. /\ Meanings' = [m \in Names |-> Meanings'[m]]
          /\ Meanings = [m \in Names |-> Meanings[m]]
      BY DEF Meanings
    <3> HIDE DEF Meanings
    <3> QED
      BY <1>6, <1>8, <3>1
  <2>4. nextId' - 1 > nextId - 1
    BY <1>5
  <2> QED
    BY <1>8, <2>2, <2>3, <2>4, MappedActions
<1> QED
  BY <1>7, <1>8

LEMMA OpenRefines ==
  ASSUME IInv, IInv', NEW kind, PushScope(kind)
  PROVE  Lexical!Open
<1>1. TypeOK /\ TypeOK'
  BY DEF IInv
<1> DEFINE k == Len(stack)
           new == [id |-> Len(scopes) + 1, symbols |-> [n \in AllNames |-> 0]]
<1>2. stack \in Seq(ScopeRecord \cup {new}) /\ k \in Nat
  <2>1. stack \in Seq(ScopeRecord)
    BY <1>1 DEF TypeOK, ScopeRecord
  <2> HIDE DEF new
  <2> QED
    BY <2>1
<1>3. /\ Len(stack') = k + 1
      /\ \A i \in 1..k : stack'[i] = stack[i]
      /\ stack'[k + 1] = new
  <2>1. stack' = Append(stack, new)
    BY DEF PushScope
  <2> HIDE DEF new
  <2> QED
    BY <1>2, <2>1, AppendProperties
<1>4. \A n \in Names : new.symbols[n] = 0
  BY DEF AllNames
<1> HIDE DEF new
<1>5. /\ Env \in Seq(Binding) /\ Len(Env) = k
      /\ \A i \in 1..k : \A n \in Names : Env[i][n] = stack[i].symbols[n]
  BY <1>1, EnvOfStack DEF EnvFits
<1>6. /\ Env' \in Seq(Binding) /\ Len(Env') = k + 1
      /\ \A i \in 1..(k + 1) : \A n \in Names : Env'[i][n] = stack'[i].symbols[n]
  BY <1>1, <1>3, EnvAfter
<1> DEFINE zero == Lexical!Unbound
           env == Append(Env, zero)
<1>7. zero \in Binding /\ \A n \in Names : zero[n] = 0
  BY DEF Lexical!Unbound, Binding
<1> HIDE DEF zero
<1>8. /\ env \in Seq(Binding) /\ Len(env) = k + 1
      /\ \A i \in 1..k : env[i] = Env[i]
      /\ env[k + 1] = zero
  BY <1>5, <1>7, AppendProperties
<1> HIDE DEF env
<1>9. ASSUME NEW i \in 1..Len(Env'), NEW n \in Names
      PROVE  Env'[i][n] = env[i][n]
  <2>1. i \in 1..(k + 1) /\ (i \in 1..k \/ i = k + 1)
    BY <1>2, <1>6
  <2> QED
    BY <1>3, <1>4, <1>5, <1>6, <1>7, <1>8, <2>1
<1>10. Env' = env
  BY <1>6, <1>8, <1>9, SameBindings
<1>11. ASSUME NEW n \in Names
       PROVE  Meanings'[n] = Meanings[n]
  <2>1. n \in AllNames /\ flat'[n] = flat[n]
    BY DEF AllNames, PushScope
  <2>2. \A i : i \in 1..(k + 1) <=> i \in 1..k \/ i = k + 1
    BY <1>2
  <2>3. /\ \A i \in 1..k : Binds(stack'[i], n) <=> Binds(stack[i], n)
        /\ ~Binds(stack'[k + 1], n)
    BY <1>3, <1>4 DEF Binds
  <2>4. Declaring(n)' = Declaring(n)
    BY <1>3, <2>2, <2>3 DEF Declaring, Binds
  <2>5. Live(n)' <=> Live(n)
    BY <1>3, <2>1, <2>2, <2>3 DEF Live, Binds
  <2>6. Declaring(n) # {} => Live(n) /\ flat[n].id # 0
    BY FlatHasAScope DEF Live, Declaring, SymbolId, Binds
  <2>7. Declaring(n) # {} => Resolve(n)' = flat[n] /\ Resolve(n) = flat[n]
    BY <2>1, <2>5, <2>6 DEF Resolve
  <2> QED
    BY <2>4, <2>7 DEF Meanings
<1>12. Meanings' = Meanings
  <2>1. /\ Meanings' = [n \in Names |-> Meanings'[n]]
        /\ Meanings = [n \in Names |-> Meanings[n]]
    BY DEF Meanings
  <2> HIDE DEF Meanings
  <2> QED
    BY <1>11, <2>1
<1> QED
  BY <1>10, <1>12, MappedActions DEF PushScope, env, zero

LEMMA CloseRefines ==
  ASSUME IInv, IInv', PopScope
  PROVE  Lexical!Close
<1>1. TypeOK /\ TypeOK'
  BY DEF IInv
<1> DEFINE k == Len(stack)
           env == SubSeq(Env, 1, Len(Env) - 1)
<1>2. stack \in Seq(ScopeRecord) /\ stack # <<>>
  BY <1>1 DEF TypeOK, ScopeRecord, PopScope
<1>3. /\ k \in Nat \ {0} /\ Len(stack') = k - 1
      /\ \A i \in 1..(k - 1) : stack'[i] = stack[i]
  BY <1>2, LastOfSeq DEF PopScope
<1>4. /\ Env \in Seq(Binding) /\ Len(Env) = k
      /\ \A i \in 1..k : \A n \in Names : Env[i][n] = stack[i].symbols[n]
  BY <1>1, EnvOfStack DEF EnvFits
<1>5. /\ Env' \in Seq(Binding) /\ Len(Env') = k - 1
      /\ \A i \in 1..(k - 1) : \A n \in Names : Env'[i][n] = stack'[i].symbols[n]
  BY <1>1, <1>3, EnvAfter
<1>6. Env # <<>>
  BY <1>3, <1>4
<1>7. /\ env \in Seq(Binding) /\ Len(env) = k - 1
      /\ \A i \in 1..(k - 1) : env[i] = Env[i]
  BY <1>4, <1>6, LastOfSeq
<1> HIDE DEF env
<1>8. ASSUME NEW i \in 1..Len(Env'), NEW n \in Names
      PROVE  Env'[i][n] = env[i][n]
  <2>1. i \in 1..(k - 1) /\ i \in 1..k
    BY <1>3, <1>5
  <2> QED
    BY <1>3, <1>4, <1>5, <1>7, <2>1, SMTT(30)
<1>9. Env' = env
  BY <1>5, <1>7, <1>8, SameBindings
<1>10. Meanings' = Lexical!Meaning(Env')
  <2>1. IInv' => (Meanings = Lexical!Meaning(Env))'
    BY MeantIsLexical, PTL
  <2> QED
    BY <2>1
<1> QED
  BY <1>6, <1>9, <1>10, MappedActions DEF PopScope, env

\* Every step is one of LexicalScopes, or changes nothing that it speaks of.
LEMMA NextRefines ==
  IInv /\ IInv' /\ [Next]_scopeVars => [Lexical!Next]_(Lexical!lexicalVars)
<1> SUFFICES ASSUME IInv, IInv', [Next]_scopeVars
             PROVE  \/ Lexical!Next
                    \/ Env' = Env /\ nextId' = nextId /\ Meanings' = Meanings
  BY DEF Lexical!lexicalVars, Env, Meanings
<1>1. CASE Declare
  <2>1. PICK n \in AllNames, kind \in UsedKinds, allowExisting \in BOOLEAN :
          Define(n, kind, allowExisting)
    BY <1>1 DEF Declare
  <2>2. stack # <<>> /\ kind \in SymbolKinds
    BY <1>1, ScopeAssumption DEF Declare
  <2>3. CASE DefineAccepted(n, kind, allowExisting)
    BY <2>2, <2>3, DefineRefines DEF Lexical!Next
  <2>4. CASE DefineRejected(n, kind, allowExisting)
    BY <2>4 DEF DefineRejected, Env, Meanings, Declaring, Resolve, Live
  <2> QED
    BY <2>1, <2>3, <2>4 DEF Define
<1>2. CASE Open
  BY <1>2, OpenRefines DEF Open, Lexical!Next
<1>3. CASE PopScope
  BY <1>3, CloseRefines DEF Lexical!Next
<1>4. CASE UNCHANGED scopeVars
  BY <1>4 DEF scopeVars, Env, Meanings, Declaring, Resolve, Live
<1> QED
  BY <1>1, <1>2, <1>3, <1>4 DEF Next

\* The dictionary, the history and the scopes that _define, _push_scope and
\* _pop_scope keep implement block structure: for any names, kinds and bounds,
\* every behavior of the scope manager, seen through what _resolve answers for
\* declared identifiers, is one of LexicalScopes.
THEOREM ScopesAreLexical == Spec => ImplementsLexicalScopes
<1>1. Init => Lexical!Init
  BY InitRefines
<1>2. IInv /\ IInv' /\ [Next]_scopeVars => [Lexical!Next]_(Lexical!lexicalVars)
  BY NextRefines
<1> QED
  BY <1>1, <1>2, InvariantHolds, PTL
     DEF Spec, ImplementsLexicalScopes, Lexical!Spec

-----------------------------------------------------------------------------
(***************************************************************************)
(* The walk over the program.                                              *)
(***************************************************************************)
(* What the variables hold. *)

DefineOp ==
  [op : {"DEFINE"}, name : AllNames, kind : SymbolKinds, existing : BOOLEAN,
   type : Types, qualifier : Qualifiers \cup {Unstated}]

PushOp == [op : {"PUSH"}, kind : ScopeKinds]

PopOp == [op : {"POP"}]

Op == DefineOp \cup PushOp \cup PopOp

-----------------------------------------------------------------------------
(* The operations that a handler leaves behind. *)

Pushing(ops) == \E j \in 1..Len(ops) : ops[j].op = "PUSH"

Popping(ops) == \E j \in 1..Len(ops) : ops[j].op = "POP"

Opened(ops, j) == \E i \in 1..(j - 1) : ops[i].op = "PUSH"

\* Operations that define symbols of outer, open at most one scope, of this
\* kind, define symbols of inner in it, and close it, or another, last.
Plan(ops, outer, kind, inner) ==
  /\ ops \in Seq(Op)
  /\ \A i, j \in 1..Len(ops) : ops[i].op = "PUSH" /\ ops[j].op = "PUSH" => i = j
  /\ \A j \in 1..Len(ops) : ops[j].op = "PUSH" => ops[j].kind = kind
  /\ \A j \in 1..Len(ops) : ops[j].op = "POP" => j = Len(ops)
  /\ \A j \in 1..Len(ops) :
       ops[j].op = "DEFINE" =>
         ops[j] \in (IF Opened(ops, j) THEN inner ELSE outer)

LEMMA OpKinds ==
  /\ \A d \in DefineOp : d.op = "DEFINE"
  /\ \A d \in PushOp : d.op = "PUSH" /\ d.kind \in ScopeKinds
  /\ \A d \in PopOp : d.op = "POP"
  /\ \A d \in Op :
       /\ d.op \in {"DEFINE", "PUSH", "POP"}
       /\ d.op = "DEFINE" => d \in DefineOp
       /\ d.op = "PUSH" => d \in PushOp
       /\ d.op = "POP" => d \in PopOp
BY DEF DefineOp, PushOp, PopOp, Op

LEMMA PushPop ==
  /\ \A kind \in ScopeKinds :
       Push(kind) \in PushOp /\ Push(kind).op = "PUSH" /\ Push(kind).kind = kind
  /\ Pop \in PopOp /\ Pop.op = "POP"
BY DEF Push, Pop, PushOp, PopOp

LEMMA PlainPlan ==
  ASSUME NEW outer \in SUBSET DefineOp, NEW ops \in Seq(outer),
         NEW kind, NEW inner
  PROVE  Plan(ops, outer, kind, inner) /\ ~Pushing(ops) /\ ~Popping(ops)
<1>1. \A j \in 1..Len(ops) : ops[j] \in outer /\ ops[j].op = "DEFINE"
  <2>1. \A j \in 1..Len(ops) : ops[j] \in outer
    BY ElementOfSeq
  <2>2. QED BY <2>1, OpKinds
<1>2. ops \in Seq(Op)
  BY DEF Op
<1>3. \A j \in 1..Len(ops) : ~Opened(ops, j)
  <2>1. SUFFICES ASSUME NEW j \in 1..Len(ops), NEW i \in 1..(j - 1)
                 PROVE  ops[i].op # "PUSH"
    BY DEF Opened
  <2>2. i \in 1..Len(ops)
    OBVIOUS
  <2>3. QED BY <2>2, <1>1
<1>4. QED
  BY <1>1, <1>2, <1>3 DEF Plan, Pushing, Popping

\* A scope is opened after the operations of before and takes those of after.
LEMMA OpeningPlan ==
  ASSUME NEW outer \in SUBSET DefineOp, NEW inner \in SUBSET DefineOp,
         NEW kind \in ScopeKinds,
         NEW before \in Seq(outer), NEW after \in Seq(inner),
         NEW ops, ops = before \o <<Push(kind)>> \o after
  PROVE  /\ Plan(ops, outer, kind, inner)
         /\ Pushing(ops) /\ ~Popping(ops) /\ ops # <<>>
<1> DEFINE n == Len(before)
<1>1. /\ \A j \in 1..n : before[j] \in outer /\ before[j].op = "DEFINE"
      /\ \A j \in 1..Len(after) : after[j] \in inner /\ after[j].op = "DEFINE"
  <2>1. /\ \A j \in 1..n : before[j] \in outer
        /\ \A j \in 1..Len(after) : after[j] \in inner
    BY ElementOfSeq
  <2>2. QED BY <2>1, OpKinds
<1>2. before \in Seq(Op) /\ after \in Seq(Op) /\ <<Push(kind)>> \in Seq(Op)
  BY PushPop DEF Op
<1>3. /\ Len(before) \in Nat /\ Len(after) \in Nat
      /\ Len(<<Push(kind)>>) = 1 /\ <<Push(kind)>>[1] = Push(kind)
  BY <1>2
<1>4. /\ before \o <<Push(kind)>> \in Seq(Op)
      /\ Len(before \o <<Push(kind)>>) = n + 1
      /\ \A j \in 1..(n + 1) :
           (before \o <<Push(kind)>>)[j] =
             IF j <= n THEN before[j] ELSE <<Push(kind)>>[j - n]
  BY <1>2, <1>3, ConcatProperties
<1>5. /\ ops \in Seq(Op)
      /\ Len(ops) = n + 1 + Len(after)
      /\ \A j \in 1..(n + 1 + Len(after)) :
           ops[j] = IF j <= n + 1 THEN (before \o <<Push(kind)>>)[j]
                    ELSE after[j - (n + 1)]
  BY <1>2, <1>4, ConcatProperties
<1>6. \A j \in 1..Len(ops) :
        /\ j <= n => ops[j] \in outer /\ ops[j].op = "DEFINE"
        /\ j = n + 1 => ops[j].op = "PUSH" /\ ops[j].kind = kind
        /\ j > n + 1 => ops[j] \in inner /\ ops[j].op = "DEFINE"
  <2>1. SUFFICES ASSUME NEW j \in 1..Len(ops)
                 PROVE  /\ j <= n => ops[j] \in outer /\ ops[j].op = "DEFINE"
                        /\ j = n + 1 => ops[j].op = "PUSH" /\ ops[j].kind = kind
                        /\ j > n + 1 => ops[j] \in inner /\ ops[j].op = "DEFINE"
    OBVIOUS
  <2>2. ASSUME j <= n PROVE ops[j] = before[j] /\ j \in 1..n
    BY <2>2, <1>3, <1>4, <1>5
  <2>3. ASSUME j = n + 1 PROVE ops[j] = Push(kind)
    BY <2>3, <1>3, <1>4, <1>5
  <2>4. ASSUME j > n + 1
        PROVE  ops[j] = after[j - (n + 1)] /\ j - (n + 1) \in 1..Len(after)
    BY <2>4, <1>3, <1>5
  <2>5. QED BY <2>2, <2>3, <2>4, <1>1, PushPop
<1> HIDE DEF n
<1>7. n + 1 \in 1..Len(ops) /\ n \in Nat /\ Len(ops) \in Nat
  BY <1>3, <1>5 DEF n
<1>8. \A j \in 1..Len(ops) : Opened(ops, j) <=> j > n + 1
  <2>1. SUFFICES ASSUME NEW j \in 1..Len(ops)
                 PROVE  Opened(ops, j) <=> j > n + 1
    OBVIOUS
  <2>2. ASSUME j > n + 1 PROVE Opened(ops, j)
    <3>1. n + 1 \in 1..(j - 1)
      BY <2>2, <1>7
    <3>2. QED BY <3>1, <1>6, <1>7 DEF Opened
  <2>3. ASSUME NEW i \in 1..(j - 1), ops[i].op = "PUSH" PROVE j > n + 1
    <3>1. i \in 1..Len(ops) /\ i < j
      BY <1>7
    <3>2. i = n + 1
      BY <3>1, <2>3, <1>6, <1>7
    <3>3. QED BY <3>1, <3>2, <1>7
  <2>4. QED BY <2>2, <2>3 DEF Opened
<1>9. /\ \A i, j \in 1..Len(ops) : ops[i].op = "PUSH" /\ ops[j].op = "PUSH" => i = j
      /\ \A j \in 1..Len(ops) : ops[j].op = "PUSH" => ops[j].kind = kind
      /\ \A j \in 1..Len(ops) : ops[j].op # "POP"
  <2>1. \A j \in 1..Len(ops) : j <= n \/ j = n + 1 \/ j > n + 1
    BY <1>7
  <2>2. \A j \in 1..Len(ops) : ops[j].op = "PUSH" => j = n + 1
    BY <2>1, <1>6
  <2>3. QED BY <2>1, <2>2, <1>6
<1>10. \A j \in 1..Len(ops) :
         ops[j].op = "DEFINE" =>
           ops[j] \in (IF Opened(ops, j) THEN inner ELSE outer)
  <2>1. \A j \in 1..Len(ops) : j <= n \/ j = n + 1 \/ j > n + 1
    BY <1>7
  <2>2. \A j \in 1..Len(ops) : j <= n => ~(j > n + 1)
    BY <1>7
  <2>3. QED BY <2>1, <2>2, <1>6, <1>8
<1>11. Plan(ops, outer, kind, inner)
  BY <1>5, <1>9, <1>10 DEF Plan
<1>12. Pushing(ops) /\ ~Popping(ops)
  BY <1>6, <1>7, <1>9 DEF Pushing, Popping
<1>13. ops # <<>>
  BY <1>7
<1>14. QED
  BY <1>11, <1>12, <1>13

\* The same, and the scope is closed again.
LEMMA BracketPlan ==
  ASSUME NEW outer \in SUBSET DefineOp, NEW inner \in SUBSET DefineOp,
         NEW kind \in ScopeKinds,
         NEW ops, Plan(ops, outer, kind, inner), ~Popping(ops), Pushing(ops)
  PROVE  /\ Plan(ops \o <<Pop>>, outer, kind, inner)
         /\ Pushing(ops \o <<Pop>>) /\ Popping(ops \o <<Pop>>)
<1> DEFINE all == ops \o <<Pop>>
<1>1. /\ ops \in Seq(Op) /\ <<Pop>> \in Seq(Op)
      /\ Len(ops) \in Nat /\ Len(<<Pop>>) = 1 /\ <<Pop>>[1] = Pop
  BY PushPop DEF Plan, Op
<1>2. /\ all \in Seq(Op) /\ Len(all) = Len(ops) + 1
      /\ \A j \in 1..(Len(ops) + 1) :
           all[j] = IF j <= Len(ops) THEN ops[j] ELSE <<Pop>>[j - Len(ops)]
  BY <1>1, ConcatProperties
<1>3. /\ \A j \in 1..Len(ops) : all[j] = ops[j]
      /\ all[Len(ops) + 1].op = "POP"
  BY <1>1, <1>2, PushPop
<1> HIDE DEF all
<1>4. \A j \in 1..Len(ops) : Opened(all, j) <=> Opened(ops, j)
  <2>1. \A j \in 1..Len(ops) : \A i \in 1..(j - 1) : all[i] = ops[i]
    BY <1>1, <1>3
  <2>2. QED BY <2>1 DEF Opened
<1>5. \A j \in 1..Len(all) : j \in 1..Len(ops) \/ j = Len(ops) + 1
  BY <1>1, <1>2
<1>6. \A j \in 1..Len(all) : all[j].op # "POP" => j \in 1..Len(ops)
  BY <1>3, <1>5
<1>7. \A j \in 1..Len(ops) : ops[j].op # "POP"
  BY DEF Popping
<1>8. /\ \A i, j \in 1..Len(all) : all[i].op = "PUSH" /\ all[j].op = "PUSH" => i = j
      /\ \A j \in 1..Len(all) : all[j].op = "PUSH" => all[j].kind = kind
  BY <1>3, <1>6 DEF Plan
<1>9. \A j \in 1..Len(all) : all[j].op = "POP" => j = Len(all)
  BY <1>2, <1>3, <1>5, <1>7
<1>10. \A j \in 1..Len(all) :
         all[j].op = "DEFINE" =>
           all[j] \in (IF Opened(all, j) THEN inner ELSE outer)
  BY <1>3, <1>4, <1>6 DEF Plan
<1>11. Pushing(all) /\ Popping(all)
  <2>1. PICK j \in 1..Len(ops) : ops[j].op = "PUSH"
    BY DEF Pushing
  <2>2. j \in 1..Len(all) /\ Len(ops) + 1 \in 1..Len(all)
    BY <1>1, <1>2
  <2>3. QED BY <2>1, <2>2, <1>3 DEF Pushing, Popping
<1>12. QED
  BY <1>2, <1>8, <1>9, <1>10, <1>11 DEF Plan, all

\* What may be defined may only grow.
LEMMA WiderPlan ==
  ASSUME NEW ops, NEW outer, NEW kind, NEW inner, NEW outer2, NEW inner2,
         Plan(ops, outer, kind, inner), outer \subseteq outer2, inner \subseteq inner2
  PROVE  Plan(ops, outer2, kind, inner2)
BY DEF Plan

\* An empty plan fits everywhere.
LEMMA EmptyPlan ==
  ASSUME NEW outer, NEW kind, NEW inner
  PROVE  Plan(<<>>, outer, kind, inner) /\ ~Pushing(<<>>) /\ ~Popping(<<>>)
BY DEF Plan, Pushing, Popping

LEMMA TailOfPlan ==
  ASSUME NEW ops \in Seq(Op), ops # <<>>
  PROVE  /\ Head(ops) = ops[1] /\ 1 \in 1..Len(ops)
         /\ Head(ops) \in Op
         /\ Tail(ops) \in Seq(Op) /\ Len(Tail(ops)) = Len(ops) - 1
         /\ Len(ops) \in Nat \ {0}
         /\ \A j \in 1..Len(Tail(ops)) :
              Tail(ops)[j] = ops[j + 1] /\ j + 1 \in 1..Len(ops)
<1>1. Len(ops) \in Nat \ {0}
  BY EmptySeq, LenProperties
<1>2. Head(ops) = ops[1] /\ 1 \in 1..Len(ops)
  BY <1>1
<1>3. QED
  BY <1>1, <1>2, HeadTailProperties

LEMMA DefineOfPlan ==
  ASSUME NEW ops, NEW outer, NEW kind, NEW inner,
         Plan(ops, outer, kind, inner), ops # <<>>, Head(ops).op = "DEFINE"
  PROVE  /\ Head(ops) \in outer /\ Head(ops) \in DefineOp
         /\ Plan(Tail(ops), outer, kind, inner)
         /\ Pushing(Tail(ops)) <=> Pushing(ops)
         /\ Popping(Tail(ops)) <=> Popping(ops)
<1>1. ops \in Seq(Op)
  BY DEF Plan
<1> DEFINE rest == Tail(ops)
<1>2. /\ Head(ops) = ops[1] /\ 1 \in 1..Len(ops)
      /\ Head(ops) \in Op
      /\ rest \in Seq(Op) /\ Len(rest) = Len(ops) - 1
      /\ Len(ops) \in Nat \ {0}
      /\ \A j \in 1..Len(rest) : rest[j] = ops[j + 1] /\ j + 1 \in 1..Len(ops)
  BY <1>1, TailOfPlan
<1>3. Head(ops) \in outer /\ Head(ops) \in DefineOp
  <2>1. ~Opened(ops, 1)
    BY DEF Opened
  <2>2. QED BY <2>1, <1>2, OpKinds DEF Plan
<1> HIDE DEF rest
<1>4. \A i \in 1..Len(ops) : i # 1 => i - 1 \in 1..Len(rest) /\ rest[i - 1] = ops[i]
  <2>1. SUFFICES ASSUME NEW i \in 1..Len(ops), i # 1
                 PROVE  i - 1 \in 1..Len(rest) /\ rest[i - 1] = ops[i]
    OBVIOUS
  <2>2. i - 1 \in 1..Len(rest) /\ (i - 1) + 1 = i
    BY <2>1, <1>2
  <2>3. QED BY <2>2, <1>2
<1>5. /\ Pushing(rest) <=> Pushing(ops)
      /\ Popping(rest) <=> Popping(ops)
  BY <1>2, <1>4 DEF Pushing, Popping
<1>6. \A j \in 1..Len(rest) : Opened(rest, j) <=> Opened(ops, j + 1)
  <2>1. SUFFICES ASSUME NEW j \in 1..Len(rest)
                 PROVE  Opened(rest, j) <=> Opened(ops, j + 1)
    OBVIOUS
  <2>2. ASSUME NEW i \in 1..(j - 1), rest[i].op = "PUSH" PROVE Opened(ops, j + 1)
    <3>1. i + 1 \in 1..((j + 1) - 1) /\ i \in 1..Len(rest)
      BY <1>2
    <3>2. QED BY <3>1, <2>2, <1>2 DEF Opened
  <2>3. ASSUME NEW i \in 1..((j + 1) - 1), ops[i].op = "PUSH" PROVE Opened(rest, j)
    <3>1. i # 1 /\ i \in 1..Len(ops)
      BY <2>3, <1>2
    <3>2. i - 1 \in 1..(j - 1)
      BY <3>1
    <3>3. QED BY <3>1, <3>2, <2>3, <1>4 DEF Opened
  <2>4. QED BY <2>2, <2>3 DEF Opened
<1>7. \A i, j \in 1..Len(rest) : rest[i].op = "PUSH" /\ rest[j].op = "PUSH" => i = j
  <2>1. SUFFICES ASSUME NEW i \in 1..Len(rest), NEW j \in 1..Len(rest),
                        rest[i].op = "PUSH", rest[j].op = "PUSH"
                 PROVE  i = j
    OBVIOUS
  <2>2. i + 1 = j + 1
    BY <2>1, <1>2 DEF Plan
  <2>3. QED BY <2>2
<1>8. /\ \A j \in 1..Len(rest) : rest[j].op = "PUSH" => rest[j].kind = kind
      /\ \A j \in 1..Len(rest) : rest[j].op = "POP" => j + 1 = Len(ops)
      /\ \A j \in 1..Len(rest) :
           rest[j].op = "DEFINE" =>
             rest[j] \in (IF Opened(ops, j + 1) THEN inner ELSE outer)
  BY <1>2 DEF Plan
<1>9. \A j \in 1..Len(rest) : j + 1 = Len(ops) => j = Len(rest)
  BY <1>2
<1>10. Plan(rest, outer, kind, inner)
  BY <1>2, <1>6, <1>7, <1>8, <1>9 DEF Plan
<1>11. QED BY <1>3, <1>5, <1>10 DEF rest

LEMMA PushOfPlan ==
  ASSUME NEW ops, NEW outer, NEW kind, NEW inner, NEW kind2, NEW inner2,
         Plan(ops, outer, kind, inner), ops # <<>>, Head(ops).op = "PUSH"
  PROVE  /\ Head(ops).kind = kind /\ kind \in ScopeKinds
         /\ Plan(Tail(ops), inner, kind2, inner2)
         /\ Pushing(ops) /\ ~Pushing(Tail(ops))
         /\ Popping(Tail(ops)) <=> Popping(ops)
<1>1. ops \in Seq(Op)
  BY DEF Plan
<1> DEFINE rest == Tail(ops)
<1>2. /\ Head(ops) = ops[1] /\ 1 \in 1..Len(ops)
      /\ Head(ops) \in Op
      /\ rest \in Seq(Op) /\ Len(rest) = Len(ops) - 1
      /\ Len(ops) \in Nat \ {0}
      /\ \A j \in 1..Len(rest) : rest[j] = ops[j + 1] /\ j + 1 \in 1..Len(ops)
  BY <1>1, TailOfPlan
<1>3. Head(ops).kind = kind /\ kind \in ScopeKinds /\ Pushing(ops)
  <2>1. Head(ops) \in PushOp
    BY <1>2, OpKinds
  <2>2. Head(ops).kind \in ScopeKinds
    BY <2>1, OpKinds
  <2>3. Head(ops).kind = kind
    BY <1>2 DEF Plan
  <2>4. QED BY <2>2, <2>3, <1>2 DEF Pushing
<1> HIDE DEF rest
<1>4. \A j \in 1..Len(rest) : rest[j].op # "PUSH"
  <2>1. SUFFICES ASSUME NEW j \in 1..Len(rest), rest[j].op = "PUSH" PROVE FALSE
    OBVIOUS
  <2>2. j + 1 = 1
    BY <2>1, <1>2 DEF Plan
  <2>3. QED BY <2>2
<1>5. Popping(rest) <=> Popping(ops)
  <2>1. ASSUME NEW j \in 1..Len(rest), rest[j].op = "POP" PROVE Popping(ops)
    BY <2>1, <1>2 DEF Popping
  <2>2. ASSUME NEW i \in 1..Len(ops), ops[i].op = "POP" PROVE Popping(rest)
    <3>1. i # 1
      BY <2>2, <1>2
    <3>2. i - 1 \in 1..Len(rest) /\ (i - 1) + 1 = i
      BY <3>1, <1>2
    <3>3. QED BY <3>2, <2>2, <1>2 DEF Popping
  <2>3. QED BY <2>1, <2>2 DEF Popping
<1>6. \A j \in 1..Len(rest) : ~Opened(rest, j)
  <2>1. \A j \in 1..Len(rest) : \A i \in 1..(j - 1) : i \in 1..Len(rest)
    BY <1>2
  <2>2. QED BY <2>1, <1>4 DEF Opened
<1>7. \A j \in 1..Len(rest) : Opened(ops, j + 1)
  <2>1. \A j \in 1..Len(rest) : 1 \in 1..((j + 1) - 1)
    BY <1>2
  <2>2. QED BY <2>1, <1>2 DEF Opened
<1>8. \A j \in 1..Len(rest) : rest[j].op = "DEFINE" => rest[j] \in inner
  BY <1>2, <1>7 DEF Plan
<1>9. \A j \in 1..Len(rest) : rest[j].op = "POP" => j + 1 = Len(ops)
  BY <1>2 DEF Plan
<1>10. \A j \in 1..Len(rest) : j + 1 = Len(ops) => j = Len(rest)
  BY <1>2
<1>11. Plan(rest, inner, kind2, inner2)
  BY <1>2, <1>4, <1>6, <1>8, <1>9, <1>10 DEF Plan
<1>12. QED BY <1>3, <1>4, <1>5, <1>11 DEF rest, Pushing

LEMMA PopOfPlan ==
  ASSUME NEW ops, NEW outer, NEW kind, NEW inner,
         Plan(ops, outer, kind, inner), ops # <<>>, Head(ops).op = "POP"
  PROVE  Tail(ops) = <<>> /\ ~Pushing(ops) /\ Popping(ops)
<1>1. ops \in Seq(Op)
  BY DEF Plan
<1>2. /\ Head(ops) = ops[1] /\ 1 \in 1..Len(ops)
      /\ Tail(ops) \in Seq(Op) /\ Len(Tail(ops)) = Len(ops) - 1
  BY <1>1, TailOfPlan
<1>3. Len(ops) = 1
  BY <1>2 DEF Plan
<1>4. Tail(ops) = <<>>
  <2>1. Len(Tail(ops)) = 0
    BY <1>2, <1>3
  <2>2. QED BY <2>1, <1>2, EmptySeq
<1>5. \A j \in 1..Len(ops) : j = 1
  BY <1>3
<1>6. QED BY <1>2, <1>4, <1>5 DEF Pushing, Popping

-----------------------------------------------------------------------------
(* The invariant of the walk. *)

Attribute ==
  [name : AllNames, kind : SymbolKinds, type : Types,
   qualifier : Qualifiers \cup {Unstated}]

Frame ==
  [node : Blocks, name : {Unstated}] \cup [node : Callables, name : Names]

Bounds == {StaticBound(head) : head \in Heads}

Typed ==
  /\ attr \in Seq(Attribute)
  /\ Len(attr) = nextId - 1
  /\ params \in [Names -> 0..Foreign]
  /\ program \in Programs
  /\ phase \in {"BUILTINS", "PREDECLARE", "WALK", "DONE"}
  /\ at \in 1..(Len(Items) + 1)
  /\ predeclared \subseteq 1..Len(Items)
  /\ frames \in Seq(Frame)
  /\ staticBounds \in Seq(Bounds)
  /\ scriptType \in ScriptTypes \cup {Unstated}
  /\ declarations \in 0..2

\* A symbol of the dictionary or of its history is the one the table has for
\* its id, under the name it is kept for.
Stands(n, s) ==
  s.id # 0 =>
    /\ s.id \in 1..Len(attr)
    /\ attr[s.id].name = n
    /\ attr[s.id].kind = s.kind

TablesAgree ==
  \A n \in AllNames :
    /\ Stands(n, flat[n])
    /\ \A q \in 1..Len(history[n]) : Stands(n, history[n][q])

\* The kind of scope the walk has, or is about to have, at depth i.
ScopeAt(i) ==
  IF i = 0 THEN "NONE"
  ELSE IF i = 1 THEN "GLOBAL"
  ELSE IF i - 1 <= Len(frames) THEN ScopeOf(frames[i - 1].node)
  ELSE "TYPE_DECL"

PredeclaredKinds == {"FUNCTION", "METHOD", "TYPE", "ENUM", "IMPORT_ALIAS"}

\* A name the program assigns is const only as a builtin.
MayBeConst(n) ==
  "const" \notin WrittenQualifiers /\ n \in program.reassigned
    => n \in ConstBuiltins

\* Permitted, of a definition that will be made in a scope of this kind.
PermittedIn(here, d) ==
  /\ here \in ScopeKinds
  /\ d.existing => here = "GLOBAL" \/ d.name \in Members
  /\ d.kind \in {"BUILTIN", "TYPE", "ENUM", "ENUM_MEMBER", "IMPORT_ALIAS"}
       => here = "GLOBAL"
  /\ d.kind = "BUILTIN" => d.existing
  /\ d.kind = "FIELD" <=> here = "TYPE_DECL"
  /\ d.name \in Members =>
       d.kind \in {"ENUM_MEMBER", "FIELD", "BUILTIN", "TYPE"}

\* What the pass that makes the definition says of it.
Meant(here, d) ==
  /\ d.qualifier = "const" => MayBeConst(d.name)
  /\ d.kind \in Callables =>
       here = "GLOBAL" \/ <<"NESTED_FUNCTION", d.name>> \in diags
  /\ d.existing /\ d.name \in Names => phase = "BUILTINS"
  /\ phase = "PREDECLARE" =>
       /\ at > 1
       /\ \/ d.name = Items[at - 1].name /\ d.kind \in PredeclaredKinds
          \/ d.name \in Members /\ d.kind = "ENUM_MEMBER"
  /\ phase = "BUILTINS" => d.kind \in {"BUILTIN", "TYPE"}
  /\ d.name \in Members => d.existing
  /\ d.name \in Members /\ phase # "BUILTINS" =>
       \/ d.kind = "ENUM_MEMBER"
       \/ /\ d.kind = "FIELD" /\ phase = "WALK" /\ at > 1
          /\ Items[at - 1].node = "TYPE"
          /\ \E part \in Names : d.name = <<Items[at - 1].name, part>>

Allowed(here) == {d \in DefineOp : PermittedIn(here, d) /\ Meant(here, d)}

Orderly ==
  Plan(todo, Allowed(ScopeAt(Len(stack))), ScopeAt(Len(stack) + 1),
       Allowed(ScopeAt(Len(stack) + 1)))

Opening == IF Pushing(todo) THEN 1 ELSE 0

Closing == IF Popping(todo) THEN 1 ELSE 0

\* The stack follows the frames, but for a scope still to be opened or closed.
Following ==
  /\ \A i \in 1..Len(stack) : scopes[stack[i].id] = ScopeAt(i)
  /\ phase # "DONE" =>
       Len(stack) + Opening = Len(frames) + 1 + Closing
  /\ Popping(todo) => frames = <<>>
  /\ phase = "DONE" => stack = <<>> /\ todo = <<>>
  /\ phase # "WALK" => frames = <<>>
  /\ scopes = <<>> <=> stack = <<>> /\ phase # "DONE"

Counting ==
  /\ loopDepth = Cardinality(Running(Loops))
  /\ localDepth = Cardinality(Running(Blocks))
  /\ functionDepth = Cardinality(Running({"FUNCTION"}))
  /\ Len(staticBounds) = Cardinality(Running({"FORRANGE"}))

\* The program has its one declaration statement, so far.
WellStated == program.script # Unstated /\ declarations = 1

Refused(n) == <<"EXPORT_NOT_LIBRARY", n>> \in diags

Policing ==
  /\ phase = "BUILTINS" => diags = {}
  /\ phase # "BUILTINS" =>
       /\ program.script = Unstated =>
            <<"MISSING_DECLARATION", Unstated>> \in diags
       /\ program.script # Unstated => declarations \in {1, 2}
       /\ WellStated => scriptType = program.script
       /\ WellStated /\ program.script = "library" =>
            \A n \in Names : ~Refused(n)
       /\ /\ WellStated /\ program.script # "library"
          /\ phase \in {"WALK", "DONE"}
          => \A i \in 1..(at - 1) :
               Items[i].exported /\ Items[i].node # "IMPORT" =>
                 Refused(Items[i].name)
  /\ phase = "DONE" =>
       /\ at > Len(Items)
       /\ declarations = 2 => <<"MULTIPLE_DECLARATIONS", Unstated>> \in diags

ConstantsKept ==
  /\ \A id \in 1..Len(attr) :
       attr[id].qualifier = "const" => MayBeConst(attr[id].name)
  /\ AssignedVariablesNotConst

Walking ==
  /\ Typed
  /\ TablesAgree
  /\ Orderly
  /\ Following
  /\ Counting
  /\ NestedCallablesReported
  /\ Policing
  /\ ConstantsKept

-----------------------------------------------------------------------------
(* Every step on the scopes is one of the scope manager. *)

LEMMA ScopeKindsOfNodes ==
  \A node \in Blocks \cup Callables :
    /\ ScopeOf(node) \in ScopeKinds
    /\ ScopeOf(node) \notin {"GLOBAL", "TYPE_DECL"}
BY DEF ScopeOf, Blocks, Callables, Loops, ScopeKinds

\* The walk's scopes are of the kinds there are, and only the first is global.
LEMMA ScopeAtKinds ==
  ASSUME Typed, NEW i \in Nat
  PROVE  /\ i # 0 => ScopeAt(i) \in ScopeKinds
         /\ ScopeAt(i) = "GLOBAL" <=> i = 1
         /\ ScopeAt(i) = "TYPE_DECL" <=> i > Len(frames) + 1
         /\ ScopeAt(0) = "NONE"
<1>1. Len(frames) \in Nat /\ \A j \in 1..Len(frames) : frames[j] \in Frame
  <2>1. frames \in Seq(Frame)
    BY DEF Typed
  <2>2. QED BY <2>1, ElementOfSeq
<1>2. \A j \in 1..Len(frames) : frames[j].node \in Blocks \cup Callables
  BY <1>1 DEF Frame
<1>3. CASE i = 0
  BY <1>1, <1>3 DEF ScopeAt
<1>4. CASE i = 1
  BY <1>1, <1>4 DEF ScopeAt, ScopeKinds
<1>5. CASE i > 1 /\ i - 1 <= Len(frames)
  <2>1. i - 1 \in 1..Len(frames)
    BY <1>1, <1>5
  <2>2. ScopeAt(i) = ScopeOf(frames[i - 1].node)
    BY <1>5 DEF ScopeAt
  <2>3. QED BY <2>1, <2>2, <1>1, <1>2, <1>5, ScopeKindsOfNodes DEF ScopeAt
<1>6. CASE i > 1 /\ ~(i - 1 <= Len(frames))
  <2>1. ScopeAt(i) = "TYPE_DECL" /\ ScopeAt(0) = "NONE"
    BY <1>6 DEF ScopeAt
  <2>2. i # 1 /\ i > Len(frames) + 1
    BY <1>1, <1>6
  <2>3. QED BY <2>1, <2>2 DEF ScopeKinds
<1>7. QED BY <1>3, <1>4, <1>5, <1>6

\* A handler that has finished leaves its frames' scopes open and no other.
LEMMA IdleScopes ==
  ASSUME IInv, Walking, todo = <<>>, phase # "DONE"
  PROVE  /\ Len(stack) = Len(frames) + 1
         /\ Len(stack) \in Nat \ {0} /\ Len(frames) \in Nat
         /\ stack # <<>>
         /\ ScopeAt(Len(stack)) \in ScopeKinds \ {"TYPE_DECL"}
         /\ frames = <<>> <=> Len(stack) = 1
         /\ frames = <<>> => ScopeAt(Len(stack)) = "GLOBAL"
<1>1. ~Pushing(todo) /\ ~Popping(todo)
  BY EmptyPlan
<1>2. Len(stack) \in Nat /\ frames \in Seq(Frame)
  BY Parts DEF IInv, Walking, Typed
<1>3. Len(frames) \in Nat /\ (frames = <<>> <=> Len(frames) = 0)
  BY <1>2, EmptySeq
<1>4. Len(stack) = Len(frames) + 1
  BY <1>1, <1>2, <1>3 DEF Walking, Following, Opening, Closing
<1>5. Len(stack) # 0 /\ stack # <<>>
  BY <1>3, <1>4
<1>6. ScopeAt(Len(stack)) \in ScopeKinds \ {"TYPE_DECL"}
  BY <1>2, <1>3, <1>4, ScopeAtKinds DEF Walking
<1>7. frames = <<>> => Len(stack) = 1
  BY <1>3, <1>4
<1>8. QED BY <1>2, <1>3, <1>4, <1>5, <1>6, <1>7 DEF ScopeAt

\* A definition that a handler left is one Permitted allows here.
LEMMA DefinePermitted ==
  ASSUME IInv, Walking, todo # <<>>, Head(todo).op = "DEFINE"
  PROVE  /\ stack # <<>>
         /\ Head(todo) \in Allowed(ScopeAt(Len(stack)))
         /\ Head(todo) \in DefineOp
         /\ scopes[Top.id] = ScopeAt(Len(stack))
         /\ Permitted(Head(todo).name, Head(todo).kind, Head(todo).existing)
<1> DEFINE d == Head(todo)
           here == ScopeAt(Len(stack))
<1>1. d \in Allowed(here) /\ d \in DefineOp
  BY DefineOfPlan DEF Walking, Orderly
<1>2. PermittedIn(here, d)
  BY <1>1 DEF Allowed
<1>3. Len(stack) \in Nat
  BY Parts DEF IInv
<1>4. here # "NONE"
  BY <1>2 DEF PermittedIn, ScopeKinds
<1>5. Len(stack) # 0
  BY <1>4 DEF ScopeAt
<1>6. stack # <<>> /\ Len(stack) \in 1..Len(stack)
  BY <1>3, <1>5
<1>7. scopes[Top.id] = here
  BY <1>6 DEF Walking, Following, Top
<1>8. Permitted(d.name, d.kind, d.existing)
  BY <1>2, <1>7 DEF Permitted, PermittedIn
<1>9. QED BY <1>1, <1>6, <1>7, <1>8

\* A scope that a handler opens is one MayOpen allows.
LEMMA PushPermitted ==
  ASSUME IInv, Walking, todo # <<>>, Head(todo).op = "PUSH"
  PROVE  /\ Head(todo).kind = ScopeAt(Len(stack) + 1)
         /\ Head(todo).kind \in ScopeKinds
         /\ MayOpen(Head(todo).kind)
<1>1. /\ Head(todo).kind = ScopeAt(Len(stack) + 1)
      /\ Head(todo).kind \in ScopeKinds
      /\ Pushing(todo)
  BY PushOfPlan DEF Walking, Orderly
<1>2. Len(stack) \in Nat /\ Typed /\ Following
  BY Parts DEF IInv, Walking
<1>3. phase # "DONE"
  BY <1>2 DEF Following
<1>4. Len(stack) = 0 <=> stack = <<>>
  <2>1. stack \in Seq(ScopeRecord)
    BY DEF IInv, TypeOK, ScopeRecord
  <2>2. QED BY <2>1, EmptySeq
<1>5. scopes = <<>> <=> stack = <<>>
  BY <1>2, <1>3 DEF Following
<1>6. /\ ScopeAt(Len(stack) + 1) = "GLOBAL" <=> Len(stack) + 1 = 1
      /\ ScopeAt(Len(stack) + 1) = "TYPE_DECL" <=> Len(stack) + 1 > Len(frames) + 1
  BY <1>2, ScopeAtKinds
<1>7. frames \in Seq(Frame) /\ Len(frames) \in Nat
  BY <1>2 DEF Typed
<1>8. Len(stack) + 1 = Len(frames) + 1 + Closing
  BY <1>1, <1>2, <1>3 DEF Following, Opening
<1>9. ASSUME ScopeAt(Len(stack) + 1) = "TYPE_DECL", Len(stack) # 0
      PROVE  Len(stack) = 1
  <2>1. Len(stack) > Len(frames)
    BY <1>2, <1>6, <1>7, <1>9
  <2>2. Popping(todo)
    BY <2>1, <1>2, <1>7, <1>8 DEF Closing
  <2>3. Len(frames) = 0
    BY <2>2, <1>2 DEF Following
  <2>4. Closing = 1
    BY <2>2 DEF Closing
  <2>5. Len(stack) + 1 = 0 + 1 + 1
    BY <2>3, <2>4, <1>8
  <2>6. Len(stack) \in Nat
    BY <1>2
  <2>7. QED BY <2>5, <2>6
<1>10. MayOpen(ScopeAt(Len(stack) + 1))
  BY <1>2, <1>4, <1>5, <1>6, <1>9 DEF MayOpen
<1>11. QED BY <1>1, <1>10

LEMMA StepOnScopes ==
  ASSUME IInv, Walking, AnalysisNext
  PROVE  \/ Declare \/ Open \/ PopScope
         \/ UNCHANGED scopeVars
<1>1. CASE RunDefine
  <2>1. /\ todo # <<>> /\ Head(todo).op = "DEFINE"
        /\ Define(Head(todo).name, Head(todo).kind, Head(todo).existing)
    BY <1>1 DEF RunDefine
  <2>2. /\ Permitted(Head(todo).name, Head(todo).kind, Head(todo).existing)
        /\ Head(todo) \in DefineOp /\ stack # <<>>
    BY <2>1, DefinePermitted
  <2>3. /\ Head(todo).name \in AllNames /\ Head(todo).kind \in UsedKinds
        /\ Head(todo).existing \in BOOLEAN
    BY <2>2, ProgramAssumption DEF DefineOp
  <2>4. QED BY <2>1, <2>2, <2>3 DEF Declare
<1>2. CASE RunPush
  <2>1. todo # <<>> /\ Head(todo).op = "PUSH" /\ PushScope(Head(todo).kind)
    BY <1>2 DEF RunPush
  <2>2. MayOpen(Head(todo).kind) /\ Head(todo).kind \in UsedScopes
    BY <2>1, PushPermitted, ProgramAssumption
  <2>3. QED BY <2>1, <2>2 DEF Open
<1>3. CASE RunPop
  BY <1>3 DEF RunPop
<1>4. CASE Pass
  BY <1>4 DEF Pass, IndexDeclaration, PredeclareItem, StartWalk, VisitItem,
              EnterCallable, VisitPlain, FinishWalk
<1>5. CASE Statement
  <2>1. CASE NestedCallable
    <3>1. PICK item : EnterCallable(item, FALSE)
      BY <2>1 DEF NestedCallable
    <3>2. QED BY <3>1 DEF EnterCallable
  <2>2. CASE ~NestedCallable
    <3>1. Quietly
      BY <1>5, <2>2 DEF Statement, VarDeclaration, TupleDeclaration, Reassignment,
                        Use, Call, BreakOrContinue, DeclarationStatement
    <3>2. QED BY <3>1 DEF Quietly
  <2>3. QED BY <2>1, <2>2
<1>6. CASE Structure
  BY <1>6 DEF Structure, OpenBlock, OpenWhile, OpenForRange, OpenForIn,
              CloseBlock, CloseCallable
<1>7. QED
  BY <1>1, <1>2, <1>3, <1>4, <1>5, <1>6 DEF AnalysisNext, Step

LEMMA Discipline ==
  ASSUME IInv, Walking, [AnalysisNext]_vars
  PROVE  [Next]_scopeVars /\ IInv'
<1>1. CASE AnalysisNext
  <2>1. Declare \/ Open \/ PopScope \/ UNCHANGED scopeVars
    BY <1>1, StepOnScopes
  <2>2. [Next]_scopeVars
    BY <2>1 DEF Next
  <2>3. QED BY <2>2, NextIInv
<1>2. CASE UNCHANGED vars
  <2>1. UNCHANGED scopeVars
    BY <1>2 DEF vars
  <2>2. [Next]_scopeVars
    BY <2>1
  <2>3. QED BY <2>2, NextIInv
<1>3. QED BY <1>1, <1>2

-----------------------------------------------------------------------------
(* What the parts of the invariant read. *)

\* A program is of the shape ProgramAssumption gives it.
LEMMA ProgramFacts ==
  ASSUME program \in Programs
  PROVE  /\ Items \in Seq(Item) /\ Len(Items) \in Nat
         /\ Mentioned \subseteq Names
         /\ program.reassigned \subseteq Names
         /\ program.script \in ScriptTypes \cup {Unstated}
         /\ program.builtins \in Seq(Builtin)
         /\ \A i \in 1..Len(Items) :
              /\ Items[i] \in Item
              /\ Items[i].node \in ItemNodes
              /\ Items[i].name \in Names
              /\ Items[i].parts \in Seq(Names)
              /\ Items[i].exported \in BOOLEAN
              /\ Items[i].node \in {"TYPE", "ENUM"} =>
                   \A j \in 1..Len(Items[i].parts) :
                     <<Items[i].name, Items[i].parts[j]>> \in Members
              /\ Items[i].node = "STATEMENTS" => ~Items[i].exported
<1>1. program \in Program
  BY ProgramAssumption
<1>2. /\ Items \in Seq(Item)
      /\ Mentioned \subseteq Names
      /\ program.reassigned \subseteq Names
      /\ program.script \in ScriptTypes \cup {Unstated}
      /\ program.builtins \in Seq(Builtin)
  BY <1>1 DEF Program, Items, Mentioned
<1>3. Len(Items) \in Nat
  BY <1>2
<1>4. \A i \in 1..Len(Items) : Items[i] \in Item
  BY <1>2, ElementOfSeq
<1>5. \A i \in 1..Len(Items) :
        /\ Items[i].node \in {"TYPE", "ENUM"} =>
             \A j \in 1..Len(Items[i].parts) :
               <<Items[i].name, Items[i].parts[j]>> \in Members
        /\ Items[i].node = "STATEMENTS" => ~Items[i].exported
  BY ProgramAssumption DEF Items
<1>6. \A item \in Item :
        /\ item.node \in ItemNodes
        /\ item.name \in Names
        /\ item.parts \in Seq(Names)
        /\ item.exported \in BOOLEAN
  BY DEF Item
<1>7. QED BY <1>2, <1>3, <1>4, <1>5, <1>6

\* What is allowed depends on the pass, the item, the program and the
\* diagnostics, and more diagnostics allow no less.
LEMMA AllowedGrows ==
  ASSUME UNCHANGED <<program, phase, at>>, diags \subseteq diags'
  PROVE  \A here : Allowed(here) \subseteq Allowed(here)'
BY DEF Allowed, Meant, MayBeConst, ConstBuiltins, Items

\* ScopeAt depends on the frames up to that depth.
LEMMA ScopeAtKept ==
  ASSUME UNCHANGED frames
  PROVE  \A i : ScopeAt(i)' = ScopeAt(i)
BY DEF ScopeAt

\* A plan stays a plan when nothing it speaks of changes.
LEMMA PlanKept ==
  ASSUME Orderly, UNCHANGED <<program, phase, at, frames, todo>>,
         Len(stack') = Len(stack), diags \subseteq diags'
  PROVE  Orderly'
<1>1. \A here : Allowed(here) \subseteq Allowed(here)'
  BY AllowedGrows
<1>2. \A i : ScopeAt(i)' = ScopeAt(i)
  BY ScopeAtKept
<1> DEFINE A == Allowed(ScopeAt(Len(stack)))
           B == Allowed(ScopeAt(Len(stack) + 1))
           k == ScopeAt(Len(stack) + 1)
<1>3. /\ ScopeAt(Len(stack))' = ScopeAt(Len(stack))
      /\ ScopeAt(Len(stack) + 1)' = ScopeAt(Len(stack) + 1)
  BY DEF ScopeAt
<1>4. A \subseteq A' /\ B \subseteq B' /\ k' = k
  BY <1>1, <1>3
<1>5. Plan(todo, A, k, B)
  BY DEF Orderly
<1> HIDE DEF A, B, k
<1>6. Plan(todo, A', k', B')
  BY <1>4, <1>5, WiderPlan
<1>7. Plan(todo', A', k', B')
  BY <1>6
<1>8. QED BY <1>7 DEF Orderly, A, B, k

-----------------------------------------------------------------------------
(* The operations of the scope manager keep the invariant of the walk. *)

\* The scopes that are open stay open, with their ids.
LEMMA DefineDepth ==
  ASSUME TypeOK, NEW n \in AllNames, NEW kind, NEW existing,
         Define(n, kind, existing)
  PROVE  /\ scopes' = scopes
         /\ Len(stack') = Len(stack)
         /\ stack' = <<>> <=> stack = <<>>
         /\ \A i \in 1..Len(stack) : stack'[i].id = stack[i].id
<1>1. CASE DefineRejected(n, kind, existing)
  BY <1>1 DEF DefineRejected
<1>2. CASE DefineAccepted(n, kind, existing)
  <2>1. stack # <<>>
    BY DEF Define
  <2>2. QED BY <1>2, <2>1, DefineEffect DEF DefineAccepted
<1>3. QED BY <1>1, <1>2 DEF Define

\* A new row of the table is the one its id stands for.
LEMMA DefineTables ==
  ASSUME IInv, Typed, TablesAgree,
         NEW d \in DefineOp, Define(d.name, d.kind, d.existing),
         attr' = IF nextId' # nextId
                 THEN Append(attr, [name |-> d.name, kind |-> d.kind,
                                    type |-> d.type, qualifier |-> d.qualifier])
                 ELSE attr
  PROVE  /\ attr' \in Seq(Attribute)
         /\ Len(attr') = nextId' - 1
         /\ \A id \in 1..Len(attr) : id \in 1..Len(attr') /\ attr'[id] = attr[id]
         /\ \A id \in 1..Len(attr') :
              \/ id \in 1..Len(attr)
              \/ attr'[id].name = d.name /\ attr'[id].qualifier = d.qualifier
         /\ TablesAgree'
<1> DEFINE row == [name |-> d.name, kind |-> d.kind,
                   type |-> d.type, qualifier |-> d.qualifier]
<1>1. /\ attr \in Seq(Attribute) /\ Len(attr) = nextId - 1
      /\ nextId \in Nat \ {0} /\ Len(attr) \in Nat
  BY Parts DEF IInv, Typed
<1>2. row \in Attribute
  BY DEF DefineOp, Attribute
<1>3. /\ row.name = d.name /\ row.kind = d.kind /\ row.qualifier = d.qualifier
      /\ d.name \in AllNames
  BY DEF DefineOp
<1>4. CASE DefineRejected(d.name, d.kind, d.existing)
  <2>1. UNCHANGED <<nextId, attr, flat, history>>
    BY <1>4 DEF DefineRejected
  <2>2. TablesAgree'
    BY <2>1 DEF TablesAgree, Stands
  <2>3. QED BY <2>1, <2>2, <1>1
<1>5. CASE DefineAccepted(d.name, d.kind, d.existing)
  <2>1. nextId' = nextId + 1 /\ attr' = Append(attr, row)
    BY <1>1, <1>5 DEF DefineAccepted
  <2> HIDE DEF row
  <2>2. /\ attr' \in Seq(Attribute)
        /\ Len(attr') = Len(attr) + 1
        /\ \A id \in 1..Len(attr) : attr'[id] = attr[id]
        /\ attr'[Len(attr) + 1] = row
    BY <2>1, <1>1, <1>2, AppendProperties
  <2>3. /\ \A id \in 1..Len(attr) : id \in 1..Len(attr')
        /\ \A id \in 1..Len(attr') : id \in 1..Len(attr) \/ id = Len(attr) + 1
        /\ nextId \in 1..Len(attr') /\ nextId = Len(attr) + 1
        /\ Len(attr') = nextId' - 1
    BY <1>1, <2>1, <2>2
  <2>4. ASSUME NEW n, NEW s, Stands(n, s) PROVE Stands(n, s)'
    BY <2>2, <2>3, <2>4 DEF Stands
  <2>5. ASSUME NEW s, s = [id |-> nextId, kind |-> d.kind, scope |-> Top.id]
        PROVE  Stands(d.name, s)'
    BY <2>2, <2>3, <2>5, <1>3 DEF Stands
  <2>6. TablesAgree'
    <3>1. SUFFICES ASSUME NEW n \in AllNames
                   PROVE  /\ Stands(n, flat[n])'
                          /\ \A q \in 1..Len(history'[n]) : Stands(n, history[n][q])'
      BY DEF TablesAgree
    <3>2. /\ Stands(n, flat[n])
          /\ \A q \in 1..Len(history[n]) : Stands(n, history[n][q])
          /\ history[n] \in Seq(Symbol) /\ Len(history[n]) \in Nat
          /\ flat[n].id # 0 => flat[n] \in Symbol
      BY Parts DEF TablesAgree, IInv
    <3>3. CASE n # d.name
      <4>1. flat'[n] = flat[n] /\ history'[n] = history[n]
        <5>1. /\ flat \in [AllNames -> Symbol \cup {NoSymbol}]
              /\ history \in [AllNames -> Seq(Symbol)]
          BY DEF IInv, TypeOK
        <5>2. QED BY <5>1, <1>5, <3>3 DEF DefineAccepted
      <4>2. QED BY <4>1, <3>2, <2>4 DEF Stands
    <3>4. CASE n = d.name
      <4>1. /\ flat'[n] = [id |-> nextId, kind |-> d.kind, scope |-> Top.id]
            /\ history'[n] = Saved(n)
        <5>1. /\ flat \in [AllNames -> Symbol \cup {NoSymbol}]
              /\ history \in [AllNames -> Seq(Symbol)]
          BY DEF IInv, TypeOK
        <5>2. QED BY <5>1, <1>5, <3>4 DEF DefineAccepted
      <4>2. Stands(n, flat[n])'
        <5>1. PICK s : s = flat'[n]
          OBVIOUS
        <5>2. Stands(n, s)'
          BY <5>1, <4>1, <2>5, <3>4
        <5>3. QED BY <5>1, <5>2 DEF Stands
      <4>3. CASE flat[n].id = 0
        <5>1. history'[n] = history[n]
          BY <4>1, <4>3 DEF Saved
        <5>2. QED BY <4>2, <5>1, <3>2, <2>4 DEF Stands
      <4>4. CASE flat[n].id # 0
        <5>1. history'[n] = Append(history[n], flat[n])
          BY <4>1, <4>4 DEF Saved
        <5>2. /\ Len(history'[n]) = Len(history[n]) + 1
              /\ \A q \in 1..Len(history[n]) : history'[n][q] = history[n][q]
              /\ history'[n][Len(history[n]) + 1] = flat[n]
          BY <5>1, <4>4, <3>2, AppendProperties
        <5>3. \A q \in 1..Len(history'[n]) :
                \/ q \in 1..Len(history[n])
                \/ q = Len(history[n]) + 1
          BY <5>2, <3>2
        <5>4. \A q \in 1..Len(history'[n]) : Stands(n, history'[n][q])
          BY <5>2, <5>3, <3>2
        <5>5. \A q \in 1..Len(history'[n]) :
                Stands(n, history'[n][q]) => Stands(n, history[n][q])'
          <6>1. SUFFICES ASSUME NEW q \in 1..Len(history'[n]), Stands(n, history'[n][q])
                         PROVE  Stands(n, history[n][q])'
            OBVIOUS
          <6>2. PICK s : s = history'[n][q]
            OBVIOUS
          <6>3. Stands(n, s)'
            BY <6>1, <6>2, <2>4
          <6>4. QED BY <6>2, <6>3 DEF Stands
        <5>6. QED BY <4>2, <5>4, <5>5
      <4>5. QED BY <4>3, <4>4
    <3>5. QED BY <3>3, <3>4
  <2>7. \A id \in 1..Len(attr') :
          \/ id \in 1..Len(attr)
          \/ attr'[id].name = d.name /\ attr'[id].qualifier = d.qualifier
    BY <2>2, <2>3, <1>3
  <2>8. QED BY <2>2, <2>3, <2>6, <2>7
<1>6. QED BY <1>4, <1>5 DEF Define

LEMMA PushDepth ==
  ASSUME TypeOK, NEW kind \in ScopeKinds, PushScope(kind)
  PROVE  /\ Len(stack') = Len(stack) + 1 /\ Len(stack) \in Nat
         /\ stack' # <<>> /\ scopes' # <<>>
         /\ scopes'[stack'[Len(stack) + 1].id] = kind
         /\ \A i \in 1..Len(stack) : stack'[i] = stack[i]
         /\ \A i \in 1..Len(scopes) : scopes'[i] = scopes[i]
<1>1. stack \in Seq(ScopeRecord) /\ scopes \in Seq(ScopeKinds)
  BY DEF TypeOK, ScopeRecord
<1> DEFINE scope == [id |-> Len(scopes) + 1, symbols |-> [n \in AllNames |-> 0]]
<1>2. Len(stack) \in Nat /\ Len(scopes) \in Nat /\ scope.id = Len(scopes) + 1
  BY <1>1
<1>3. stack' = Append(stack, scope) /\ scopes' = Append(scopes, kind)
  BY DEF PushScope
<1> HIDE DEF scope
<1>4. /\ Len(stack') = Len(stack) + 1
      /\ stack'[Len(stack) + 1] = scope
      /\ \A i \in 1..Len(stack) : stack'[i] = stack[i]
      /\ Len(scopes') = Len(scopes) + 1
      /\ scopes'[Len(scopes) + 1] = kind
      /\ \A i \in 1..Len(scopes) : scopes'[i] = scopes[i]
  BY <1>1, <1>2, <1>3
<1>5. stack' # <<>> /\ scopes' # <<>>
  BY <1>2, <1>4
<1>6. QED BY <1>2, <1>4, <1>5

LEMMA PopDepth ==
  ASSUME TypeOK, PopScope
  PROVE  /\ scopes' = scopes /\ nextId' = nextId
         /\ Len(stack') = Len(stack) - 1 /\ Len(stack) \in Nat \ {0}
         /\ \A i \in 1..Len(stack') : i \in 1..Len(stack) /\ stack'[i] = stack[i]
<1>1. stack \in Seq(ScopeRecord) /\ stack # <<>>
  BY DEF TypeOK, ScopeRecord, PopScope
<1>2. /\ Len(stack) \in Nat \ {0}
      /\ Len(SubSeq(stack, 1, Len(stack) - 1)) = Len(stack) - 1
      /\ \A i \in 1..(Len(stack) - 1) : SubSeq(stack, 1, Len(stack) - 1)[i] = stack[i]
  BY <1>1, LastOfSeq
<1>3. \A i \in 1..(Len(stack) - 1) : i \in 1..Len(stack)
  BY <1>2
<1>4. QED BY <1>2, <1>3 DEF PopScope

\* A symbol that comes back was the name's before; the table keeps its name
\* and kind.
LEMMA PopTables ==
  ASSUME IInv, TablesAgree, PopScope, Len(attr') = Len(attr),
         \A id \in 1..Len(attr) :
           attr'[id].name = attr[id].name /\ attr'[id].kind = attr[id].kind
  PROVE  TablesAgree'
<1>1. SUFFICES ASSUME NEW n \in AllNames
               PROVE  /\ Stands(n, flat[n])'
                      /\ \A q \in 1..Len(history'[n]) : Stands(n, history[n][q])'
  BY DEF TablesAgree
<1>2. ASSUME NEW s, Stands(n, s) PROVE Stands(n, s)'
  BY <1>2 DEF Stands
<1>3. /\ Stands(n, flat[n])
      /\ \A q \in 1..Len(history[n]) : Stands(n, history[n][q])
      /\ history[n] \in Seq(Symbol)
  BY Parts DEF TablesAgree, IInv
<1>4. /\ flat'[n] = IF Restores(n) THEN history[n][Len(history[n])] ELSE flat[n]
      /\ history'[n] = IF Restores(n)
                       THEN SubSeq(history[n], 1, Len(history[n]) - 1)
                       ELSE history[n]
  BY DEF PopScope
<1>5. Stands(n, flat'[n])
  <2>1. CASE Restores(n)
    <3>1. history[n] # <<>>
      BY <2>1 DEF Restores
    <3>2. Len(history[n]) \in 1..Len(history[n])
      BY <3>1, <1>3, LastOfSeq
    <3>3. QED BY <3>2, <2>1, <1>3, <1>4
  <2>2. QED BY <2>1, <1>3, <1>4
<1>6. \A q \in 1..Len(history'[n]) : Stands(n, history'[n][q])
  <2>1. CASE Restores(n)
    <3>1. history[n] # <<>>
      BY <2>1 DEF Restores
    <3>2. /\ Len(history[n]) \in Nat \ {0}
          /\ Len(history'[n]) = Len(history[n]) - 1
          /\ \A q \in 1..(Len(history[n]) - 1) : history'[n][q] = history[n][q]
      BY <3>1, <2>1, <1>3, <1>4, LastOfSeq
    <3>3. \A q \in 1..Len(history'[n]) :
            q \in 1..Len(history[n]) /\ history'[n][q] = history[n][q]
      BY <3>2
    <3>4. QED BY <3>3, <1>3
  <2>2. QED BY <2>1, <1>3, <1>4
<1>7. Stands(n, flat[n])'
  <2>1. PICK s : s = flat'[n]
    OBVIOUS
  <2>2. Stands(n, s)'
    BY <2>1, <1>5, <1>2
  <2>3. QED BY <2>1, <2>2 DEF Stands
<1>8. ASSUME NEW q \in 1..Len(history'[n]) PROVE Stands(n, history[n][q])'
  <2>1. PICK s : s = history'[n][q]
    OBVIOUS
  <2>2. Stands(n, s)'
    BY <2>1, <1>6, <1>2
  <2>3. QED BY <2>1, <2>2 DEF Stands
<1>9. QED BY <1>7, <1>8

LEMMA RunDefineKeeps ==
  ASSUME IInv, Walking, RunDefine
  PROVE  Walking'
<1> DEFINE d == Head(todo)
           here == ScopeAt(Len(stack))
<1>1. /\ todo # <<>> /\ d.op = "DEFINE"
      /\ Define(d.name, d.kind, d.existing)
      /\ todo' = Tail(todo)
      /\ UNCHANGED <<passVars, depthVars, unitVars, frames, diags>>
      /\ attr' = IF nextId' # nextId
                 THEN Append(attr, [name |-> d.name, kind |-> d.kind,
                                    type |-> d.type, qualifier |-> d.qualifier])
                 ELSE attr
  BY DEF RunDefine
<1>2. UNCHANGED <<program, phase, at, loopDepth, localDepth, functionDepth,
                  staticBounds, scriptType, declarations, frames, diags>>
  BY <1>1 DEF passVars, depthVars, unitVars
<1>3. /\ Typed /\ TablesAgree /\ Orderly /\ Following
      /\ TypeOK
  BY DEF Walking, IInv
<1>4. /\ stack # <<>> /\ d \in DefineOp /\ d \in Allowed(here)
  BY <1>1, DefinePermitted
<1>5. d.name \in AllNames /\ Meant(here, d)
  BY <1>4 DEF DefineOp, Allowed
<1>6. /\ scopes' = scopes
      /\ Len(stack') = Len(stack)
      /\ stack' = <<>> <=> stack = <<>>
      /\ \A i \in 1..Len(stack) : stack'[i].id = stack[i].id
  BY <1>1, <1>3, <1>5, DefineDepth
<1>7. /\ attr' \in Seq(Attribute)
      /\ Len(attr') = nextId' - 1
      /\ \A id \in 1..Len(attr) : id \in 1..Len(attr') /\ attr'[id] = attr[id]
      /\ \A id \in 1..Len(attr') :
           \/ id \in 1..Len(attr)
           \/ attr'[id].name = d.name /\ attr'[id].qualifier = d.qualifier
      /\ TablesAgree'
  BY <1>1, <1>3, <1>4, DefineTables
<1>8. /\ Plan(Tail(todo), Allowed(here), ScopeAt(Len(stack) + 1),
              Allowed(ScopeAt(Len(stack) + 1)))
      /\ Pushing(Tail(todo)) <=> Pushing(todo)
      /\ Popping(Tail(todo)) <=> Popping(todo)
  BY <1>1, <1>3, DefineOfPlan DEF Orderly
<1>9. Orderly'
  <2>1. \A h : Allowed(h)' = Allowed(h)
    BY <1>2 DEF Allowed, Meant, MayBeConst, ConstBuiltins, Items
  <2>2. /\ ScopeAt(Len(stack))' = ScopeAt(Len(stack))
        /\ ScopeAt(Len(stack) + 1)' = ScopeAt(Len(stack) + 1)
    BY <1>2, <1>6 DEF ScopeAt
  <2>3. QED BY <1>1, <1>8, <2>1, <2>2 DEF Orderly
<1>10. Following'
  <2>1. phase # "DONE"
    BY <1>1, <1>3 DEF Following
  <2>2. \A i \in 1..Len(stack') : scopes'[stack'[i].id] = ScopeAt(i)'
    <3>1. \A i : ScopeAt(i)' = ScopeAt(i)
      BY <1>2, ScopeAtKept
    <3>2. \A i \in 1..Len(stack) : scopes[stack[i].id] = ScopeAt(i)
      BY <1>3 DEF Following
    <3>3. QED BY <3>1, <3>2, <1>6
  <2>3. Opening' = Opening /\ Closing' = Closing
    BY <1>1, <1>8 DEF Opening, Closing
  <2>4. /\ Len(stack) + Opening = Len(frames) + 1 + Closing
        /\ Popping(todo) => frames = <<>>
        /\ phase # "WALK" => frames = <<>>
        /\ scopes = <<>> <=> stack = <<>> /\ phase # "DONE"
    BY <1>3, <2>1 DEF Following
  <2>5. QED
    BY <1>1, <1>2, <1>6, <1>8, <2>1, <2>2, <2>3, <2>4 DEF Following
<1>11. Typed'
  <2>1. params' \in [Names -> 0..Foreign]
    <3>1. /\ nextId \in 1..(MaxSymbols + 1) /\ MaxSymbols \in Nat
          /\ params \in [Names -> 0..Foreign]
      BY <1>3, ScopeAssumption DEF TypeOK, Typed
    <3>2. nextId \in 0..Foreign /\ Foreign \in 0..Foreign
      BY <3>1 DEF Foreign
    <3>3. \/ params' = params
          \/ params' = [params EXCEPT ![d.name] = nextId]
          \/ params' = [params EXCEPT ![d.name] = Foreign]
      BY DEF RunDefine
    <3> HIDE DEF d
    <3>4. QED BY <3>1, <3>2, <3>3
  <2>2. predeclared' \subseteq 1..Len(Items')
    <3>1. /\ predeclared \subseteq 1..Len(Items) /\ at \in 1..(Len(Items) + 1)
          /\ Len(Items) \in Nat
      BY <1>3, ProgramFacts DEF Typed
    <3>2. \/ predeclared' = predeclared
          \/ phase = "PREDECLARE" /\ predeclared' = predeclared \cup {at - 1}
      BY DEF RunDefine
    <3>3. phase = "PREDECLARE" => at > 1
      BY <1>5 DEF Meant
    <3>4. phase = "PREDECLARE" => at - 1 \in 1..Len(Items)
      BY <3>1, <3>3
    <3>5. Items' = Items
      BY <1>2 DEF Items
    <3>6. QED BY <3>1, <3>2, <3>4, <3>5
  <2>3. QED
    BY <1>2, <1>3, <1>7, <2>1, <2>2 DEF Typed, Items
<1>12. Counting' /\ NestedCallablesReported' /\ Policing'
  <2>1. Counting' /\ NestedCallablesReported'
    BY <1>2 DEF Walking, Counting, NestedCallablesReported, Running
  <2>2. Policing'
    BY <1>2 DEF Walking, Policing, WellStated, Refused, Items
  <2>3. QED BY <2>1, <2>2
<1>13. ConstantsKept'
  <2>1. /\ \A id \in 1..Len(attr) :
             attr[id].qualifier = "const" => MayBeConst(attr[id].name)
        /\ AssignedVariablesNotConst
    BY DEF Walking, ConstantsKept
  <2>2. d.qualifier = "const" => MayBeConst(d.name)
    BY <1>5 DEF Meant
  <2>3. \A n : MayBeConst(n)' <=> MayBeConst(n)
    BY <1>2 DEF MayBeConst, ConstBuiltins
  <2>4. \A id \in 1..Len(attr') :
          attr'[id].qualifier = "const" => MayBeConst(attr'[id].name)
    BY <1>7, <2>1, <2>2
  <2>5. AssignedVariablesNotConst'
    BY <1>2, <2>1 DEF AssignedVariablesNotConst, ConstBuiltins
  <2>6. QED BY <2>3, <2>4, <2>5 DEF ConstantsKept, MayBeConst, ConstBuiltins
<1>14. QED
  BY <1>7, <1>9, <1>10, <1>11, <1>12, <1>13 DEF Walking

LEMMA RunPushKeeps ==
  ASSUME IInv, Walking, RunPush
  PROVE  Walking'
<1> DEFINE kind == Head(todo).kind
<1>1. /\ todo # <<>> /\ Head(todo).op = "PUSH" /\ PushScope(kind)
      /\ todo' = Tail(todo)
      /\ UNCHANGED <<attr, params, predeclared, program, phase, at, loopDepth,
                     localDepth, functionDepth, staticBounds, scriptType,
                     declarations, frames, diags>>
  BY DEF RunPush, tableVars, passVars, depthVars, unitVars
<1>2. UNCHANGED <<flat, history, nextId>>
  BY <1>1 DEF PushScope
<1>3. /\ Typed /\ TablesAgree /\ Orderly /\ Following
      /\ TypeOK
  BY DEF Walking, IInv
<1>4. kind = ScopeAt(Len(stack) + 1) /\ kind \in ScopeKinds
  BY <1>1, PushPermitted
<1>5. /\ Len(stack') = Len(stack) + 1 /\ Len(stack) \in Nat
      /\ stack' # <<>> /\ scopes' # <<>>
      /\ scopes'[stack'[Len(stack) + 1].id] = kind
      /\ \A i \in 1..Len(stack) : stack'[i] = stack[i]
      /\ \A i \in 1..Len(scopes) : scopes'[i] = scopes[i]
  BY <1>1, <1>3, <1>4, PushDepth
<1>6. /\ Plan(Tail(todo), Allowed(ScopeAt(Len(stack) + 1)),
              ScopeAt(Len(stack) + 2), Allowed(ScopeAt(Len(stack) + 2)))
      /\ Pushing(todo) /\ ~Pushing(Tail(todo))
      /\ Popping(Tail(todo)) <=> Popping(todo)
  BY <1>1, <1>3, PushOfPlan DEF Orderly
<1>7. Orderly'
  <2>1. \A h : Allowed(h)' = Allowed(h)
    BY <1>1 DEF Allowed, Meant, MayBeConst, ConstBuiltins, Items
  <2>2. Len(stack') + 1 = Len(stack) + 2
    BY <1>5
  <2>3. /\ ScopeAt(Len(stack))' = ScopeAt(Len(stack) + 1)
        /\ ScopeAt(Len(stack) + 1)' = ScopeAt(Len(stack) + 2)
    BY <1>1, <1>5, <2>2 DEF ScopeAt
  <2>4. QED BY <1>1, <1>6, <2>1, <2>3 DEF Orderly
<1>8. Following'
  <2>1. phase # "DONE"
    BY <1>1, <1>3 DEF Following
  <2>2. \A i \in 1..Len(stack') : scopes'[stack'[i].id] = ScopeAt(i)'
    <3>1. \A i : ScopeAt(i)' = ScopeAt(i)
      BY <1>1, ScopeAtKept
    <3>2. \A i \in 1..Len(stack) : scopes[stack[i].id] = ScopeAt(i)
      BY <1>3 DEF Following
    <3>3. \A i \in 1..Len(stack) : stack[i].id \in 1..Len(scopes)
      BY DEF IInv, ScopesNested
    <3>4. \A i \in 1..Len(stack') : i \in 1..Len(stack) \/ i = Len(stack) + 1
      BY <1>5
    <3>5. \A i \in 1..Len(stack) : scopes'[stack'[i].id] = ScopeAt(i)'
      BY <3>1, <3>2, <3>3, <1>5
    <3>6. QED BY <3>1, <3>4, <3>5, <1>4, <1>5
  <2>3. Opening = 1 /\ Opening' = 0 /\ Closing' = Closing
    BY <1>1, <1>6 DEF Opening, Closing
  <2>4. Len(stack) + Opening = Len(frames) + 1 + Closing
    BY <1>3, <2>1 DEF Following
  <2>5. Len(stack') + Opening' = Len(frames') + 1 + Closing'
    <3>1. Len(stack') + 0 = Len(stack) + 1
      BY <1>5
    <3>2. QED BY <3>1, <2>3, <2>4, <1>1
  <2>6. /\ Popping(todo) => frames = <<>>
        /\ phase # "WALK" => frames = <<>>
    BY <1>3 DEF Following
  <2>7. QED
    BY <1>1, <1>5, <1>6, <2>1, <2>2, <2>5, <2>6 DEF Following
<1>9. Typed' /\ TablesAgree'
  BY <1>1, <1>2, <1>3 DEF Typed, Items, TablesAgree, Stands
<1>10. Counting' /\ NestedCallablesReported'
  BY <1>1 DEF Walking, Counting, NestedCallablesReported, Running
<1>11. Policing'
  BY <1>1 DEF Walking, Policing, WellStated, Refused, Items
<1>12. ConstantsKept'
  BY <1>1 DEF Walking, ConstantsKept, MayBeConst, AssignedVariablesNotConst,
              ConstBuiltins
<1>13. QED
  BY <1>7, <1>8, <1>9, <1>10, <1>11, <1>12 DEF Walking

LEMMA RunPopKeeps ==
  ASSUME IInv, Walking, RunPop
  PROVE  Walking'
<1>1. /\ todo # <<>> /\ Head(todo).op = "POP" /\ PopScope
      /\ todo' = Tail(todo)
      /\ UNCHANGED <<attr, params, predeclared, program, phase, at, loopDepth,
                     localDepth, functionDepth, staticBounds, scriptType,
                     declarations, frames, diags>>
  BY DEF RunPop, tableVars, passVars, depthVars, unitVars
<1>2. /\ Typed /\ TablesAgree /\ Orderly /\ Following
      /\ TypeOK
  BY DEF Walking, IInv
<1>3. todo' = <<>> /\ ~Pushing(todo) /\ Popping(todo)
  BY <1>1, <1>2, PopOfPlan DEF Orderly
<1>4. /\ scopes' = scopes /\ nextId' = nextId
      /\ Len(stack') = Len(stack) - 1 /\ Len(stack) \in Nat \ {0}
      /\ \A i \in 1..Len(stack') : i \in 1..Len(stack) /\ stack'[i] = stack[i]
  BY <1>1, <1>2, PopDepth
<1>5. Orderly'
  BY <1>3, EmptyPlan DEF Orderly
<1>6. Following'
  <2>1. phase # "DONE"
    BY <1>1, <1>2 DEF Following
  <2>2. \A i \in 1..Len(stack') : scopes'[stack'[i].id] = ScopeAt(i)'
    <3>1. \A i : ScopeAt(i)' = ScopeAt(i)
      BY <1>1, ScopeAtKept
    <3>2. \A i \in 1..Len(stack) : scopes[stack[i].id] = ScopeAt(i)
      BY <1>2 DEF Following
    <3>3. QED BY <3>1, <3>2, <1>4
  <2>3. Opening = 0 /\ Opening' = 0 /\ Closing = 1 /\ Closing' = 0
    BY <1>3, EmptyPlan DEF Opening, Closing
  <2>4. /\ Len(stack) + Opening = Len(frames) + 1 + Closing
        /\ frames = <<>>
    BY <1>2, <1>3, <2>1 DEF Following
  <2>5. Len(frames) = 0
    BY <2>4
  <2>6. Len(stack) + 0 = 0 + 1 + 1
    BY <2>3, <2>4, <2>5
  <2>7. Len(stack') = 1
    BY <2>6, <1>4
  <2>8. stack' # <<>> /\ scopes # <<>>
    <3>1. stack # <<>>
      BY <1>1 DEF PopScope
    <3>2. scopes # <<>>
      BY <3>1, <1>2 DEF Following
    <3>3. QED BY <2>7, <3>2
  <2>9. ~Popping(todo')
    BY <1>3, EmptyPlan
  <2>10. Len(stack') + Opening' = Len(frames') + 1 + Closing'
    BY <2>3, <2>5, <2>7, <1>1
  <2>11. QED
    BY <1>1, <1>4, <2>1, <2>2, <2>4, <2>8, <2>9, <2>10 DEF Following
<1>7. TablesAgree'
  BY <1>1, <1>2, PopTables
<1>8. Typed'
  BY <1>1, <1>2, <1>4 DEF Typed, Items
<1>9. Counting' /\ NestedCallablesReported'
  BY <1>1 DEF Walking, Counting, NestedCallablesReported, Running
<1>10. Policing'
  BY <1>1 DEF Walking, Policing, WellStated, Refused, Items
<1>11. ConstantsKept'
  BY <1>1 DEF Walking, ConstantsKept, MayBeConst, AssignedVariablesNotConst,
              ConstBuiltins
<1>12. QED
  BY <1>5, <1>6, <1>7, <1>8, <1>9, <1>10, <1>11 DEF Walking

-----------------------------------------------------------------------------
(* The plans of the handlers. *)

LEMMA FunctionIsSeq ==
  ASSUME NEW n \in Nat, NEW S, NEW f \in [1..n -> S]
  PROVE  f \in Seq(S) /\ Len(f) = n
OBVIOUS

\* A set of numbers that is not empty has a least one.
LEMMA LeastNumber ==
  ASSUME NEW S \in SUBSET Nat, S # {}
  PROVE  \E k \in S : \A j \in S : k <= j
<1>1. PICK k \in S : \A j \in S : ~(<<j, k>> \in OpToRel(<, Nat))
  BY WFMin, NatLessThanWellFounded
<1>2. \A j \in S : ~(j < k)
  BY <1>1 DEF OpToRel
<1>3. QED
  BY <1>2

\* The places of a set follow their order, from 1 to their number.
LEMMA Places ==
  ASSUME NEW n \in Nat, NEW S \in SUBSET (1..n)
  PROVE  /\ Cardinality(S) \in 0..n
         /\ \A k \in S : Place(S, k) \in 1..Cardinality(S)
         /\ \A j, k \in S : Place(S, j) = Place(S, k) => j = k
         /\ \A m \in 1..Cardinality(S) : \E k \in S : Place(S, k) = m
<1> DEFINE Up(k) == {j \in S : j <= k}
           R == [k \in S |-> Cardinality(Up(k))]
<1>0. S \subseteq Nat
  OBVIOUS
<1>1. IsFiniteSet(S) /\ Cardinality(S) \in 0..n
  <2>1. IsFiniteSet(1..n) /\ Cardinality(1..n) = n
    BY FS_Interval
  <2>2. IsFiniteSet(S) /\ Cardinality(S) <= n
    BY <2>1, FS_Subset
  <2>3. QED
    BY <2>2, FS_CardinalityType
<1>2. ASSUME NEW k \in S
      PROVE  IsFiniteSet(Up(k)) /\ Cardinality(Up(k)) \in 1..Cardinality(S)
  <2>1. IsFiniteSet(Up(k)) /\ Cardinality(Up(k)) <= Cardinality(S)
    BY <1>1, FS_Subset
  <2>2. Up(k) # {}
    OBVIOUS
  <2>3. QED
    BY <1>1, <2>1, <2>2, FS_EmptySet, FS_CardinalityType
<1>3. ASSUME NEW j \in S, NEW k \in S, j < k
      PROVE  Cardinality(Up(j)) < Cardinality(Up(k))
  <2>1. Up(j) \in SUBSET Up(k) /\ k \in Up(k) /\ k \notin Up(j)
    <3>1. j \in Int /\ k \in Int /\ S \subseteq Int
      BY <1>0
    <3>2. \A i \in S : i <= j => i <= k
      BY <3>1, <1>3
    <3>3. ~(k <= j) /\ k <= k
      BY <3>1, <1>3
    <3>4. QED
      BY <3>2, <3>3, Zenon
  <2>2. /\ Cardinality(Up(j)) <= Cardinality(Up(k))
        /\ Cardinality(Up(j)) # Cardinality(Up(k))
    BY <2>1, <1>2, FS_Subset
  <2>3. QED
    BY <2>2, <1>2
<1> HIDE DEF Up
<1>4. \A k \in S : R[k] = Cardinality(Up(k)) /\ Place(S, k) = Cardinality(Up(k))
  BY DEF Up, Place
<1>5. \A j, k \in S : R[j] = R[k] => j = k
  <2>1. SUFFICES ASSUME NEW j \in S, NEW k \in S, R[j] = R[k]
                 PROVE  j = k
    OBVIOUS
  <2>2. ~(j < k) /\ ~(k < j)
    BY <1>2, <1>3, <1>4, <2>1
  <2>3. QED
    BY <2>2, <1>0
<1>6. R \in Injection(S, 1..Cardinality(S))
  <2>1. R \in [S -> 1..Cardinality(S)]
    BY <1>2, <1>4
  <2>2. QED
    BY <2>1, <1>5 DEF Injection, IsInjective
<1>7. IsFiniteSet(1..Cardinality(S)) /\ Cardinality(1..Cardinality(S)) = Cardinality(S)
  BY <1>1, FS_Interval
<1>8. R \in Surjection(S, 1..Cardinality(S))
  BY <1>6, <1>7, FS_Injection
<1> HIDE DEF R
<1>9. \A m \in 1..Cardinality(S) : \E k \in S : R[k] = m
  BY <1>8 DEF Surjection
<1>10. QED
  BY <1>1, <1>2, <1>4, <1>5, <1>9

\* Distinct has every element of a sequence and no other.
LEMMA DistinctElements ==
  ASSUME NEW S, NEW s \in Seq(S)
  PROVE  /\ Distinct(s) \in Seq(S)
         /\ \A m \in 1..Len(Distinct(s)) : \E k \in 1..Len(s) : Distinct(s)[m] = s[k]
         /\ \A k \in 1..Len(s) : \E m \in 1..Len(Distinct(s)) : Distinct(s)[m] = s[k]
<1> DEFINE F == Firsts(s)
           N == Cardinality(F)
           at_(m) == CHOOSE k \in F : Place(F, k) = m
<1>1. Len(s) \in Nat /\ F \in SUBSET (1..Len(s))
  BY DEF Firsts
<1>2. /\ N \in 0..Len(s)
      /\ \A k \in F : Place(F, k) \in 1..N
      /\ \A j, k \in F : Place(F, j) = Place(F, k) => j = k
      /\ \A m \in 1..N : \E k \in F : Place(F, k) = m
  <2> HIDE DEF F
  <2>1. QED BY <1>1, Places
<1>3. Distinct(s) = [m \in 1..N |-> s[at_(m)]]
  BY DEF Distinct
<1> HIDE DEF F, N
<1>4. ASSUME NEW m \in 1..N PROVE at_(m) \in F /\ Place(F, at_(m)) = m
  BY <1>2
<1>5. ASSUME NEW k \in F PROVE at_(Place(F, k)) = k /\ Place(F, k) \in 1..N
  BY <1>2, <1>4
<1> HIDE DEF at_
<1>6. \A k \in 1..Len(s) : s[k] \in S
  BY ElementOfSeq
<1>7. Distinct(s) \in [1..N -> S]
  BY <1>1, <1>3, <1>4, <1>6
<1>8. Distinct(s) \in Seq(S) /\ Len(Distinct(s)) = N
  <2>1. N \in Nat
    BY <1>1, <1>2
  <2>2. QED BY <2>1, <1>7, FunctionIsSeq
<1>9. ASSUME NEW k \in 1..Len(s)
      PROVE  \E j \in F : s[j] = s[k]
  <2> DEFINE Same == {j \in 1..Len(s) : s[j] = s[k]}
  <2>1. Same \in SUBSET Nat /\ k \in Same
    OBVIOUS
  <2>2. PICK j \in Same : \A i \in Same : j <= i
    <3> HIDE DEF Same
    <3>1. QED BY <2>1, LeastNumber
  <2>3. j \in 1..Len(s) /\ s[j] = s[k]
    OBVIOUS
  <2>4. \A i \in 1..(j - 1) : s[i] # s[j]
    BY <1>1, <2>2, <2>3
  <2>5. j \in F
    BY <2>3, <2>4 DEF F, Firsts
  <2>6. QED BY <2>3, <2>5
<1>10. ASSUME NEW k \in 1..Len(s)
       PROVE  \E m \in 1..N : Distinct(s)[m] = s[k]
  <2>1. PICK j \in F : s[j] = s[k]
    BY <1>9
  <2>2. Place(F, j) \in 1..N /\ Distinct(s)[Place(F, j)] = s[j]
    BY <1>3, <1>5
  <2>3. QED BY <2>1, <2>2
<1>11. ASSUME NEW m \in 1..N
       PROVE  \E k \in 1..Len(s) : Distinct(s)[m] = s[k]
  BY <1>1, <1>3, <1>4
<1>12. QED BY <1>8, <1>10, <1>11

\* A scope opened at once.
LEMMA OpeningNow ==
  ASSUME NEW outer \in SUBSET DefineOp, NEW inner \in SUBSET DefineOp,
         NEW kind \in ScopeKinds, NEW after \in Seq(inner),
         NEW ops, ops = <<Push(kind)>> \o after
  PROVE  /\ Plan(ops, outer, kind, inner)
         /\ Pushing(ops) /\ ~Popping(ops) /\ ops # <<>>
<1>1. <<>> \in Seq(outer)
  OBVIOUS
<1>2. <<Push(kind)>> \in Seq(Op)
  BY PushPop DEF Op
<1>3. <<>> \o <<Push(kind)>> = <<Push(kind)>>
  BY <1>2, ConcatEmptySeq
<1>4. ops = <<>> \o <<Push(kind)>> \o after
  BY <1>3
<1>5. QED BY <1>1, <1>4, OpeningPlan

-----------------------------------------------------------------------------
(* What the handlers define, and what they report. *)

\* A variable may be declared in any scope but that of a type.
LEMMA VariableAllowed ==
  ASSUME phase' = "WALK",
         NEW here \in ScopeKinds \ {"TYPE_DECL"}, NEW n \in Names,
         NEW type \in Types, NEW q \in Qualifiers \cup {Unstated},
         q = "const" => MayBeConst(n)'
  PROVE  Variable(n, type, q) \in Allowed(here)'
<1> DEFINE d == Variable(n, type, q)
<1>1. /\ d.name = n /\ d.kind = "VARIABLE" /\ d.existing = FALSE
      /\ d.qualifier = q
      /\ d \in DefineOp
  BY DEF Variable, Definition, DefineOp, SymbolKinds, AllNames
<1> HIDE DEF d
<1>2. n \notin Members
  BY ScopeAssumption
<1>3. PermittedIn(here, d)
  BY <1>1, <1>2 DEF PermittedIn
<1>4. Meant(here, d)'
  BY <1>1, <1>2 DEF Meant, Callables
<1>5. QED BY <1>1, <1>3, <1>4 DEF Allowed, d

\* A declaration of the global scope, of a plain name.
LEMMA GlobalAllowed ==
  ASSUME NEW n \in Names, NEW kind \in PredeclaredKinds,
         \/ phase' = "WALK"
         \/ phase' = "PREDECLARE" /\ at' > 1 /\ (n = Items[at - 1].name)'
  PROVE  Definition(n, kind, FALSE, "unknown", Unstated) \in Allowed("GLOBAL")'
<1> DEFINE d == Definition(n, kind, FALSE, "unknown", Unstated)
<1>1. /\ d.name = n /\ d.kind = kind /\ d.existing = FALSE
      /\ d.qualifier = Unstated
      /\ d \in DefineOp
  BY DEF Definition, DefineOp, SymbolKinds, AllNames, PredeclaredKinds, Types
<1> HIDE DEF d
<1>2. n \notin Members
  BY ScopeAssumption
<1>3. PermittedIn("GLOBAL", d)
  BY <1>1, <1>2 DEF PermittedIn, ScopeKinds, PredeclaredKinds
<1>4. Meant("GLOBAL", d)'
  BY <1>1, <1>2 DEF Meant, Unstated
<1>5. QED BY <1>1, <1>3, <1>4 DEF Allowed, d

\* A function or method, in the global scope or reported.
LEMMA CallableAllowed ==
  ASSUME phase' = "WALK",
         NEW here \in ScopeKinds \ {"TYPE_DECL"}, NEW n \in Names,
         NEW kind \in Callables,
         here = "GLOBAL" \/ <<"NESTED_FUNCTION", n>> \in diags'
  PROVE  Definition(n, kind, FALSE, "unknown", Unstated) \in Allowed(here)'
<1> DEFINE d == Definition(n, kind, FALSE, "unknown", Unstated)
<1>1. /\ d.name = n /\ d.kind = kind /\ d.existing = FALSE
      /\ d.qualifier = Unstated
      /\ d \in DefineOp
  BY DEF Definition, DefineOp, SymbolKinds, AllNames, Callables, Types
<1> HIDE DEF d
<1>2. n \notin Members
  BY ScopeAssumption
<1>3. PermittedIn(here, d)
  BY <1>1, <1>2 DEF PermittedIn, Callables
<1>4. Meant(here, d)'
  BY <1>1, <1>2 DEF Meant, Unstated
<1>5. QED BY <1>1, <1>3, <1>4 DEF Allowed, d

\* The members of an enum are defined in the global scope.
LEMMA MembersAllowed ==
  ASSUME program \in Programs, NEW i \in 1..Len(Items), Items[i].node = "ENUM",
         \/ phase' = "WALK"
         \/ phase' = "PREDECLARE" /\ at' > 1,
         program' = program
  PROVE  MemberDefinitions(Items[i]) \in Seq(Allowed("GLOBAL")')
<1> DEFINE item == Items[i]
           members == Distinct(item.parts)
           member(j) == Definition(<<item.name, members[j]>>, "ENUM_MEMBER", TRUE,
                                   "unknown", "const")
<1>1. /\ item.parts \in Seq(Names)
      /\ \A j \in 1..Len(item.parts) : <<item.name, item.parts[j]>> \in Members
  BY ProgramFacts
<1>2. /\ members \in Seq(Names)
      /\ \A m \in 1..Len(members) : \E k \in 1..Len(item.parts) :
           members[m] = item.parts[k]
  BY <1>1, DistinctElements
<1>3. ASSUME NEW j \in 1..Len(members) PROVE member(j) \in Allowed("GLOBAL")'
  <2>1. <<item.name, members[j]>> \in Members
    BY <1>1, <1>2
  <2>2. PICK n : n = <<item.name, members[j]>>
    OBVIOUS
  <2>3. n \in Members /\ n \notin Names
    BY <2>1, <2>2, ScopeAssumption
  <2> DEFINE d == Definition(n, "ENUM_MEMBER", TRUE, "unknown", "const")
  <2>4. /\ d.name = n /\ d.kind = "ENUM_MEMBER" /\ d.existing = TRUE
        /\ d.qualifier = "const"
        /\ d \in DefineOp
    BY <2>3 DEF Definition, DefineOp, SymbolKinds, AllNames, Types, Qualifiers
  <2> HIDE DEF d
  <2>5. PermittedIn("GLOBAL", d)
    BY <2>3, <2>4 DEF PermittedIn, ScopeKinds
  <2>6. MayBeConst(n)'
    <3>1. n \notin program'.reassigned
      BY <2>3, ProgramFacts
    <3>2. QED BY <3>1 DEF MayBeConst
  <2>7. Meant("GLOBAL", d)'
    BY <2>3, <2>4, <2>6 DEF Meant, Callables
  <2>8. d \in Allowed("GLOBAL")'
    BY <2>4, <2>5, <2>7 DEF Allowed
  <2>9. QED BY <2>2, <2>8 DEF d
<1>4. Len(members) \in Nat
  BY <1>2
<1>5. MemberDefinitions(item) = [j \in 1..Len(members) |-> member(j)]
  BY DEF MemberDefinitions
<1> HIDE DEF members, member
<1>6. MemberDefinitions(item) \in [1..Len(members) -> Allowed("GLOBAL")']
  BY <1>3, <1>5
<1>7. QED BY <1>4, <1>6, FunctionIsSeq

\* The fields of a type are defined in its scope, while the type is visited.
LEMMA FieldsAllowed ==
  ASSUME program \in Programs, NEW i \in 1..Len(Items), Items[i].node = "TYPE",
         phase' = "WALK", program' = program, at' = i + 1
  PROVE  Fields(Items[i]) \in Seq(Allowed("TYPE_DECL")')
<1> DEFINE item == Items[i]
           n == Len(item.parts)
<1>1. /\ item.parts \in Seq(Names) /\ item.name \in Names /\ n \in Nat
      /\ \A j \in 1..n : item.parts[j] \in Names
                         /\ <<item.name, item.parts[j]>> \in Members
  <2>1. /\ item.parts \in Seq(Names) /\ item.name \in Names
        /\ \A j \in 1..n : <<item.name, item.parts[j]>> \in Members
    BY ProgramFacts
  <2>2. n \in Nat /\ \A j \in 1..n : item.parts[j] \in Names
    BY <2>1, ElementOfSeq
  <2>3. QED BY <2>1, <2>2
<1>2. at' > 1 /\ at' - 1 = i
  BY ProgramFacts
<1>3. (Items[at - 1])' = item
  BY <1>2 DEF Items
<1>4. ASSUME NEW j \in 1..n
      PROVE  /\ FieldDefinitions(item, j)[1] \in Allowed("TYPE_DECL")'
             /\ FieldDefinitions(item, j)[2] \in Allowed("TYPE_DECL")'
  <2>1. PICK part, m : part = item.parts[j] /\ m = <<item.name, part>>
    OBVIOUS
  <2>2. part \in Names /\ part \notin Members /\ m \in Members /\ m \notin Names
    BY <2>1, <1>1, ScopeAssumption
  <2> DEFINE c == Definition(part, "FIELD", FALSE, "unknown", "series")
             d == Definition(m, "FIELD", TRUE, "unknown", "series")
  <2>3. FieldDefinitions(item, j) = <<c, d>>
    BY <2>1 DEF FieldDefinitions
  <2>4. /\ c.name = part /\ c.kind = "FIELD" /\ c.existing = FALSE
        /\ c.qualifier = "series"
        /\ c \in DefineOp
    BY <2>2 DEF Definition, DefineOp, SymbolKinds, AllNames, Types, Qualifiers
  <2>5. /\ d.name = m /\ d.kind = "FIELD" /\ d.existing = TRUE
        /\ d.qualifier = "series"
        /\ d \in DefineOp
    BY <2>2 DEF Definition, DefineOp, SymbolKinds, AllNames, Types, Qualifiers
  <2> HIDE DEF c, d
  <2>6. PermittedIn("TYPE_DECL", c) /\ PermittedIn("TYPE_DECL", d)
    BY <2>2, <2>4, <2>5 DEF PermittedIn, ScopeKinds
  <2>7. Meant("TYPE_DECL", c)'
    BY <2>2, <2>4 DEF Meant, Callables
  <2>8. Meant("TYPE_DECL", d)'
    <3>1. \E p \in Names : m = <<(Items[at - 1])'.name, p>>
      BY <1>3, <2>1, <2>2
    <3>2. (Items[at - 1])'.node = "TYPE"
      BY <1>3
    <3> HIDE DEF item
    <3>3. QED BY <3>1, <3>2, <1>2, <2>2, <2>5 DEF Meant, Callables
  <2>9. c \in Allowed("TYPE_DECL")' /\ d \in Allowed("TYPE_DECL")'
    BY <2>4, <2>5, <2>6, <2>7, <2>8 DEF Allowed
  <2>10. QED BY <2>3, <2>9
<1> HIDE DEF item, n
<1>5. ASSUME NEW k \in 1..(2 * n)
      PROVE  FieldDefinitions(item, (k + 1) \div 2)[2 - (k % 2)]
               \in Allowed("TYPE_DECL")'
  <2>1. n \in Nat
    BY <1>1
  <2>2. (k + 1) \div 2 \in 1..n /\ 2 - (k % 2) \in {1, 2}
    BY <2>1
  <2>3. QED BY <2>2, <1>4
<1>6. Fields(item) = [k \in 1..(2 * n) |->
                        FieldDefinitions(item, (k + 1) \div 2)[2 - (k % 2)]]
  BY DEF Fields, n
<1>7. Fields(item) \in [1..(2 * n) -> Allowed("TYPE_DECL")']
  BY <1>5, <1>6
<1>8. 2 * n \in Nat
  BY <1>1
<1>9. QED BY <1>7, <1>8, FunctionIsSeq DEF item

\* The parameters of a function or method are variables.
LEMMA ParametersAllowed ==
  ASSUME phase' = "WALK", NEW here \in ScopeKinds \ {"TYPE_DECL"},
         NEW item, item.parts \in Seq(Names)
  PROVE  Parameters(item) \in Seq(Allowed(here)')
<1> DEFINE n == Len(item.parts)
<1>1. n \in Nat /\ \A j \in 1..n : item.parts[j] \in Names
  BY ElementOfSeq
<1>2. ASSUME NEW j \in 1..n
      PROVE  Parameters(item)[j] \in Allowed(here)'
  <2>1. PICK q : q = IF item.node = "METHOD" /\ item.receiver # Unstated /\ j = 1
                     THEN "series" ELSE Unstated
    OBVIOUS
  <2>2. Parameters(item)[j] = Variable(item.parts[j], "unknown", q)
    BY <2>1 DEF Parameters
  <2>3. q \in Qualifiers \cup {Unstated} /\ q # "const" /\ "unknown" \in Types
    BY <2>1 DEF Qualifiers, Unstated, Types
  <2>4. QED BY <1>1, <2>2, <2>3, VariableAllowed
<1>3. Parameters(item) \in [1..n -> Allowed(here)']
  BY <1>2 DEF Parameters
<1>4. QED BY <1>1, <1>3, FunctionIsSeq

\* The targets of a tuple or a loop are variables, or blank.
LEMMA TargetAllowed ==
  ASSUME phase' = "WALK", NEW here \in ScopeKinds \ {"TYPE_DECL"},
         NEW n \in Names \cup {Unstated}
  PROVE  Target(n) \in Seq(Allowed(here)')
<1>1. CASE n = Unstated
  BY <1>1 DEF Target
<1>2. CASE n # Unstated
  <2>1. n \in Names /\ "unknown" \in Types
        /\ "series" \in Qualifiers \cup {Unstated} /\ "series" # "const"
    BY <1>2 DEF Types, Qualifiers
  <2>2. Variable(n, "unknown", "series") \in Allowed(here)'
    BY <2>1, VariableAllowed
  <2>3. QED BY <1>2, <2>2 DEF Target
<1>3. QED BY <1>1, <1>2

\* What is issued under one code is not issued under another.
Without(code, found) == \A n : <<code, n>> \notin found

LEMMA WithoutWhen ==
  ASSUME NEW condition, NEW code, NEW subject, NEW other, code # other
  PROVE  Without(other, When(condition, code, subject))
BY DEF Without, When

LEMMA WithoutMore ==
  ASSUME NEW code, NEW S, NEW T
  PROVE  Without(code, S \cup T) <=> Without(code, S) /\ Without(code, T)
BY DEF Without

-----------------------------------------------------------------------------
(* Statements that open no scope keep the invariant of the walk. *)

\* What an export or an assignment is refused for stays as it was.
Unrefused(found) ==
  /\ scriptType = "library" => Without("EXPORT_NOT_LIBRARY", found)
  /\ \A n \in Names \ ConstBuiltins :
       "const" \notin WrittenQualifiers => <<"CONST_REASSIGNMENT", n>> \notin found

LEMMA QuietKeeps ==
  ASSUME IInv, Walking, Idle, Quietly,
         todo' \in Seq(Allowed(ScopeAt(Len(stack)))'),
         NEW found, Issue(found), Unrefused(found),
         scriptType' \in ScriptTypes \cup {Unstated}, declarations' \in 0..2,
         \/ UNCHANGED <<scriptType, declarations>>
         \/ declarations' = 2
         \/ program.script = Unstated
  PROVE  Walking'
<1>1. /\ UNCHANGED <<scopes, stack, flat, history, nextId, redeclared>>
      /\ UNCHANGED <<attr, params, predeclared, program, phase, at, loopDepth,
                     localDepth, functionDepth, staticBounds, frames>>
  BY DEF Quietly, scopeVars, tableVars, passVars, depthVars
<1>2. diags' = diags \cup found /\ phase = "WALK" /\ todo = <<>>
  BY DEF Issue, Idle
<1>3. ~Pushing(todo) /\ ~Popping(todo)
  BY <1>2, EmptyPlan
<1>4. /\ Plan(todo', Allowed(ScopeAt(Len(stack)))', ScopeAt(Len(stack) + 1)',
              Allowed(ScopeAt(Len(stack) + 1))')
      /\ ~Pushing(todo') /\ ~Popping(todo')
  <2>1. PICK ops, outer, kind, inner :
          /\ ops = todo' /\ outer = Allowed(ScopeAt(Len(stack)))'
          /\ kind = ScopeAt(Len(stack) + 1)'
          /\ inner = Allowed(ScopeAt(Len(stack) + 1))'
    OBVIOUS
  <2>2. outer = Allowed(ScopeAt(Len(stack)))'
    BY <2>1
  <2>3. outer \in SUBSET DefineOp
    BY <2>2 DEF Allowed
  <2>4. ScopeAt(Len(stack))' = ScopeAt(Len(stack))
    BY <1>1 DEF ScopeAt
  <2>5. ops \in Seq(outer)
    BY <2>1, <2>2, <2>4
  <2>6. Plan(ops, outer, kind, inner) /\ ~Pushing(ops) /\ ~Popping(ops)
    BY <2>3, <2>5, PlainPlan
  <2>7. QED BY <2>1, <2>2, <2>6
<1>5. Orderly'
  BY <1>4 DEF Orderly
<1>6. Following'
  <2>1. Opening = 0 /\ Opening' = 0 /\ Closing = 0 /\ Closing' = 0
    BY <1>3, <1>4 DEF Opening, Closing
  <2>2. \A i : ScopeAt(i)' = ScopeAt(i)
    BY <1>1, ScopeAtKept
  <2>3. Len(stack) + Opening = Len(frames) + 1 + Closing
    BY <1>2 DEF Walking, Following
  <2>4. Len(stack') + Opening' = Len(frames') + 1 + Closing'
    BY <2>1, <2>3, <1>1
  <2>5. \A i \in 1..Len(stack') : scopes'[stack'[i].id] = ScopeAt(i)'
    BY <2>2, <1>1 DEF Walking, Following
  <2>6. QED
    BY <1>1, <1>2, <1>4, <2>4, <2>5 DEF Walking, Following
<1>7. Typed' /\ TablesAgree'
  BY <1>1 DEF Walking, Typed, Items, TablesAgree, Stands
<1>8. Counting' /\ NestedCallablesReported'
  BY <1>1, <1>2 DEF Walking, Counting, NestedCallablesReported, Running
<1>9. Policing'
  <2>1. Policing
    BY DEF Walking
  <2>2. phase' = "WALK" /\ program' = program /\ at' = at
    BY <1>1, <1>2
  <2>3. \A n : Refused(n) => Refused(n)'
    BY <1>2 DEF Refused
  <2>4. program.script = Unstated => <<"MISSING_DECLARATION", Unstated>> \in diags'
    BY <1>2, <2>1 DEF Policing
  <2>5. program.script # Unstated => declarations' \in {1, 2}
    BY <1>2, <2>1 DEF Policing
  <2>6. WellStated' => WellStated /\ scriptType' = scriptType
    BY <2>2 DEF WellStated
  <2>7. WellStated => scriptType = program.script
    BY <1>2, <2>1 DEF Policing
  <2>8. ASSUME WellStated', program'.script = "library", NEW n \in Names
        PROVE  ~Refused(n)'
    <3>1. scriptType = "library" /\ ~Refused(n)
      BY <1>2, <2>1, <2>2, <2>6, <2>7, <2>8 DEF Policing
    <3>2. QED BY <1>2, <3>1 DEF Refused, Unrefused, Without
  <2>9. ASSUME WellStated', program'.script # "library",
               NEW i \in 1..(at' - 1), Items'[i].exported, Items'[i].node # "IMPORT"
        PROVE  Refused(Items[i].name)'
    <3>1. Refused(Items[i].name)
      BY <1>2, <2>1, <2>2, <2>6, <2>9 DEF Policing, Items
    <3>2. QED BY <3>1, <1>2, <2>2 DEF Refused, Items
  <2>10. QED
    BY <2>2, <2>4, <2>5, <2>6, <2>7, <2>8, <2>9 DEF Policing
<1>10. ConstantsKept'
  <2>1. AssignedVariablesNotConst'
    BY <1>1, <1>2 DEF Walking, ConstantsKept, AssignedVariablesNotConst,
                      ConstBuiltins, Unrefused
  <2>2. QED
    BY <1>1, <2>1 DEF Walking, ConstantsKept, MayBeConst, ConstBuiltins
<1>11. QED
  BY <1>5, <1>6, <1>7, <1>8, <1>9, <1>10 DEF Walking

\* The symbol a name has in the dictionary is in the table, with its type and
\* a qualifier it may have.
LEMMA SymbolOfName ==
  ASSUME IInv, Walking, NEW n \in Names, flat[n].id # 0
  PROVE  /\ attr[flat[n].id].type \in Types
         /\ attr[flat[n].id].qualifier \in Qualifiers \cup {Unstated}
         /\ attr[flat[n].id].qualifier = "const" => MayBeConst(n)
<1>1. Stands(n, flat[n]) /\ attr \in Seq(Attribute)
  BY DEF Walking, TablesAgree, Typed, AllNames
<1>2. flat[n].id \in 1..Len(attr) /\ attr[flat[n].id].name = n
  BY <1>1 DEF Stands
<1>3. attr[flat[n].id] \in Attribute
  BY <1>1, <1>2, ElementOfSeq
<1>4. attr[flat[n].id].qualifier = "const" => MayBeConst(attr[flat[n].id].name)
  BY <1>2 DEF Walking, ConstantsKept
<1>5. QED BY <1>2, <1>3, <1>4 DEF Attribute

LEMMA InferredTypes ==
  ASSUME IInv, Walking, NEW e \in Expressions(Names)
  PROVE  InferType(e) \in Types
<1>1. CASE e \in Literals
  BY <1>1 DEF InferType, Literals, Types
<1>2. CASE e \notin Literals /\ flat[e].id = 0
  BY <1>2 DEF InferType, Types
<1>3. CASE e \notin Literals /\ flat[e].id # 0
  <2>1. e \in Names
    BY <1>3 DEF Expressions
  <2>2. QED BY <2>1, <1>3, SymbolOfName DEF InferType
<1>4. QED BY <1>1, <1>2, <1>3

\* No expression is refused for an export or an assignment.
LEMMA UnrefusedUnresolved ==
  ASSUME NEW e PROVE Unrefused(Unresolved(e))
BY DEF Unrefused, Without, Unresolved, When

\* Nor is anything but those two.
LEMMA UnrefusedWhen ==
  ASSUME NEW condition, NEW code, NEW subject,
         code \notin {"EXPORT_NOT_LIBRARY", "CONST_REASSIGNMENT"}
  PROVE  Unrefused(When(condition, code, subject))
BY DEF Unrefused, Without, When

LEMMA UnrefusedBoth ==
  ASSUME NEW S, NEW T, Unrefused(S), Unrefused(T)
  PROVE  Unrefused(S \cup T)
BY DEF Unrefused, Without

LEMMA UnrefusedNone == Unrefused({})
BY DEF Unrefused, Without

\* An export is refused only outside of a library.
LEMMA UnrefusedExport ==
  ASSUME NEW exported, NEW n PROVE Unrefused(ExportPolicy(exported, n))
BY DEF Unrefused, Without, ExportPolicy, When

\* Where a statement is, variables may be declared.
LEMMA StatementPlace ==
  ASSUME IInv, Walking, Idle, Quietly
  PROVE  /\ ScopeAt(Len(stack)) \in ScopeKinds \ {"TYPE_DECL"}
         /\ phase' = "WALK" /\ program' = program
         /\ Mentioned \subseteq Names /\ program.reassigned \subseteq Names
         /\ scriptType \in ScriptTypes \cup {Unstated} /\ declarations \in 0..2
<1>1. phase = "WALK" /\ todo = <<>> /\ program \in Programs
  BY DEF Idle, Walking, Typed
<1>2. ScopeAt(Len(stack)) \in ScopeKinds \ {"TYPE_DECL"}
  BY <1>1, IdleScopes
<1>3. Mentioned \subseteq Names /\ program.reassigned \subseteq Names
  BY <1>1, ProgramFacts
<1>4. phase' = phase /\ program' = program
  BY DEF Quietly, passVars
<1>5. QED BY <1>1, <1>2, <1>3, <1>4 DEF Walking, Typed

LEMMA VarDeclarationKeeps ==
  ASSUME IInv, Walking, VarDeclaration
  PROVE  Walking'
<1>1. Idle /\ Quietly /\ UNCHANGED <<scriptType, declarations>>
  BY DEF VarDeclaration, AtStatement, AtExpression, unitVars
<1>2. /\ ScopeAt(Len(stack)) \in ScopeKinds \ {"TYPE_DECL"}
      /\ phase' = "WALK" /\ program' = program
      /\ Mentioned \subseteq Names
      /\ scriptType \in ScriptTypes \cup {Unstated} /\ declarations \in 0..2
  BY <1>1, StatementPlace
<1> DEFINE typeOf(e, written) ==
             IF written = Unstated THEN InferType(e) ELSE written
           mismatch(e, written) ==
             When(~Assignable(typeOf(e, written), InferType(e)), "TYPE_MISMATCH", e)
           wider(n, e, qualifier) ==
             When(/\ qualifier # Unstated
                  /\ Rank(InferQualifier(e)) > Rank(qualifier),
                  "QUALIFIER_MISMATCH", n)
<1>3. PICK n \in Mentioned, e \in Expressions(Mentioned),
           written \in Literals \cup {Unstated},
           qualifier \in WrittenQualifiers \cup {Unstated}, exported \in BOOLEAN :
        /\ exported => frames = <<>>
        /\ LET type == IF written = Unstated THEN InferType(e) ELSE written
           IN  /\ todo' = <<Variable(n, type, IF qualifier = Unstated
                                              THEN InferredQualifier(n, e)
                                              ELSE qualifier)>>
               /\ Issue(ExportPolicy(exported, n) \cup Unresolved(e) \cup
                        When(~Assignable(type, InferType(e)), "TYPE_MISMATCH", e)
                        \cup wider(n, e, qualifier))
  BY Zenon DEF VarDeclaration
<1>4. PICK type : type = typeOf(e, written)
  OBVIOUS
<1>5. PICK q : q = IF qualifier = Unstated
                   THEN InferredQualifier(n, e) ELSE qualifier
  OBVIOUS
<1>6. n \in Names /\ e \in Expressions(Names)
  BY <1>2, <1>3 DEF Expressions
<1>7. type \in Types
  BY <1>3, <1>4, <1>6, InferredTypes DEF Literals, Types
<1>8. q \in Qualifiers \cup {Unstated} /\ (q = "const" => MayBeConst(n))
  <2>1. CASE qualifier = Unstated
    BY <1>5, <2>1 DEF InferredQualifier, Qualifiers, MayBeConst
  <2>2. CASE qualifier # Unstated
    BY <1>5, <1>3, <2>2, ProgramAssumption DEF MayBeConst
  <2>3. QED BY <2>1, <2>2
<1>9. q = "const" => MayBeConst(n)'
  BY <1>2, <1>8 DEF MayBeConst, ConstBuiltins
<1>10. Variable(n, type, q) \in Allowed(ScopeAt(Len(stack)))'
  <2>1. PICK here : here = ScopeAt(Len(stack))
    OBVIOUS
  <2>2. Variable(n, type, q) \in Allowed(here)'
    BY <2>1, <1>2, <1>6, <1>7, <1>8, <1>9, VariableAllowed
  <2>3. ScopeAt(Len(stack))' = ScopeAt(Len(stack))
    BY <1>1 DEF ScopeAt, Quietly, scopeVars
  <2>4. QED BY <2>1, <2>2, <2>3
<1>11. Unrefused(ExportPolicy(exported, n) \cup Unresolved(e) \cup
                mismatch(e, written) \cup wider(n, e, qualifier))
  <2>1. /\ Unrefused(ExportPolicy(exported, n)) /\ Unrefused(Unresolved(e))
        /\ Unrefused(mismatch(e, written)) /\ Unrefused(wider(n, e, qualifier))
    BY UnrefusedExport, UnrefusedUnresolved, UnrefusedWhen
  <2> HIDE DEF mismatch, wider
  <2>2. QED BY <2>1, UnrefusedBoth
<1>12. /\ todo' = <<Variable(n, type, q)>>
      /\ Issue(ExportPolicy(exported, n) \cup Unresolved(e) \cup
                mismatch(e, written) \cup wider(n, e, qualifier))
  BY <1>3, <1>4, <1>5
<1> HIDE DEF mismatch, wider, typeOf
<1>13. todo' \in Seq(Allowed(ScopeAt(Len(stack)))')
  BY <1>12, <1>10
<1>14. QED BY <1>1, <1>2, <1>12, <1>11, <1>13, QuietKeeps

LEMMA TupleDeclarationKeeps ==
  ASSUME IInv, Walking, TupleDeclaration
  PROVE  Walking'
<1>1. Idle /\ Quietly /\ UNCHANGED <<scriptType, declarations>> /\ diags' = diags
  BY DEF TupleDeclaration, AtStatement, AtExpression, unitVars
<1>2. /\ ScopeAt(Len(stack)) \in ScopeKinds \ {"TYPE_DECL"}
      /\ phase' = "WALK" /\ Mentioned \subseteq Names
      /\ scriptType \in ScriptTypes \cup {Unstated} /\ declarations \in 0..2
  BY <1>1, StatementPlace
<1>3. PICK first \in Mentioned \cup {Unstated}, second \in Mentioned \cup {Unstated} :
        todo' = Target(first) \o Target(second)
  BY DEF TupleDeclaration
<1>4. todo' \in Seq(Allowed(ScopeAt(Len(stack)))')
  <2>1. PICK here : here = ScopeAt(Len(stack))
    OBVIOUS
  <2>2. first \in Names \cup {Unstated} /\ second \in Names \cup {Unstated}
    BY <1>2
  <2>3. /\ Target(first) \in Seq(Allowed(here)')
        /\ Target(second) \in Seq(Allowed(here)')
    BY <2>1, <2>2, <1>2, TargetAllowed
  <2>4. ScopeAt(Len(stack))' = ScopeAt(Len(stack))
    BY <1>1 DEF ScopeAt, Quietly, scopeVars
  <2>5. Target(first) \o Target(second) \in Seq(Allowed(here)')
    BY <2>3, ConcatProperties
  <2>6. QED BY <2>1, <2>4, <2>5, <1>3
<1>5. Issue({}) /\ Unrefused({})
  BY <1>1, UnrefusedNone DEF Issue
<1>6. QED BY <1>1, <1>2, <1>4, <1>5, QuietKeeps

\* Statements that define nothing.
LEMMA SilentKeeps ==
  ASSUME IInv, Walking, Idle, Quietly, todo' = todo,
         NEW found, Issue(found), Unrefused(found),
         scriptType' \in ScriptTypes \cup {Unstated}, declarations' \in 0..2,
         \/ UNCHANGED <<scriptType, declarations>>
         \/ declarations' = 2
         \/ program.script = Unstated
  PROVE  Walking'
<1>1. todo' = <<>>
  BY DEF Idle
<1>2. todo' \in Seq(Allowed(ScopeAt(Len(stack)))')
  BY <1>1
<1>3. QED BY <1>2, QuietKeeps

LEMMA ReassignmentKeeps ==
  ASSUME IInv, Walking, Reassignment
  PROVE  Walking'
<1>1. /\ Idle /\ Quietly /\ UNCHANGED <<scriptType, declarations>> /\ todo' = todo
  BY DEF Reassignment, AtStatement, AtExpression, unitVars
<1>2. /\ scriptType \in ScriptTypes \cup {Unstated} /\ declarations \in 0..2
      /\ program.reassigned \subseteq Names
  BY <1>1, StatementPlace
<1> DEFINE symbol(n) == Resolve(n)
           target(n) == attr[symbol(n).id]
           undeclared(n, compound) ==
             {<<IF compound THEN "COMPOUND_UNDECLARED" ELSE "REASSIGN_UNDECLARED", n>>}
           mismatch(n, e, compound) ==
             When(\/ compound /\ target(n).type = "string"
                  \/ ~Assignable(target(n).type, InferType(e)),
                  "TYPE_MISMATCH", e)
<1>3. PICK n \in program.reassigned, e \in Expressions(Mentioned),
           compound \in BOOLEAN :
        Issue(Unresolved(e) \cup
              IF symbol(n).id = 0 THEN undeclared(n, compound)
              ELSE IF target(n).qualifier = "const" THEN {<<"CONST_REASSIGNMENT", n>>}
              ELSE mismatch(n, e, compound))
  BY Zenon DEF Reassignment
<1>4. Unrefused(undeclared(n, compound)) /\ Unrefused(mismatch(n, e, compound))
  BY UnrefusedWhen DEF Unrefused, Without
<1>5. ASSUME symbol(n).id # 0, target(n).qualifier = "const"
      PROVE  Unrefused({<<"CONST_REASSIGNMENT", n>>})
  <2>1. n \in Names /\ n \in program.reassigned
    BY <1>2
  <2>2. flat[n].id # 0 /\ symbol(n) = flat[n]
    BY <1>5 DEF Resolve, NoSymbol
  <2>3. MayBeConst(n)
    BY <2>1, <2>2, <1>5, SymbolOfName
  <2>4. QED BY <2>1, <2>3 DEF Unrefused, Without, MayBeConst
<1> HIDE DEF symbol, target, undeclared, mismatch
<1>6. PICK found :
        /\ found = IF symbol(n).id = 0 THEN undeclared(n, compound)
                   ELSE IF target(n).qualifier = "const"
                   THEN {<<"CONST_REASSIGNMENT", n>>}
                   ELSE mismatch(n, e, compound)
  OBVIOUS
<1>7. Unrefused(found)
  BY <1>4, <1>5, <1>6
<1>8. Issue(Unresolved(e) \cup found) /\ Unrefused(Unresolved(e) \cup found)
  BY <1>3, <1>6, <1>7, UnrefusedUnresolved, UnrefusedBoth
<1>9. QED BY <1>1, <1>2, <1>8, SilentKeeps

LEMMA ExpressionKeeps ==
  ASSUME IInv, Walking, Use \/ Call \/ BreakOrContinue
  PROVE  Walking'
<1>1. /\ Idle /\ Quietly /\ UNCHANGED <<scriptType, declarations>> /\ todo' = todo
  BY DEF Use, Call, BreakOrContinue, AtStatement, AtExpression, unitVars
<1>2. scriptType \in ScriptTypes \cup {Unstated} /\ declarations \in 0..2
  BY <1>1, StatementPlace
<1>3. PICK found : Issue(found) /\ Unrefused(found)
  <2>1. CASE Use
    <3>1. PICK n \in Mentioned, history_ref \in BOOLEAN :
            Issue(Unresolved(n) \cup When(history_ref /\ LocalHistory(n),
                                          "HISTORY_LOCAL_SCOPE", n))
      BY <2>1, Zenon DEF Use
    <3>2. Unrefused(When(history_ref /\ LocalHistory(n), "HISTORY_LOCAL_SCOPE", n))
      BY UnrefusedWhen
    <3>3. QED BY <3>1, <3>2, UnrefusedUnresolved, UnrefusedBoth
  <2>2. CASE Call
    <3>1. PICK n \in Mentioned :
            Issue(Unresolved(n) \cup
                  When(Forbidden(n), "BUILTIN_FORBIDDEN_LOCAL", n))
      BY <2>2, Zenon DEF Call
    <3>2. Unrefused(When(Forbidden(n), "BUILTIN_FORBIDDEN_LOCAL", n))
      BY UnrefusedWhen
    <3>3. QED BY <3>1, <3>2, UnrefusedUnresolved, UnrefusedBoth
  <2>3. CASE BreakOrContinue
    <3>1. Issue(When(~BreakAllowed, "BREAK_CONTINUE_OUTSIDE_LOOP", Unstated))
      BY <2>3 DEF BreakOrContinue
    <3>2. QED BY <3>1, UnrefusedWhen
  <2>4. QED BY <2>1, <2>2, <2>3
<1>4. QED BY <1>1, <1>2, <1>3, SilentKeeps

\* A second declaration statement, or one where there should be none, leaves
\* the program no longer well stated.
LEMMA DeclarationStatementKeeps ==
  ASSUME IInv, Walking, DeclarationStatement
  PROVE  Walking'
<1>1. /\ Idle /\ Quietly /\ todo' = todo
      /\ Issue(When(localDepth > 0 \/ functionDepth > 0,
                    "DECLARATION_NOT_GLOBAL", Unstated))
      /\ scriptType' \in ScriptTypes
      /\ declarations' = IF declarations = 2 THEN 2 ELSE declarations + 1
  BY DEF DeclarationStatement, AtStatement, AtExpression
<1>2. /\ program.script # Unstated => declarations \in {1, 2}
      /\ declarations \in 0..2
  BY <1>1 DEF Idle, Walking, Policing, Typed
<1>3. /\ declarations' \in 0..2
      /\ declarations' = 2 \/ program.script = Unstated
  BY <1>1, <1>2
<1>4. Unrefused(When(localDepth > 0 \/ functionDepth > 0,
                     "DECLARATION_NOT_GLOBAL", Unstated))
  BY UnrefusedWhen
<1>5. QED BY <1>1, <1>3, <1>4, SilentKeeps

-----------------------------------------------------------------------------
(* Entering a function, method, block or loop. *)

\* One more, when the node is one of those counted.
One(node, nodes) == IF node \in nodes THEN 1 ELSE 0

LEMMA RunningFinite ==
  ASSUME frames \in Seq(Frame), NEW nodes
  PROVE  IsFiniteSet(Running(nodes)) /\ Cardinality(Running(nodes)) \in Nat
<1>1. Len(frames) \in Nat
  OBVIOUS
<1>2. Running(nodes) \subseteq 1..Len(frames)
  BY DEF Running
<1>3. IsFiniteSet(1..Len(frames))
  BY <1>1, FS_Interval
<1>4. IsFiniteSet(Running(nodes))
  BY <1>2, <1>3, FS_Subset
<1>5. QED BY <1>4, FS_CardinalityType

LEMMA EnterCounts ==
  ASSUME frames \in Seq(Frame), NEW f \in Frame, frames' = Append(frames, f),
         NEW nodes
  PROVE  /\ Cardinality(Running(nodes)') =
              Cardinality(Running(nodes)) + One(f.node, nodes)
         /\ Cardinality(Running(nodes)) \in Nat
<1>1. /\ Len(frames) \in Nat /\ Len(frames') = Len(frames) + 1
      /\ \A i \in 1..Len(frames) : frames'[i] = frames[i]
      /\ frames'[Len(frames) + 1] = f
  BY AppendProperties
<1>2. Running(nodes)' = {i \in 1..(Len(frames) + 1) : frames'[i].node \in nodes}
  BY <1>1 DEF Running
<1>3. \A i \in 1..(Len(frames) + 1) : i \in 1..Len(frames) \/ i = Len(frames) + 1
  BY <1>1
<1>4. \A i \in 1..Len(frames) : i \in 1..(Len(frames) + 1)
  BY <1>1
<1>5. Len(frames) + 1 \in 1..(Len(frames) + 1) /\ Len(frames) + 1 \notin 1..Len(frames)
  BY <1>1
<1>6. Running(nodes)' = IF f.node \in nodes
                        THEN Running(nodes) \cup {Len(frames) + 1}
                        ELSE Running(nodes)
  BY <1>1, <1>2, <1>3, <1>4, <1>5 DEF Running
<1>7. IsFiniteSet(Running(nodes)) /\ Cardinality(Running(nodes)) \in Nat
  BY RunningFinite
<1>8. Len(frames) + 1 \notin Running(nodes)
  BY <1>5 DEF Running
<1>9. CASE f.node \in nodes
  <2>1. Cardinality(Running(nodes) \cup {Len(frames) + 1}) =
          Cardinality(Running(nodes)) + 1
    BY <1>7, <1>8, FS_AddElement
  <2>2. QED BY <2>1, <1>6, <1>7, <1>9 DEF One
<1>10. CASE f.node \notin nodes
  BY <1>6, <1>7, <1>10 DEF One
<1>11. QED BY <1>7, <1>9, <1>10

LEMMA EnterKeeps ==
  ASSUME IInv, Walking, Idle,
         UNCHANGED <<scopeVars, tableVars, program, phase, unitVars>>,
         at' \in 1..(Len(Items) + 1),
         NEW f \in Frame, frames' = Append(frames, f),
         Plan(todo', Allowed(ScopeAt(Len(stack)))', ScopeOf(f.node),
              Allowed(ScopeOf(f.node))'),
         Pushing(todo'), ~Popping(todo'),
         loopDepth' = loopDepth + One(f.node, Loops),
         localDepth' = localDepth + One(f.node, Blocks),
         functionDepth' = functionDepth + One(f.node, {"FUNCTION"}),
         staticBounds' \in Seq(Bounds),
         Len(staticBounds') = Len(staticBounds) + One(f.node, {"FORRANGE"}),
         diags \subseteq diags',
         f.node \in Callables /\ frames # <<>> =>
           <<"NESTED_FUNCTION", f.name>> \in diags',
         Policing', AssignedVariablesNotConst'
  PROVE  Walking'
<1>1. /\ UNCHANGED <<scopes, stack, flat, history, nextId, redeclared>>
      /\ UNCHANGED <<attr, params, predeclared, program, phase, scriptType,
                     declarations>>
  BY DEF scopeVars, tableVars, unitVars
<1>2. phase = "WALK" /\ todo = <<>> /\ frames \in Seq(Frame) /\ Typed
  BY DEF Idle, Walking, Typed
<1>3. /\ Len(stack) = Len(frames) + 1
      /\ Len(stack) \in Nat \ {0} /\ Len(frames) \in Nat
      /\ stack # <<>>
  BY <1>2, IdleScopes
<1>4. /\ frames' \in Seq(Frame) /\ Len(frames') = Len(frames) + 1
      /\ \A i \in 1..Len(frames) : frames'[i] = frames[i]
      /\ frames'[Len(frames) + 1] = f
  BY <1>2, AppendProperties
<1>5. \A i \in 1..Len(stack) : ScopeAt(i)' = ScopeAt(i)
  <2>1. \A i \in 1..Len(stack) :
          i # 1 => i - 1 \in 1..Len(frames) /\ i - 1 <= Len(frames) /\ i # 0
                   /\ i - 1 <= Len(frames')
    BY <1>3, <1>4
  <2>2. QED BY <2>1, <1>4 DEF ScopeAt
<1>6. ScopeAt(Len(stack) + 1)' = ScopeOf(f.node)
  <2>1. /\ Len(stack) + 1 # 0 /\ Len(stack) + 1 # 1
        /\ (Len(stack) + 1) - 1 <= Len(frames')
        /\ (Len(stack) + 1) - 1 = Len(frames) + 1
    BY <1>3, <1>4
  <2>2. QED BY <2>1, <1>1, <1>4 DEF ScopeAt
<1>7. Orderly'
  <2>1. /\ Allowed(ScopeAt(Len(stack) + 1))' = Allowed(ScopeOf(f.node))'
        /\ Len(stack') = Len(stack)
    BY <1>1, <1>6 DEF Allowed, PermittedIn, Meant
  <2>2. QED BY <2>1, <1>6 DEF Orderly
<1>8. Following'
  <2>1. Opening' = 1 /\ Closing' = 0
    BY DEF Opening, Closing
  <2>2. Len(stack') + Opening' = Len(frames') + 1 + Closing'
    <3>1. Len(stack') = Len(frames) + 1
      BY <1>1, <1>3
    <3>2. QED BY <3>1, <2>1, <1>3, <1>4
  <2>3. \A i \in 1..Len(stack') : scopes'[stack'[i].id] = ScopeAt(i)'
    BY <1>1, <1>5 DEF Walking, Following
  <2>4. QED
    BY <1>1, <1>2, <2>2, <2>3 DEF Walking, Following
<1>9. Typed'
  <2>1. Items' = Items
    BY <1>1 DEF Items
  <2>2. QED BY <1>1, <1>2, <1>4, <2>1 DEF Typed
<1>10. TablesAgree'
  BY <1>1 DEF Walking, TablesAgree, Stands
<1>11. Counting'
  <2>1. \A nodes : /\ Cardinality(Running(nodes)') =
                        Cardinality(Running(nodes)) + One(f.node, nodes)
    BY <1>2, EnterCounts
  <2>2. Counting
    BY DEF Walking
  <2>3. /\ loopDepth' = Cardinality(Running(Loops)')
        /\ localDepth' = Cardinality(Running(Blocks)')
        /\ functionDepth' = Cardinality(Running({"FUNCTION"})')
        /\ Len(staticBounds') = Cardinality(Running({"FORRANGE"})')
    BY <2>1, <2>2 DEF Counting
  <2>4. QED BY <2>3 DEF Counting, Loops, Blocks
<1>12. NestedCallablesReported'
  <2>1. SUFFICES ASSUME NEW i \in 1..Len(frames'), frames'[i].node \in Callables, i > 1
                 PROVE  <<"NESTED_FUNCTION", frames'[i].name>> \in diags'
    BY DEF NestedCallablesReported, Running
  <2>2. CASE i \in 1..Len(frames)
    BY <2>1, <2>2, <1>4 DEF Walking, NestedCallablesReported, Running
  <2>3. CASE i = Len(frames) + 1
    <3>1. Len(frames) # 0
      BY <2>1, <2>3
    <3>2. frames # <<>>
      BY <3>1
    <3>3. QED BY <2>1, <2>3, <3>2, <1>4
  <2>4. i \in 1..(Len(frames) + 1) /\ Len(frames) \in Nat
    BY <1>3, <1>4
  <2>5. i \in 1..Len(frames) \/ i = Len(frames) + 1
    BY <2>4
  <2>6. QED BY <2>2, <2>3, <2>5
<1>13. ConstantsKept'
  BY <1>1 DEF Walking, ConstantsKept, MayBeConst, ConstBuiltins
<1>14. QED
  BY <1>7, <1>8, <1>9, <1>10, <1>11, <1>12, <1>13 DEF Walking

\* Reports that refuse no export and no assignment police as before.
LEMMA PolicingGrows ==
  ASSUME Walking, phase = "WALK",
         UNCHANGED <<program, phase, at, scriptType, declarations>>,
         NEW found, Issue(found), Unrefused(found)
  PROVE  Policing' /\ AssignedVariablesNotConst' /\ diags \subseteq diags'
<1>1. Policing /\ AssignedVariablesNotConst /\ diags' = diags \cup found
  BY DEF Walking, ConstantsKept, Issue
<1>2. \A n : Refused(n) => Refused(n)'
  BY <1>1 DEF Refused
<1>3. WellStated' <=> WellStated
  BY DEF WellStated
<1>4. ASSUME WellStated, program.script = "library", NEW n \in Names
      PROVE  ~Refused(n)'
  <2>1. scriptType = "library" /\ ~Refused(n)
    BY <1>1, <1>4 DEF Policing
  <2>2. QED BY <1>1, <2>1 DEF Refused, Unrefused, Without
<1>5. ASSUME WellStated, program.script # "library",
             NEW i \in 1..(at - 1), Items[i].exported, Items[i].node # "IMPORT"
      PROVE  Refused(Items[i].name)'
  <2>1. Refused(Items[i].name)
    BY <1>1, <1>5 DEF Policing
  <2>2. QED BY <2>1, <1>1 DEF Refused, Items
<1>6. Items' = Items
  BY DEF Items
<1>7. Policing'
  BY <1>1, <1>2, <1>3, <1>4, <1>5, <1>6 DEF Policing
<1>8. AssignedVariablesNotConst'
  BY <1>1 DEF AssignedVariablesNotConst, ConstBuiltins, Unrefused
<1>9. QED BY <1>1, <1>7, <1>8

\* Blocks and loops.
LEMMA OpenBlockKeeps ==
  ASSUME IInv, Walking, Idle,
         UNCHANGED <<scopeVars, tableVars, passVars, unitVars>>,
         NEW node \in Blocks, Enter(node, Unstated),
         NEW after, todo' = <<Push(ScopeOf(node))>> \o after,
         \A here \in ScopeKinds \ {"TYPE_DECL"} :
           after \in Seq(Allowed(here)'),
         loopDepth' = loopDepth + One(node, Loops),
         localDepth' = localDepth + 1,
         functionDepth' = functionDepth,
         staticBounds' \in Seq(Bounds),
         Len(staticBounds') = Len(staticBounds) + One(node, {"FORRANGE"}),
         NEW found, Issue(found), Unrefused(found)
  PROVE  Walking'
<1> DEFINE f == [node |-> node, name |-> Unstated]
<1>1. /\ f \in Frame /\ f.node = node
      /\ frames' = Append(frames, f)
  BY DEF Frame, Enter
<1>2. /\ node \notin Callables /\ One(node, Blocks) = 1
      /\ One(node, {"FUNCTION"}) = 0
  BY DEF Blocks, Callables, One
<1>3. /\ Walking /\ phase = "WALK" /\ at \in 1..(Len(Items) + 1)
      /\ UNCHANGED <<program, phase, at, scriptType, declarations>>
  BY DEF Idle, Walking, Typed, passVars, unitVars
<1>4. Policing' /\ AssignedVariablesNotConst' /\ diags \subseteq diags'
  BY <1>3, PolicingGrows
<1>5. ScopeOf(node) \in ScopeKinds \ {"TYPE_DECL"}
  BY ScopeKindsOfNodes
<1>6. /\ Plan(todo', Allowed(ScopeAt(Len(stack)))', ScopeOf(node),
              Allowed(ScopeOf(node))')
      /\ Pushing(todo') /\ ~Popping(todo')
  <2>1. PICK outer, inner, kind :
          /\ outer = Allowed(ScopeAt(Len(stack)))' /\ kind = ScopeOf(node)
          /\ inner = Allowed(ScopeOf(node))'
    OBVIOUS
  <2>2. outer \in SUBSET DefineOp /\ inner \in SUBSET DefineOp
    BY <2>1 DEF Allowed
  <2>3. kind \in ScopeKinds /\ after \in Seq(inner)
    BY <2>1, <1>5
  <2>4. PICK ops : ops = <<Push(kind)>> \o after
    OBVIOUS
  <2>5. Plan(ops, outer, kind, inner) /\ Pushing(ops) /\ ~Popping(ops)
    BY <2>2, <2>3, <2>4, OpeningNow
  <2>6. QED BY <2>1, <2>4, <2>5
<1>7. localDepth' = localDepth + One(node, Blocks)
  BY <1>2
<1>8. functionDepth' = functionDepth + One(node, {"FUNCTION"})
  <2>1. functionDepth \in Nat
    BY RunningFinite DEF Walking, Counting, Typed
  <2>2. QED BY <2>1, <1>2
<1> HIDE DEF f
<1>9. QED
  BY <1>1, <1>2, <1>3, <1>4, <1>6, <1>7, <1>8, EnterKeeps

LEMMA PairOfTwo ==
  ASSUME NEW a, NEW b
  PROVE  <<a, b>> = <<a>> \o <<b>>
<1> DEFINE S == {a, b}
<1>1. /\ <<a>> \in Seq(S) /\ <<b>> \in Seq(S) /\ <<a, b>> \in Seq(S)
      /\ Len(<<a>>) = 1 /\ Len(<<b>>) = 1 /\ Len(<<a, b>>) = 2
      /\ <<a>>[1] = a /\ <<b>>[1] = b /\ <<a, b>>[1] = a /\ <<a, b>>[2] = b
  OBVIOUS
<1> HIDE DEF S
<1>2. /\ <<a>> \o <<b>> \in Seq(S) /\ Len(<<a>> \o <<b>>) = 2
      /\ (<<a>> \o <<b>>)[1] = a /\ (<<a>> \o <<b>>)[2] = b
  BY <1>1, ConcatProperties
<1>3. \A i \in 1..2 : <<a, b>>[i] = (<<a>> \o <<b>>)[i]
  <2>1. \A i \in 1..2 : i = 1 \/ i = 2
    OBVIOUS
  <2>2. QED BY <2>1, <1>1, <1>2
<1>4. QED BY <1>1, <1>2, <1>3, SeqEqual

LEMMA StructureKeeps ==
  ASSUME IInv, Walking, OpenBlock \/ OpenWhile \/ OpenForRange \/ OpenForIn
  PROVE  Walking'
<1>1. /\ Idle /\ UNCHANGED <<scopeVars, tableVars, passVars, unitVars>>
      /\ functionDepth' = functionDepth
      /\ localDepth' = localDepth + 1
  BY DEF OpenBlock, OpenWhile, OpenForRange, OpenForIn, AtExpression
<1>2. /\ phase' = "WALK" /\ Mentioned \subseteq Names
      /\ staticBounds \in Seq(Bounds) /\ loopDepth \in Nat
      /\ Len(staticBounds) \in Nat
  <2>1. program \in Programs /\ staticBounds \in Seq(Bounds) /\ loopDepth \in Nat
    BY RunningFinite DEF Walking, Counting, Typed
  <2>2. QED BY <2>1, <1>1, ProgramFacts DEF Idle, passVars
<1>3. CASE OpenBlock
  <2>1. /\ Enter("BLOCK", Unstated) /\ todo' = <<Push(ScopeOf("BLOCK"))>> \o <<>>
        /\ loopDepth' = loopDepth + One("BLOCK", Loops)
        /\ staticBounds' \in Seq(Bounds)
        /\ Len(staticBounds') = Len(staticBounds) + One("BLOCK", {"FORRANGE"})
        /\ "BLOCK" \in Blocks
    BY <1>2, <1>3 DEF OpenBlock, ScopeOf, Callables, Loops, One, Blocks
  <2>2. \A here \in ScopeKinds \ {"TYPE_DECL"} : <<>> \in Seq(Allowed(here)')
    OBVIOUS
  <2>3. Issue({}) /\ Unrefused({})
    BY <1>3, UnrefusedNone DEF OpenBlock, Issue
  <2>4. QED BY <2>1, <2>2, <2>3, <1>1, OpenBlockKeeps
<1>4. CASE OpenWhile
  <2>1. /\ Enter("WHILE", Unstated) /\ todo' = <<Push(ScopeOf("WHILE"))>> \o <<>>
        /\ loopDepth' = loopDepth + One("WHILE", Loops)
        /\ staticBounds' \in Seq(Bounds)
        /\ Len(staticBounds') = Len(staticBounds) + One("WHILE", {"FORRANGE"})
        /\ "WHILE" \in Blocks
    BY <1>2, <1>4 DEF OpenWhile, ScopeOf, Callables, Loops, One, Blocks
  <2>2. \A here \in ScopeKinds \ {"TYPE_DECL"} : <<>> \in Seq(Allowed(here)')
    OBVIOUS
  <2>3. PICK literal_true \in BOOLEAN :
          Issue(When(literal_true, "INFINITE_WHILE_LITERAL", Unstated))
    BY <1>4 DEF OpenWhile
  <2>4. Unrefused(When(literal_true, "INFINITE_WHILE_LITERAL", Unstated))
    BY UnrefusedWhen
  <2>5. QED BY <2>1, <2>2, <2>3, <2>4, <1>1, OpenBlockKeeps
<1>5. CASE OpenForRange
  <2>1. PICK head \in Heads, variable \in Mentioned :
          /\ Issue(When(StaticBound(head) > LoopCeiling, "LOOP_ITERATION_OVERFLOW",
                        head)
                   \cup When(Explodes(staticBounds, StaticBound(head)),
                             "NESTED_LOOP_EXPLOSION", Unstated))
          /\ staticBounds' = Append(staticBounds, StaticBound(head))
          /\ todo' = <<Push("LOOP"), Variable(variable, "int", "series")>>
    BY <1>5, Zenon DEF OpenForRange
  <2>2. /\ Enter("FORRANGE", Unstated)
        /\ loopDepth' = loopDepth + One("FORRANGE", Loops)
        /\ "FORRANGE" \in Blocks
    BY <1>5 DEF OpenForRange, Loops, One, Blocks
  <2>3. todo' = <<Push(ScopeOf("FORRANGE"))>> \o
                  <<Variable(variable, "int", "series")>>
    <3>1. ScopeOf("FORRANGE") = "LOOP"
      BY DEF ScopeOf, Callables, Loops
    <3>2. \A a, b : <<a, b>> = <<a>> \o <<b>>
      BY PairOfTwo
    <3>3. QED BY <2>1, <3>1, <3>2
  <2>4. \A here \in ScopeKinds \ {"TYPE_DECL"} :
          <<Variable(variable, "int", "series")>> \in Seq(Allowed(here)')
    <3>1. SUFFICES ASSUME NEW here \in ScopeKinds \ {"TYPE_DECL"}
                   PROVE  Variable(variable, "int", "series") \in Allowed(here)'
      OBVIOUS
    <3>2. "int" \in Types /\ "series" \in Qualifiers \cup {Unstated}
          /\ "series" # "const" /\ variable \in Names
      BY <1>2 DEF Types, Qualifiers
    <3>3. QED BY <3>2, <1>2, VariableAllowed
  <2>5. /\ staticBounds' \in Seq(Bounds)
        /\ Len(staticBounds') = Len(staticBounds) + One("FORRANGE", {"FORRANGE"})
    <3>1. StaticBound(head) \in Bounds
      BY DEF Bounds
    <3>2. QED BY <3>1, <2>1, <1>2, AppendProperties DEF One
  <2>6. Unrefused(When(StaticBound(head) > LoopCeiling, "LOOP_ITERATION_OVERFLOW",
                       head)
                  \cup When(Explodes(staticBounds, StaticBound(head)),
                            "NESTED_LOOP_EXPLOSION", Unstated))
    <3>1. /\ Unrefused(When(StaticBound(head) > LoopCeiling,
                            "LOOP_ITERATION_OVERFLOW", head))
          /\ Unrefused(When(Explodes(staticBounds, StaticBound(head)),
                            "NESTED_LOOP_EXPLOSION", Unstated))
      BY UnrefusedWhen
    <3>2. QED BY <3>1, UnrefusedBoth
  <2>7. QED BY <2>1, <2>2, <2>3, <2>4, <2>5, <2>6, <1>1, OpenBlockKeeps
<1>6. CASE OpenForIn
  <2>1. PICK first \in Mentioned \cup {Unstated}, second \in Mentioned \cup {Unstated} :
          /\ Issue(When(first = second /\ first # Unstated, "REDECLARATION", first))
          /\ todo' = <<Push("LOOP")>> \o Target(first) \o Target(second)
    BY <1>6, Zenon DEF OpenForIn
  <2>2. /\ Enter("FORIN", Unstated)
        /\ loopDepth' = loopDepth + One("FORIN", Loops)
        /\ "FORIN" \in Blocks /\ ScopeOf("FORIN") = "LOOP"
        /\ staticBounds' \in Seq(Bounds)
        /\ Len(staticBounds') = Len(staticBounds) + One("FORIN", {"FORRANGE"})
    BY <1>2, <1>6 DEF OpenForIn, Loops, One, Blocks, ScopeOf, Callables
  <2>3. \A here \in ScopeKinds \ {"TYPE_DECL"} :
          /\ Target(first) \in Seq(Allowed(here)')
          /\ Target(second) \in Seq(Allowed(here)')
    <3>1. first \in Names \cup {Unstated} /\ second \in Names \cup {Unstated}
      BY <1>2
    <3>2. QED BY <3>1, <1>2, TargetAllowed
  <2>4. \A here \in ScopeKinds \ {"TYPE_DECL"} :
          Target(first) \o Target(second) \in Seq(Allowed(here)')
    BY <2>3, ConcatProperties
  <2>5. todo' = <<Push(ScopeOf("FORIN"))>> \o (Target(first) \o Target(second))
    <3>1. /\ <<Push("LOOP")>> \in Seq(Op)
          /\ Target(first) \in Seq(Op) /\ Target(second) \in Seq(Op)
      <4>1. "LOOP" \in ScopeKinds \ {"TYPE_DECL"}
        BY DEF ScopeKinds
      <4>2. Allowed("LOOP")' \subseteq Op
        BY DEF Allowed, Op
      <4>3. QED BY <4>1, <4>2, <2>3, PushPop DEF Op
    <3>2. <<Push("LOOP")>> \o (Target(first) \o Target(second)) =
            (<<Push("LOOP")>> \o Target(first)) \o Target(second)
      BY <3>1, ConcatAssociative
    <3>3. QED BY <3>2, <2>1, <2>2
  <2>6. Unrefused(When(first = second /\ first # Unstated, "REDECLARATION", first))
    BY UnrefusedWhen
  <2>7. QED BY <2>1, <2>2, <2>4, <2>5, <2>6, <1>1, OpenBlockKeeps
<1>7. QED BY <1>3, <1>4, <1>5, <1>6

\* What a callable is reported for, besides its export.
LEMMA CallableReports ==
  ASSUME NEW item
  PROVE  /\ Unrefused(Nested(item.name) \cup
                      IF item.node = "METHOD" THEN ReceiverChecked(item) ELSE {})
<1>1. Unrefused(Nested(item.name))
  BY UnrefusedWhen DEF Nested
<1>2. Unrefused(ReceiverChecked(item))
  <2>1. Unrefused({<<"METHOD_RECEIVER_REQUIRED", item.name>>})
    BY DEF Unrefused, Without
  <2>2. Unrefused(When(~Resolved(item.receiver), "METHOD_RECEIVER_TYPE_NOT_FOUND",
                       item.name))
    BY UnrefusedWhen
  <2>3. QED BY <2>1, <2>2 DEF ReceiverChecked
<1>3. QED BY <1>1, <1>2, UnrefusedBoth, UnrefusedNone

LEMMA CallableKeeps ==
  ASSUME IInv, Walking, Idle, NEW item, NEW known \in BOOLEAN,
         EnterCallable(item, known), UNCHANGED <<program, phase>>,
         at' \in 1..(Len(Items) + 1),
         item.node \in Callables, item.name \in Names, item.parts \in Seq(Names),
         frames = <<>> \/ Inner.node \in Blocks,
         Policing'
  PROVE  Walking'
<1> DEFINE f == [node |-> item.node, name |-> item.name]
           here == ScopeAt(Len(stack))
           own == IF known THEN <<>>
                  ELSE <<Definition(item.name, item.node, FALSE, "unknown", Unstated)>>
           found == ExportPolicy(item.exported, item.name) \cup Nested(item.name) \cup
                    IF item.node = "METHOD" THEN ReceiverChecked(item) ELSE {}
<1>1. /\ Issue(found)
      /\ todo' = own \o <<Push(item.node)>> \o Parameters(item)
      /\ functionDepth' = IF item.node = "FUNCTION" THEN functionDepth + 1
                          ELSE functionDepth
      /\ frames' = Append(frames, f)
      /\ UNCHANGED <<scopeVars, tableVars, unitVars>>
      /\ UNCHANGED <<loopDepth, localDepth, staticBounds>>
  BY DEF EnterCallable, Enter
<1>2. /\ phase = "WALK" /\ todo = <<>> /\ frames \in Seq(Frame)
      /\ staticBounds \in Seq(Bounds) /\ Counting /\ AssignedVariablesNotConst
  BY DEF Idle, Walking, Typed, ConstantsKept
<1>3. /\ f \in Frame /\ f.node = item.node /\ f.name = item.name
      /\ item.node \notin Loops /\ item.node \notin Blocks
      /\ item.node # "FORRANGE"
      /\ ScopeOf(item.node) = item.node
  BY DEF Frame, Loops, Blocks, Callables, ScopeOf
<1>4. /\ here \in ScopeKinds \ {"TYPE_DECL"} /\ Len(frames) \in Nat
      /\ frames = <<>> => here = "GLOBAL"
  BY <1>2, IdleScopes
<1>5. /\ localDepth \in Nat /\ loopDepth \in Nat /\ functionDepth \in Nat
      /\ Len(staticBounds) \in Nat
      /\ localDepth = Cardinality(Running(Blocks))
  BY <1>2, RunningFinite DEF Counting
<1>6. diags \subseteq diags' /\ diags' = diags \cup found
  BY <1>1 DEF Issue
<1>7. frames # <<>> => <<"NESTED_FUNCTION", item.name>> \in diags'
  <2>1. ASSUME frames # <<>> PROVE localDepth # 0
    <3>1. Len(frames) # 0 /\ Len(frames) \in 1..Len(frames)
      BY <2>1, <1>2, <1>4, EmptySeq
    <3>2. Len(frames) \in Running(Blocks)
      BY <2>1, <3>1 DEF Running, Inner
    <3>3. Running(Blocks) # {} /\ IsFiniteSet(Running(Blocks))
      BY <3>2, <1>2, RunningFinite
    <3>4. QED BY <3>3, <1>5, FS_EmptySet
  <2>2. localDepth # 0 => localDepth > 0
    BY <1>5
  <2>3. localDepth > 0 => <<"NESTED_FUNCTION", item.name>> \in Nested(item.name)
    BY DEF Nested, When
  <2>4. QED BY <2>1, <2>2, <2>3, <1>6
<1>8. AssignedVariablesNotConst'
  <2>1. \A n : /\ <<"CONST_REASSIGNMENT", n>> \notin
                     ExportPolicy(item.exported, item.name)
    BY DEF ExportPolicy, When
  <2>2. \A n \in Names \ ConstBuiltins : "const" \notin WrittenQualifiers =>
          <<"CONST_REASSIGNMENT", n>> \notin found
    BY <2>1, CallableReports DEF Unrefused
  <2> HIDE DEF found
  <2>3. QED
    BY <1>2, <1>6, <2>2 DEF AssignedVariablesNotConst, ConstBuiltins
<1> HIDE DEF found
<1>9. /\ Plan(todo', Allowed(ScopeAt(Len(stack)))', ScopeOf(f.node),
              Allowed(ScopeOf(f.node))')
      /\ Pushing(todo') /\ ~Popping(todo')
  <2>1. phase' = "WALK" /\ stack' = stack
    BY <1>1, <1>2 DEF scopeVars
  <2>2. ScopeAt(Len(stack))' = here
    <3>1. Len(stack) = Len(frames) + 1
      BY <1>2, IdleScopes
    <3>2. /\ Len(frames') = Len(frames) + 1
          /\ \A i \in 1..Len(frames) : frames'[i] = frames[i]
      BY <1>1, <1>2, <1>3, AppendProperties
    <3>3. \/ Len(stack) = 1
          \/ /\ Len(stack) - 1 \in 1..Len(frames)
             /\ Len(stack) - 1 <= Len(frames)
             /\ Len(stack) - 1 <= Len(frames')
             /\ Len(stack) # 1
      BY <1>4, <3>1, <3>2
    <3>4. QED BY <2>1, <3>2, <3>3 DEF ScopeAt
  <2>3. PICK outer, inner, kind :
          /\ outer = Allowed(here)' /\ kind = item.node
          /\ inner = Allowed(item.node)'
    OBVIOUS
  <2>4. outer \in SUBSET DefineOp /\ inner \in SUBSET DefineOp
    BY <2>3 DEF Allowed
  <2>5. kind \in ScopeKinds \ {"TYPE_DECL"}
    BY <2>3 DEF Callables, ScopeKinds
  <2>6. Parameters(item) \in Seq(inner)
    BY <2>1, <2>3, <2>5, ParametersAllowed
  <2>7. own \in Seq(outer)
    <3>1. here = "GLOBAL" \/ <<"NESTED_FUNCTION", item.name>> \in diags'
      BY <1>4, <1>7
    <3>2. PICK h : h = here
      OBVIOUS
    <3>3. Definition(item.name, item.node, FALSE, "unknown", Unstated) \in Allowed(h)'
      BY <2>1, <3>1, <3>2, <1>4, CallableAllowed
    <3>4. Definition(item.name, item.node, FALSE, "unknown", Unstated) \in outer
      BY <2>2, <2>3, <3>2, <3>3
    <3>5. \A d \in outer : <<d>> \in Seq(outer)
      OBVIOUS
    <3>6. <<>> \in Seq(outer)
      OBVIOUS
    <3>7. QED BY <3>4, <3>5, <3>6, Zenon
  <2>8. PICK ops : ops = own \o <<Push(kind)>> \o Parameters(item)
    OBVIOUS
  <2> HIDE DEF own
  <2>9. Plan(ops, outer, kind, inner) /\ Pushing(ops) /\ ~Popping(ops)
    BY <2>4, <2>5, <2>6, <2>7, <2>8, OpeningPlan
  <2>10. QED BY <2>2, <2>3, <2>8, <2>9, <1>1, <1>3
<1>10. /\ loopDepth' = loopDepth + One(f.node, Loops)
       /\ localDepth' = localDepth + One(f.node, Blocks)
       /\ functionDepth' = functionDepth + One(f.node, {"FUNCTION"})
       /\ staticBounds' \in Seq(Bounds)
       /\ Len(staticBounds') = Len(staticBounds) + One(f.node, {"FORRANGE"})
  <2>1. /\ One(f.node, Loops) = 0 /\ One(f.node, Blocks) = 0
        /\ One(f.node, {"FORRANGE"}) = 0
        /\ One(f.node, {"FUNCTION"}) = IF item.node = "FUNCTION" THEN 1 ELSE 0
    BY <1>3 DEF One
  <2>2. functionDepth' = functionDepth + One(f.node, {"FUNCTION"})
    BY <2>1, <1>1, <1>5
  <2>3. QED BY <2>1, <2>2, <1>1, <1>2, <1>5
<1>11. f.node \in Callables /\ frames # <<>> =>
         <<"NESTED_FUNCTION", f.name>> \in diags'
  BY <1>3, <1>7
<1> HIDE DEF f
<1>12. QED
  BY <1>1, <1>3, <1>6, <1>8, <1>9, <1>10, <1>11, EnterKeeps

LEMMA NestedCallableKeeps ==
  ASSUME IInv, Walking, NestedCallable
  PROVE  Walking'
<1>1. /\ Idle /\ frames # <<>> /\ Inner.node \in Blocks
      /\ UNCHANGED <<program, phase, at>>
  BY DEF NestedCallable, AtStatement, AtExpression, passVars
<1>2. /\ phase = "WALK" /\ at \in 1..(Len(Items) + 1) /\ program \in Programs
  BY <1>1 DEF Idle, Walking, Typed
<1>3. PICK item :
        /\ EnterCallable(item, FALSE)
        /\ item.node \in Callables /\ item.name \in Mentioned
        /\ item.parts \in Seq(Mentioned) /\ item.exported = FALSE
  <2>1. PICK n \in Mentioned, part \in Mentioned, receiver \in Mentioned \cup {Unstated},
             node \in {"FUNCTION", "METHOD"} :
          EnterCallable([node |-> node, name |-> n, parts |-> <<part>>,
                         receiver |-> receiver, exported |-> FALSE], FALSE)
    BY Zenon DEF NestedCallable
  <2> DEFINE item == [node |-> node, name |-> n, parts |-> <<part>>,
                      receiver |-> receiver, exported |-> FALSE]
  <2>2. /\ item.node = node /\ item.name = n /\ item.parts = <<part>>
        /\ item.exported = FALSE
    OBVIOUS
  <2>3. EnterCallable(item, FALSE)
    BY <2>1
  <2> HIDE DEF item
  <2>4. item.parts \in Seq(Mentioned) /\ item.node \in Callables
    BY <2>2 DEF Callables
  <2>5. QED BY <2>2, <2>3, <2>4
<1>4. item.name \in Names /\ item.parts \in Seq(Names)
  <2>1. Mentioned \subseteq Names
    BY <1>2, ProgramFacts
  <2>2. QED BY <2>1, <1>3
<1> DEFINE more == Nested(item.name) \cup
                   IF item.node = "METHOD" THEN ReceiverChecked(item) ELSE {}
<1>5. Unrefused(more)
  BY CallableReports
<1>6. Issue(ExportPolicy(item.exported, item.name) \cup more)
      /\ UNCHANGED <<scriptType, declarations>>
  BY <1>3 DEF EnterCallable, unitVars, Issue
<1>7. Unrefused(ExportPolicy(item.exported, item.name) \cup more)
  BY <1>5, UnrefusedExport, UnrefusedBoth
<1> HIDE DEF more
<1>8. Policing'
  BY <1>1, <1>2, <1>6, <1>7, PolicingGrows
<1>9. at' \in 1..(Len(Items) + 1)
  BY <1>1, <1>2
<1>10. QED BY <1>1, <1>3, <1>4, <1>8, <1>9, CallableKeeps

-----------------------------------------------------------------------------
(* The passes: registration, predeclaration and the top level of the walk. *)

LEMMA PassKeeps ==
  ASSUME IInv, Walking, todo = <<>>, phase # "DONE", frames = <<>>,
         UNCHANGED <<scopeVars, tableVars, program, depthVars, frames>>,
         phase' \in {"PREDECLARE", "WALK"},
         at' \in 1..(Len(Items) + 1),
         scriptType' \in ScriptTypes \cup {Unstated}, declarations' \in 0..2,
         Plan(todo', Allowed("GLOBAL")', "TYPE_DECL", Allowed("TYPE_DECL")'),
         Pushing(todo') <=> Popping(todo'),
         diags \subseteq diags', Policing', AssignedVariablesNotConst'
  PROVE  Walking'
<1>1. /\ UNCHANGED <<scopes, stack, flat, history, nextId, redeclared>>
      /\ UNCHANGED <<attr, params, predeclared, program, loopDepth, localDepth,
                     functionDepth, staticBounds, frames>>
  BY DEF scopeVars, tableVars, depthVars
<1>2. Len(stack) = 1 /\ stack # <<>> /\ Len(frames) = 0
  BY IdleScopes
<1>3. Orderly'
  <2>1. ScopeAt(Len(stack))' = "GLOBAL" /\ ScopeAt(Len(stack) + 1)' = "TYPE_DECL"
    <3>1. Len(stack') = 1 /\ 1 + 1 # 0 /\ 1 + 1 # 1 /\ ~((1 + 1) - 1 <= Len(frames'))
      BY <1>1, <1>2
    <3>2. QED BY <3>1 DEF ScopeAt
  <2>2. QED BY <2>1 DEF Orderly
<1>4. Following'
  <2>1. Opening' = Closing' /\ Opening' \in Nat
    BY DEF Opening, Closing
  <2>2. Len(stack') + Opening' = Len(frames') + 1 + Closing'
    BY <2>1, <1>1, <1>2
  <2>3. \A i : ScopeAt(i)' = ScopeAt(i)
    BY <1>1, ScopeAtKept
  <2>4. \A i \in 1..Len(stack') : scopes'[stack'[i].id] = ScopeAt(i)'
    BY <2>3, <1>1 DEF Walking, Following
  <2>5. QED BY <2>2, <2>4, <1>1, <1>2 DEF Walking, Following
<1>5. Typed' /\ TablesAgree'
  BY <1>1 DEF Walking, Typed, Items, TablesAgree, Stands
<1>6. Counting' /\ NestedCallablesReported'
  BY <1>1 DEF Walking, Counting, NestedCallablesReported, Running
<1>7. ConstantsKept'
  BY <1>1 DEF Walking, ConstantsKept, MayBeConst, ConstBuiltins
<1>8. QED
  BY <1>3, <1>4, <1>5, <1>6, <1>7 DEF Walking

\* Definitions of the global scope alone.
LEMMA GlobalPlan ==
  ASSUME todo' \in Seq(Allowed("GLOBAL")')
  PROVE  /\ Plan(todo', Allowed("GLOBAL")', "TYPE_DECL", Allowed("TYPE_DECL")')
         /\ Pushing(todo') <=> Popping(todo')
<1>1. PICK outer, ops, inner :
        outer = Allowed("GLOBAL")' /\ ops = todo' /\ inner = Allowed("TYPE_DECL")'
  OBVIOUS
<1>2. outer \in SUBSET DefineOp /\ ops \in Seq(outer)
  BY <1>1 DEF Allowed
<1>3. Plan(ops, outer, "TYPE_DECL", inner) /\ ~Pushing(ops) /\ ~Popping(ops)
  BY <1>2, PlainPlan
<1>4. QED BY <1>1, <1>3

LEMMA IndexDeclarationKeeps ==
  ASSUME IInv, Walking, IndexDeclaration
  PROVE  Walking'
<1>1. /\ todo = <<>> /\ phase = "BUILTINS" /\ phase' = "PREDECLARE" /\ todo' = todo
      /\ UNCHANGED <<scopeVars, tableVars, program, depthVars, frames>>
      /\ UNCHANGED <<program, at>>
      /\ scriptType' = program.script
      /\ declarations' = IF program.script = Unstated THEN 0 ELSE 1
      /\ Issue(When(program.script = Unstated, "MISSING_DECLARATION", Unstated))
  BY DEF IndexDeclaration
<1>2. /\ Typed /\ program \in Programs /\ frames = <<>> /\ diags = {}
      /\ at \in 1..(Len(Items) + 1)
  BY <1>1 DEF Walking, Typed, Following, Policing
<1>3. scriptType' \in ScriptTypes \cup {Unstated} /\ declarations' \in 0..2
  BY <1>1, <1>2, ProgramFacts
<1>4. diags' = When(program.script = Unstated, "MISSING_DECLARATION", Unstated)
  BY <1>1, <1>2 DEF Issue
<1>5. Policing'
  <2>1. \A n : ~Refused(n)'
    BY <1>4 DEF Refused, When
  <2>2. program.script = Unstated => <<"MISSING_DECLARATION", Unstated>> \in diags'
    BY <1>4 DEF When
  <2>3. QED BY <1>1, <2>1, <2>2 DEF Policing, WellStated
<1>6. AssignedVariablesNotConst'
  BY <1>4 DEF AssignedVariablesNotConst, When
<1>7. todo' \in Seq(Allowed("GLOBAL")')
  BY <1>1
<1>8. at' \in 1..(Len(Items) + 1) /\ diags \subseteq diags'
  BY <1>1, <1>2
<1>9. QED BY <1>1, <1>2, <1>3, <1>5, <1>6, <1>7, <1>8, GlobalPlan, PassKeeps

LEMMA StartWalkKeeps ==
  ASSUME IInv, Walking, StartWalk
  PROVE  Walking'
<1>1. /\ todo = <<>> /\ phase = "PREDECLARE" /\ phase' = "WALK" /\ todo' = todo
      /\ at' = 1 /\ diags' = diags
      /\ UNCHANGED <<scopeVars, tableVars, program, depthVars, frames>>
      /\ UNCHANGED <<scriptType, declarations>>
  BY DEF StartWalk, unitVars
<1>2. /\ program \in Programs /\ frames = <<>> /\ Policing
      /\ scriptType \in ScriptTypes \cup {Unstated} /\ declarations \in 0..2
      /\ AssignedVariablesNotConst
  BY <1>1 DEF Walking, Typed, Following, ConstantsKept
<1>3. Policing'
  <2>1. 1..(1 - 1) = {}
    OBVIOUS
  <2>2. \A n : Refused(n)' <=> Refused(n)
    BY <1>1 DEF Refused
  <2>3. WellStated' <=> WellStated
    BY <1>1 DEF WellStated
  <2>4. QED BY <1>1, <1>2, <2>1, <2>2, <2>3 DEF Policing
<1>4. AssignedVariablesNotConst'
  BY <1>1, <1>2 DEF AssignedVariablesNotConst, ConstBuiltins
<1>5. todo' \in Seq(Allowed("GLOBAL")')
  BY <1>1
<1>6. at' \in 1..(Len(Items) + 1) /\ diags \subseteq diags'
  <2>1. Len(Items) \in Nat
    BY <1>2, ProgramFacts
  <2>2. QED BY <2>1, <1>1
<1>7. QED BY <1>1, <1>2, <1>3, <1>4, <1>5, <1>6, GlobalPlan, PassKeeps

LEMMA PredeclareItemKeeps ==
  ASSUME IInv, Walking, PredeclareItem
  PROVE  Walking'
<1> DEFINE item == Items[at]
           one(kind) == <<Definition(item.name, kind, FALSE, "unknown", Unstated)>>
<1>1. /\ todo = <<>> /\ phase = "PREDECLARE" /\ phase' = phase /\ at' = at + 1
      /\ diags' = diags /\ at <= Len(Items)
      /\ UNCHANGED <<scopeVars, tableVars, program, depthVars, frames>>
      /\ UNCHANGED <<program, scriptType, declarations>>
  BY DEF PredeclareItem, unitVars
<1>2. todo' = CASE item.node = "STATEMENTS" -> <<>>
                [] item.node = "IMPORT" -> one("IMPORT_ALIAS")
                [] item.node = "ENUM" -> one("ENUM") \o MemberDefinitions(item)
                [] OTHER -> one(item.node)
  BY DEF PredeclareItem
<1>3. /\ program \in Programs /\ frames = <<>> /\ Policing
      /\ at \in 1..(Len(Items) + 1)
      /\ scriptType \in ScriptTypes \cup {Unstated} /\ declarations \in 0..2
      /\ AssignedVariablesNotConst
  BY <1>1 DEF Walking, Typed, Following, ConstantsKept
<1>4. /\ Len(Items) \in Nat
      /\ \A i \in 1..Len(Items) : Items[i].node \in ItemNodes /\ Items[i].name \in Names
  BY <1>3, ProgramFacts
<1>5. /\ at \in 1..Len(Items) /\ at' > 1 /\ at' - 1 = at
      /\ at' \in 1..(Len(Items) + 1)
  BY <1>1, <1>3, <1>4
<1>6. item.node \in ItemNodes /\ item.name \in Names
  BY <1>4, <1>5
<1>7. (Items[at - 1])' = item
  BY <1>1, <1>5 DEF Items
<1>8. ASSUME NEW kind \in PredeclaredKinds
      PROVE  one(kind) \in Seq(Allowed("GLOBAL")')
  <2>1. PICK n : n = item.name
    OBVIOUS
  <2>2. Definition(n, kind, FALSE, "unknown", Unstated) \in Allowed("GLOBAL")'
    <3>1. n \in Names /\ phase' = "PREDECLARE" /\ at' > 1 /\ (n = Items[at - 1].name)'
      BY <2>1, <1>1, <1>5, <1>6, <1>7
    <3>2. QED BY <3>1, GlobalAllowed
  <2>3. \A A : \A d \in A : <<d>> \in Seq(A)
    OBVIOUS
  <2>4. <<Definition(n, kind, FALSE, "unknown", Unstated)>> \in Seq(Allowed("GLOBAL")')
    BY <2>2, <2>3
  <2>5. QED BY <2>1, <2>4
<1>9. ASSUME item.node = "ENUM"
      PROVE  MemberDefinitions(item) \in Seq(Allowed("GLOBAL")')
  BY <1>1, <1>3, <1>5, <1>9, MembersAllowed
<1>10. todo' \in Seq(Allowed("GLOBAL")')
  <2>1. CASE item.node = "STATEMENTS"
    <3>1. todo' = <<>>
      BY <2>1, <1>2
    <3>2. QED BY <3>1
  <2>2. CASE item.node = "IMPORT"
    <3>1. todo' = one("IMPORT_ALIAS")
      BY <2>2, <1>2
    <3>2. QED BY <3>1, <1>8 DEF PredeclaredKinds
  <2>3. CASE item.node = "ENUM"
    <3>1. todo' = one("ENUM") \o MemberDefinitions(item)
      BY <2>3, <1>2
    <3>2. one("ENUM") \in Seq(Allowed("GLOBAL")')
      BY <1>8 DEF PredeclaredKinds
    <3> HIDE DEF one, item
    <3>3. QED BY <3>1, <3>2, <2>3, <1>9, ConcatProperties
  <2>4. CASE item.node \in {"FUNCTION", "METHOD", "TYPE"}
    <3>1. todo' = one(item.node)
      BY <2>4, <1>2
    <3>2. QED BY <3>1, <2>4, <1>8 DEF PredeclaredKinds
  <2>5. QED BY <2>1, <2>2, <2>3, <2>4, <1>6 DEF ItemNodes
<1>11. Policing'
  <2>1. \A n : Refused(n)' <=> Refused(n)
    BY <1>1 DEF Refused
  <2>2. WellStated' <=> WellStated
    BY <1>1 DEF WellStated
  <2>3. QED BY <1>1, <1>3, <2>1, <2>2 DEF Policing
<1>12. AssignedVariablesNotConst'
  BY <1>1, <1>3 DEF AssignedVariablesNotConst, ConstBuiltins
<1>13. phase # "DONE" /\ phase' \in {"PREDECLARE", "WALK"} /\ diags \subseteq diags'
  BY <1>1
<1> HIDE DEF item, one
<1>14. QED
  BY <1>1, <1>3, <1>5, <1>10, <1>11, <1>12, <1>13, GlobalPlan, PassKeeps

\* What an item is exported for is refused or not as the script has it.
LEMMA VisitPolices ==
  ASSUME Walking, phase = "WALK", at \in 1..Len(Items), at' = at + 1,
         UNCHANGED <<program, phase, scriptType, declarations>>,
         NEW found, Issue(found),
         scriptType = "library" => Without("EXPORT_NOT_LIBRARY", found),
         /\ Items[at].exported /\ Items[at].node # "IMPORT"
         /\ scriptType # "library"
         => <<"EXPORT_NOT_LIBRARY", Items[at].name>> \in found
  PROVE  Policing'
<1>1. Policing /\ diags' = diags \cup found /\ Items' = Items
  BY DEF Walking, Issue, Items
<1>2. \A n : Refused(n) => Refused(n)'
  BY <1>1 DEF Refused
<1>3. WellStated' <=> WellStated
  BY DEF WellStated
<1>4. ASSUME WellStated, program.script = "library", NEW n \in Names
      PROVE  ~Refused(n)'
  <2>1. scriptType = "library" /\ ~Refused(n)
    BY <1>1, <1>4 DEF Policing
  <2>2. QED BY <1>1, <2>1 DEF Refused, Without
<1>5. ASSUME WellStated, program.script # "library",
             NEW i \in 1..(at' - 1), Items[i].exported, Items[i].node # "IMPORT"
      PROVE  Refused(Items[i].name)'
  <2>1. scriptType = program.script
    BY <1>1, <1>5 DEF Policing
  <2>2. i \in 1..(at - 1) \/ i = at
    <3>1. at \in Nat
      OBVIOUS
    <3>2. QED BY <3>1
  <2>3. CASE i \in 1..(at - 1)
    <3>1. Refused(Items[i].name)
      BY <2>3, <1>1, <1>5 DEF Policing
    <3>2. QED BY <3>1, <1>1 DEF Refused, Items
  <2>4. CASE i = at
    <3>1. <<"EXPORT_NOT_LIBRARY", Items[i].name>> \in diags'
      BY <2>1, <2>4, <1>1, <1>5
    <3>2. QED BY <3>1 DEF Refused, Items
  <2>5. QED BY <2>2, <2>3, <2>4
<1>6. QED
  BY <1>1, <1>2, <1>3, <1>4, <1>5 DEF Policing

\* ExportPolicy does so.
LEMMA ExportPolices ==
  ASSUME NEW exported, NEW name
  PROVE  /\ scriptType = "library" =>
              Without("EXPORT_NOT_LIBRARY", ExportPolicy(exported, name))
         /\ exported /\ scriptType # "library" =>
              <<"EXPORT_NOT_LIBRARY", name>> \in ExportPolicy(exported, name)
BY DEF ExportPolicy, When, Without

\* Types, enums and imports.
LEMMA PlainPlans ==
  ASSUME Walking, phase' = "WALK", program' = program, at' = at + 1,
         at \in 1..Len(Items), Items[at].node \in {"TYPE", "ENUM", "IMPORT"},
         NEW known \in BOOLEAN, VisitPlain(Items[at], known)
  PROVE  /\ Plan(todo', Allowed("GLOBAL")', "TYPE_DECL", Allowed("TYPE_DECL")')
         /\ Pushing(todo') <=> Popping(todo')
<1> DEFINE item == Items[at]
           own(kind) ==
             IF known THEN <<>>
             ELSE <<Definition(item.name, kind, FALSE, "unknown", Unstated)>>
<1>1. todo' = CASE item.node = "IMPORT" -> own("IMPORT_ALIAS")
                [] item.node = "ENUM" -> own("ENUM") \o MemberDefinitions(item)
                [] item.node = "TYPE" ->
                     own("TYPE") \o <<Push("TYPE_DECL")>> \o Fields(item) \o <<Pop>>
  BY DEF VisitPlain
<1>2. program \in Programs
  BY DEF Walking, Typed
<1>3. item.name \in Names
  BY <1>2, ProgramFacts
<1>4. ASSUME NEW kind \in PredeclaredKinds
      PROVE  own(kind) \in Seq(Allowed("GLOBAL")')
  <2>1. PICK n : n = item.name
    OBVIOUS
  <2>2. Definition(n, kind, FALSE, "unknown", Unstated) \in Allowed("GLOBAL")'
    BY <2>1, <1>3, GlobalAllowed
  <2>3. \A A : <<>> \in Seq(A) /\ \A d \in A : <<d>> \in Seq(A)
    OBVIOUS
  <2>4. /\ <<Definition(n, kind, FALSE, "unknown", Unstated)>>
             \in Seq(Allowed("GLOBAL")')
        /\ <<>> \in Seq(Allowed("GLOBAL")')
    BY <2>2, <2>3
  <2>5. QED BY <2>1, <2>4, Zenon
<1> HIDE DEF item, own
<1>5. CASE item.node = "IMPORT"
  <2>1. todo' = own("IMPORT_ALIAS")
    BY <1>5, <1>1
  <2>2. QED BY <2>1, <1>4, GlobalPlan DEF PredeclaredKinds
<1>6. CASE item.node = "ENUM"
  <2>1. todo' = own("ENUM") \o MemberDefinitions(item)
    BY <1>6, <1>1
  <2>2. own("ENUM") \in Seq(Allowed("GLOBAL")')
    BY <1>4 DEF PredeclaredKinds
  <2>3. MemberDefinitions(item) \in Seq(Allowed("GLOBAL")')
    BY <1>2, <1>6, MembersAllowed DEF item
  <2>4. todo' \in Seq(Allowed("GLOBAL")')
    BY <2>1, <2>2, <2>3, ConcatProperties
  <2>5. QED BY <2>4, GlobalPlan
<1>7. CASE item.node = "TYPE"
  <2>1. todo' = own("TYPE") \o <<Push("TYPE_DECL")>> \o Fields(item) \o <<Pop>>
    BY <1>7, <1>1
  <2>2. PICK outer, inner :
          outer = Allowed("GLOBAL")' /\ inner = Allowed("TYPE_DECL")'
    OBVIOUS
  <2>3. own("TYPE") \in Seq(outer)
    BY <2>2, <1>4 DEF PredeclaredKinds
  <2>4. Fields(item) \in Seq(inner)
    BY <2>2, <1>2, <1>7, FieldsAllowed DEF item
  <2>5. outer \in SUBSET DefineOp /\ inner \in SUBSET DefineOp
    BY <2>2 DEF Allowed
  <2>6. PICK ops : ops = own("TYPE") \o <<Push("TYPE_DECL")>> \o Fields(item)
    OBVIOUS
  <2>7. "TYPE_DECL" \in ScopeKinds
    BY DEF ScopeKinds
  <2>8. Plan(ops, outer, "TYPE_DECL", inner) /\ Pushing(ops) /\ ~Popping(ops)
    BY <2>3, <2>4, <2>5, <2>6, <2>7, OpeningPlan
  <2>9. /\ Plan(ops \o <<Pop>>, outer, "TYPE_DECL", inner)
        /\ Pushing(ops \o <<Pop>>) /\ Popping(ops \o <<Pop>>)
    BY <2>5, <2>7, <2>8, BracketPlan
  <2>10. QED BY <2>1, <2>2, <2>6, <2>9
<1>8. QED BY <1>5, <1>6, <1>7 DEF item

LEMMA VisitItemKeeps ==
  ASSUME IInv, Walking, VisitItem
  PROVE  Walking'
<1> DEFINE item == Items[at]
           known == at \in predeclared
<1>1. /\ Idle /\ frames = <<>> /\ at <= Len(Items) /\ at' = at + 1
      /\ UNCHANGED <<program, phase>>
  BY DEF VisitItem
<1>2. \/ /\ item.node = "STATEMENTS"
         /\ UNCHANGED <<scopeVars, tableVars, depthVars, unitVars, frames, todo, diags>>
      \/ item.node \in {"FUNCTION", "METHOD"} /\ EnterCallable(item, known)
      \/ item.node \in {"TYPE", "ENUM", "IMPORT"} /\ VisitPlain(item, known)
  BY DEF VisitItem
<1>3. /\ phase = "WALK" /\ todo = <<>> /\ program \in Programs
      /\ at \in 1..(Len(Items) + 1)
      /\ scriptType \in ScriptTypes \cup {Unstated} /\ declarations \in 0..2
      /\ AssignedVariablesNotConst
  BY <1>1 DEF Idle, Walking, Typed, ConstantsKept
<1>4. /\ Len(Items) \in Nat
      /\ \A i \in 1..Len(Items) :
           /\ Items[i].name \in Names /\ Items[i].parts \in Seq(Names)
           /\ Items[i].node = "STATEMENTS" => ~Items[i].exported
  BY <1>3, ProgramFacts
<1>5. /\ at \in 1..Len(Items) /\ at' \in 1..(Len(Items) + 1)
  BY <1>1, <1>3, <1>4
<1>6. item.name \in Names /\ item.parts \in Seq(Names)
      /\ (item.node = "STATEMENTS" => ~item.exported)
  BY <1>4, <1>5
<1>7. phase # "DONE" /\ phase' \in {"PREDECLARE", "WALK"} /\ phase' = "WALK"
  BY <1>1, <1>3
<1>8. known \in BOOLEAN
  OBVIOUS
<1>9. CASE item.node = "STATEMENTS"
  <2>1. UNCHANGED <<scopeVars, tableVars, depthVars, unitVars, frames, todo, diags>>
    BY <1>2, <1>9
  <2>2. UNCHANGED <<scriptType, declarations>> /\ Issue({})
    BY <2>1 DEF unitVars, Issue
  <2>3. Without("EXPORT_NOT_LIBRARY", {})
    BY DEF Without
  <2>4. Policing'
    BY <2>2, <2>3, <1>1, <1>3, <1>5, <1>6, <1>9, VisitPolices
  <2>5. AssignedVariablesNotConst'
    BY <2>1, <1>1, <1>3 DEF AssignedVariablesNotConst, ConstBuiltins
  <2>6. todo' \in Seq(Allowed("GLOBAL")')
    BY <2>1, <1>3
  <2>7. diags \subseteq diags'
    BY <2>1
  <2>8. QED
    BY <2>1, <2>2, <2>4, <2>5, <2>6, <2>7, <1>1, <1>3, <1>5, <1>7, GlobalPlan,
       PassKeeps
<1>10. CASE item.node \in {"FUNCTION", "METHOD"}
  <2>1. EnterCallable(item, known)
    BY <1>2, <1>10
  <2> DEFINE more == Nested(item.name) \cup
                     IF item.node = "METHOD" THEN ReceiverChecked(item) ELSE {}
             found == ExportPolicy(item.exported, item.name) \cup more
  <2>2. Issue(found) /\ UNCHANGED <<scriptType, declarations>>
    BY <2>1 DEF EnterCallable, unitVars, Issue
  <2>3. Unrefused(more)
    BY CallableReports
  <2> HIDE DEF more
  <2>4. /\ scriptType = "library" => Without("EXPORT_NOT_LIBRARY", found)
        /\ item.exported /\ scriptType # "library" =>
             <<"EXPORT_NOT_LIBRARY", item.name>> \in found
    BY <2>3, ExportPolices, WithoutMore DEF Unrefused
  <2> HIDE DEF found
  <2>5. Policing'
    BY <2>2, <2>4, <1>1, <1>3, <1>5, VisitPolices
  <2>6. item.node \in Callables
    BY <1>10 DEF Callables
  <2> HIDE DEF item, known
  <2>7. QED
    BY <2>1, <2>5, <2>6, <1>1, <1>5, <1>6, <1>8, CallableKeeps
<1>11. CASE item.node \in {"TYPE", "ENUM", "IMPORT"}
  <2>1. VisitPlain(item, known)
    BY <1>2, <1>11
  <2> DEFINE duplicates == When(Duplicates(item.parts), "REDECLARATION", item.name)
             found == IF item.node = "IMPORT" THEN {}
                      ELSE ExportPolicy(item.exported, item.name) \cup duplicates
  <2>2. /\ Issue(found)
        /\ UNCHANGED <<scopeVars, tableVars, depthVars, unitVars, frames>>
    BY <2>1 DEF VisitPlain
  <2>3. UNCHANGED <<scriptType, declarations>> /\ diags' = diags \cup found
    BY <2>2 DEF unitVars, Issue
  <2>4. Unrefused(duplicates)
    BY UnrefusedWhen
  <2> HIDE DEF duplicates
  <2>5. /\ scriptType = "library" => Without("EXPORT_NOT_LIBRARY", found)
        /\ /\ item.exported /\ item.node # "IMPORT" /\ scriptType # "library"
           => <<"EXPORT_NOT_LIBRARY", item.name>> \in found
    <3>1. Without("EXPORT_NOT_LIBRARY", {})
      BY DEF Without
    <3>2. QED BY <3>1, <2>4, ExportPolices, WithoutMore DEF Unrefused
  <2>6. Unrefused(found)
    BY <2>4, UnrefusedNone, UnrefusedExport, UnrefusedBoth
  <2> HIDE DEF found
  <2>7. Policing'
    BY <2>2, <2>3, <2>5, <1>1, <1>3, <1>5, VisitPolices
  <2>8. AssignedVariablesNotConst'
    BY <2>3, <2>6, <1>1, <1>3 DEF AssignedVariablesNotConst, ConstBuiltins, Unrefused
  <2>9. /\ Plan(todo', Allowed("GLOBAL")', "TYPE_DECL", Allowed("TYPE_DECL")')
        /\ Pushing(todo') <=> Popping(todo')
    BY <2>1, <1>1, <1>5, <1>7, <1>8, <1>11, PlainPlans
  <2>10. diags \subseteq diags'
    BY <2>3
  <2> HIDE DEF item, known
  <2>11. QED
    BY <2>2, <2>3, <2>7, <2>8, <2>9, <2>10, <1>1, <1>3, <1>5, <1>7, PassKeeps
<1>12. QED BY <1>2, <1>9, <1>10, <1>11

-----------------------------------------------------------------------------
(* Leaving them. *)

LEMMA LeaveCounts ==
  ASSUME frames \in Seq(Frame), frames # <<>>, Leave, NEW nodes
  PROVE  /\ Cardinality(Running(nodes)') =
              Cardinality(Running(nodes)) - One(Inner.node, nodes)
         /\ Cardinality(Running(nodes)) \in Nat
<1>1. /\ Len(frames) \in Nat \ {0} /\ Len(frames') = Len(frames) - 1
      /\ frames' \in Seq(Frame)
      /\ \A i \in 1..(Len(frames) - 1) : frames'[i] = frames[i]
  BY LastOfSeq DEF Leave
<1>2. /\ \A i \in 1..Len(frames) : i \in 1..Len(frames') \/ i = Len(frames)
      /\ \A i \in 1..Len(frames') : i \in 1..Len(frames) /\ i # Len(frames)
      /\ \A i \in 1..Len(frames') : i \in 1..(Len(frames) - 1)
      /\ Len(frames) \in 1..Len(frames)
  BY <1>1
<1>3. Running(nodes)' = Running(nodes) \ {Len(frames)}
  BY <1>1, <1>2 DEF Running
<1>4. IsFiniteSet(Running(nodes)) /\ Cardinality(Running(nodes)) \in Nat
  BY RunningFinite
<1>5. CASE Inner.node \in nodes
  <2>1. Len(frames) \in Running(nodes)
    BY <1>2, <1>5 DEF Running, Inner
  <2>2. Cardinality(Running(nodes) \ {Len(frames)}) = Cardinality(Running(nodes)) - 1
    BY <2>1, <1>4, FS_RemoveElement
  <2>3. QED BY <2>2, <1>3, <1>4, <1>5 DEF One
<1>6. CASE Inner.node \notin nodes
  <2>1. Len(frames) \notin Running(nodes)
    BY <1>6 DEF Running, Inner
  <2>2. Running(nodes)' = Running(nodes)
    BY <2>1, <1>3
  <2>3. QED BY <2>2, <1>4, <1>6 DEF One
<1>7. QED BY <1>5, <1>6

LEMMA LeaveKeeps ==
  ASSUME IInv, Walking, Idle, frames # <<>>, PopScope, Leave,
         UNCHANGED <<params, predeclared, passVars, unitVars, todo, diags>>,
         attr' \in Seq(Attribute), Len(attr') = Len(attr),
         \A id \in 1..Len(attr) :
           /\ attr'[id].name = attr[id].name /\ attr'[id].kind = attr[id].kind
           /\ attr'[id].qualifier = attr[id].qualifier,
         loopDepth' = loopDepth - One(Inner.node, Loops),
         localDepth' = localDepth - One(Inner.node, Blocks),
         functionDepth' = functionDepth - One(Inner.node, {"FUNCTION"}),
         staticBounds' \in Seq(Bounds),
         Len(staticBounds') = Len(staticBounds) - One(Inner.node, {"FORRANGE"})
  PROVE  Walking'
<1>1. UNCHANGED <<program, phase, at, scriptType, declarations>>
  BY DEF passVars, unitVars
<1>2. /\ phase = "WALK" /\ todo = <<>> /\ todo' = <<>>
      /\ frames \in Seq(Frame) /\ Typed /\ Following
      /\ TypeOK
  BY DEF Idle, Walking, Typed, IInv
<1>3. /\ Len(stack) = Len(frames) + 1 /\ Len(frames) \in Nat
  BY <1>2, IdleScopes
<1>4. /\ scopes' = scopes /\ nextId' = nextId
      /\ Len(stack') = Len(stack) - 1 /\ Len(stack) \in Nat \ {0}
      /\ \A i \in 1..Len(stack') : i \in 1..Len(stack) /\ stack'[i] = stack[i]
  BY <1>2, PopDepth
<1>5. /\ Len(frames) \in Nat \ {0} /\ Len(frames') = Len(frames) - 1
      /\ frames' \in Seq(Frame)
      /\ \A i \in 1..(Len(frames) - 1) : frames'[i] = frames[i]
  BY <1>2, LastOfSeq DEF Leave
<1>6. ~Pushing(todo') /\ ~Popping(todo') /\ Orderly'
  BY <1>2, EmptyPlan DEF Orderly
<1>7. \A i \in 1..Len(stack') : ScopeAt(i)' = ScopeAt(i)
  <2>1. \A i \in 1..Len(stack') :
          i # 1 => /\ i - 1 \in 1..(Len(frames) - 1)
                   /\ i - 1 <= Len(frames) /\ i # 0 /\ i - 1 <= Len(frames')
    BY <1>3, <1>4, <1>5
  <2>2. QED BY <2>1, <1>5 DEF ScopeAt
<1>8. Following'
  <2>1. Opening' = 0 /\ Closing' = 0
    BY <1>6 DEF Opening, Closing
  <2>2. Len(stack') + Opening' = Len(frames') + 1 + Closing'
    <3>1. Len(stack') = Len(frames)
      BY <1>3, <1>4
    <3>2. QED BY <3>1, <2>1, <1>5
  <2>3. \A i \in 1..Len(stack) : scopes[stack[i].id] = ScopeAt(i)
    BY <1>2 DEF Following
  <2>4. \A i \in 1..Len(stack') : scopes'[stack'[i].id] = ScopeAt(i)'
    BY <2>3, <1>4, <1>7
  <2>5. stack' # <<>> /\ scopes # <<>>
    <3>1. Len(stack') # 0
      BY <1>3, <1>4, <1>5
    <3>2. stack' # <<>>
      BY <3>1
    <3>3. stack # <<>>
      BY DEF PopScope
    <3>4. QED BY <3>2, <3>3, <1>2 DEF Following
  <2>6. QED BY <2>2, <2>4, <2>5, <1>1, <1>2, <1>4, <1>6 DEF Following
<1>9. Typed'
  BY <1>1, <1>2, <1>4, <1>5 DEF Typed, Items
<1>10. TablesAgree'
  BY PopTables DEF Walking
<1>11. Counting'
  <2>1. \A nodes : Cardinality(Running(nodes)') =
                     Cardinality(Running(nodes)) - One(Inner.node, nodes)
    BY <1>2, LeaveCounts
  <2>2. Counting
    BY DEF Walking
  <2>3. /\ loopDepth' = Cardinality(Running(Loops)')
        /\ localDepth' = Cardinality(Running(Blocks)')
        /\ functionDepth' = Cardinality(Running({"FUNCTION"})')
        /\ Len(staticBounds') = Cardinality(Running({"FORRANGE"})')
    BY <2>1, <2>2 DEF Counting
  <2>4. QED BY <2>3 DEF Counting, Loops, Blocks
<1>12. NestedCallablesReported'
  <2>1. SUFFICES ASSUME NEW i \in 1..Len(frames'), frames'[i].node \in Callables, i > 1
                 PROVE  <<"NESTED_FUNCTION", frames'[i].name>> \in diags'
    BY DEF NestedCallablesReported, Running
  <2>2. i \in 1..Len(frames) /\ i \in 1..(Len(frames) - 1)
    BY <1>5
  <2>3. i \in Running(Callables)
    BY <2>1, <2>2, <1>5 DEF Running
  <2>4. <<"NESTED_FUNCTION", frames[i].name>> \in diags
    BY <2>1, <2>3 DEF Walking, NestedCallablesReported
  <2>5. QED BY <2>2, <2>4, <1>5
<1>13. Policing'
  BY <1>1 DEF Walking, Policing, WellStated, Refused, Items
<1>14. ConstantsKept'
  <2>1. /\ \A id \in 1..Len(attr) :
             attr[id].qualifier = "const" => MayBeConst(attr[id].name)
        /\ AssignedVariablesNotConst
    BY DEF Walking, ConstantsKept
  <2>2. AssignedVariablesNotConst'
    BY <1>1, <2>1 DEF AssignedVariablesNotConst, ConstBuiltins
  <2>3. \A n : MayBeConst(n)' <=> MayBeConst(n)
    BY <1>1 DEF MayBeConst, ConstBuiltins
  <2>4. \A id \in 1..Len(attr') :
          attr'[id].qualifier = "const" => MayBeConst(attr'[id].name)
    BY <2>1
  <2>5. QED BY <2>2, <2>3, <2>4 DEF ConstantsKept, MayBeConst, ConstBuiltins
<1>15. QED
  BY <1>6, <1>8, <1>9, <1>10, <1>11, <1>12, <1>13, <1>14 DEF Walking

LEMMA CloseBlockKeeps ==
  ASSUME IInv, Walking, CloseBlock
  PROVE  Walking'
<1>1. /\ Idle /\ frames # <<>> /\ Inner.node \in Blocks /\ PopScope /\ Leave
      /\ localDepth' = localDepth - 1
      /\ loopDepth' = IF LeavesLoop(Inner.node) THEN loopDepth - 1 ELSE loopDepth
      /\ staticBounds' = IF Inner.node = "FORRANGE"
                         THEN SubSeq(staticBounds, 1, Len(staticBounds) - 1)
                         ELSE staticBounds
      /\ UNCHANGED <<attr, params, predeclared, passVars, functionDepth, unitVars,
                     todo, diags>>
  BY DEF CloseBlock, tableVars
<1>2. /\ frames \in Seq(Frame) /\ staticBounds \in Seq(Bounds)
      /\ attr \in Seq(Attribute) /\ Counting
  BY DEF Walking, Typed
<1>3. /\ loopDepth \in Nat /\ localDepth \in Nat /\ functionDepth \in Nat
      /\ Len(staticBounds) \in Nat
      /\ Len(staticBounds) = Cardinality(Running({"FORRANGE"}))
  BY <1>2, RunningFinite DEF Counting
<1>4. /\ One(Inner.node, Blocks) = 1 /\ One(Inner.node, {"FUNCTION"}) = 0
      /\ One(Inner.node, Loops) = IF LeavesLoop(Inner.node) THEN 1 ELSE 0
      /\ One(Inner.node, {"FORRANGE"}) = IF Inner.node = "FORRANGE" THEN 1 ELSE 0
  BY <1>1 DEF One, Blocks, Loops, LeavesLoop
<1>5. /\ loopDepth' = loopDepth - One(Inner.node, Loops)
      /\ localDepth' = localDepth - One(Inner.node, Blocks)
      /\ functionDepth' = functionDepth - One(Inner.node, {"FUNCTION"})
  BY <1>1, <1>3, <1>4
<1>6. /\ staticBounds' \in Seq(Bounds)
      /\ Len(staticBounds') = Len(staticBounds) - One(Inner.node, {"FORRANGE"})
  <2>1. CASE Inner.node = "FORRANGE"
    <3>1. Len(frames) \in 1..Len(frames)
      BY <1>1, <1>2, LastOfSeq
    <3>2. Len(frames) \in Running({"FORRANGE"})
      BY <3>1, <2>1 DEF Running, Inner
    <3>3. Cardinality(Running({"FORRANGE"})) # 0
      BY <3>2, <1>2, RunningFinite, FS_EmptySet
    <3>4. staticBounds # <<>>
      BY <3>3, <1>3
    <3>5. /\ SubSeq(staticBounds, 1, Len(staticBounds) - 1) \in Seq(Bounds)
          /\ Len(SubSeq(staticBounds, 1, Len(staticBounds) - 1)) = Len(staticBounds) - 1
      BY <3>4, <1>2, LastOfSeq
    <3>6. QED BY <3>5, <2>1, <1>1, <1>4
  <2>2. CASE Inner.node # "FORRANGE"
    BY <2>2, <1>1, <1>2, <1>3, <1>4
  <2>3. QED BY <2>1, <2>2
<1>7. QED BY <1>1, <1>2, <1>5, <1>6, LeaveKeeps

\* The return type a function ends with replaces no more than a type.
LEMMA ReturnTypeStored ==
  ASSUME IInv, Walking, CloseCallable
  PROVE  /\ attr' \in Seq(Attribute) /\ Len(attr') = Len(attr)
         /\ \A id \in 1..Len(attr) :
              /\ attr'[id].name = attr[id].name /\ attr'[id].kind = attr[id].kind
              /\ attr'[id].qualifier = attr[id].qualifier
<1>1. frames # <<>> /\ Inner.node \in {"FUNCTION", "METHOD"}
  BY DEF CloseCallable
<1>2. PICK type \in Types :
        attr' = IF Resolved(Inner.name)
                THEN [attr EXCEPT ![Resolve(Inner.name).id] =
                        [name |-> @.name, kind |-> @.kind, type |-> type,
                         qualifier |-> @.qualifier]]
                ELSE attr
  BY DEF CloseCallable
<1>3. frames \in Seq(Frame) /\ attr \in Seq(Attribute)
  BY DEF Walking, Typed
<1> DEFINE target == Resolve(Inner.name).id
           row == [name |-> attr[target].name, kind |-> attr[target].kind,
                   type |-> type, qualifier |-> attr[target].qualifier]
<1>4. CASE target \in 1..Len(attr) /\ attr' = [attr EXCEPT ![target] = row]
  <2>1. attr[target] \in Attribute
    BY <1>4, <1>3, ElementOfSeq
  <2>2. row \in Attribute
    BY <2>1 DEF Attribute
  <2>3. /\ row.name = attr[target].name /\ row.kind = attr[target].kind
        /\ row.qualifier = attr[target].qualifier
    OBVIOUS
  <2> HIDE DEF target, row
  <2>4. /\ attr' \in Seq(Attribute) /\ Len(attr') = Len(attr)
        /\ \A id \in 1..Len(attr) :
             attr'[id] = IF id = target THEN row ELSE attr[id]
    BY <1>4, <2>2, <1>3, ExceptSeq
  <2>5. QED BY <2>3, <2>4
<1>5. CASE attr' = attr
  BY <1>5, <1>3
<1>6. Resolved(Inner.name) => target \in 1..Len(attr)
  <2>1. ASSUME Resolved(Inner.name) PROVE target \in 1..Len(attr)
    <3>1. Inner.name \in Names
      <4>1. frames[Len(frames)] \in Frame
        BY <1>1, <1>3, LastOfSeq
      <4>2. QED BY <4>1, <1>1 DEF Frame, Inner, Blocks, Callables
    <3>2. Stands(Inner.name, flat[Inner.name])
      BY <3>1 DEF Walking, TablesAgree, AllNames
    <3>3. target # 0
      BY <2>1 DEF Resolved
    <3>4. target = flat[Inner.name].id
      BY <3>3 DEF Resolve, NoSymbol
    <3>5. QED BY <3>2, <3>3, <3>4 DEF Stands
  <2>2. QED BY <2>1
<1>7. \/ Resolved(Inner.name) /\ attr' = [attr EXCEPT ![target] = row]
      \/ attr' = attr
  BY <1>2
<1> HIDE DEF target, row
<1>8. QED BY <1>4, <1>5, <1>6, <1>7

LEMMA CloseCallableKeeps ==
  ASSUME IInv, Walking, CloseCallable
  PROVE  Walking'
<1>1. /\ Idle /\ frames # <<>> /\ Inner.node \in {"FUNCTION", "METHOD"}
      /\ PopScope /\ Leave
      /\ functionDepth' = IF Inner.node = "FUNCTION" THEN functionDepth - 1
                          ELSE functionDepth
      /\ UNCHANGED <<params, predeclared, passVars, unitVars, todo, diags>>
      /\ UNCHANGED <<loopDepth, localDepth, staticBounds>>
  BY DEF CloseCallable
<1>2. /\ frames \in Seq(Frame) /\ staticBounds \in Seq(Bounds)
      /\ attr \in Seq(Attribute) /\ Counting
  BY DEF Walking, Typed
<1>3. /\ loopDepth \in Nat /\ localDepth \in Nat /\ functionDepth \in Nat
      /\ Len(staticBounds) \in Nat /\ Len(attr) \in Nat
  BY <1>2, RunningFinite DEF Counting
<1>4. /\ One(Inner.node, Blocks) = 0 /\ One(Inner.node, Loops) = 0
      /\ One(Inner.node, {"FORRANGE"}) = 0
      /\ One(Inner.node, {"FUNCTION"}) = IF Inner.node = "FUNCTION" THEN 1 ELSE 0
  BY <1>1 DEF One, Blocks, Loops
<1>5. /\ loopDepth' = loopDepth - One(Inner.node, Loops)
      /\ localDepth' = localDepth - One(Inner.node, Blocks)
      /\ functionDepth' = functionDepth - One(Inner.node, {"FUNCTION"})
      /\ staticBounds' \in Seq(Bounds)
      /\ Len(staticBounds') = Len(staticBounds) - One(Inner.node, {"FORRANGE"})
  BY <1>1, <1>2, <1>3, <1>4
<1>6. /\ attr' \in Seq(Attribute) /\ Len(attr') = Len(attr)
      /\ \A id \in 1..Len(attr) :
           /\ attr'[id].name = attr[id].name /\ attr'[id].kind = attr[id].kind
           /\ attr'[id].qualifier = attr[id].qualifier
  BY ReturnTypeStored
<1>7. QED BY <1>1, <1>5, <1>6, LeaveKeeps

\* The walk ends in the global scope, and closes it.
LEMMA FinishWalkKeeps ==
  ASSUME IInv, Walking, FinishWalk
  PROVE  Walking'
<1>1. /\ phase = "WALK" /\ todo = <<>> /\ frames = <<>> /\ at > Len(Items)
      /\ phase' = "DONE"
      /\ Issue(When(declarations > 1, "MULTIPLE_DECLARATIONS", Unstated))
      /\ PopScope
      /\ UNCHANGED <<attr, params, predeclared, program, at, loopDepth, localDepth,
                     functionDepth, staticBounds, scriptType, declarations, frames,
                     todo>>
  BY DEF FinishWalk, Idle, tableVars, depthVars, unitVars
<1>2. /\ Typed /\ TablesAgree /\ Following /\ TypeOK /\ Policing
      /\ AssignedVariablesNotConst
  BY DEF Walking, IInv, ConstantsKept
<1>3. Len(stack) = 1
  BY <1>1, IdleScopes
<1>4. /\ scopes' = scopes /\ nextId' = nextId /\ Len(stack') = Len(stack) - 1
  BY <1>1, <1>2, PopDepth
<1>5. stack' = <<>>
  <2>1. stack' \in Seq(ScopeRecord)
    <3>1. stack \in Seq(ScopeRecord) /\ stack # <<>>
      BY <1>1, <1>2 DEF TypeOK, ScopeRecord, PopScope
    <3>2. QED BY <3>1, <1>1, LastOfSeq DEF PopScope
  <2>2. Len(stack') = 0
    BY <1>3, <1>4
  <2>3. QED BY <2>1, <2>2, EmptySeq
<1>6. Orderly' /\ ~Popping(todo')
  BY <1>1, EmptyPlan DEF Orderly
<1>7. Following'
  <2>1. scopes # <<>>
    <3>1. stack # <<>>
      BY <1>1 DEF PopScope
    <3>2. QED BY <3>1, <1>2 DEF Following
  <2>2. Len(stack') = 0 /\ \A i \in 1..Len(stack') : FALSE
    BY <1>5
  <2>3. QED BY <2>1, <2>2, <1>1, <1>4, <1>5, <1>6 DEF Following
<1>8. Typed' /\ Counting' /\ NestedCallablesReported'
  <2>1. Typed'
    BY <1>1, <1>2, <1>4 DEF Typed, Items
  <2>2. Counting' /\ NestedCallablesReported'
    BY <1>1 DEF Walking, Counting, NestedCallablesReported, Running, Issue
  <2>3. QED BY <2>1, <2>2
<1>9. TablesAgree'
  BY <1>1, <1>2, PopTables
<1> DEFINE found == When(declarations > 1, "MULTIPLE_DECLARATIONS", Unstated)
<1>10. diags' = diags \cup found
  BY <1>1 DEF Issue
<1>11. Policing'
  <2>1. \A n : Refused(n)' <=> Refused(n)
    BY <1>10 DEF Refused, When
  <2>2. WellStated' <=> WellStated
    BY <1>1 DEF WellStated
  <2>3. declarations = 2 => <<"MULTIPLE_DECLARATIONS", Unstated>> \in diags'
    <3>1. declarations = 2 => declarations > 1
      OBVIOUS
    <3>2. QED BY <3>1, <1>10 DEF When
  <2>4. program.script = Unstated => <<"MISSING_DECLARATION", Unstated>> \in diags'
    BY <1>1, <1>2, <1>10 DEF Policing
  <2>5. /\ program.script # Unstated => declarations \in {1, 2}
        /\ WellStated => scriptType = program.script
        /\ WellStated /\ program.script = "library" => \A n \in Names : ~Refused(n)
        /\ WellStated /\ program.script # "library" =>
             \A i \in 1..(at - 1) :
               Items[i].exported /\ Items[i].node # "IMPORT" => Refused(Items[i].name)
    BY <1>1, <1>2 DEF Policing
  <2>6. Items' = Items
    BY <1>1 DEF Items
  <2> HIDE DEF found
  <2>7. QED
    BY <2>1, <2>2, <2>3, <2>4, <2>5, <2>6, <1>1 DEF Policing
<1>12. ConstantsKept'
  <2>1. AssignedVariablesNotConst'
    BY <1>1, <1>2, <1>10 DEF AssignedVariablesNotConst, ConstBuiltins, When
  <2>2. \A id \in 1..Len(attr) :
          attr[id].qualifier = "const" => MayBeConst(attr[id].name)
    BY DEF Walking, ConstantsKept
  <2>3. QED BY <2>1, <2>2, <1>1 DEF ConstantsKept, MayBeConst, ConstBuiltins
<1>13. QED
  BY <1>6, <1>7, <1>8, <1>9, <1>11, <1>12 DEF Walking

-----------------------------------------------------------------------------
(* The invariant of the walk is inductive. *)

LEMMA InitWalking ==
  ASSUME AnalysisInit
  PROVE  IInv /\ Walking
<1>1. IInv
  BY InitIInv DEF AnalysisInit
<1> DEFINE registered(i) ==
             Definition(program.builtins[i].name, program.builtins[i].kind, TRUE,
                        program.builtins[i].type, program.builtins[i].qualifier)
           n == Len(program.builtins)
           after == [i \in 1..n |-> registered(i)]
<1>2. /\ scopes = <<>> /\ stack = <<>> /\ nextId = 1
      /\ flat = [m \in AllNames |-> NoSymbol]
      /\ history = [m \in AllNames |-> <<>>]
      /\ attr = <<>> /\ params = [m \in Names |-> 0] /\ program \in Programs
      /\ phase = "BUILTINS" /\ at = 1 /\ predeclared = {} /\ frames = <<>>
      /\ todo = <<Push("GLOBAL")>> \o after
      /\ loopDepth = 0 /\ localDepth = 0 /\ functionDepth = 0
      /\ staticBounds = <<>> /\ scriptType = Unstated /\ declarations = 0
      /\ diags = {}
  BY DEF AnalysisInit, Init
<1>3. /\ program.builtins \in Seq(Builtin) /\ n \in Nat /\ Len(Items) \in Nat
      /\ program.reassigned \subseteq Names
      /\ \A i \in 1..n : program.builtins[i] \in Builtin
  <2>1. /\ program.builtins \in Seq(Builtin) /\ Len(Items) \in Nat
        /\ program.reassigned \subseteq Names
    BY <1>2, ProgramFacts
  <2>2. QED BY <2>1, ElementOfSeq
<1>4. ASSUME NEW i \in 1..n PROVE registered(i) \in Allowed("GLOBAL")
  <2>1. PICK b : b = program.builtins[i]
    OBVIOUS
  <2> DEFINE d == Definition(b.name, b.kind, TRUE, b.type, b.qualifier)
  <2>2. registered(i) = d
    BY <2>1
  <2>3. /\ b \in Builtin /\ b.name \in AllNames /\ b.kind \in {"BUILTIN", "TYPE"}
        /\ b.type \in Types /\ b.qualifier \in Qualifiers
    BY <2>1, <1>3 DEF Builtin, AllNames
  <2>4. /\ d.name = b.name /\ d.kind = b.kind /\ d.existing = TRUE
        /\ d.qualifier = b.qualifier
        /\ d \in DefineOp
    BY <2>3 DEF Definition, DefineOp, SymbolKinds
  <2> HIDE DEF d
  <2>5. PermittedIn("GLOBAL", d)
    BY <2>3, <2>4 DEF PermittedIn, ScopeKinds
  <2>6. d.qualifier = "const" => MayBeConst(d.name)
    <3>1. ASSUME d.qualifier = "const" PROVE d.name \in ConstBuiltins
      BY <3>1, <2>1, <2>4 DEF ConstBuiltins
    <3>2. QED BY <3>1 DEF MayBeConst
  <2>7. Meant("GLOBAL", d)
    BY <2>3, <2>4, <2>6, <1>2 DEF Meant, Callables
  <2>8. QED BY <2>2, <2>4, <2>5, <2>7 DEF Allowed
<1>5. after \in Seq(Allowed("GLOBAL"))
  <2> HIDE DEF registered, n
  <2>1. after \in [1..n -> Allowed("GLOBAL")]
    BY <1>4
  <2>2. QED BY <2>1, <1>3, FunctionIsSeq
<1> HIDE DEF after, registered, n
<1>6. ScopeAt(Len(stack)) = "NONE" /\ ScopeAt(Len(stack) + 1) = "GLOBAL"
  <2>1. Len(stack) = 0 /\ Len(stack) + 1 = 1 /\ 1 # 0
    BY <1>2
  <2>2. QED BY <2>1 DEF ScopeAt
<1>7. Orderly /\ Pushing(todo) /\ ~Popping(todo) /\ todo # <<>>
  <2>1. PICK outer, inner : outer = Allowed("NONE") /\ inner = Allowed("GLOBAL")
    OBVIOUS
  <2>2. outer \in SUBSET DefineOp /\ inner \in SUBSET DefineOp
    BY <2>1 DEF Allowed
  <2>3. "GLOBAL" \in ScopeKinds /\ after \in Seq(inner)
    BY <2>1, <1>5 DEF ScopeKinds
  <2>4. /\ Plan(todo, outer, "GLOBAL", inner)
        /\ Pushing(todo) /\ ~Popping(todo) /\ todo # <<>>
    BY <2>2, <2>3, <1>2, OpeningNow
  <2>5. QED BY <2>1, <2>4, <1>6 DEF Orderly
<1>8. Following
  <2>1. Opening = 1 /\ Closing = 0 /\ Len(stack) = 0 /\ Len(frames) = 0
    BY <1>2, <1>7 DEF Opening, Closing
  <2>2. QED BY <2>1, <1>2, <1>7 DEF Following
<1>9. Typed
  <2>1. MaxSymbols \in Nat /\ 0 \in 0..Foreign
    BY ScopeAssumption DEF Foreign
  <2>2. params \in [Names -> 0..Foreign] /\ at \in 1..(Len(Items) + 1)
    BY <1>2, <1>3, <2>1
  <2>3. /\ attr \in Seq(Attribute) /\ Len(attr) = nextId - 1
        /\ frames \in Seq(Frame) /\ staticBounds \in Seq(Bounds)
    BY <1>2
  <2>4. QED BY <1>2, <2>2, <2>3 DEF Typed
<1>10. TablesAgree
  <2>1. \A m \in AllNames : flat[m].id = 0 /\ Len(history[m]) = 0
    BY <1>2 DEF NoSymbol
  <2>2. \A m \in AllNames : 1..Len(history[m]) = {}
    BY <2>1
  <2>3. QED BY <2>1, <2>2 DEF TablesAgree, Stands
<1>11. Counting /\ NestedCallablesReported
  <2>1. Len(frames) = 0 /\ Len(staticBounds) = 0
    BY <1>2
  <2>2. \A nodes : Running(nodes) = {}
    BY <2>1 DEF Running
  <2>3. \A nodes : Cardinality(Running(nodes)) = 0
    BY <2>2, FS_EmptySet
  <2>4. QED BY <2>1, <2>2, <2>3, <1>2 DEF Counting, NestedCallablesReported
<1>12. Policing /\ ConstantsKept
  <2>1. Policing
    BY <1>2 DEF Policing
  <2>2. Len(attr) = 0
    BY <1>2
  <2>3. ConstantsKept
    BY <1>2, <2>2 DEF ConstantsKept, AssignedVariablesNotConst
  <2>4. QED BY <2>1, <2>3
<1>13. QED
  BY <1>1, <1>7, <1>8, <1>9, <1>10, <1>11, <1>12 DEF Walking

LEMMA NextWalking ==
  ASSUME IInv, Walking, [AnalysisNext]_vars
  PROVE  Walking'
<1>1. CASE Step
  BY <1>1, RunDefineKeeps, RunPushKeeps, RunPopKeeps DEF Step
<1>2. CASE Pass
  BY <1>2, IndexDeclarationKeeps, PredeclareItemKeeps, StartWalkKeeps,
     VisitItemKeeps, FinishWalkKeeps DEF Pass
<1>3. CASE Statement
  BY <1>3, VarDeclarationKeeps, TupleDeclarationKeeps, ReassignmentKeeps,
     ExpressionKeeps, DeclarationStatementKeeps, NestedCallableKeeps DEF Statement
<1>4. CASE Structure
  BY <1>4, StructureKeeps, CloseBlockKeeps, CloseCallableKeeps DEF Structure
<1>5. CASE UNCHANGED vars
  <2>1. /\ UNCHANGED <<scopes, stack, flat, history, nextId, redeclared>>
        /\ UNCHANGED <<attr, params, predeclared, program, phase, at, loopDepth,
                       localDepth, functionDepth, staticBounds, scriptType,
                       declarations, frames, todo, diags>>
    BY <1>5 DEF vars, scopeVars, tableVars, passVars, depthVars, unitVars
  <2>2. Typed' /\ TablesAgree'
    BY <2>1 DEF Walking, Typed, Items, TablesAgree, Stands
  <2>3. Orderly'
    BY <2>1, PlanKept DEF Walking
  <2>4. Following'
    BY <2>1 DEF Walking, Following, ScopeAt, Opening, Closing
  <2>5. Counting' /\ NestedCallablesReported'
    BY <2>1 DEF Walking, Counting, NestedCallablesReported, Running
  <2>6. Policing'
    BY <2>1 DEF Walking, Policing, WellStated, Refused, Items
  <2>7. ConstantsKept'
    BY <2>1 DEF Walking, ConstantsKept, MayBeConst, AssignedVariablesNotConst,
                ConstBuiltins
  <2>8. QED BY <2>2, <2>3, <2>4, <2>5, <2>6, <2>7 DEF Walking
<1>6. QED BY <1>1, <1>2, <1>3, <1>4, <1>5 DEF AnalysisNext

-----------------------------------------------------------------------------
(* What the walk promises. *)

LEMMA WalkTypes ==
  ASSUME IInv, Walking
  PROVE  WalkTypeOK
<1>1. TypeOK /\ Typed /\ TablesAgree /\ Counting
  BY DEF IInv, Walking
<1>2. ASSUME NEW id \in 1..Len(attr)
      PROVE  /\ attr[id].name \in Names \cup Members
             /\ attr[id].type \in Types
             /\ attr[id].qualifier \in Qualifiers \cup {Unstated}
  <2>1. attr \in Seq(Attribute)
    BY <1>1 DEF Typed
  <2>2. attr[id] \in Attribute
    BY <2>1, ElementOfSeq
  <2>3. QED BY <2>2 DEF Attribute, AllNames
<1>3. ASSUME NEW n \in Names \cup Members, flat[n].id # 0
      PROVE  attr[flat[n].id].name = n /\ attr[flat[n].id].kind = flat[n].kind
  BY <1>1, <1>3 DEF TablesAgree, Stands, AllNames
<1>4. loopDepth \in Nat /\ localDepth \in Nat /\ functionDepth \in Nat
  BY <1>1, RunningFinite DEF Counting, Typed
<1>5. QED BY <1>1, <1>2, <1>3, <1>4 DEF Typed, WalkTypeOK

LEMMA WalkBalances ==
  ASSUME IInv, Walking
  PROVE  WalkBalanced
<1>1. /\ Typed /\ Counting /\ Following /\ frames \in Seq(Frame)
      /\ Len(stack) \in Nat /\ Len(frames) \in Nat
  BY Parts DEF IInv, Walking, Typed
<1>2. ASSUME Idle
      PROVE  [i \in 1..Len(stack) |-> scopes[stack[i].id]] =
               <<"GLOBAL">> \o [i \in 1..Len(frames) |-> ScopeOf(frames[i].node)]
  <2> DEFINE open == [i \in 1..Len(stack) |-> scopes[stack[i].id]]
             around == [i \in 1..Len(frames) |-> ScopeOf(frames[i].node)]
  <2>1. Len(stack) = Len(frames) + 1
    BY <1>2, IdleScopes DEF Idle
  <2>2. \A i \in 1..Len(stack) : scopes[stack[i].id] = ScopeAt(i)
    BY <1>1 DEF Following
  <2>3. \A i \in 1..Len(stack) : ScopeAt(i) \in ScopeKinds
    <3>1. \A i \in 1..Len(stack) : i \in Nat /\ i # 0
      BY <1>1
    <3>2. QED BY <3>1, <1>1, ScopeAtKinds
  <2>4. \A i \in 1..Len(frames) : ScopeOf(frames[i].node) \in ScopeKinds
    <3>1. \A i \in 1..Len(frames) : frames[i] \in Frame
      BY <1>1, ElementOfSeq
    <3>2. \A i \in 1..Len(frames) : frames[i].node \in Blocks \cup Callables
      BY <3>1 DEF Frame
    <3>3. QED BY <3>2, ScopeKindsOfNodes
  <2>5. open \in Seq(ScopeKinds) /\ Len(open) = Len(stack)
    <3>1. open \in [1..Len(stack) -> ScopeKinds]
      BY <2>2, <2>3
    <3>2. QED BY <3>1, <1>1, FunctionIsSeq
  <2>6. around \in Seq(ScopeKinds) /\ Len(around) = Len(frames)
    <3>1. around \in [1..Len(frames) -> ScopeKinds]
      BY <2>4
    <3>2. QED BY <3>1, <1>1, FunctionIsSeq
  <2>7. /\ \A i \in 1..Len(stack) : open[i] = ScopeAt(i)
        /\ \A i \in 1..Len(frames) : around[i] = ScopeOf(frames[i].node)
    BY <2>2
  <2> HIDE DEF open, around
  <2>8. /\ <<"GLOBAL">> \in Seq(ScopeKinds) /\ Len(<<"GLOBAL">>) = 1
        /\ <<"GLOBAL">>[1] = "GLOBAL"
    BY DEF ScopeKinds
  <2>9. /\ <<"GLOBAL">> \o around \in Seq(ScopeKinds)
        /\ Len(<<"GLOBAL">> \o around) = 1 + Len(frames)
        /\ \A i \in 1..(1 + Len(frames)) :
             (<<"GLOBAL">> \o around)[i] =
               IF i <= 1 THEN <<"GLOBAL">>[i] ELSE around[i - 1]
    BY <2>6, <2>8, ConcatProperties
  <2>10. ASSUME NEW i \in 1..Len(stack)
         PROVE  open[i] = (<<"GLOBAL">> \o around)[i]
    <3>1. i \in 1..(1 + Len(frames))
      BY <1>1, <2>1
    <3>2. CASE i = 1
      <4>1. (<<"GLOBAL">> \o around)[i] = "GLOBAL"
        BY <3>1, <3>2, <2>8, <2>9
      <4>2. QED BY <4>1, <3>2, <2>7 DEF ScopeAt
    <3>3. CASE i # 1
      <4>1. i - 1 \in 1..Len(frames) /\ ~(i <= 1) /\ i # 0 /\ i - 1 <= Len(frames)
        BY <3>1, <3>3, <1>1
      <4>2. (<<"GLOBAL">> \o around)[i] = ScopeOf(frames[i - 1].node)
        BY <4>1, <3>1, <2>7, <2>9
      <4>3. QED BY <4>1, <4>2, <3>3, <2>7 DEF ScopeAt
    <3>4. QED BY <3>2, <3>3
  <2>11. Len(open) = Len(<<"GLOBAL">> \o around)
    BY <1>1, <2>1, <2>5, <2>9
  <2>12. open = <<"GLOBAL">> \o around
    BY <2>5, <2>9, <2>10, <2>11, SeqEqual
  <2>13. QED BY <2>12 DEF open, around
<1>3. phase = "DONE" => stack = <<>> /\ frames = <<>>
  BY <1>1 DEF Following
<1>4. QED BY <1>1, <1>2, <1>3 DEF WalkBalanced, Counting

LEMMA LoopsAreLexical ==
  ASSUME IInv, Walking
  PROVE  LoopControlLexical
<1>1. SUFFICES ASSUME BreakAllowed
               PROVE  \E i \in Running(Loops) :
                        \A j \in Running(Callables) :
                          j > i => <<"NESTED_FUNCTION", frames[j].name>> \in diags
  BY DEF LoopControlLexical
<1>2. /\ loopDepth = Cardinality(Running(Loops)) /\ NestedCallablesReported
      /\ frames \in Seq(Frame) /\ Len(frames) \in Nat
  BY DEF Walking, Counting, Typed
<1>3. Running(Loops) # {}
  <2>1. loopDepth # 0
    BY <1>1 DEF BreakAllowed
  <2>2. QED BY <2>1, <1>2, FS_EmptySet
<1>4. PICK i \in Running(Loops) : TRUE
  BY <1>3
<1>5. \A j \in Running(Callables) : j > i => j > 1
  BY <1>2 DEF Running
<1>6. QED BY <1>2, <1>4, <1>5 DEF NestedCallablesReported

LEMMA ExportsArePoliced ==
  ASSUME IInv, Walking
  PROVE  ExportsPoliced
<1>1. SUFFICES ASSUME phase = "DONE", NEW i \in 1..Len(Items), Items[i].exported,
                      Items[i].node # "IMPORT",
                      <<"MULTIPLE_DECLARATIONS", Unstated>> \notin diags,
                      <<"MISSING_DECLARATION", Unstated>> \notin diags
               PROVE  Refused(Items[i].name) <=> program.script # "library"
  BY DEF ExportsPoliced, Refused
<1>2. /\ Policing /\ at \in 1..(Len(Items) + 1) /\ program \in Programs
  BY DEF Walking, Typed
<1>3. Len(Items) \in Nat /\ Items[i].name \in Names
  BY <1>2, ProgramFacts
<1>4. WellStated
  BY <1>1, <1>2 DEF Policing, WellStated
<1>5. i \in 1..(at - 1)
  <2>1. at > Len(Items)
    BY <1>1, <1>2 DEF Policing
  <2>2. QED BY <2>1, <1>2, <1>3
<1>6. QED BY <1>1, <1>2, <1>3, <1>4, <1>5 DEF Policing

\* The invariant of the walk holds together with the scope manager's.
THEOREM WalkingHolds == AnalysisSpec => [](IInv /\ Walking)
<1>1. AnalysisInit => IInv /\ Walking
  BY InitWalking
<1>2. IInv /\ Walking /\ [AnalysisNext]_vars => (IInv /\ Walking)'
  BY NextWalking, Discipline
<1>3. QED BY <1>1, <1>2, PTL DEF AnalysisSpec

\* Every operation the handlers leave behind is one the scope manager permits:
\* the discipline ScopeManager assumes of its caller is kept by _define,
\* _push_scope and _pop_scope's only caller.
THEOREM WalkerKeepsScopeDiscipline == AnalysisSpec => KeepsScopeDiscipline
<1>1. AnalysisInit => Init
  BY DEF AnalysisInit
<1>2. IInv /\ Walking /\ [AnalysisNext]_vars => [Next]_scopeVars
  BY Discipline
<1>3. QED BY <1>1, <1>2, WalkingHolds, PTL DEF AnalysisSpec, KeepsScopeDiscipline, Spec

\* Whatever the program, the walk's scopes, frames and depth counters agree,
\* loop control and nested functions are judged where they stand, and exports
\* by the script's declaration (_visit_structure, _visit_block and the
\* declaration handlers).
THEOREM WalkKnowsWhereItIs == AnalysisSpec => []WalkInvariant
<1>1. IInv /\ Walking => WalkInvariant
  <2>1. SUFFICES ASSUME IInv, Walking PROVE WalkInvariant
    OBVIOUS
  <2>2. NestedCallablesReported
    BY <2>1 DEF Walking
  <2>3. QED BY <2>1, <2>2, WalkTypes, WalkBalances, LoopsAreLexical,
               ExportsArePoliced DEF WalkInvariant
<1>2. QED BY <1>1, WalkingHolds, PTL

\* No variable a program assigns is inferred const (_collect_reassigned_names).
THEOREM AssignedVariablesStayAssignable == AnalysisSpec => []AssignedVariablesNotConst
<1>1. IInv /\ Walking => AssignedVariablesNotConst
  BY DEF Walking, ConstantsKept
<1>2. QED BY <1>1, WalkingHolds, PTL

\* So in every analysis, and not only under the discipline, a name resolves to
\* the innermost open declaration, and a closed variable not at all (_resolve).
THEOREM WalkResolvesToInnermost ==
  AnalysisSpec => [](ResolvesToInnermost /\ DeadVariablesUnresolved)
BY WalkerKeepsScopeDiscipline, ResolvesInnermost, ClosedVariablesUnresolved, PTL
   DEF KeepsScopeDiscipline

-----------------------------------------------------------------------------
(* The names that predeclaration defined keep their meaning. *)

Declares(i) == Items[i].node # "STATEMENTS"

\* An item that is being predeclared, and whose name is still to be defined.
Pending(i) ==
  /\ phase = "PREDECLARE" /\ i = at - 1
  /\ \E k \in 1..Len(todo) :
       todo[k].op = "DEFINE" /\ todo[k].name = Items[i].name

\* Predeclaration is through with the name of an item.
Past(i) ==
  \/ phase = "PREDECLARE" /\ i < at /\ ~Pending(i)
  \/ phase \in {"WALK", "DONE"}

\* A member whose definition is under way.
Promised(m) ==
  /\ phase = "PREDECLARE"
  /\ \E k \in 1..Len(todo) :
       todo[k].op = "DEFINE" /\ todo[k].name = m /\ todo[k].kind = "ENUM_MEMBER"

\* The global scope has every name that predeclaration is through with.
Registered ==
  phase # "DONE" =>
    \A i \in 1..Len(Items) :
      Past(i) /\ Declares(i) => stack # <<>> /\ Binds(stack[1], Items[i].name)

\* Two items of one name have been reported.
Clashes ==
  \A i, j \in 1..Len(Items) :
    /\ i # j /\ Past(i) /\ Past(j) /\ Declares(i) /\ Declares(j)
    /\ Items[i].name = Items[j].name
    => Items[i].name \in redeclared

\* The global scope's symbol of a predeclared name is its item's.
PredeclaredGlobal ==
  /\ phase = "BUILTINS" => predeclared = {} /\ at = 1
  /\ phase = "PREDECLARE" => \A i \in predeclared : i < at
  /\ \A i \in predeclared :
       LET n == Items[i].name
       IN  /\ phase # "DONE" =>
                /\ stack # <<>>
                /\ stack[1].symbols[n] \in 1..Len(attr)
                /\ attr[stack[1].symbols[n]].kind \in PredeclaredKinds
           /\ phase = "DONE" =>
                /\ flat[n].kind \in PredeclaredKinds
                /\ scopes[flat[n].scope] = "GLOBAL"

\* Qualified names are declared by the global scope and by types, where they stay.
MembersOutside ==
  \A m \in Members : \A k \in 1..Len(stack) :
    Binds(stack[k], m) => scopes[stack[k].id] \in {"GLOBAL", "TYPE_DECL"}

\* A member keeps its kind, or is about to be defined, unless its enum's name
\* was declared twice.
MembersKept ==
  \A i \in 1..Len(Items) :
    /\ i \in predeclared \/ Pending(i)
    /\ Items[i].node = "ENUM" /\ Items[i].name \notin redeclared
    => \A j \in 1..Len(Items[i].parts) :
         \/ flat[<<Items[i].name, Items[i].parts[j]>>].kind = "ENUM_MEMBER"
         \/ Promised(<<Items[i].name, Items[i].parts[j]>>)

\* A function of this name, in the dictionary or displaced, has its parameters
\* under the name and is global, or was reported.
Callee(n, s) ==
  s.kind \in Callables =>
    /\ \/ params[n] = s.id
       \/ n \in redeclared
       \/ <<"NESTED_FUNCTION", n>> \in diags
    /\ \/ scopes[s.scope] = "GLOBAL"
       \/ <<"NESTED_FUNCTION", n>> \in diags

Callees ==
  \A n \in Names :
    /\ Callee(n, flat[n])
    /\ \A q \in 1..Len(history[n]) : Callee(n, history[n][q])

Meaning ==
  /\ Registered
  /\ Clashes
  /\ PredeclaredGlobal
  /\ MembersOutside
  /\ MembersKept
  /\ Callees

\* Where nothing is defined, opened or closed, names mean what they meant.
LEMMA MeaningStays ==
  ASSUME Meaning,
         UNCHANGED <<scopes, stack, flat, history, redeclared, attr, params,
                     predeclared, program>>,
         diags \subseteq diags',
         \/ phase = "WALK" /\ phase' = "WALK"
         \/ UNCHANGED <<phase, at, todo>>
  PROVE  Meaning'
<1>1. /\ Items' = Items
      /\ \A i : Declares(i)' <=> Declares(i)
  BY DEF Items, Declares
<1>2. /\ \A i : Pending(i)' <=> Pending(i)
      /\ \A m : Promised(m)' <=> Promised(m)
  BY <1>1 DEF Pending, Promised
<1>3. /\ \A i : Past(i)' <=> Past(i)
      /\ phase' = phase
  BY <1>2 DEF Past
<1>4. Registered' /\ Clashes'
  BY <1>1, <1>3 DEF Meaning, Registered, Clashes, Binds
<1>5. PredeclaredGlobal'
  BY <1>1, <1>3 DEF Meaning, PredeclaredGlobal
<1>6. MembersOutside'
  BY DEF Meaning, MembersOutside, Binds
<1>7. MembersKept'
  BY <1>1, <1>2 DEF Meaning, MembersKept
<1>8. Callees'
  BY DEF Meaning, Callees, Callee
<1>9. QED BY <1>4, <1>5, <1>6, <1>7, <1>8 DEF Meaning

LEMMA InitMeaning ==
  ASSUME AnalysisInit
  PROVE  Meaning
<1>1. /\ stack = <<>> /\ predeclared = {} /\ phase = "BUILTINS" /\ at = 1
      /\ flat = [n \in AllNames |-> NoSymbol]
      /\ history = [n \in AllNames |-> <<>>]
  BY DEF AnalysisInit, Init
<1>2. \A i : ~Past(i) /\ ~Pending(i)
  BY <1>1 DEF Past, Pending
<1>3. Registered /\ Clashes /\ PredeclaredGlobal /\ MembersKept
  BY <1>1, <1>2 DEF Registered, Clashes, PredeclaredGlobal, MembersKept
<1>4. MembersOutside
  BY <1>1 DEF MembersOutside
<1>5. Callees
  <2>1. \A n \in Names : flat[n] = NoSymbol /\ Len(history[n]) = 0
    BY <1>1 DEF AllNames
  <2>2. NoSymbol.kind \notin Callables
    BY DEF NoSymbol, Callables
  <2>3. \A n \in Names : Callee(n, NoSymbol)
    BY <2>2 DEF Callee
  <2>4. \A n \in Names : \A q \in 1..Len(history[n]) : Callee(n, history[n][q])
    BY <2>1
  <2>5. ASSUME NEW n \in Names PROVE Callee(n, flat[n])
    BY <2>1, <2>2, <2>5 DEF Callee
  <2>6. QED BY <2>4, <2>5 DEF Callees
<1>6. QED BY <1>3, <1>4, <1>5 DEF Meaning

\* A predeclared name that no inner scope declares is its item's.
LEMMA GlobalSymbol ==
  ASSUME IInv, Walking, Meaning, phase # "DONE", NEW i \in predeclared,
         \A k \in 2..Len(stack) : ~Binds(stack[k], Items[i].name)
  PROVE  /\ stack # <<>> /\ Binds(stack[1], Items[i].name)
         /\ flat[Items[i].name].id = stack[1].symbols[Items[i].name]
         /\ flat[Items[i].name].kind \in PredeclaredKinds
         /\ scopes[flat[Items[i].name].scope] = "GLOBAL"
<1>1. PICK n : n = Items[i].name
  OBVIOUS
<1>2. n \in Names /\ n \in AllNames
  <2>1. program \in Programs /\ i \in 1..Len(Items)
    BY DEF Walking, Typed
  <2>2. QED BY <1>1, <2>1, ProgramFacts DEF AllNames
<1>3. /\ stack # <<>> /\ stack[1].symbols[n] \in 1..Len(attr)
      /\ attr[stack[1].symbols[n]].kind \in PredeclaredKinds
  BY <1>1 DEF Meaning, PredeclaredGlobal
<1>4. Len(stack) \in Nat \ {0} /\ 1 \in 1..Len(stack)
  <2>1. stack \in Seq(ScopeRecord)
    BY DEF IInv, TypeOK, ScopeRecord
  <2>2. QED BY <2>1, <1>3, LastOfSeq
<1>5. stack[1].symbols[n] # 0
  BY <1>3
<1>6. 1 \in Declaring(n)
  BY <1>4, <1>5 DEF Declaring, Binds
<1>7. \A j \in Declaring(n) : j <= 1
  <2>1. SUFFICES ASSUME NEW j \in 1..Len(stack), Binds(stack[j], n)
                 PROVE  j <= 1
    BY DEF Declaring
  <2>2. j \notin 2..Len(stack)
    BY <2>1, <1>1
  <2>3. QED BY <2>2, <1>4
<1>8. flat[n].id = stack[1].symbols[n]
  BY <1>2, <1>6, <1>7, InnermostIsFlat DEF SymbolId
<1>9. flat[n].kind \in PredeclaredKinds
  <2>1. Stands(n, flat[n])
    BY <1>2 DEF Walking, TablesAgree
  <2>2. flat[n].id # 0
    BY <1>5, <1>8
  <2>3. attr[flat[n].id].kind = flat[n].kind
    BY <2>1, <2>2 DEF Stands
  <2>4. QED BY <2>3, <1>3, <1>8
<1>10. scopes[flat[n].scope] = "GLOBAL"
  <2>1. Placed(n, flat[n])
    BY <1>2, <1>5, <1>8 DEF IInv, NameInv, TrailPlaced
  <2>2. flat[n].scope = stack[1].id
    BY <2>1, <1>6, <1>8 DEF Placed, SymbolId
  <2>3. scopes[stack[1].id] = "GLOBAL"
    BY <1>4 DEF IInv, ScopesNested
  <2>4. QED BY <2>2, <2>3
<1>11. QED BY <1>1, <1>3, <1>5, <1>8, <1>9, <1>10 DEF Binds

\* What a definition does: it is refused, or gives its name a new symbol in the
\* innermost scope.
LEMMA DefineOutcome ==
  ASSUME IInv, Walking, RunDefine, NEW d, d = Head(todo)
  PROVE  /\ todo # <<>> /\ d.op = "DEFINE" /\ todo' = Tail(todo)
         /\ stack # <<>> /\ Len(stack) \in Nat \ {0} /\ phase # "DONE"
         /\ d \in DefineOp /\ d.name \in AllNames
         /\ PermittedIn(scopes[Top.id], d) /\ Meant(scopes[Top.id], d)
         /\ scopes[Top.id] = "GLOBAL" <=> Len(stack) = 1
         /\ phase = "PREDECLARE" => Len(stack) = 1
         /\ UNCHANGED <<scopes, program, phase, at, diags>>
         /\ Len(stack') = Len(stack)
         /\ \A i \in 1..Len(stack) : stack'[i].id = stack[i].id
         /\ \A id \in 1..Len(attr) : id \in 1..Len(attr') /\ attr'[id] = attr[id]
         /\ DefineRejected(d.name, d.kind, d.existing)
              \/ DefineAccepted(d.name, d.kind, d.existing)
<1> DEFINE here == ScopeAt(Len(stack))
<1>1. /\ todo # <<>> /\ d.op = "DEFINE"
      /\ Define(d.name, d.kind, d.existing)
      /\ todo' = Tail(todo)
      /\ UNCHANGED <<passVars, diags>>
      /\ attr' = IF nextId' # nextId
                 THEN Append(attr, [name |-> d.name, kind |-> d.kind,
                                    type |-> d.type, qualifier |-> d.qualifier])
                 ELSE attr
  BY DEF RunDefine
<1>2. /\ Typed /\ TablesAgree /\ Following /\ TypeOK
  BY DEF Walking, IInv
<1>3. /\ stack # <<>> /\ d \in DefineOp /\ d \in Allowed(here)
      /\ scopes[Top.id] = here
  BY <1>1, DefinePermitted
<1>4. d.name \in AllNames /\ Meant(here, d) /\ PermittedIn(here, d)
  BY <1>3 DEF DefineOp, Allowed
<1>5. /\ scopes' = scopes
      /\ Len(stack') = Len(stack)
      /\ \A i \in 1..Len(stack) : stack'[i].id = stack[i].id
  BY <1>1, <1>2, <1>4, DefineDepth
<1>6. \A id \in 1..Len(attr) : id \in 1..Len(attr') /\ attr'[id] = attr[id]
  BY <1>1, <1>2, <1>3, DefineTables
<1>7. phase # "DONE"
  BY <1>1, <1>2 DEF Following
<1>8. Len(stack) \in Nat \ {0}
  <2>1. stack \in Seq(ScopeRecord)
    BY <1>2 DEF TypeOK, ScopeRecord
  <2>2. QED BY <2>1, <1>3, LastOfSeq
<1>9. here = "GLOBAL" <=> Len(stack) = 1
  BY <1>2, <1>8, ScopeAtKinds
<1>10. ASSUME phase = "PREDECLARE" PROVE Len(stack) = 1
  <2>1. frames = <<>>
    BY <1>2, <1>10 DEF Following
  <2>2. Len(frames) = 0
    BY <2>1
  <2>3. d.kind # "FIELD"
    BY <1>4, <1>10 DEF Meant, PredeclaredKinds
  <2>4. here # "TYPE_DECL"
    BY <2>3, <1>4 DEF PermittedIn
  <2>5. ~(Len(stack) > Len(frames) + 1)
    BY <2>4, <1>2, <1>8, ScopeAtKinds
  <2>6. QED BY <2>2, <2>5, <1>8
<1>11. QED
  BY <1>1, <1>3, <1>4, <1>5, <1>6, <1>7, <1>8, <1>9, <1>10
  DEF Define, passVars

\* What an accepted one gives and what it leaves alone.
LEMMA AcceptedOutcome ==
  ASSUME IInv, Walking, RunDefine, NEW d, d = Head(todo),
         DefineAccepted(d.name, d.kind, d.existing)
  PROVE  /\ ~Rejected(d.name, d.kind, d.existing)
         /\ redeclared' = redeclared
         /\ \A i \in 1..Len(stack) : \A m \in AllNames :
              stack'[i].symbols[m] =
                IF i = Len(stack) /\ m = d.name THEN nextId
                ELSE stack[i].symbols[m]
         /\ \A m \in AllNames : m # d.name =>
              flat'[m] = flat[m] /\ history'[m] = history[m]
         /\ flat'[d.name].id = nextId /\ flat'[d.name].kind = d.kind
         /\ flat'[d.name].scope = Top.id
         /\ history'[d.name] = Saved(d.name)
         /\ nextId # 0 /\ nextId' # nextId
         /\ nextId \in 1..Len(attr') /\ attr'[nextId].kind = d.kind
<1>1. /\ stack # <<>> /\ d \in DefineOp /\ d.name \in AllNames
  BY DefineOutcome
<1>2. /\ TypeOK /\ nextId \in Nat \ {0}
  BY Parts DEF IInv
<1>3. \A i \in 1..Len(stack) : \A m \in AllNames :
        stack'[i].symbols[m] =
          IF i = Len(stack) /\ m = d.name THEN nextId ELSE stack[i].symbols[m]
  BY <1>1, <1>2, DefineEffect
<1>4. /\ ~Rejected(d.name, d.kind, d.existing)
      /\ redeclared' = redeclared
      /\ nextId' = nextId + 1
  BY DEF DefineAccepted
<1> DEFINE s == [id |-> nextId, kind |-> d.kind, scope |-> Top.id]
<1>5. /\ \A m \in AllNames : m # d.name =>
           flat'[m] = flat[m] /\ history'[m] = history[m]
      /\ flat'[d.name] = s
      /\ history'[d.name] = Saved(d.name)
  <2>1. /\ flat \in [AllNames -> Symbol \cup {NoSymbol}]
        /\ history \in [AllNames -> Seq(Symbol)]
    BY <1>2 DEF TypeOK
  <2>2. QED BY <2>1, <1>1 DEF DefineAccepted
<1>6. s.id = nextId /\ s.kind = d.kind /\ s.scope = Top.id
  OBVIOUS
<1> HIDE DEF s
<1>7. nextId \in 1..Len(attr') /\ attr'[nextId].kind = d.kind
  <2>1. TablesAgree'
    BY RunDefineKeeps DEF Walking
  <2>2. Stands(d.name, flat[d.name])'
    BY <2>1, <1>1 DEF TablesAgree
  <2>3. flat'[d.name].id = nextId /\ flat'[d.name].kind = d.kind
    BY <1>5, <1>6
  <2>4. nextId # 0
    BY <1>2
  <2>5. QED BY <2>2, <2>3, <2>4 DEF Stands
<1>8. nextId # 0 /\ nextId' # nextId
  BY <1>2, <1>4
<1>9. QED
  BY <1>3, <1>4, <1>5, <1>6, <1>7, <1>8

\* A name the global scope has is not declared there again, but for a variable.
LEMMA GlobalNamesRefused ==
  ASSUME IInv, Walking, RunDefine, NEW d, d = Head(todo),
         d.name \in Names, Len(stack) = 1, Binds(stack[1], d.name),
         phase # "BUILTINS",
         d.kind = "VARIABLE" => flat[d.name].kind # "BUILTIN"
  PROVE  DefineRejected(d.name, d.kind, d.existing)
<1>1. /\ Meant(scopes[Top.id], d) /\ d \in DefineOp
      /\ \/ DefineRejected(d.name, d.kind, d.existing)
         \/ DefineAccepted(d.name, d.kind, d.existing)
  BY DefineOutcome
<1>2. ~d.existing
  BY <1>1 DEF Meant
<1>3. Binds(Top, d.name)
  BY DEF Top
<1>4. ~ShadowsBuiltin(d.name, d.kind)
  BY DEF ShadowsBuiltin
<1>5. Rejected(d.name, d.kind, d.existing)
  BY <1>2, <1>3, <1>4 DEF Rejected
<1>6. QED BY <1>1, <1>5 DEF DefineAccepted

LEMMA DefineMembersOutside ==
  ASSUME IInv, Walking, Meaning, RunDefine
  PROVE  MembersOutside'
<1>1. PICK d : d = Head(todo)
  OBVIOUS
<1>2. /\ PermittedIn(scopes[Top.id], d) /\ scopes' = scopes
      /\ Len(stack') = Len(stack) /\ Len(stack) \in Nat \ {0}
      /\ \A i \in 1..Len(stack) : stack'[i].id = stack[i].id
      /\ DefineRejected(d.name, d.kind, d.existing)
           \/ DefineAccepted(d.name, d.kind, d.existing)
  BY <1>1, DefineOutcome
<1>3. \A m \in Members : \A k \in 1..Len(stack) :
        Binds(stack[k], m) => scopes[stack[k].id] \in {"GLOBAL", "TYPE_DECL"}
  BY DEF Meaning, MembersOutside
<1>4. CASE DefineRejected(d.name, d.kind, d.existing)
  BY <1>3, <1>4 DEF MembersOutside, DefineRejected, Binds
<1>5. CASE DefineAccepted(d.name, d.kind, d.existing)
  <2>1. SUFFICES ASSUME NEW m \in Members, NEW k \in 1..Len(stack), Binds(stack'[k], m)
                 PROVE  scopes[stack[k].id] \in {"GLOBAL", "TYPE_DECL"}
    BY <1>2 DEF MembersOutside, Binds
  <2>2. m \in AllNames
    BY DEF AllNames
  <2>3. \A i \in 1..Len(stack) : \A n \in AllNames :
          stack'[i].symbols[n] =
            IF i = Len(stack) /\ n = d.name THEN nextId ELSE stack[i].symbols[n]
    BY <1>1, <1>5, AcceptedOutcome
  <2>4. CASE k = Len(stack) /\ m = d.name
    <3>1. scopes[Top.id] \in {"GLOBAL", "TYPE_DECL"}
      BY <1>2, <2>4 DEF PermittedIn
    <3>2. QED BY <3>1, <2>4 DEF Top
  <2>5. CASE ~(k = Len(stack) /\ m = d.name)
    <3>1. stack'[k].symbols[m] = stack[k].symbols[m]
      BY <2>2, <2>3, <2>5
    <3>2. Binds(stack[k], m)
      BY <3>1, <2>1 DEF Binds
    <3>3. QED BY <3>2, <1>3
  <2>6. QED BY <2>4, <2>5
<1>6. QED BY <1>2, <1>4, <1>5

\* A definition ends the predeclaration of the item it is the name of, at most.
LEMMA DefinePasses ==
  ASSUME IInv, Walking, RunDefine, NEW d, d = Head(todo), NEW i \in 1..Len(Items)
  PROVE  /\ Past(i) => Past(i)'
         /\ Past(i)' /\ ~Past(i) =>
              phase = "PREDECLARE" /\ i = at - 1 /\ Items[i].name = d.name
         /\ Pending(i)' => Pending(i)
         /\ Items' = Items /\ (Declares(i)' <=> Declares(i))
<1>1. /\ todo # <<>> /\ d.op = "DEFINE" /\ todo' = Tail(todo)
      /\ UNCHANGED <<program, phase, at>>
  BY DefineOutcome
<1>2. Items' = Items /\ (Declares(i)' <=> Declares(i))
  BY <1>1 DEF Items, Declares
<1>3. /\ Head(todo) = todo[1] /\ Len(todo) \in Nat \ {0}
      /\ Len(Tail(todo)) = Len(todo) - 1
      /\ \A j \in 1..Len(Tail(todo)) :
           Tail(todo)[j] = todo[j + 1] /\ j + 1 \in 1..Len(todo)
  <2>1. todo \in Seq(Op)
    BY DEF Walking, Orderly, Plan
  <2>2. QED BY <2>1, <1>1, TailOfPlan
<1>4. Pending(i)' => Pending(i)
  BY <1>1, <1>2, <1>3 DEF Pending
<1>5. ASSUME Pending(i), ~Pending(i)' PROVE Items[i].name = d.name
  <2>1. PICK k \in 1..Len(todo) : todo[k].op = "DEFINE" /\ todo[k].name = Items[i].name
    BY <1>5 DEF Pending
  <2>2. CASE k = 1
    BY <2>1, <2>2, <1>3
  <2>3. CASE k # 1
    <3>1. k - 1 \in 1..Len(Tail(todo)) /\ (k - 1) + 1 = k
      BY <2>3, <1>3
    <3>2. Tail(todo)[k - 1] = todo[k]
      BY <3>1, <1>3
    <3>3. Pending(i)'
      BY <3>1, <3>2, <2>1, <1>1, <1>2, <1>5 DEF Pending
    <3>4. QED BY <3>3, <1>5
  <2>4. QED BY <2>2, <2>3
<1>6. Past(i)' /\ ~Past(i) => Pending(i) /\ ~Pending(i)'
  BY <1>1 DEF Past
<1>7. Pending(i) => phase = "PREDECLARE" /\ i = at - 1
  BY DEF Pending
<1>8. Past(i) => Past(i)'
  BY <1>1, <1>4 DEF Past
<1>9. QED BY <1>2, <1>4, <1>5, <1>6, <1>7, <1>8

\* A name that is bound stays so.
LEMMA DefineBinds ==
  ASSUME IInv, Walking, RunDefine, NEW n \in Names
  PROVE  /\ stack' # <<>>
         /\ Binds(stack[1], n) => Binds(stack'[1], n)
         /\ Len(stack) = 1 /\ n = Head(todo).name => Binds(stack'[1], n)
<1>1. PICK d : d = Head(todo)
  OBVIOUS
<1>2. /\ Len(stack') = Len(stack) /\ Len(stack) \in Nat \ {0} /\ stack # <<>>
      /\ DefineRejected(d.name, d.kind, d.existing)
           \/ DefineAccepted(d.name, d.kind, d.existing)
  BY <1>1, DefineOutcome
<1>3. n \in AllNames /\ 1 \in 1..Len(stack)
  BY <1>2 DEF AllNames
<1>4. stack' # <<>>
  BY <1>2
<1>5. CASE DefineRejected(d.name, d.kind, d.existing)
  <2>1. stack' = stack /\ Binds(Top, d.name)
    BY <1>5 DEF DefineRejected, Rejected
  <2>2. QED BY <2>1, <1>1, <1>4 DEF Top
<1>6. CASE DefineAccepted(d.name, d.kind, d.existing)
  <2>1. /\ \A i \in 1..Len(stack) : \A m \in AllNames :
             stack'[i].symbols[m] =
               IF i = Len(stack) /\ m = d.name THEN nextId ELSE stack[i].symbols[m]
        /\ nextId # 0
    BY <1>1, <1>6, AcceptedOutcome
  <2>2. stack'[1].symbols[n] =
          IF 1 = Len(stack) /\ n = d.name THEN nextId ELSE stack[1].symbols[n]
    BY <1>3, <2>1
  <2>3. QED BY <2>1, <2>2, <1>1, <1>4 DEF Binds
<1>7. QED BY <1>2, <1>5, <1>6

LEMMA DefineRegistered ==
  ASSUME IInv, Walking, Meaning, RunDefine
  PROVE  Registered' /\ Clashes'
<1>1. PICK d : d = Head(todo)
  OBVIOUS
<1>2. /\ phase # "DONE" /\ phase' = phase /\ Len(stack) \in Nat
      /\ phase = "PREDECLARE" => Len(stack) = 1 /\ Meant(scopes[Top.id], d)
      /\ Items' = Items
      /\ DefineRejected(d.name, d.kind, d.existing)
           \/ DefineAccepted(d.name, d.kind, d.existing)
  BY <1>1, DefineOutcome DEF Items
<1>3. \A i \in 1..Len(Items) : Items[i].name \in Names
  BY ProgramFacts DEF Walking, Typed
<1>4. ASSUME NEW i \in 1..Len(Items), Past(i)', Declares(i)
      PROVE  stack' # <<>> /\ Binds(stack'[1], Items[i].name)
  <2>1. CASE Past(i)
    <3>1. Binds(stack[1], Items[i].name)
      BY <2>1, <1>2, <1>4 DEF Meaning, Registered
    <3>2. QED BY <3>1, <1>3, DefineBinds
  <2>2. CASE ~Past(i)
    <3>1. phase = "PREDECLARE" /\ Items[i].name = d.name
      BY <1>1, <1>4, <2>2, DefinePasses
    <3>2. QED BY <3>1, <1>1, <1>2, <1>3, DefineBinds
  <2>3. QED BY <2>1, <2>2
<1>5. Registered'
  <2>1. \A i \in 1..Len(Items) : Declares(i)' <=> Declares(i)
    BY <1>1, DefinePasses
  <2>2. QED BY <1>2, <1>4, <2>1 DEF Registered, Binds
<1>6. redeclared \subseteq redeclared'
  BY <1>2 DEF DefineRejected, DefineAccepted
<1>7. ASSUME NEW i \in 1..Len(Items), NEW j \in 1..Len(Items), i # j,
             Past(i)', ~Past(i), Past(j), Declares(j), Items[i].name = Items[j].name
      PROVE  Items[i].name \in redeclared'
  <2>1. phase = "PREDECLARE" /\ Items[i].name = d.name
    BY <1>1, <1>7, DefinePasses
  <2>2. Binds(stack[1], d.name)
    BY <2>1, <1>2, <1>7 DEF Meaning, Registered
  <2>3. d.kind # "VARIABLE"
    BY <2>1, <1>2 DEF Meant, PredeclaredKinds
  <2>4. DefineRejected(d.name, d.kind, d.existing)
    BY <2>1, <2>2, <2>3, <1>1, <1>2, <1>3, GlobalNamesRefused
  <2>5. QED BY <2>1, <2>4 DEF DefineRejected
<1>8. ASSUME NEW i \in 1..Len(Items), NEW j \in 1..Len(Items), i # j,
             Past(i)', Past(j)', Declares(i), Declares(j),
             Items[i].name = Items[j].name
      PROVE  Items[i].name \in redeclared'
  <2>1. CASE Past(i) /\ Past(j)
    BY <2>1, <1>6, <1>8 DEF Meaning, Clashes
  <2>2. CASE ~Past(i) /\ Past(j)
    BY <2>2, <1>7, <1>8
  <2>3. CASE Past(i) /\ ~Past(j)
    <3>1. Items[j].name \in redeclared'
      BY <2>3, <1>7, <1>8
    <3>2. QED BY <3>1, <1>8
  <2>4. CASE ~Past(i) /\ ~Past(j)
    <3>1. i = at - 1 /\ j = at - 1
      BY <2>4, <1>1, <1>8, DefinePasses
    <3>2. QED BY <3>1, <1>8
  <2>5. QED BY <2>1, <2>2, <2>3, <2>4
<1>9. Clashes'
  <2>1. \A i \in 1..Len(Items) : Declares(i)' <=> Declares(i)
    BY <1>1, DefinePasses
  <2>2. QED BY <1>2, <1>8, <2>1 DEF Clashes
<1>10. QED BY <1>5, <1>9

LEMMA DefinePredeclaredGlobal ==
  ASSUME IInv, Walking, Meaning, RunDefine
  PROVE  PredeclaredGlobal'
<1>1. PICK d : d = Head(todo)
  OBVIOUS
<1>2. /\ stack # <<>> /\ Len(stack) \in Nat \ {0} /\ Len(stack') = Len(stack)
      /\ phase # "DONE" /\ Meant(scopes[Top.id], d)
      /\ phase = "PREDECLARE" => Len(stack) = 1
      /\ UNCHANGED <<program, phase, at>>
      /\ \A id \in 1..Len(attr) : id \in 1..Len(attr') /\ attr'[id] = attr[id]
      /\ DefineRejected(d.name, d.kind, d.existing)
           \/ DefineAccepted(d.name, d.kind, d.existing)
  BY <1>1, DefineOutcome
<1>3. predeclared' = IF phase = "PREDECLARE" /\ nextId' # nextId
                        /\ d.kind # "ENUM_MEMBER"
                     THEN predeclared \cup {at - 1} ELSE predeclared
  BY <1>1 DEF RunDefine
<1>4. /\ Items' = Items /\ stack' # <<>> /\ 1 \in 1..Len(stack)
      /\ at \in Nat /\ predeclared \subseteq 1..Len(Items)
  <2>1. at \in 1..(Len(Items) + 1) /\ Len(Items) \in Nat
        /\ predeclared \subseteq 1..Len(Items)
    BY ProgramFacts DEF Walking, Typed
  <2>2. QED BY <2>1, <1>2 DEF Items
<1>5. ASSUME NEW i \in predeclared
      PROVE  /\ stack'[1].symbols[Items[i].name] \in 1..Len(attr')
             /\ attr'[stack'[1].symbols[Items[i].name]].kind \in PredeclaredKinds
  <2>1. PICK n : n = Items[i].name
    OBVIOUS
  <2>2. /\ stack[1].symbols[n] \in 1..Len(attr)
        /\ attr[stack[1].symbols[n]].kind \in PredeclaredKinds
    BY <1>2, <2>1 DEF Meaning, PredeclaredGlobal
  <2>3. n \in Names /\ n \in AllNames
    BY <1>4, <2>1, ProgramFacts DEF Walking, Typed, AllNames
  <2>4. CASE DefineRejected(d.name, d.kind, d.existing)
    BY <1>2, <2>1, <2>2, <2>4 DEF DefineRejected
  <2>5. CASE DefineAccepted(d.name, d.kind, d.existing)
    <3>1. ~(Len(stack) = 1 /\ n = d.name)
      <4>1. SUFFICES ASSUME Len(stack) = 1, n = d.name PROVE FALSE
        OBVIOUS
      <4>2. \A k \in 2..Len(stack) : ~Binds(stack[k], Items[i].name)
        BY <4>1
      <4>3. Binds(stack[1], n) /\ flat[n].kind \in PredeclaredKinds
        BY <4>2, <1>2, <2>1, GlobalSymbol
      <4>4. phase # "BUILTINS"
        BY DEF Meaning, PredeclaredGlobal
      <4>5. flat[n].kind # "BUILTIN"
        BY <4>3 DEF PredeclaredKinds
      <4>6. DefineRejected(d.name, d.kind, d.existing)
        BY <4>1, <4>3, <4>4, <4>5, <1>1, <2>3, GlobalNamesRefused
      <4>7. QED BY <4>6, <2>5 DEF DefineRejected, DefineAccepted
    <3>2. \A k \in 1..Len(stack) : \A m \in AllNames :
            stack'[k].symbols[m] =
              IF k = Len(stack) /\ m = d.name THEN nextId ELSE stack[k].symbols[m]
      BY <1>1, <2>5, AcceptedOutcome
    <3>3. stack'[1].symbols[n] = stack[1].symbols[n]
      BY <3>1, <3>2, <1>4, <2>3
    <3>4. QED BY <3>3, <2>1, <2>2, <1>2
  <2>6. QED BY <2>4, <2>5, <1>2
<1>6. ASSUME NEW i \in predeclared', i \notin predeclared
      PROVE  /\ stack'[1].symbols[Items[i].name] \in 1..Len(attr')
             /\ attr'[stack'[1].symbols[Items[i].name]].kind \in PredeclaredKinds
  <2>1. /\ phase = "PREDECLARE" /\ i = at - 1 /\ d.kind # "ENUM_MEMBER"
        /\ nextId' # nextId
    BY <1>3, <1>6
  <2>2. d.name = Items[i].name /\ d.kind \in PredeclaredKinds
    BY <2>1, <1>2 DEF Meant
  <2>3. DefineAccepted(d.name, d.kind, d.existing)
    BY <2>1, <1>2 DEF DefineRejected
  <2>4. /\ \A k \in 1..Len(stack) : \A m \in AllNames :
             stack'[k].symbols[m] =
               IF k = Len(stack) /\ m = d.name THEN nextId ELSE stack[k].symbols[m]
        /\ nextId \in 1..Len(attr') /\ attr'[nextId].kind = d.kind
    BY <1>1, <2>3, AcceptedOutcome
  <2>5. d.name \in AllNames
    BY <1>1, DefineOutcome
  <2>6. stack'[1].symbols[d.name] = nextId
    BY <2>1, <2>4, <2>5, <1>2, <1>4
  <2>7. QED BY <2>2, <2>4, <2>6
<1>7. phase = "BUILTINS" => predeclared' = {} /\ at' = 1
  BY <1>2, <1>3 DEF Meaning, PredeclaredGlobal
<1>8. phase = "PREDECLARE" => \A i \in predeclared' : i < at
  <2>1. \A i \in predeclared' : i \in predeclared \/ i = at - 1
    BY <1>3
  <2>2. at - 1 < at
    BY <1>4
  <2>3. phase = "PREDECLARE" => \A i \in predeclared : i < at
    BY DEF Meaning, PredeclaredGlobal
  <2>4. QED BY <2>1, <2>2, <2>3
<1>9. QED
  BY <1>2, <1>4, <1>5, <1>6, <1>7, <1>8 DEF PredeclaredGlobal

\* A definition gives its name's functions the parameters of the newest, or
\* reports them.
LEMMA DefineCallees ==
  ASSUME IInv, Walking, Meaning, RunDefine
  PROVE  Callees'
<1>1. PICK d : d = Head(todo)
  OBVIOUS
<1>2. /\ stack # <<>> /\ Len(stack) \in Nat \ {0}
      /\ phase # "DONE" /\ Meant(scopes[Top.id], d) /\ PermittedIn(scopes[Top.id], d)
      /\ scopes[Top.id] = "GLOBAL" <=> Len(stack) = 1
      /\ UNCHANGED <<scopes, program, phase, at, diags>>
      /\ d \in DefineOp /\ d.name \in AllNames
      /\ DefineRejected(d.name, d.kind, d.existing)
           \/ DefineAccepted(d.name, d.kind, d.existing)
  BY <1>1, DefineOutcome
<1>3. /\ params \in [Names -> 0..Foreign]
      /\ params' = IF \/ d.kind \notin Callables
                      \/ phase = "PREDECLARE" /\ nextId' = nextId
                   THEN params
                   ELSE [params EXCEPT ![d.name] =
                           IF nextId' # nextId THEN nextId ELSE Foreign]
  <2>1. params' = IF \/ d.kind \notin {"FUNCTION", "METHOD"}
                     \/ phase = "PREDECLARE" /\ ~(nextId' # nextId)
                  THEN params
                  ELSE [params EXCEPT ![d.name] =
                          IF nextId' # nextId THEN nextId ELSE Foreign]
    BY <1>1 DEF RunDefine
  <2>2. QED BY <2>1 DEF Walking, Typed, Callables
<1>4. /\ \A n \in Names : n # d.name => params'[n] = params[n]
      /\ d.kind \notin Callables => params' = params
  BY <1>3
<1>5. redeclared \subseteq redeclared'
  BY <1>2 DEF DefineRejected, DefineAccepted
<1>6. ASSUME NEW n \in Names, NEW s, Callee(n, s),
             \/ params'[n] = params[n]
             \/ n \in redeclared'
             \/ <<"NESTED_FUNCTION", n>> \in diags
      PROVE  Callee(n, s)'
  BY <1>2, <1>5, <1>6 DEF Callee
<1>7. SUFFICES ASSUME NEW n \in Names
               PROVE  /\ Callee(n, flat[n])'
                      /\ \A q \in 1..Len(history'[n]) : Callee(n, history[n][q])'
  BY DEF Callees
<1>8. /\ Callee(n, flat[n])
      /\ \A q \in 1..Len(history[n]) : Callee(n, history[n][q])
      /\ n \in AllNames /\ history[n] \in Seq(Symbol)
  BY Parts DEF IInv, Meaning, Callees, AllNames
<1>9. CASE DefineRejected(d.name, d.kind, d.existing)
  <2>1. flat'[n] = flat[n] /\ history'[n] = history[n] /\ d.name \in redeclared'
    BY <1>9 DEF DefineRejected
  <2>2. params'[n] = params[n] \/ n \in redeclared'
    BY <2>1, <1>4
  <2>3. \A s : Callee(n, s) => Callee(n, s)'
    BY <2>2, <1>6
  <2>4. QED BY <2>1, <2>3, <1>8 DEF Callee
<1>10. CASE DefineAccepted(d.name, d.kind, d.existing) /\ n # d.name
  <2>1. flat'[n] = flat[n] /\ history'[n] = history[n]
    BY <1>1, <1>8, <1>10, AcceptedOutcome
  <2>2. \A s : Callee(n, s) => Callee(n, s)'
    BY <1>4, <1>6, <1>10
  <2>3. QED BY <2>1, <2>2, <1>8 DEF Callee
<1>11. CASE DefineAccepted(d.name, d.kind, d.existing) /\ n = d.name
  <2>1. /\ flat'[n].id = nextId /\ flat'[n].kind = d.kind
        /\ flat'[n].scope = Top.id /\ history'[n] = Saved(n)
        /\ nextId' # nextId
    BY <1>1, <1>11, AcceptedOutcome
  <2>2. Callee(n, flat[n])'
    <3>1. d.kind \in Callables => params'[n] = nextId
      <4>1. SUFFICES ASSUME d.kind \in Callables PROVE params'[n] = nextId
        OBVIOUS
      <4>2. params' = [params EXCEPT ![d.name] = nextId]
        BY <4>1, <1>3, <2>1
      <4>3. QED BY <4>2, <1>3, <1>11
    <3>2. d.kind \in Callables =>
            scopes[Top.id] = "GLOBAL" \/ <<"NESTED_FUNCTION", n>> \in diags
      BY <1>2, <1>11 DEF Meant
    <3>3. QED BY <3>1, <3>2, <2>1, <1>2 DEF Callee
  <2>3. ASSUME NEW s, Callee(n, s), Placed(n, s), d.kind \in Callables,
               s.kind \in Callables
        PROVE  <<"NESTED_FUNCTION", n>> \in diags
    <3>1. SUFFICES ASSUME <<"NESTED_FUNCTION", n>> \notin diags PROVE FALSE
      OBVIOUS
    <3>2. scopes[s.scope] = "GLOBAL"
      BY <3>1, <2>3 DEF Callee
    <3>3. Binds(stack[1], n)
      BY <3>2, <2>3, <1>2 DEF Placed
    <3>4. scopes[Top.id] = "GLOBAL"
      BY <3>1, <2>3, <1>2, <1>11 DEF Meant
    <3>5. phase # "BUILTINS"
      BY <2>3, <1>2 DEF Meant, Callables
    <3>6. d.kind # "VARIABLE"
      BY <2>3 DEF Callables
    <3>7. DefineRejected(d.name, d.kind, d.existing)
      BY <3>3, <3>4, <3>5, <3>6, <1>1, <1>2, <1>11, GlobalNamesRefused
    <3>8. QED BY <3>7, <1>11 DEF DefineRejected, DefineAccepted
  <2>4. ASSUME NEW s, Callee(n, s), Placed(n, s) PROVE Callee(n, s)'
    <3>1. CASE d.kind \notin Callables
      BY <3>1, <2>4, <1>4, <1>6
    <3>2. CASE d.kind \in Callables /\ s.kind \in Callables
      BY <3>2, <2>3, <2>4, <1>6
    <3>3. CASE s.kind \notin Callables
      BY <3>3 DEF Callee
    <3>4. QED BY <3>1, <3>2, <3>3
  <2>5. /\ flat[n].id # 0 => Placed(n, flat[n])
        /\ \A q \in 1..Len(history[n]) : Placed(n, history[n][q])
    BY DEF IInv, NameInv, TrailPlaced
  <2>6. \A q \in 1..Len(history'[n]) :
          \/ q \in 1..Len(history[n]) /\ history'[n][q] = history[n][q]
          \/ flat[n].id # 0 /\ history'[n][q] = flat[n]
    <3>1. CASE flat[n].id = 0
      BY <3>1, <2>1 DEF Saved
    <3>2. CASE flat[n].id # 0
      <4>1. history'[n] = Append(history[n], flat[n]) /\ flat[n] \in Symbol
        BY <3>2, <2>1, <1>8, Parts DEF Saved, IInv
      <4>2. /\ Len(history'[n]) = Len(history[n]) + 1 /\ Len(history[n]) \in Nat
            /\ \A q \in 1..Len(history[n]) : history'[n][q] = history[n][q]
            /\ history'[n][Len(history[n]) + 1] = flat[n]
        BY <4>1, <1>8, AppendProperties
      <4>3. QED BY <4>2, <3>2
    <3>3. QED BY <3>1, <3>2
  <2>7. ASSUME NEW q \in 1..Len(history'[n]) PROVE Callee(n, history[n][q])'
    <3>1. PICK s : s = history'[n][q]
      OBVIOUS
    <3>2. Callee(n, s) /\ Placed(n, s)
      BY <3>1, <2>5, <2>6, <1>8
    <3>3. Callee(n, s)'
      BY <3>2, <2>4
    <3>4. QED BY <3>1, <3>3 DEF Callee
  <2>8. QED BY <2>2, <2>7
<1>12. QED BY <1>2, <1>9, <1>10, <1>11

\* Only a type of the same name as an enum can take its members' names.
LEMMA DefineMembersKept ==
  ASSUME IInv, Walking, Meaning, RunDefine
  PROVE  MembersKept'
<1>1. PICK d : d = Head(todo)
  OBVIOUS
<1>2. /\ todo # <<>> /\ d.op = "DEFINE" /\ todo' = Tail(todo) /\ phase # "DONE"
      /\ Meant(scopes[Top.id], d)
      /\ UNCHANGED <<program, phase, at>>
      /\ DefineRejected(d.name, d.kind, d.existing)
           \/ DefineAccepted(d.name, d.kind, d.existing)
  BY <1>1, DefineOutcome
<1>3. /\ d = todo[1] /\ 1 \in 1..Len(todo) /\ Len(todo) \in Nat \ {0}
      /\ Len(Tail(todo)) = Len(todo) - 1
      /\ \A j \in 1..Len(Tail(todo)) :
           Tail(todo)[j] = todo[j + 1] /\ j + 1 \in 1..Len(todo)
  <2>1. todo \in Seq(Op)
    BY DEF Walking, Orderly, Plan
  <2>2. QED BY <2>1, <1>1, <1>2, TailOfPlan
<1>4. redeclared \subseteq redeclared' /\ Items' = Items
  BY <1>2 DEF DefineRejected, DefineAccepted, Items
<1>5. ASSUME NEW i \in 1..Len(Items), i \in predeclared' \/ Pending(i)'
      PROVE  i \in predeclared \/ Pending(i)
  <2>1. CASE Pending(i)'
    BY <2>1, <1>1, <1>5, DefinePasses
  <2>2. CASE i \in predeclared' /\ i \notin predeclared
    <3>1. predeclared' = IF phase = "PREDECLARE" /\ nextId' # nextId
                            /\ d.kind # "ENUM_MEMBER"
                         THEN predeclared \cup {at - 1} ELSE predeclared
      BY <1>1 DEF RunDefine
    <3>2. phase = "PREDECLARE" /\ i = at - 1 /\ d.kind # "ENUM_MEMBER"
      BY <3>1, <2>2
    <3>3. d.name = Items[i].name
      BY <3>2, <1>2 DEF Meant
    <3>4. Pending(i)
      BY <3>2, <3>3, <1>2, <1>3 DEF Pending
    <3>5. QED BY <3>4
  <2>3. QED BY <2>1, <2>2, <1>5
<1>6. SUFFICES ASSUME NEW i \in 1..Len(Items), i \in predeclared' \/ Pending(i)',
                      Items[i].node = "ENUM", Items[i].name \notin redeclared',
                      NEW j \in 1..Len(Items[i].parts)
               PROVE  \/ flat'[<<Items[i].name, Items[i].parts[j]>>].kind = "ENUM_MEMBER"
                      \/ Promised(<<Items[i].name, Items[i].parts[j]>>)'
  BY <1>4 DEF MembersKept, Promised
<1>7. PICK m : m = <<Items[i].name, Items[i].parts[j]>>
  OBVIOUS
<1>8. m \in Members /\ m \in AllNames
  BY <1>6, <1>7, ProgramFacts DEF Walking, Typed, AllNames
<1>9. /\ i \in predeclared \/ Pending(i)
      /\ Items[i].name \notin redeclared
  BY <1>4, <1>5, <1>6
<1>10. flat[m].kind = "ENUM_MEMBER" \/ Promised(m)
  BY <1>6, <1>7, <1>9 DEF Meaning, MembersKept
<1>11. phase # "BUILTINS"
  BY <1>9 DEF Meaning, PredeclaredGlobal, Pending
<1>12. CASE d.name = m
  <2>1. d.existing
    BY <1>2, <1>8, <1>12 DEF Meant
  <2>2. DefineAccepted(d.name, d.kind, d.existing)
    BY <2>1, <1>2 DEF DefineRejected, Rejected
  <2>3. flat'[m].kind = d.kind
    BY <2>2, <1>1, <1>12, AcceptedOutcome
  <2>4. d.kind = "ENUM_MEMBER"
    <3>1. SUFFICES ASSUME d.kind # "ENUM_MEMBER" PROVE FALSE
      OBVIOUS
    <3>2. /\ phase = "WALK" /\ at > 1 /\ Items[at - 1].node = "TYPE"
          /\ \E part \in Names : d.name = <<Items[at - 1].name, part>>
      BY <3>1, <1>2, <1>8, <1>11, <1>12 DEF Meant
    <3>3. Items[at - 1].name = Items[i].name
      BY <3>2, <1>7, <1>12
    <3>4. at - 1 \in 1..Len(Items)
      <4>1. at \in 1..(Len(Items) + 1) /\ Len(Items) \in Nat
        BY ProgramFacts DEF Walking, Typed
      <4>2. QED BY <4>1, <3>2
    <3>5. at - 1 # i
      BY <3>2, <1>6
    <3>6. Declares(at - 1) /\ Declares(i) /\ Past(at - 1) /\ Past(i)
      BY <3>2, <1>6 DEF Declares, Past
    <3>7. Items[i].name \in redeclared
      BY <3>3, <3>4, <3>5, <3>6 DEF Meaning, Clashes
    <3>8. QED BY <3>7, <1>9
  <2>5. QED BY <2>3, <2>4, <1>7
<1>13. CASE d.name # m
  <2>1. flat'[m] = flat[m]
    <3>1. CASE DefineRejected(d.name, d.kind, d.existing)
      BY <3>1 DEF DefineRejected
    <3>2. CASE DefineAccepted(d.name, d.kind, d.existing)
      BY <3>2, <1>1, <1>8, <1>13, AcceptedOutcome
    <3>3. QED BY <3>1, <3>2, <1>2
  <2>2. CASE flat[m].kind = "ENUM_MEMBER"
    BY <2>1, <2>2, <1>7
  <2>3. CASE Promised(m)
    <3>1. PICK k \in 1..Len(todo) :
            todo[k].op = "DEFINE" /\ todo[k].name = m /\ todo[k].kind = "ENUM_MEMBER"
      BY <2>3 DEF Promised
    <3>2. k # 1
      BY <3>1, <1>3, <1>13
    <3>3. k - 1 \in 1..Len(Tail(todo)) /\ (k - 1) + 1 = k
      BY <3>2, <1>3
    <3>4. Tail(todo)[k - 1] = todo[k]
      BY <3>3, <1>3
    <3>5. Promised(m)'
      BY <3>1, <3>3, <3>4, <2>3, <1>2 DEF Promised
    <3>6. QED BY <3>5, <1>4, <1>7 DEF Promised
  <2>4. QED BY <2>2, <2>3, <1>10
<1>14. QED BY <1>12, <1>13

LEMMA DefineMeaning ==
  ASSUME IInv, Walking, Meaning, RunDefine
  PROVE  Meaning'
BY DefineRegistered, DefinePredeclaredGlobal, DefineMembersOutside,
   DefineMembersKept, DefineCallees DEF Meaning

\* The names of a scope that closes get back the meaning they had; qualified
\* names and those of the global scope keep the one they have.
LEMMA PopMeaning ==
  ASSUME IInv, Walking, Meaning, PopScope,
         UNCHANGED <<params, predeclared, program, at>>,
         diags \subseteq diags', Len(attr') = Len(attr),
         \A id \in 1..Len(attr) : attr'[id].kind = attr[id].kind,
         \A i : Pending(i)' <=> Pending(i),
         \A i : Past(i)' <=> Past(i),
         \A m : Promised(m)' <=> Promised(m),
         \/ phase' = phase /\ phase # "DONE" /\ Len(stack) # 1
         \/ phase = "WALK" /\ phase' = "DONE" /\ Len(stack) = 1
  PROVE  Meaning'
<1>1. /\ scopes' = scopes /\ redeclared' = redeclared /\ stack # <<>>
      /\ Len(stack') = Len(stack) - 1 /\ Len(stack) \in Nat \ {0}
      /\ \A i \in 1..Len(stack') : i \in 1..Len(stack) /\ stack'[i] = stack[i]
  <2>1. TypeOK
    BY DEF IInv
  <2>2. QED BY <2>1, PopDepth DEF PopScope
<1>2. Items' = Items /\ \A i : Declares(i)' <=> Declares(i)
  BY DEF Items, Declares
<1>3. ASSUME phase' # "DONE"
      PROVE  stack' # <<>> /\ stack'[1] = stack[1] /\ phase # "DONE"
  <2>1. Len(stack) # 1 /\ phase # "DONE"
    BY <1>3
  <2>2. 1 \in 1..Len(stack')
    BY <2>1, <1>1
  <2>3. QED BY <2>1, <2>2, <1>1
<1>4. Registered' /\ Clashes'
  BY <1>1, <1>2, <1>3 DEF Meaning, Registered, Clashes, Binds
<1>5. \A n \in AllNames : Kept(Top, n) \/ ~Binds(Top, n) => flat'[n] = flat[n]
  BY DEF PopScope, Restores
<1>6. predeclared \subseteq 1..Len(Items)
      /\ \A i \in 1..Len(Items) : Items[i].name \in AllNames
  BY ProgramFacts DEF Walking, Typed, AllNames
<1>7. PredeclaredGlobal'
  <2>1. CASE phase' # "DONE"
    <3>1. phase' = phase
      BY <2>1
    <3>2. \A i \in predeclared :
            /\ stack' # <<>>
            /\ stack'[1].symbols[Items[i].name] \in 1..Len(attr')
            /\ attr'[stack'[1].symbols[Items[i].name]].kind \in PredeclaredKinds
      BY <2>1, <1>3 DEF Meaning, PredeclaredGlobal
    <3>3. /\ phase = "BUILTINS" => predeclared = {} /\ at = 1
          /\ phase = "PREDECLARE" => \A i \in predeclared : i < at
      BY DEF Meaning, PredeclaredGlobal
    <3>4. QED BY <3>1, <3>2, <3>3, <2>1, <1>2 DEF PredeclaredGlobal
  <2>2. CASE phase' = "DONE"
    <3>1. phase = "WALK" /\ Len(stack) = 1
      BY <2>2
    <3>2. \A n : Kept(Top, n)
      BY <3>1, <1>1 DEF IInv, ScopesNested, Top, Kept
    <3>3. ASSUME NEW i \in predeclared
          PROVE  /\ flat'[Items[i].name].kind \in PredeclaredKinds
                 /\ scopes[flat'[Items[i].name].scope] = "GLOBAL"
      <4>1. \A k \in 2..Len(stack) : ~Binds(stack[k], Items[i].name)
        BY <3>1
      <4>2. /\ flat[Items[i].name].kind \in PredeclaredKinds
            /\ scopes[flat[Items[i].name].scope] = "GLOBAL"
        BY <4>1, <3>1, GlobalSymbol
      <4>3. flat'[Items[i].name] = flat[Items[i].name]
        BY <3>2, <1>5, <1>6
      <4>4. QED BY <4>2, <4>3
    <3>4. QED BY <3>3, <2>2, <1>1, <1>2 DEF PredeclaredGlobal
  <2>3. QED BY <2>1, <2>2
<1>8. MembersOutside'
  BY <1>1 DEF Meaning, MembersOutside, Binds
<1>9. MembersKept'
  <2>1. ASSUME NEW m \in Members PROVE flat'[m] = flat[m]
    <3>1. m \in AllNames
      BY DEF AllNames
    <3>2. Binds(Top, m) => scopes[Top.id] \in {"GLOBAL", "TYPE_DECL"}
      BY <1>1 DEF Meaning, MembersOutside, Top
    <3>3. Binds(Top, m) => Kept(Top, m)
      BY <3>2 DEF Kept
    <3>4. QED BY <3>1, <3>3, <1>5
  <2>2. \A i \in 1..Len(Items) : Items[i].node = "ENUM" =>
          \A j \in 1..Len(Items[i].parts) :
            <<Items[i].name, Items[i].parts[j]>> \in Members
    BY ProgramFacts DEF Walking, Typed
  <2>3. ASSUME NEW i \in 1..Len(Items), i \in predeclared \/ Pending(i),
               Items[i].node = "ENUM", Items[i].name \notin redeclared,
               NEW j \in 1..Len(Items[i].parts)
        PROVE  \/ flat'[<<Items[i].name, Items[i].parts[j]>>].kind = "ENUM_MEMBER"
               \/ Promised(<<Items[i].name, Items[i].parts[j]>>)
    <3>1. PICK m : m = <<Items[i].name, Items[i].parts[j]>>
      OBVIOUS
    <3>2. flat[m].kind = "ENUM_MEMBER" \/ Promised(m)
      BY <2>3, <3>1 DEF Meaning, MembersKept
    <3>3. flat'[m] = flat[m]
      BY <2>1, <2>2, <2>3, <3>1
    <3>4. QED BY <3>1, <3>2, <3>3
  <2>4. QED BY <2>3, <1>1, <1>2 DEF MembersKept
<1>10. Callees'
  <2>1. SUFFICES ASSUME NEW n \in Names
                 PROVE  /\ Callee(n, flat[n])'
                        /\ \A q \in 1..Len(history'[n]) : Callee(n, history[n][q])'
    BY DEF Callees
  <2>2. ASSUME NEW s, Callee(n, s) PROVE Callee(n, s)'
    BY <2>2, <1>1 DEF Callee
  <2>3. /\ Callee(n, flat[n])
        /\ \A q \in 1..Len(history[n]) : Callee(n, history[n][q])
        /\ history[n] \in Seq(Symbol) /\ n \in AllNames
    BY Parts DEF IInv, Meaning, Callees, AllNames
  <2>4. /\ flat'[n] = IF Restores(n) THEN history[n][Len(history[n])] ELSE flat[n]
        /\ history'[n] = IF Restores(n)
                         THEN SubSeq(history[n], 1, Len(history[n]) - 1)
                         ELSE history[n]
    BY <2>3 DEF PopScope
  <2>5. /\ Callee(n, flat'[n])
        /\ \A q \in 1..Len(history'[n]) : Callee(n, history'[n][q])
    <3>1. CASE Restores(n)
      <4>1. history[n] # <<>>
        BY <3>1 DEF Restores
      <4>2. /\ Len(history[n]) \in Nat \ {0}
            /\ Len(history[n]) \in 1..Len(history[n])
            /\ Len(history'[n]) = Len(history[n]) - 1
            /\ \A q \in 1..(Len(history[n]) - 1) : history'[n][q] = history[n][q]
        BY <4>1, <3>1, <2>3, <2>4, LastOfSeq
      <4>3. \A q \in 1..Len(history'[n]) :
              q \in 1..Len(history[n]) /\ history'[n][q] = history[n][q]
        BY <4>2
      <4>4. flat'[n] = history[n][Len(history[n])]
        BY <3>1, <2>4
      <4>5. QED BY <4>2, <4>3, <4>4, <2>3
    <3>2. CASE ~Restores(n)
      BY <3>2, <2>3, <2>4
    <3>3. QED BY <3>1, <3>2
  <2>6. Callee(n, flat[n])'
    <3>1. PICK s : s = flat'[n]
      OBVIOUS
    <3>2. Callee(n, s)'
      BY <3>1, <2>2, <2>5
    <3>3. QED BY <3>1, <3>2 DEF Callee
  <2>7. ASSUME NEW q \in 1..Len(history'[n]) PROVE Callee(n, history[n][q])'
    <3>1. PICK s : s = history'[n][q]
      OBVIOUS
    <3>2. Callee(n, s)'
      BY <3>1, <2>2, <2>5
    <3>3. QED BY <3>1, <3>2 DEF Callee
  <2>8. QED BY <2>6, <2>7
<1>11. QED BY <1>4, <1>7, <1>8, <1>9, <1>10 DEF Meaning

\* A scope that opens declares nothing yet.
LEMMA PushMeaning ==
  ASSUME IInv, Walking, Meaning, RunPush
  PROVE  Meaning'
<1>1. /\ todo # <<>> /\ Head(todo).op = "PUSH" /\ todo' = Tail(todo)
      /\ PushScope(Head(todo).kind)
      /\ UNCHANGED <<tableVars, passVars, diags>>
  BY DEF RunPush
<1>2. UNCHANGED <<attr, params, predeclared, program, phase, at, diags, flat,
                  history, redeclared>>
  BY <1>1 DEF tableVars, passVars, PushScope
<1>3. /\ Len(stack') = Len(stack) + 1 /\ Len(stack) \in Nat
      /\ stack' # <<>>
      /\ \A i \in 1..Len(stack) : stack'[i] = stack[i]
      /\ \A i \in 1..Len(scopes) : scopes'[i] = scopes[i]
  <2>1. Head(todo).kind \in ScopeKinds
    BY <1>1, PushPermitted
  <2>2. TypeOK
    BY DEF IInv
  <2>3. QED BY <1>1, <2>1, <2>2, PushDepth
<1>4. \A m \in AllNames : ~Binds(stack'[Len(stack) + 1], m)
  <2>1. stack \in Seq(ScopeRecord)
    BY DEF IInv, TypeOK, ScopeRecord
  <2>2. stack' = Append(stack, [id |-> Len(scopes) + 1,
                                symbols |-> [n \in AllNames |-> 0]])
    BY <1>1 DEF PushScope
  <2>3. stack'[Len(stack) + 1].symbols = [n \in AllNames |-> 0]
    BY <2>1, <2>2
  <2>4. QED BY <2>3 DEF Binds
<1>5. Items' = Items /\ \A i : Declares(i)' <=> Declares(i)
  BY <1>2 DEF Items, Declares
<1>6. /\ todo[1] = Head(todo) /\ Len(todo) \in Nat \ {0}
      /\ Len(Tail(todo)) = Len(todo) - 1
      /\ \A j \in 1..Len(Tail(todo)) :
           Tail(todo)[j] = todo[j + 1] /\ j + 1 \in 1..Len(todo)
  <2>1. todo \in Seq(Op)
    BY DEF Walking, Orderly, Plan
  <2>2. QED BY <2>1, <1>1, TailOfPlan
<1>7. \A k \in 1..Len(todo) : todo[k].op = "DEFINE" =>
        \E j \in 1..Len(Tail(todo)) : Tail(todo)[j] = todo[k]
  <2>1. SUFFICES ASSUME NEW k \in 1..Len(todo), todo[k].op = "DEFINE"
                 PROVE  \E j \in 1..Len(Tail(todo)) : Tail(todo)[j] = todo[k]
    OBVIOUS
  <2>2. k # 1
    BY <2>1, <1>1, <1>6
  <2>3. k - 1 \in 1..Len(Tail(todo)) /\ (k - 1) + 1 = k
    BY <2>2, <1>6
  <2>4. Tail(todo)[k - 1] = todo[k]
    BY <2>3, <1>6
  <2>5. QED BY <2>3, <2>4
<1>8. /\ \A i : Pending(i)' <=> Pending(i)
      /\ \A m : Promised(m)' <=> Promised(m)
  <2>1. \A j \in 1..Len(Tail(todo)) :
          \E k \in 1..Len(todo) : todo[k] = Tail(todo)[j]
    BY <1>6
  <2>2. ASSUME NEW i PROVE Pending(i)' <=> Pending(i)
    <3>1. Pending(i) => Pending(i)'
      BY <1>1, <1>2, <1>5, <1>7 DEF Pending
    <3>2. Pending(i)' => Pending(i)
      BY <2>1, <1>1, <1>2, <1>5 DEF Pending
    <3>3. QED BY <3>1, <3>2
  <2>3. ASSUME NEW m PROVE Promised(m)' <=> Promised(m)
    <3>1. Promised(m) => Promised(m)'
      BY <1>1, <1>2, <1>7 DEF Promised
    <3>2. Promised(m)' => Promised(m)
      BY <2>1, <1>1, <1>2 DEF Promised
    <3>3. QED BY <3>1, <3>2
  <2>4. QED BY <2>2, <2>3
<1>9. \A i : Past(i)' <=> Past(i)
  BY <1>2, <1>8 DEF Past
<1>10. stack # <<>> => stack'[1] = stack[1]
  <2>1. ASSUME stack # <<>> PROVE 1 \in 1..Len(stack)
    <3>1. stack \in Seq(ScopeRecord)
      BY DEF IInv, TypeOK, ScopeRecord
    <3>2. Len(stack) \in Nat \ {0}
      BY <3>1, <2>1, LastOfSeq
    <3>3. QED BY <3>2
  <2>2. QED BY <2>1, <1>3
<1>11. Registered'
  BY <1>2, <1>3, <1>5, <1>9, <1>10 DEF Meaning, Registered, Binds
<1>12. Clashes'
  BY <1>2, <1>5, <1>9 DEF Meaning, Clashes
<1>13. PredeclaredGlobal'
  <2>1. phase # "DONE"
    BY <1>1 DEF Walking, Following
  <2>2. QED BY <2>1, <1>2, <1>3, <1>5, <1>10 DEF Meaning, PredeclaredGlobal
<1>14. MembersOutside'
  <2>1. SUFFICES ASSUME NEW m \in Members, NEW k \in 1..Len(stack'),
                        Binds(stack'[k], m)
                 PROVE  scopes'[stack'[k].id] \in {"GLOBAL", "TYPE_DECL"}
    BY DEF MembersOutside, Binds
  <2>2. m \in AllNames
    BY DEF AllNames
  <2>3. k # Len(stack) + 1
    BY <2>1, <2>2, <1>4
  <2>4. k \in 1..Len(stack)
    BY <2>3, <1>3
  <2>5. stack'[k] = stack[k] /\ stack[k].id \in 1..Len(scopes)
    BY <2>4, <1>3 DEF IInv, ScopesNested
  <2>6. scopes[stack[k].id] \in {"GLOBAL", "TYPE_DECL"}
    BY <2>1, <2>4, <2>5 DEF Meaning, MembersOutside
  <2>7. QED BY <2>5, <2>6, <1>3
<1>15. MembersKept'
  BY <1>2, <1>5, <1>8 DEF Meaning, MembersKept
<1>16. Callees'
  <2>1. ASSUME NEW n \in Names, NEW s, Callee(n, s),
               s.kind \in Callables => s.scope \in 1..Len(scopes)
        PROVE  Callee(n, s)'
    BY <2>1, <1>2, <1>3 DEF Callee
  <2>2. SUFFICES ASSUME NEW n \in Names
                 PROVE  /\ Callee(n, flat[n])'
                        /\ \A q \in 1..Len(history'[n]) : Callee(n, history[n][q])'
    BY DEF Callees
  <2>3. /\ Callee(n, flat[n])
        /\ \A q \in 1..Len(history[n]) : Callee(n, history[n][q])
    BY DEF Meaning, Callees
  <2>4. /\ flat[n].kind \in Callables => flat[n].scope \in 1..Len(scopes)
        /\ \A q \in 1..Len(history[n]) : history[n][q].scope \in 1..Len(scopes)
    <3>1. TrailPlaced(n)
      BY DEF IInv, NameInv
    <3>2. flat[n].kind \in Callables => flat[n].id # 0
      <4>1. flat[n] \in Symbol \cup {NoSymbol}
        BY DEF IInv, TypeOK, AllNames
      <4>2. NoSymbol.kind \notin Callables
        BY DEF NoSymbol, Callables
      <4>3. \A s \in Symbol : s.id # 0
        BY DEF Symbol
      <4>4. QED BY <4>1, <4>2, <4>3
    <3>3. QED BY <3>1, <3>2 DEF TrailPlaced, Placed
  <2>5. Callee(n, flat[n])'
    <3>1. PICK s : s = flat[n]
      OBVIOUS
    <3>2. Callee(n, s)'
      BY <3>1, <2>1, <2>3, <2>4
    <3>3. QED BY <3>1, <3>2, <1>2 DEF Callee
  <2>6. ASSUME NEW q \in 1..Len(history'[n]) PROVE Callee(n, history[n][q])'
    <3>1. PICK s : s = history[n][q]
      OBVIOUS
    <3>2. q \in 1..Len(history[n])
      BY <1>2
    <3>3. Callee(n, s)'
      BY <3>1, <3>2, <2>1, <2>3, <2>4
    <3>4. QED BY <3>1, <3>3, <1>2 DEF Callee
  <2>7. QED BY <2>5, <2>6
<1>17. QED
  BY <1>11, <1>12, <1>13, <1>14, <1>15, <1>16 DEF Meaning

\* A scope that closes, by the end of a type, a block or a function, or by the
\* end of the walk.
LEMMA ClosersMeaning ==
  ASSUME IInv, Walking, Meaning, RunPop \/ CloseBlock \/ CloseCallable \/ FinishWalk
  PROVE  Meaning'
<1>1. Len(stack) \in Nat
  BY Parts DEF IInv
<1>2. CASE RunPop
  <2>1. /\ todo # <<>> /\ Head(todo).op = "POP" /\ PopScope /\ todo' = Tail(todo)
        /\ UNCHANGED <<attr, params, predeclared, program, phase, at, diags>>
    BY <1>2 DEF RunPop, tableVars, passVars
  <2>2. Tail(todo) = <<>> /\ ~Pushing(todo) /\ Popping(todo)
    BY <2>1, PopOfPlan DEF Walking, Orderly
  <2>3. /\ phase # "DONE" /\ frames = <<>>
        /\ Len(stack) + Opening = Len(frames) + 1 + Closing
    BY <2>1, <2>2 DEF Walking, Following
  <2>4. Opening = 0 /\ Closing = 1 /\ Len(frames) = 0
    BY <2>2, <2>3 DEF Opening, Closing
  <2>5. Len(stack) + 0 = 0 + 1 + 1
    BY <2>3, <2>4
  <2>6. Len(stack) # 1
    BY <2>5, <1>1
  <2>7. \A k \in 1..Len(todo) : todo[k].op # "DEFINE"
    <3>1. todo \in Seq(Op)
      BY DEF Walking, Orderly, Plan
    <3>2. /\ Head(todo) = todo[1] /\ Len(todo) \in Nat
          /\ Len(Tail(todo)) = Len(todo) - 1
      BY <3>1, <2>1, TailOfPlan
    <3>3. Len(Tail(todo)) = 0
      <4>1. Tail(todo) = <<>> /\ Len(<<>>) = 0
        BY <2>2, EmptySeq
      <4>2. QED BY <4>1, Zenon
    <3>4. Len(todo) = 1
      BY <3>2, <3>3
    <3>5. \A k \in 1..Len(todo) : k = 1
      BY <3>4
    <3>6. QED BY <3>2, <3>5, <2>1
  <2>8. /\ \A i : Pending(i)' <=> Pending(i)
        /\ \A m : Promised(m)' <=> Promised(m)
    <3>1. todo' = <<>> /\ Len(todo') = 0
      BY <2>1, <2>2
    <3>2. QED BY <3>1, <2>7 DEF Pending, Promised
  <2>9. \A i : Past(i)' <=> Past(i)
    BY <2>1, <2>8 DEF Past
  <2>10. QED BY <2>1, <2>3, <2>6, <2>8, <2>9, PopMeaning
<1>3. CASE CloseBlock \/ CloseCallable
  <2>1. /\ Idle /\ frames # <<>> /\ PopScope
        /\ UNCHANGED <<params, predeclared, program, phase, at, todo, diags>>
    BY <1>3 DEF CloseBlock, CloseCallable, tableVars, passVars
  <2>2. /\ Len(attr') = Len(attr)
        /\ \A id \in 1..Len(attr) : attr'[id].kind = attr[id].kind
    <3>1. CASE CloseBlock
      <4>1. attr' = attr
        BY <3>1 DEF CloseBlock, tableVars
      <4>2. QED BY <4>1
    <3>2. CASE CloseCallable
      BY <3>2, ReturnTypeStored
    <3>3. QED BY <3>1, <3>2, <1>3
  <2>3. phase = "WALK" /\ Len(stack) # 1
    BY <2>1, IdleScopes DEF Idle
  <2>4. /\ \A i : Pending(i)' <=> Pending(i)
        /\ \A m : Promised(m)' <=> Promised(m)
        /\ \A i : Past(i)' <=> Past(i)
    BY <2>1, <2>3 DEF Pending, Promised, Past
  <2>5. QED BY <2>1, <2>2, <2>3, <2>4, PopMeaning
<1>4. CASE FinishWalk
  <2>1. /\ phase = "WALK" /\ todo = <<>> /\ frames = <<>> /\ phase' = "DONE"
        /\ PopScope /\ diags \subseteq diags'
        /\ UNCHANGED <<attr, params, predeclared, program, at>>
    BY <1>4 DEF FinishWalk, Idle, Issue, tableVars
  <2>2. Len(stack) = 1
    BY <2>1, IdleScopes
  <2>3. /\ \A i : Pending(i)' <=> Pending(i)
        /\ \A m : Promised(m)' <=> Promised(m)
        /\ \A i : Past(i)' <=> Past(i)
    BY <2>1 DEF Pending, Promised, Past
  <2>4. QED BY <2>1, <2>2, <2>3, PopMeaning
<1>5. QED BY <1>2, <1>3, <1>4

\* The passes that look at no item, or leave none to be looked at.
LEMMA TurnMeaning ==
  ASSUME IInv, Walking, Meaning, IndexDeclaration \/ StartWalk
  PROVE  Meaning'
<1>1. /\ todo = <<>> /\ todo' = todo /\ phase' # "DONE" /\ phase # "DONE"
      /\ phase' # "BUILTINS"
      /\ UNCHANGED <<scopes, stack, flat, history, redeclared, attr, params,
                     predeclared, program>>
      /\ diags \subseteq diags'
  BY DEF IndexDeclaration, StartWalk, Issue, scopeVars, tableVars
<1>2. Items' = Items /\ \A i : Declares(i)' <=> Declares(i)
  BY <1>1 DEF Items, Declares
<1>3. /\ \A i : ~Pending(i) /\ ~Pending(i)'
      /\ \A m : ~Promised(m) /\ ~Promised(m)'
  BY <1>1 DEF Pending, Promised
<1>4. \A i \in 1..Len(Items) : Past(i)' => Past(i)
  <2>1. SUFFICES ASSUME NEW i \in 1..Len(Items), Past(i)' PROVE Past(i)
    OBVIOUS
  <2>2. CASE IndexDeclaration
    <3>1. phase' = "PREDECLARE" /\ at' = at /\ at = 1
      BY <2>2 DEF IndexDeclaration, Meaning, PredeclaredGlobal
    <3>2. i < 1
      BY <3>1, <2>1 DEF Past
    <3>3. QED BY <3>2
  <2>3. CASE StartWalk
    <3>1. phase = "PREDECLARE" /\ at > Len(Items)
      BY <2>3 DEF StartWalk
    <3>2. at \in Nat /\ Len(Items) \in Nat
      BY ProgramFacts DEF Walking, Typed
    <3>3. i < at
      BY <3>1, <3>2
    <3>4. QED BY <3>1, <3>3, <1>3 DEF Past
  <2>4. QED BY <2>2, <2>3
<1>5. Registered' /\ Clashes'
  BY <1>1, <1>2, <1>4 DEF Meaning, Registered, Clashes, Binds
<1>6. PredeclaredGlobal'
  <2>1. phase' = "PREDECLARE" => predeclared = {}
    BY DEF IndexDeclaration, StartWalk, Meaning, PredeclaredGlobal
  <2>2. QED BY <2>1, <1>1, <1>2 DEF Meaning, PredeclaredGlobal
<1>7. MembersOutside'
  BY <1>1 DEF Meaning, MembersOutside, Binds
<1>8. MembersKept'
  BY <1>1, <1>2, <1>3 DEF Meaning, MembersKept
<1>9. Callees'
  BY <1>1 DEF Meaning, Callees, Callee
<1>10. QED BY <1>5, <1>6, <1>7, <1>8, <1>9 DEF Meaning

\* What an item leaves to be predeclared: its name first, then its members.
LEMMA PredeclaredOps ==
  ASSUME Walking, PredeclareItem
  PROVE  /\ at \in 1..Len(Items)
         /\ Declares(at) =>
              \E k \in 1..Len(todo') :
                todo'[k].op = "DEFINE" /\ todo'[k].name = Items[at].name
         /\ Items[at].node = "ENUM" =>
              \A j \in 1..Len(Items[at].parts) :
                \E k \in 1..Len(todo') :
                  /\ todo'[k].op = "DEFINE" /\ todo'[k].kind = "ENUM_MEMBER"
                  /\ todo'[k].name = <<Items[at].name, Items[at].parts[j]>>
<1> DEFINE item == Items[at]
           own(kind) == Definition(item.name, kind, FALSE, "unknown", Unstated)
           one(kind) == <<own(kind)>>
<1>1. todo' = CASE item.node = "STATEMENTS" -> <<>>
                [] item.node = "IMPORT" -> one("IMPORT_ALIAS")
                [] item.node = "ENUM" -> one("ENUM") \o MemberDefinitions(item)
                [] OTHER -> one(item.node)
  BY DEF PredeclareItem
<1>2. at \in 1..Len(Items) /\ program \in Programs
  <2>1. at <= Len(Items)
    BY DEF PredeclareItem
  <2>2. at \in 1..(Len(Items) + 1) /\ program \in Programs /\ Len(Items) \in Nat
    BY ProgramFacts DEF Walking, Typed
  <2>3. QED BY <2>1, <2>2
<1>3. item.node \in ItemNodes /\ item.name \in Names /\ item.parts \in Seq(Names)
  BY <1>2, ProgramFacts
<1>4. \A kind : own(kind).op = "DEFINE" /\ own(kind).name = item.name
  BY DEF Definition
<1>5. ASSUME item.node # "ENUM", Declares(at)
      PROVE  \E kind : todo' = one(kind)
  <2>1. CASE item.node = "IMPORT"
    BY <2>1, <1>1
  <2>2. CASE item.node # "IMPORT"
    BY <2>2, <1>1, <1>5 DEF Declares
  <2>3. QED BY <2>1, <2>2
<1> DEFINE members == Distinct(item.parts)
           after == MemberDefinitions(item)
<1>6. after = [j \in 1..Len(members) |->
                 Definition(<<item.name, members[j]>>, "ENUM_MEMBER", TRUE,
                            "unknown", "const")]
  BY DEF MemberDefinitions
<1> HIDE DEF item, after
<1>7. /\ members \in Seq(Names)
       /\ \A k \in 1..Len(item.parts) : \E m \in 1..Len(members) : members[m] = item.parts[k]
  BY <1>3, DistinctElements
<1> HIDE DEF members
<1>8. Len(members) \in Nat
  BY <1>7
<1>9. /\ \A m \in 1..Len(members) :
           /\ after[m].op = "DEFINE" /\ after[m].kind = "ENUM_MEMBER"
           /\ after[m].name = <<item.name, members[m]>>
      /\ Len(after) = Len(members)
  <2>1. \A m \in 1..Len(members) :
          after[m] = Definition(<<item.name, members[m]>>, "ENUM_MEMBER", TRUE,
                                "unknown", "const")
    BY <1>6
  <2>2. Len(after) = Len(members)
    BY <1>6, <1>8
  <2>3. ASSUME NEW m \in 1..Len(members)
        PROVE  /\ after[m].op = "DEFINE" /\ after[m].kind = "ENUM_MEMBER"
               /\ after[m].name = <<item.name, members[m]>>
    <3> DEFINE n == <<item.name, members[m]>>
    <3>1. after[m] = Definition(n, "ENUM_MEMBER", TRUE, "unknown", "const")
      BY <2>1
    <3> HIDE DEF n
    <3>2. after[m].op = "DEFINE" /\ after[m].kind = "ENUM_MEMBER" /\ after[m].name = n
      BY <3>1 DEF Definition
    <3>3. QED BY <3>2 DEF n
  <2>4. QED BY <2>2, <2>3
<1> HIDE DEF own
<1>10. ASSUME item.node = "ENUM"
      PROVE  /\ Len(todo') = Len(members) + 1
             /\ todo'[1] = own("ENUM")
             /\ \A m \in 1..Len(members) : todo'[m + 1] = after[m]
  <2>1. todo' = one("ENUM") \o after
    BY <1>1, <1>10 DEF after, item
  <2>2. after \in Seq({after[m] : m \in 1..Len(members)})
    <3>1. after \in [1..Len(members) -> {after[m] : m \in 1..Len(members)}]
      BY <1>6
    <3>2. QED BY <3>1, <1>8, FunctionIsSeq
  <2>3. one("ENUM") \in Seq({own("ENUM")}) /\ Len(one("ENUM")) = 1
        /\ one("ENUM")[1] = own("ENUM")
    OBVIOUS
  <2> HIDE DEF one
  <2> DEFINE S == {own("ENUM")} \cup {after[m] : m \in 1..Len(members)}
  <2>4. one("ENUM") \in Seq(S) /\ after \in Seq(S)
    BY <2>2, <2>3
  <2> HIDE DEF S
  <2>5. /\ Len(todo') = 1 + Len(after)
        /\ \A k \in 1..(1 + Len(after)) :
             todo'[k] = IF k <= 1 THEN one("ENUM")[k] ELSE after[k - 1]
    BY <2>1, <2>3, <2>4, ConcatProperties
  <2>6. \A m \in 1..Len(members) :
          m + 1 \in 1..(1 + Len(after)) /\ ~(m + 1 <= 1) /\ (m + 1) - 1 = m
    BY <1>9, <1>8
  <2>7. 1 \in 1..(1 + Len(after)) /\ 1 + Len(after) = Len(members) + 1
    BY <1>9, <1>8
  <2>8. QED BY <2>3, <2>5, <2>6, <2>7
<1>11. ASSUME Declares(at)
      PROVE  \E k \in 1..Len(todo') :
               todo'[k].op = "DEFINE" /\ todo'[k].name = item.name
  <2>1. CASE item.node = "ENUM"
    <3>1. 1 \in 1..Len(todo')
      BY <2>1, <1>10, <1>8
    <3>2. QED BY <3>1, <2>1, <1>4, <1>10
  <2>2. CASE item.node # "ENUM"
    <3>1. PICK kind : todo' = one(kind)
      BY <2>2, <1>5, <1>11
    <3>2. Len(todo') = 1 /\ todo'[1] = own(kind)
      BY <3>1
    <3>3. 1 \in 1..Len(todo')
      BY <3>2
    <3>4. QED BY <3>2, <3>3, <1>4
  <2>3. QED BY <2>1, <2>2
<1>12. ASSUME item.node = "ENUM", NEW j \in 1..Len(item.parts)
       PROVE  \E k \in 1..Len(todo') :
                /\ todo'[k].op = "DEFINE" /\ todo'[k].kind = "ENUM_MEMBER"
                /\ todo'[k].name = <<item.name, item.parts[j]>>
  <2>1. PICK m \in 1..Len(members) : members[m] = item.parts[j]
    BY <1>7
  <2>2. /\ Len(todo') = Len(members) + 1
        /\ todo'[m + 1] = after[m]
    BY <1>10, <1>12
  <2>3. m + 1 \in 1..Len(todo')
    BY <2>2, <1>8
  <2>4. QED BY <2>1, <2>2, <2>3, <1>9
<1>13. QED BY <1>2, <1>11, <1>12 DEF item

LEMMA PredeclareMeaning ==
  ASSUME IInv, Walking, Meaning, PredeclareItem
  PROVE  Meaning'
<1>1. /\ todo = <<>> /\ phase = "PREDECLARE" /\ phase' = phase /\ at' = at + 1
      /\ UNCHANGED <<scopes, stack, flat, history, redeclared, attr, params,
                     predeclared, program, diags>>
  BY DEF PredeclareItem, scopeVars, tableVars
<1>2. Items' = Items /\ \A i : Declares(i)' <=> Declares(i)
  BY <1>1 DEF Items, Declares
<1>3. at \in 1..Len(Items) /\ at \in Nat /\ at' - 1 = at
  BY <1>1, PredeclaredOps
<1>4. /\ \A i : ~Pending(i)
      /\ \A m : ~Promised(m)
  BY <1>1 DEF Pending, Promised
<1>5. /\ \A i : Pending(i)' => i = at
      /\ Declares(at) => \A i : i = at => Pending(i)'
  <2>1. \A i : Pending(i)' => i = at
    BY <1>3 DEF Pending
  <2>2. ASSUME Declares(at), NEW i, i = at PROVE Pending(i)'
    <3>1. PICK k \in 1..Len(todo') :
            todo'[k].op = "DEFINE" /\ todo'[k].name = Items[at].name
      BY <2>2, PredeclaredOps
    <3>2. phase' = "PREDECLARE" /\ i = at' - 1 /\ Items'[i].name = Items[at].name
      BY <2>2, <1>1, <1>2, <1>3
    <3>3. QED BY <3>1, <3>2 DEF Pending
  <2>3. QED BY <2>1, <2>2
<1>6. \A i \in 1..Len(Items) : Past(i)' /\ Declares(i) => Past(i)
  <2>1. SUFFICES ASSUME NEW i \in 1..Len(Items), Past(i)', Declares(i)
                 PROVE  Past(i)
    OBVIOUS
  <2>2. i < at + 1 /\ ~Pending(i)'
    BY <2>1, <1>1 DEF Past
  <2>3. i # at
    BY <2>1, <2>2, <1>5
  <2>4. i < at
    BY <2>2, <2>3, <1>3
  <2>5. QED BY <2>4, <1>1, <1>4 DEF Past
<1>7. Registered' /\ Clashes'
  BY <1>1, <1>2, <1>6 DEF Meaning, Registered, Clashes, Binds
<1>8. PredeclaredGlobal'
  <2>1. predeclared \subseteq 1..Len(Items)
    BY DEF Walking, Typed
  <2>2. \A i \in predeclared : i < at + 1
    <3>1. \A i \in predeclared : i < at /\ i \in Nat
      BY <2>1, <1>1 DEF Meaning, PredeclaredGlobal
    <3>2. QED BY <3>1, <1>3
  <2>3. QED BY <2>2, <1>1, <1>2 DEF Meaning, PredeclaredGlobal
<1>9. MembersOutside'
  BY <1>1 DEF Meaning, MembersOutside, Binds
<1>10. MembersKept'
  <2>1. SUFFICES ASSUME NEW i \in 1..Len(Items), i \in predeclared \/ Pending(i)',
                        Items[i].node = "ENUM", Items[i].name \notin redeclared,
                        NEW j \in 1..Len(Items[i].parts)
                 PROVE  \/ flat[<<Items[i].name, Items[i].parts[j]>>].kind = "ENUM_MEMBER"
                        \/ Promised(<<Items[i].name, Items[i].parts[j]>>)'
    BY <1>1, <1>2 DEF MembersKept, Promised
  <2>2. CASE i \in predeclared
    BY <2>1, <2>2, <1>4 DEF Meaning, MembersKept
  <2>3. CASE Pending(i)'
    <3>1. i = at
      BY <2>3, <1>5
    <3>2. PICK k \in 1..Len(todo') :
            /\ todo'[k].op = "DEFINE" /\ todo'[k].kind = "ENUM_MEMBER"
            /\ todo'[k].name = <<Items[i].name, Items[i].parts[j]>>
      BY <3>1, <2>1, PredeclaredOps
    <3>3. QED BY <3>2, <1>1, <1>2 DEF Promised
  <2>4. QED BY <2>1, <2>2, <2>3
<1>11. Callees'
  BY <1>1 DEF Meaning, Callees, Callee
<1>12. QED BY <1>7, <1>8, <1>9, <1>10, <1>11 DEF Meaning

\* The other handlers leave the symbols alone.
LEMMA QuietMeaning ==
  ASSUME IInv, Walking, Meaning,
         VisitItem \/ Statement \/ OpenBlock \/ OpenWhile \/ OpenForRange \/ OpenForIn
  PROVE  Meaning'
<1>1. CASE VisitItem
  <2>1. /\ phase = "WALK" /\ phase' = phase /\ program' = program
        /\ UNCHANGED <<scopeVars, tableVars>> /\ diags \subseteq diags'
    BY <1>1 DEF VisitItem, Idle, EnterCallable, VisitPlain, Issue
  <2>2. QED BY <2>1, MeaningStays DEF scopeVars, tableVars
<1>2. CASE Statement
  <2>1. /\ Idle /\ UNCHANGED <<scopeVars, tableVars, passVars>>
        /\ diags \subseteq diags'
    <3>1. CASE NestedCallable
      <4>1. PICK item : EnterCallable(item, FALSE)
        BY <3>1 DEF NestedCallable
      <4>2. QED
        BY <4>1, <3>1 DEF NestedCallable, EnterCallable, AtStatement, AtExpression,
                          Issue
    <3>2. CASE ~NestedCallable
      <4>1. Quietly /\ AtExpression
        BY <1>2, <3>2 DEF Statement, VarDeclaration, TupleDeclaration, Reassignment,
                          Use, Call, BreakOrContinue, DeclarationStatement, AtStatement
      <4>2. diags' = diags \/ \E found : Issue(found)
        BY <1>2, <3>2 DEF Statement, VarDeclaration, TupleDeclaration, Reassignment,
                          Use, Call, BreakOrContinue, DeclarationStatement
      <4>3. QED BY <4>1, <4>2 DEF Quietly, AtExpression, Issue
    <3>3. QED BY <3>1, <3>2
  <2>2. QED BY <2>1, MeaningStays DEF Idle, scopeVars, tableVars, passVars
<1>3. CASE OpenBlock \/ OpenWhile \/ OpenForRange \/ OpenForIn
  <2>1. /\ Idle /\ UNCHANGED <<scopeVars, tableVars, passVars>>
        /\ diags \subseteq diags'
    BY <1>3 DEF OpenBlock, OpenWhile, OpenForRange, OpenForIn, AtExpression, Issue
  <2>2. QED BY <2>1, MeaningStays DEF Idle, scopeVars, tableVars, passVars
<1>4. QED BY <1>1, <1>2, <1>3

LEMMA NextMeaning ==
  ASSUME IInv, Walking, Meaning, [AnalysisNext]_vars
  PROVE  Meaning'
<1>1. CASE AnalysisNext
  BY <1>1, DefineMeaning, PushMeaning, ClosersMeaning, TurnMeaning,
     PredeclareMeaning, QuietMeaning DEF AnalysisNext, Step, Pass, Structure
<1>2. CASE UNCHANGED vars
  <2>1. UNCHANGED <<scopes, stack, flat, history, redeclared, attr, params,
                    predeclared, program, phase, at, todo, diags>>
    BY <1>2 DEF vars, scopeVars, tableVars, passVars
  <2>2. QED BY <2>1, MeaningStays
<1>3. QED BY <1>1, <1>2

\* A symbol of a kind that is visible everywhere is what its name resolves to.
LEMMA VisibleEverywhere ==
  ASSUME IInv, NEW n \in AllNames, flat[n].kind \in AlwaysVisibleKinds
  PROVE  Resolve(n) = flat[n] /\ flat[n].id # 0
<1>1. flat[n] \in Symbol \cup {NoSymbol}
  BY DEF IInv, TypeOK
<1>2. NoSymbol.kind \notin AlwaysVisibleKinds
  BY DEF NoSymbol, AlwaysVisibleKinds
<1>3. \A s \in Symbol : s.id # 0
  BY DEF Symbol
<1>4. flat[n].id # 0
  BY <1>1, <1>2, <1>3
<1>5. QED BY <1>4 DEF Resolve

LEMMA MeaningPromises ==
  ASSUME IInv, Walking, Meaning
  PROVE  NamesKeepTheirMeaning
<1>1. /\ predeclared \subseteq 1..Len(Items)
      /\ \A i \in 1..Len(Items) :
           /\ Items[i].name \in AllNames
           /\ Items[i].node = "ENUM" =>
                \A j \in 1..Len(Items[i].parts) :
                  <<Items[i].name, Items[i].parts[j]>> \in Members
  BY ProgramFacts DEF Walking, Typed, AllNames
<1>2. PredeclaredStayVisible
  <2>1. SUFFICES ASSUME phase \in {"WALK", "DONE"}, NEW i \in predeclared,
                        \A k \in 2..Len(stack) : ~Binds(stack[k], Items[i].name)
                 PROVE  /\ Resolve(Items[i].name).kind
                             \notin {"NONE", "VARIABLE", "FIELD"}
                        /\ scopes[Resolve(Items[i].name).scope] = "GLOBAL"
    BY DEF PredeclaredStayVisible
  <2>2. /\ flat[Items[i].name].kind \in PredeclaredKinds
        /\ scopes[flat[Items[i].name].scope] = "GLOBAL"
    <3>1. CASE phase = "WALK"
      BY <2>1, <3>1, GlobalSymbol
    <3>2. CASE phase = "DONE"
      BY <3>2 DEF Meaning, PredeclaredGlobal
    <3>3. QED BY <2>1, <3>1, <3>2
  <2>3. \A kind \in PredeclaredKinds :
          kind \in AlwaysVisibleKinds /\ kind \notin {"NONE", "VARIABLE", "FIELD"}
    BY DEF PredeclaredKinds, AlwaysVisibleKinds
  <2>4. Items[i].name \in AllNames
    BY <1>1
  <2>5. Resolve(Items[i].name) = flat[Items[i].name]
    BY <2>2, <2>3, <2>4, VisibleEverywhere
  <2>6. QED BY <2>2, <2>3, <2>5
<1>3. MembersResolve
  <2>1. SUFFICES ASSUME phase \in {"WALK", "DONE"}, NEW i \in predeclared,
                        Items[i].node = "ENUM", Items[i].name \notin redeclared,
                        NEW j \in 1..Len(Items[i].parts)
                 PROVE  Resolve(<<Items[i].name, Items[i].parts[j]>>).kind
                          = "ENUM_MEMBER"
    BY DEF MembersResolve
  <2> DEFINE m == <<Items[i].name, Items[i].parts[j]>>
  <2>2. m \in AllNames
    BY <1>1, <2>1 DEF AllNames
  <2>3. flat[m].kind = "ENUM_MEMBER" \/ Promised(m)
    BY <1>1, <2>1 DEF Meaning, MembersKept
  <2> HIDE DEF m
  <2>4. flat[m].kind = "ENUM_MEMBER"
    BY <2>1, <2>3 DEF Promised
  <2>5. flat[m].kind \in AlwaysVisibleKinds
    BY <2>4 DEF AlwaysVisibleKinds
  <2>6. Resolve(m).kind = "ENUM_MEMBER"
    BY <2>2, <2>4, <2>5, VisibleEverywhere
  <2>7. QED BY <2>6 DEF m
<1>4. CallsCheckedAgainstCallee
  <2>1. SUFFICES ASSUME NEW n \in Names, Resolve(n).kind \in Callables
                 PROVE  \/ params[n] = Resolve(n).id
                        \/ n \in redeclared
                        \/ <<"NESTED_FUNCTION", n>> \in diags
    BY DEF CallsCheckedAgainstCallee
  <2>2. NoSymbol.kind \notin Callables
    BY DEF NoSymbol, Callables
  <2>3. Resolve(n) = flat[n]
    BY <2>1, <2>2 DEF Resolve
  <2>4. Callee(n, flat[n])
    BY DEF Meaning, Callees
  <2>5. QED BY <2>1, <2>3, <2>4 DEF Callee
<1>5. QED BY <1>2, <1>3, <1>4 DEF NamesKeepTheirMeaning

\* Whatever the program, the names that predeclaration defined mean the same to
\* the end: they are found wherever no inner scope declares them, a member of an
\* enum is that member, and a call is checked against the parameters of the
\* function its name stands for, or the program is reported
\* (_predeclare_globals, _define and _pop_scope).
THEOREM PredeclaredNamesKeepTheirMeaning == AnalysisSpec => []NamesKeepTheirMeaning
<1>1. AnalysisInit => Meaning
  BY InitMeaning
<1>2. IInv /\ Walking /\ Meaning /\ [AnalysisNext]_vars => Meaning'
  BY NextMeaning
<1>3. AnalysisSpec => []Meaning
  BY <1>1, <1>2, WalkingHolds, PTL DEF AnalysisSpec
<1>4. IInv /\ Walking /\ Meaning => NamesKeepTheirMeaning
  BY MeaningPromises
<1>5. QED BY <1>3, <1>4, WalkingHolds, PTL
=============================================================================
