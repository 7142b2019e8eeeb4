---------------------------- MODULE ArtifactsProofs ----------------------------
(***************************************************************************)
(* Proofs about Artifacts, for any programs, results, settings and         *)
(* commits: the artifacts of one result agree with each other, and every   *)
(* capability that a program requires has its row.                         *)
(*                                                                         *)
(* The argument.  Clock and commit are read once, and nothing is sealed    *)
(* before both are; so each artifact has the same pair, and a reference to *)
(* the support profile is its hash, which the time is not part of.  What   *)
(* is sealed of the program stays true of it, because the program and the  *)
(* result do not change after the parse, which is before the first         *)
(* sealing.  The rows that the base lacks are those of named features, one *)
(* for each, so no feature has two.                                        *)
(***************************************************************************)
EXTENDS Artifacts, FiniteSetTheorems, SequenceTheorems, WellFoundedInduction, TLAPS

Unread == {"parse", "clock", "commit"}
Unsealed == Unread \cup {"support", "unknown_feature"}
Sealing == {"frontend", "tree", "attach"}
Ended == {"returned", "raised", "done"}

\* The tree is a sequence whose first node alone has no parent.
TreeGrows ==
  /\ \E S : program \in Seq(S)
  /\ Len(program) >= 1
  /\ \A n \in DOMAIN program :
       program[n].parent \in 0..(n - 1) /\ (n = 1 <=> program[n].parent = 0)

\* How far the run is decides what there is.
Stages ==
  /\ pc \in Unsealed \cup Sealing \cup Ended
  /\ pc \in Unsealed => support = None /\ frontend = None
  /\ pc = "frontend" => frontend = None
  /\ pc \notin Ended => attached = None /\ rebuilt = None
  /\ attached = None => rebuilt = None

\* What has been read is what it should be.
Read ==
  /\ result = None \/ (result.ast \in BOOLEAN /\ Len(result.diagnostics) <= MaxDiagnostics)
  /\ clock \in 0..MaxClock
  /\ created = NoTime \/ created \in 0..clock
  /\ head \in Heads
  /\ pc \in {"support"} \cup Sealing \/ support # None =>
       ValidCommit(commit) /\ commit # Absent

\* What is sealed agrees with what has been read and with the program.
Sealed ==
  /\ pc \in Sealing => support = Support(created, commit)
  /\ frontend # None =>
       /\ frontend.usage = CapabilityUsage
       /\ support.features = SupportFeatures
  /\ pc \in {"tree", "attach"} =>
       frontend.created = created /\ frontend.commit = commit
         /\ frontend.support_profile_ref = Hash(support)
  /\ pc = "attach" => tree.created = created /\ tree.commit = commit

\* The bundle, and what a frontend built again refers to.
Bundled ==
  attached # None =>
    /\ attached.support.created = attached.created
    /\ attached.frontend.created = attached.created
    /\ attached.tree.created = attached.created
    /\ attached.support.commit = attached.frontend.commit
    /\ attached.tree.commit = attached.frontend.commit
    /\ attached.frontend.support_profile_ref = Hash(attached.support)
    /\ attached.support.features = SupportFeatures
    /\ rebuilt # None =>
         rebuilt.support_profile_ref = Hash(Support(clock, rebuilt.commit))

IInv == TreeGrows /\ Stages /\ Read /\ Sealed /\ Bundled

-----------------------------------------------------------------------------
(***************************************************************************)
(* What is read off the program and the result.                            *)
(***************************************************************************)

\* Program and result decide the usage and the rows, and nothing else does.
LEMMA ReadOffTheProgram ==
  ASSUME UNCHANGED <<program, result, settings>>
  PROVE  CapabilityUsage' = CapabilityUsage /\ SupportFeatures' = SupportFeatures
<1>1. /\ \A n : Subtree(n)' = Subtree(n)
      /\ \A n : Children(n)' = Children(n)
  BY DEF Subtree, Children
<1>2. \A n : Expression(n)' = Expression(n)
  <2>1. \A n : ArgumentsOf(n)' = ArgumentsOf(n)
    BY <1>1 DEF ArgumentsOf
  <2>2. QED
    BY <1>1, <2>1 DEF Expression
<1>3. Calls' = Calls /\ Members' = Members /\ Security' = Security
  BY DEF Calls, Members, Security
<1>4. RequestedContext' = RequestedContext
  BY <1>1, <1>2, <1>3 DEF RequestedContext
<1>5. RequestUsage' = RequestUsage
  BY <1>3, <1>4 DEF RequestUsage
<1>6. Referenced' = Referenced /\ VisualRequirements' = VisualRequirements
  BY <1>3 DEF Referenced, VisualRequirements, NamesIn
<1>7. StrategySettings' = StrategySettings
  BY DEF StrategySettings
<1>8. CapabilityUsage' = CapabilityUsage
  BY <1>5, <1>6, <1>7 DEF CapabilityUsage
<1>9. Further' = Further /\ BlockingDiagnostics' = BlockingDiagnostics
  BY <1>8 DEF Further, BlockingDiagnostics
<1>10. QED
  BY <1>8, <1>9 DEF SupportFeatures

\* An artifact is never the absence of one.
LEMMA ArtifactsExist ==
  ASSUME NEW time, NEW sha, NEW ref
  PROVE  /\ Support(time, sha) # None
         /\ Frontend(time, sha, ref) # None
         /\ [support |-> support, frontend |-> frontend, tree |-> tree,
             created |-> created] # None
BY DEF Support, Frontend, None

\* A support profile without its time is its commit and its rows.
LEMMA HashOfSupport ==
  ASSUME NEW time, NEW sha
  PROVE  Hash(Support(time, sha)) = [commit |-> sha, features |-> SupportFeatures]
BY DEF Hash, Support

-----------------------------------------------------------------------------
LEMMA InitInv == Init => IInv
<1> SUFFICES ASSUME Init
             PROVE  IInv
  OBVIOUS
<1>1. TreeGrows
  <2>1. program \in Seq({Root}) /\ Len(program) = 1 /\ program[1].parent = 0
    BY DEF Init, Root
  <2>2. QED
    BY <2>1 DEF TreeGrows
<1>2. Stages
  BY DEF Init, Stages, Unsealed, Unread, Sealing, Ended
<1>3. Read
  BY ArtifactsAssumption DEF Init, Read, Sealing
<1>4. Sealed /\ Bundled
  BY DEF Init, Sealed, Bundled, Sealing
<1>5. QED
  BY <1>1, <1>2, <1>3, <1>4 DEF IInv

\* A node is added under one that is there.
LEMMA AddNodeKeepsTree ==
  ASSUME TreeGrows, AddNode
  PROVE  TreeGrows'
<1>1. PICK S : program \in Seq(S)
  BY DEF TreeGrows
<1>2. PICK offered \in Offers(program, environment), p \in Open :
        program' = Append(program, [kind |-> offered.kind, name |-> offered.name,
                                    arg |-> offered.arg, parent |-> p])
  BY Zenon DEF AddNode
<1> DEFINE node == [kind |-> offered.kind, name |-> offered.name,
                    arg |-> offered.arg, parent |-> p]
<1>3. /\ program \in Seq(S \cup {node})
      /\ Len(program) \in Nat /\ DOMAIN program = 1..Len(program)
  BY <1>1
<1> HIDE DEF node
<1>4. /\ program' \in Seq(S \cup {node})
      /\ Len(program') = Len(program) + 1
      /\ DOMAIN program' = 1..(Len(program) + 1)
      /\ \A n \in 1..Len(program) : program'[n] = program[n]
      /\ program'[Len(program) + 1] = node
  BY <1>2, <1>3 DEF node
<1>5. node.parent = p /\ p \in 1..Len(program)
  BY <1>2, <1>3 DEF node, Open
<1>6. ASSUME NEW n \in 1..(Len(program) + 1)
      PROVE  /\ program'[n].parent \in 0..(n - 1)
             /\ n = 1 <=> program'[n].parent = 0
  <2>1. CASE n \in 1..Len(program)
    BY <2>1, <1>3, <1>4 DEF TreeGrows
  <2>2. CASE n = Len(program) + 1
    BY <2>2, <1>3, <1>4, <1>5 DEF TreeGrows
  <2>3. QED
    BY <2>1, <2>2, <1>3
<1>7. QED
  BY <1>3, <1>4, <1>6 DEF TreeGrows

\* What does not touch the tree keeps it a tree.
LEMMA TreeUnchanged ==
  ASSUME TreeGrows, UNCHANGED program
  PROVE  TreeGrows'
BY DEF TreeGrows

\* The steps before anything is sealed.
LEMMA EarlyStep ==
  ASSUME IInv, AddNode \/ Parse \/ RefusePath \/ ReadClock \/ ReadCommit
  PROVE  (Stages /\ Read /\ Sealed /\ Bundled)'
<1>1. pc \in Unread /\ support = None /\ frontend = None /\ attached = None
        /\ rebuilt = None
  BY DEF IInv, Stages, Unread, Unsealed, Ended, AddNode, Parse, RefusePath,
         ReadClock, ReadCommit
<1>2. support' = None /\ frontend' = None /\ attached' = None /\ rebuilt' = None
        /\ tree' = tree
  BY <1>1 DEF AddNode, Parse, RefusePath, ReadClock, ReadCommit
<1>3. pc' \in Unread \cup {"support", "raised", "returned"}
  BY <1>1 DEF AddNode, Parse, RefusePath, ReadClock, ReadCommit, Unread
<1>4. (Stages /\ Sealed /\ Bundled)'
  BY <1>2, <1>3 DEF Stages, Sealed, Bundled, Unread, Unsealed, Sealing, Ended
<1>5. head' = head /\ clock' = clock
  BY DEF AddNode, Parse, RefusePath, ReadClock, ReadCommit
<1>6. result' = None \/ (result'.ast \in BOOLEAN /\ Len(result'.diagnostics) <= MaxDiagnostics)
  <2>1. CASE AddNode \/ ReadClock \/ ReadCommit
    BY <2>1 DEF AddNode, ReadClock, ReadCommit, IInv, Read
  <2>2. CASE Parse
    BY <2>2, ResultsAssumption, ArtifactsAssumption DEF Parse
  <2>3. CASE RefusePath
    <3>1. result'.ast = FALSE /\ result'.diagnostics = <<"FATAL">>
      BY <2>3 DEF RefusePath
    <3>2. Len(result'.diagnostics) = 1
      BY <3>1
    <3>3. MaxDiagnostics >= 1
      BY ArtifactsAssumption
    <3>4. QED
      BY <3>1, <3>2, <3>3
  <2>4. QED
    BY <2>1, <2>2, <2>3
<1>7. created' = NoTime \/ created' \in 0..clock'
  BY <1>5, ArtifactsAssumption DEF AddNode, Parse, RefusePath, ReadClock, ReadCommit, IInv, Read
<1>8. pc' = "support" => ValidCommit(commit') /\ commit' # Absent
  BY <1>1, ArtifactsAssumption
     DEF AddNode, Parse, RefusePath, ReadClock, ReadCommit, ProducerCommit,
         IInv, Read, Unread
<1>9. Read'
  BY <1>2, <1>3, <1>5, <1>6, <1>7, <1>8
     DEF Read, IInv, Sealing, Unread, ValidCommit
<1>10. QED
  BY <1>4, <1>9

\* Time and the checkout move on their own.
LEMMA SurroundingsMove ==
  ASSUME IInv, Tick \/ Checkout
  PROVE  (Stages /\ Read /\ Sealed /\ Bundled)'
<1>1. UNCHANGED <<program, settings, environment, result, created, commit,
                  support, frontend, tree, attached, rebuilt, payload, pc>>
  BY DEF Tick, Checkout
<1>2. CapabilityUsage' = CapabilityUsage /\ SupportFeatures' = SupportFeatures
  BY <1>1, ReadOffTheProgram
<1>3. Stages'
  BY <1>1 DEF IInv, Stages
<1>4. Read'
  <2>1. clock' \in 0..MaxClock /\ clock' >= clock
    BY ArtifactsAssumption DEF IInv, Read, Tick, Checkout
  <2>2. head' \in Heads
    BY DEF IInv, Read, Tick, Checkout
  <2>3. created' = NoTime \/ created' \in 0..clock'
    BY <1>1, <2>1, ArtifactsAssumption DEF IInv, Read
  <2>4. QED
    BY <1>1, <2>1, <2>2, <2>3 DEF IInv, Read, ValidCommit
<1>5. Sealed'
  BY <1>1, <1>2 DEF IInv, Sealed, Support, Hash
<1>6. Bundled'
  BY <1>1, <1>2 DEF IInv, Bundled, Support, Hash
<1>7. QED
  BY <1>3, <1>4, <1>5, <1>6

\* The support profile and the two artifacts that go with it.
LEMMA SealingStep ==
  ASSUME IInv, SealSupport \/ SealFrontend \/ SealTree
  PROVE  (Stages /\ Read /\ Sealed /\ Bundled)'
<1>1. UNCHANGED <<program, settings, environment, head, clock, result, created,
                  commit, attached, rebuilt, payload>>
  BY DEF SealSupport, SealFrontend, SealTree
<1>2. CapabilityUsage' = CapabilityUsage /\ SupportFeatures' = SupportFeatures
  BY <1>1, ReadOffTheProgram
<1>3. attached = None /\ rebuilt = None
  BY DEF IInv, Stages, Ended, SealSupport, SealFrontend, SealTree
<1>4. Bundled'
  BY <1>1, <1>3 DEF Bundled
<1>5. ValidCommit(commit) /\ commit # Absent
  BY DEF IInv, Read, Sealing, SealSupport, SealFrontend, SealTree
<1>6. Read'
  BY <1>1, <1>5 DEF IInv, Read, ValidCommit
<1>7. CASE SealSupport
  <2>1. pc = "support" /\ support = None /\ frontend = None /\ frontend' = None
    BY <1>7 DEF SealSupport, IInv, Stages, Unsealed
  <2>2. \/ support' = Support(created, commit) /\ pc' = "frontend"
        \/ support' = support /\ pc' = "unknown_feature"
    BY <1>7 DEF SealSupport, SupportTime
  <2>3. Stages'
    BY <2>1, <2>2, <1>1, <1>3 DEF Stages, Unread, Unsealed, Sealing, Ended
  <2>4. Sealed'
    BY <2>1, <2>2, <1>1, <1>2 DEF Sealed, Sealing, Support
  <2>5. QED
    BY <2>3, <2>4, <1>4, <1>6
<1>8. CASE SealFrontend
  <2>1. pc = "frontend" /\ frontend = None /\ support' = support /\ tree' = tree
          /\ support = Support(created, commit)
    BY <1>8 DEF SealFrontend, IInv, Stages, Sealed, Sealing
  <2>2. \/ frontend' = Frontend(created, commit, Hash(support)) /\ pc' = "tree"
        \/ frontend' = None /\ pc' = "raised"
    BY <1>8, <2>1 DEF SealFrontend
  <2>3. Stages'
    BY <2>1, <2>2, <1>1, <1>3 DEF Stages, Unread, Unsealed, Sealing, Ended
  <2>4. support.features = SupportFeatures /\ Hash(support)' = Hash(support)
    BY <2>1 DEF Support, Hash
  <2>5. Sealed'
    <3>1. CASE pc' = "raised"
      BY <3>1, <2>2 DEF Sealed, Sealing
    <3>2. CASE pc' = "tree"
      <4>1. frontend'.usage = CapabilityUsage /\ frontend'.created = created
              /\ frontend'.commit = commit
              /\ frontend'.support_profile_ref = Hash(support)
        BY <2>2, <3>2 DEF Frontend
      <4>2. support' = Support(created, commit)'
        BY <2>1, <1>1, <1>2 DEF Support
      <4>3. QED
        BY <3>2, <4>1, <4>2, <2>1, <2>4, <1>1, <1>2 DEF Sealed, Sealing
    <3>3. QED
      BY <2>2, <3>1, <3>2
  <2>6. QED
    BY <2>3, <2>5, <1>4, <1>6
<1>9. CASE SealTree
  <2>1. pc = "tree" /\ pc' = "attach" /\ tree' = Tree(created, commit)
          /\ UNCHANGED <<support, frontend>>
    BY <1>9 DEF SealTree
  <2>2. tree'.created = created /\ tree'.commit = commit
    BY <2>1 DEF Tree
  <2>3. Stages'
    BY <2>1, <1>1, <1>3 DEF IInv, Stages, Unread, Unsealed, Sealing, Ended
  <2>4. Sealed'
    BY <2>1, <2>2, <1>1, <1>2 DEF IInv, Sealed, Sealing, Support, Hash
  <2>5. QED
    BY <2>3, <2>4, <1>4, <1>6
<1>10. QED
  BY <1>7, <1>8, <1>9

\* What is attached is what was sealed.
LEMMA AttachStep ==
  ASSUME IInv, Attach
  PROVE  (Stages /\ Read /\ Sealed /\ Bundled)'
<1>1. /\ pc = "attach" /\ pc' = "returned"
      /\ attached' = [support |-> support, frontend |-> frontend, tree |-> tree,
                      created |-> created]
      /\ UNCHANGED <<program, settings, environment, head, clock, result, created,
                     commit, support, frontend, tree, rebuilt, payload>>
  BY DEF Attach
<1>2. CapabilityUsage' = CapabilityUsage /\ SupportFeatures' = SupportFeatures
  BY <1>1, ReadOffTheProgram
<1>3. rebuilt' = None
  BY <1>1 DEF IInv, Stages, Ended
<1>4. Stages'
  BY <1>1, <1>3 DEF Stages, Unread, Unsealed, Sealing, Ended
<1>5. Read'
  BY <1>1 DEF IInv, Read, Sealing, ValidCommit
<1>6. Sealed'
  BY <1>1, <1>2 DEF IInv, Sealed, Sealing
<1>7. /\ support = Support(created, commit)
      /\ frontend.created = created /\ frontend.commit = commit
      /\ frontend.support_profile_ref = Hash(support)
      /\ tree.created = created /\ tree.commit = commit
  BY <1>1 DEF IInv, Sealed, Sealing
<1>8. support.created = created /\ support.commit = commit
        /\ support.features = SupportFeatures
  BY <1>7 DEF Support
<1>9. /\ attached'.support = support /\ attached'.frontend = frontend
      /\ attached'.tree = tree /\ attached'.created = created
      /\ Hash(attached.support)' = Hash(support)
  BY <1>1 DEF Hash
<1>10. Bundled'
  BY <1>2, <1>3, <1>7, <1>8, <1>9 DEF Bundled
<1>11. QED
  BY <1>4, <1>5, <1>6, <1>10

\* A frontend built again, and the inspection payload.
LEMMA LateStep ==
  ASSUME IInv, Rebuild \/ BuildInspect
  PROVE  (Stages /\ Read /\ Sealed /\ Bundled)'
<1>1. /\ pc = "returned" /\ pc' \in Ended
      /\ UNCHANGED <<program, settings, environment, head, clock, result, created,
                     commit, support, frontend, tree, attached>>
  BY DEF Rebuild, BuildInspect, Ended
<1>2. CapabilityUsage' = CapabilityUsage /\ SupportFeatures' = SupportFeatures
  BY <1>1, ReadOffTheProgram
<1>3. attached = None => rebuilt' = None
  BY DEF IInv, Stages, Rebuild, BuildInspect
<1>4. Stages'
  BY <1>1, <1>3 DEF Stages, Unread, Unsealed, Sealing, Ended
<1>5. Read'
  BY <1>1 DEF IInv, Read, Sealing, Ended, ValidCommit
<1>6. Sealed'
  BY <1>1, <1>2 DEF IInv, Sealed, Sealing, Ended
<1>7. ASSUME attached # None, rebuilt' # None
      PROVE  rebuilt'.support_profile_ref
               = [commit |-> rebuilt'.commit, features |-> SupportFeatures]
  <2>1. CASE rebuilt' = rebuilt
    BY <2>1, <1>7, HashOfSupport DEF IInv, Bundled
  <2>2. CASE rebuilt' = Frontend(clock, ProducerCommit,
                                 Hash(Support(clock, ProducerCommit)))
    BY <2>2, HashOfSupport DEF Frontend
  <2>3. QED
    BY <2>1, <2>2 DEF Rebuild, BuildInspect
<1>8. Hash(Support(clock, rebuilt.commit))'
        = [commit |-> rebuilt'.commit, features |-> SupportFeatures]
  BY <1>2 DEF Hash, Support
<1>9. Bundled'
  BY <1>1, <1>2, <1>7, <1>8 DEF IInv, Bundled, Hash
<1>10. QED
  BY <1>4, <1>5, <1>6, <1>9

LEMMA StepInv == IInv /\ [Next]_vars => IInv'
<1> SUFFICES ASSUME IInv, [Next]_vars
             PROVE  IInv'
  OBVIOUS
<1>1. CASE AddNode
  BY <1>1, EarlyStep, AddNodeKeepsTree DEF IInv
<1>2. CASE Parse \/ RefusePath \/ ReadClock \/ ReadCommit
  BY <1>2, EarlyStep, TreeUnchanged DEF IInv, Parse, RefusePath, ReadClock, ReadCommit
<1>3. CASE Tick \/ Checkout
  BY <1>3, SurroundingsMove, TreeUnchanged DEF IInv, Tick, Checkout
<1>4. CASE SealSupport \/ SealFrontend \/ SealTree
  BY <1>4, SealingStep, TreeUnchanged DEF IInv, SealSupport, SealFrontend, SealTree
<1>5. CASE Attach
  BY <1>5, AttachStep, TreeUnchanged DEF IInv, Attach
<1>6. CASE Rebuild \/ BuildInspect
  BY <1>6, LateStep, TreeUnchanged DEF IInv, Rebuild, BuildInspect
<1>7. CASE UNCHANGED vars
  <2>1. CapabilityUsage' = CapabilityUsage /\ SupportFeatures' = SupportFeatures
    BY <1>7, ReadOffTheProgram DEF vars
  <2>2. QED
    BY <1>7, <2>1 DEF vars, IInv, TreeGrows, Stages, Read, Sealed, Bundled,
                      Support, Hash, ValidCommit
<1>8. QED
  BY <1>1, <1>2, <1>3, <1>4, <1>5, <1>6, <1>7 DEF Next

LEMMA Invariance == Spec => []IInv
  BY InitInv, StepInv, PTL DEF Spec

\* However a run goes, and however the clock and the checkout move meanwhile,
\* the three artifacts of its result name one time and one commit and refer to
\* each other.
THEOREM ArtifactsSealed == Spec => []SealInvariant
<1>1. IInv => TypeOK
  BY DEF IInv, TreeGrows, Stages, Read, TypeOK, Unread, Unsealed, Sealing, Ended,
         ValidCommit
<1>2. IInv => BundleConsistent
  <2> SUFFICES ASSUME IInv, attached # None
               PROVE  BundleConsistent
    BY DEF BundleConsistent
  <2>1. rebuilt # None /\ rebuilt.commit = attached.frontend.commit
          => rebuilt.support_profile_ref = Hash(attached.support)
    BY HashOfSupport DEF IInv, Bundled, Hash
  <2>2. QED
    BY <2>1 DEF IInv, Bundled, BundleConsistent
<1>3. QED
  BY <1>1, <1>2, Invariance, PTL DEF SealInvariant

-----------------------------------------------------------------------------
(***************************************************************************)
(* Requirements and rows.                                                  *)
(***************************************************************************)

\* What an insertion adds to a list.
LEMMA InsertRange ==
  ASSUME NEW S, NEW s \in Seq(S), NEW e, NEW i \in 1..(Len(s) + 1)
  PROVE  Range(InsertAt(s, i, e)) = Range(s) \cup {e}
<1> DEFINE before == SubSeq(s, 1, i - 1)
           after  == SubSeq(s, i, Len(s))
<1>1. Len(s) \in Nat /\ DOMAIN s = 1..Len(s)
  OBVIOUS
<1>2. /\ before \in Seq(S) /\ Len(before) = i - 1
      /\ \A k \in 1..(i - 1) : before[k] = s[k]
  BY <1>1
<1>3. /\ after \in Seq(S) /\ Len(after) = Len(s) - i + 1
      /\ \A k \in 1..(Len(s) - i + 1) : after[k] = s[i + k - 1]
  BY <1>1
<1> HIDE DEF before, after
<1> DEFINE all == before \o <<e>>
<1>4. /\ all \in Seq(S \cup {e}) /\ Len(all) = i
      /\ \A k \in 1..(i - 1) : all[k] = before[k]
      /\ all[i] = e
  BY <1>2
<1> HIDE DEF all
<1>5. /\ all \o after \in Seq(S \cup {e}) /\ Len(all \o after) = Len(s) + 1
      /\ \A k \in 1..i : (all \o after)[k] = all[k]
      /\ \A k \in 1..(Len(s) - i + 1) : (all \o after)[i + k] = after[k]
  BY <1>1, <1>3, <1>4
<1>6. ASSUME NEW k \in 1..(Len(s) + 1)
      PROVE  (all \o after)[k] \in Range(s) \cup {e}
  <2>1. CASE k < i
    <3>1. k \in 1..(i - 1) /\ k \in 1..i /\ k \in DOMAIN s
      BY <2>1, <1>1
    <3>2. (all \o after)[k] = s[k]
      BY <3>1, <1>2, <1>4, <1>5
    <3>3. QED
      BY <3>1, <3>2 DEF Range
  <2>2. CASE k = i
    BY <2>2, <1>4, <1>5
  <2>3. CASE k > i
    <3>1. k - i \in 1..(Len(s) - i + 1) /\ k = i + (k - i) /\ k - 1 \in 1..Len(s)
            /\ i + (k - i) - 1 = k - 1
      BY <2>3, <1>1
    <3>2. (all \o after)[k] = after[k - i] /\ after[k - i] = s[k - 1]
      BY <3>1, <1>3, <1>5
    <3>3. QED
      BY <3>1, <3>2, <1>1 DEF Range
  <2>4. k < i \/ k = i \/ k > i
    BY <1>1
  <2>5. QED
    BY <2>1, <2>2, <2>3, <2>4, Zenon
<1>7. ASSUME NEW x \in Range(s) \cup {e}
      PROVE  \E k \in 1..(Len(s) + 1) : (all \o after)[k] = x
  <2>1. CASE x = e
    <3>1. i \in 1..i /\ i \in 1..(Len(s) + 1)
      BY <1>1
    <3>2. QED
      BY <2>1, <3>1, <1>4, <1>5
  <2>2. CASE x \in Range(s)
    <3>1. PICK j \in 1..Len(s) : s[j] = x
      BY <2>2, <1>1 DEF Range
    <3>2. CASE j < i
      <4>1. j \in 1..(i - 1) /\ j \in 1..i /\ j \in 1..(Len(s) + 1)
        BY <3>2, <1>1
      <4>2. QED
        BY <3>1, <4>1, <1>2, <1>4, <1>5
    <3>3. CASE j >= i
      <4>1. j + 1 - i \in 1..(Len(s) - i + 1) /\ i + (j + 1 - i) = j + 1
              /\ i + (j + 1 - i) - 1 = j /\ j + 1 \in 1..(Len(s) + 1)
        BY <3>3, <1>1
      <4>2. (all \o after)[j + 1] = after[j + 1 - i] /\ after[j + 1 - i] = s[j]
        BY <4>1, <1>3, <1>5
      <4>3. QED
        BY <3>1, <4>1, <4>2
    <3>4. j < i \/ j >= i
      BY <1>1
    <3>5. QED
      BY <3>2, <3>3, <3>4, Zenon
  <2>3. QED
    BY <2>1, <2>2
<1>8. InsertAt(s, i, e) = all \o after
  BY DEF InsertAt, all, before, after
<1>9. DOMAIN (all \o after) = 1..(Len(s) + 1)
  BY <1>1, <1>5
<1>10. QED
  BY <1>6, <1>7, <1>8, <1>9 DEF Range

\* What the requests of a program require is one of three features.
LEMMA RequestUsageKnown ==
  Range(RequestUsage) \subseteq {"mtf_requested_series"} \cup DOMAIN SeriesIdentityFeatures
<1> DEFINE two == <<"mtf_requested_series", "requested_series_identity">>
           known == {"mtf_requested_series", "requested_series_identity",
                     "chart_series_identity"}
<1>1. two \in Seq(known) /\ Len(two) = 2 /\ Range(two) \subseteq known
        /\ Range(<<>>) = {} /\ <<>> \in Seq(known) /\ Len(<<>>) = 0
  BY DEF Range
<1>2. \/ RequestUsage = two \/ RequestUsage = <<>>
      \/ RequestUsage = InsertAt(two, 2, "chart_series_identity")
      \/ RequestUsage = InsertAt(<<>>, 1, "chart_series_identity")
  <2>1. two # <<>>
    OBVIOUS
  <2>2. QED
    BY <2>1, Zenon DEF RequestUsage
<1> HIDE DEF two, known
<1>3. 2 \in 1..(Len(two) + 1) /\ 1 \in 1..(Len(<<>>) + 1)
  BY <1>1
<1>4. Range(InsertAt(two, 2, "chart_series_identity"))
        \subseteq Range(two) \cup {"chart_series_identity"}
  BY <1>1, <1>3, InsertRange
<1>5. Range(InsertAt(<<>>, 1, "chart_series_identity"))
        \subseteq Range(<<>>) \cup {"chart_series_identity"}
  BY <1>1, <1>3, InsertRange
<1>6. "chart_series_identity" \in known
  BY DEF known
<1>7. Range(RequestUsage) \subseteq known
  BY <1>1, <1>2, <1>4, <1>5, <1>6
<1>8. QED
  BY <1>7 DEF SeriesIdentityFeatures, known

\* Whatever a program requires is in the base or among the features that get a
\* row on demand, so that no sealing fails.
LEMMA FeaturesKnown == Further \subseteq DynamicFeatures
<1>1. Referenced \subseteq DOMAIN InstrumentFeatures \cup OrderAndRiskFeatures
                          \cup {"broker_projection_reads"}
  BY DEF Referenced
<1>2. VisualRequirements \subseteq {"visuals"}
  BY DEF VisualRequirements
<1>3. DOMAIN StrategySettings \subseteq ExecutionSettings
  BY DEF StrategySettings
<1>4. {"mtf_requested_series", "broker_projection_reads", "visuals"}
         \subseteq Ids(BaseFeatures(FALSE))
  BY DEF Ids, BaseFeatures, Plain, Feature
<1>5. Required(NoUsage) = {}
  BY DEF Required, NoUsage, Range
<1>6. QED
  BY <1>1, <1>2, <1>3, <1>4, <1>5, RequestUsageKnown
     DEF Further, CapabilityUsage, Required, DynamicFeatures

\* A row says what it is the row of, in the base and beyond it.
LEMMA RowsOfFeatures ==
  /\ Ids(BaseFeatures(TRUE)) = Ids(BaseFeatures(FALSE))
  /\ Ids(SupportFeatures) = Ids(BaseFeatures(FALSE)) \cup Further
  /\ \A f, g \in SupportFeatures : f.feature_id = g.feature_id => f = g
<1>1. ASSUME NEW b \in BOOLEAN
      PROVE  /\ Ids(BaseFeatures(b))
                   = {"broker_projection_reads", "calc_on_order_fills",
                      "mtf_requested_series", "visuals", "unsupported_features"}
             /\ \A f, g \in BaseFeatures(b) : f.feature_id = g.feature_id => f = g
  BY DEF Ids, BaseFeatures, Plain, Feature
<1>2. Ids(BaseFeatures(TRUE)) = Ids(BaseFeatures(FALSE))
  BY <1>1
<1> DEFINE b == BlockingDiagnostics # <<>>
           rows == {Plain(id, Predicate(id)) : id \in Further}
<1>3. SupportFeatures = BaseFeatures(b) \cup rows /\ b \in BOOLEAN
  BY DEF SupportFeatures
<1>4. Ids(rows) = Further
        /\ \A f, g \in rows : f.feature_id = g.feature_id => f = g
  <2>1. \A id : Plain(id, Predicate(id)).feature_id = id
    BY DEF Plain, Feature
  <2>2. QED
    BY <2>1 DEF Ids
<1>5. Ids(BaseFeatures(b)) = Ids(BaseFeatures(FALSE))
  BY <1>1
<1>6. Ids(BaseFeatures(FALSE)) \cap Further = {}
  BY DEF Further
<1>7. Ids(SupportFeatures) = Ids(BaseFeatures(b)) \cup Ids(rows)
  BY <1>3 DEF Ids
<1>8. \A f \in BaseFeatures(b), g \in rows : f.feature_id # g.feature_id
  <2> SUFFICES ASSUME NEW f \in BaseFeatures(b), NEW g \in rows,
                      f.feature_id = g.feature_id
               PROVE  FALSE
    OBVIOUS
  <2>1. f.feature_id \in Ids(BaseFeatures(FALSE)) /\ g.feature_id \in Ids(rows)
    BY <1>5 DEF Ids
  <2> QED
    BY <2>1, <1>4, <1>6
<1> HIDE DEF b, rows
<1>9. \A f, g \in SupportFeatures : f.feature_id = g.feature_id => f = g
  BY <1>1, <1>3, <1>4, <1>8
<1>10. QED
  BY <1>2, <1>4, <1>5, <1>7, <1>9

\* A set written out is finite.
LEMMA FewAreFinite ==
  \A a, b, c, d : /\ IsFiniteSet({a, b}) /\ IsFiniteSet({a, b, c})
                 /\ IsFiniteSet({a, b, c, d})
<1> TAKE a, b, c, d
<1>1. IsFiniteSet({a})
  BY FS_Singleton
<1>2. IsFiniteSet({a} \cup {b})
  BY <1>1, FS_AddElement
<1>3. IsFiniteSet(({a} \cup {b}) \cup {c})
  BY <1>2, FS_AddElement
<1>4. IsFiniteSet((({a} \cup {b}) \cup {c}) \cup {d})
  BY <1>3, FS_AddElement
<1>5. /\ {a, b} = {a} \cup {b} /\ {a, b, c} = ({a} \cup {b}) \cup {c}
      /\ {a, b, c, d} = (({a} \cup {b}) \cup {c}) \cup {d}
  OBVIOUS
<1>6. QED
  BY <1>2, <1>3, <1>4, <1>5, Zenon

\* There are as many rows as features.
LEMMA OneRowEach == Cardinality(Ids(SupportFeatures)) = Cardinality(SupportFeatures)
<1> DEFINE Id == [f \in SupportFeatures |-> f.feature_id]
<1>1. IsFiniteSet(Ids(SupportFeatures))
  <2>1. /\ IsFiniteSet(ExecutionSettings) /\ IsFiniteSet(DOMAIN InstrumentFeatures)
        /\ IsFiniteSet(DOMAIN SeriesIdentityFeatures)
        /\ IsFiniteSet(OrderAndRiskFeatures)
    BY FewAreFinite
       DEF ExecutionSettings, InstrumentFeatures, SeriesIdentityFeatures,
           OrderAndRiskFeatures
  <2>2. IsFiniteSet(DynamicFeatures)
    BY <2>1, FS_Union DEF DynamicFeatures
  <2>3. IsFiniteSet(Further)
    BY <2>2, FeaturesKnown, FS_Subset
  <2>4. IsFiniteSet({"broker_projection_reads", "calc_on_order_fills",
                     "mtf_requested_series", "visuals"} \cup {"unsupported_features"})
    BY FewAreFinite, FS_AddElement
  <2>5. Ids(BaseFeatures(FALSE))
          = {"broker_projection_reads", "calc_on_order_fills",
             "mtf_requested_series", "visuals"} \cup {"unsupported_features"}
    BY DEF Ids, BaseFeatures, Plain, Feature
  <2>6. IsFiniteSet(Ids(BaseFeatures(FALSE)) \cup Further)
    BY <2>3, <2>4, <2>5, FS_Union
  <2>7. QED
    BY <2>6, RowsOfFeatures
<1>2. Id \in Injection(SupportFeatures, Ids(SupportFeatures))
  BY RowsOfFeatures DEF Injection, IsInjective, Ids
<1>3. Id \in Surjection(SupportFeatures, Ids(SupportFeatures))
  BY DEF Surjection, Ids
<1>4. QED
  BY <1>1, <1>2, <1>3, FS_Injection

\* No requirement has made the sealing fail.
Known == pc # "unknown_feature"

\* Every capability that a program requires has exactly one row in the support
\* profile sealed beside it, and no program is refused for want of one.
THEOREM ArtifactsRequirements == Spec => []RequirementsHaveRows
<1>1. IInv /\ [Next]_vars => (Known => Known')
  <2> SUFFICES ASSUME IInv, [Next]_vars, Known
               PROVE  Known'
    OBVIOUS
  <2>1. CASE SealSupport
    BY <2>1, FeaturesKnown DEF SealSupport, Known
  <2>2. CASE AddNode \/ Parse \/ RefusePath \/ Tick \/ Checkout \/ ReadClock
               \/ ReadCommit \/ UNCHANGED vars
    BY <2>2 DEF AddNode, Parse, RefusePath, Tick, Checkout, ReadClock,
                ReadCommit, vars, Known
  <2>3. CASE SealFrontend \/ SealTree \/ Attach \/ Rebuild \/ BuildInspect
    BY <2>3 DEF SealFrontend, SealTree, Attach, Rebuild, BuildInspect, Known
  <2>4. QED
    BY <2>1, <2>2, <2>3 DEF Next
<1>2. Init => Known
  BY DEF Init, Known
<1>3. Spec => []Known
  BY <1>1, <1>2, Invariance, PTL DEF Spec
<1>4. IInv => (frontend # None =>
                 /\ Required(frontend.usage) \subseteq Ids(support.features)
                 /\ Cardinality(Ids(support.features)) = Cardinality(support.features))
  <2> SUFFICES ASSUME IInv, frontend # None
               PROVE  /\ Required(frontend.usage) \subseteq Ids(support.features)
                      /\ Cardinality(Ids(support.features))
                           = Cardinality(support.features)
    OBVIOUS
  <2>1. frontend.usage = CapabilityUsage /\ support.features = SupportFeatures
    BY DEF IInv, Sealed
  <2>2. Required(CapabilityUsage) \subseteq Ids(SupportFeatures)
    BY RowsOfFeatures DEF Further
  <2>3. QED
    BY <2>1, <2>2, OneRowEach
<1>5. QED
  BY <1>3, <1>4, Invariance, PTL DEF RequirementsHaveRows, Known

-----------------------------------------------------------------------------
(***************************************************************************)
(* Whose identity a program requires.  The positional arguments of a       *)
(* request that is called properly are its first ones, so the rank of one  *)
(* among them is its place, by which the call binds it.                    *)
(***************************************************************************)

\* The places from the first on, in order, are the places themselves, ...
LEMMA FirstPlaces ==
  ASSUME NEW p \in Nat
  PROVE  /\ \A k \in 1..p : CountUpTo(1..p, k) = k
         /\ InOrder(1..p) = [k \in 1..p |-> k]
         /\ Len(InOrder(1..p)) = p
<1>1. ASSUME NEW k \in 1..p
      PROVE  CountUpTo(1..p, k) = k
  <2>1. {j \in 1..p : j <= k} = 1..k
    OBVIOUS
  <2>2. Cardinality(1..k) = k
    BY FS_Interval
  <2> QED
    BY <2>1, <2>2, Zenon DEF CountUpTo
<1>2. Cardinality(1..p) = p
  BY FS_Interval
<1>3. \A n \in 1..p : (CHOOSE k \in 1..p : CountUpTo(1..p, k) = n) = n
  BY <1>1
<1>4. InOrder(1..p) = [k \in 1..p |-> k]
  BY <1>2, <1>3 DEF InOrder
<1> QED
  BY <1>1, <1>4

\* ... and one place in order is that place.
LEMMA OnePlace ==
  ASSUME NEW i \in Nat
  PROVE  /\ InOrder({i}) # <<>>
         /\ InOrder({i})[1] = i
<1>1. Cardinality({i}) = 1
  BY FS_Singleton
<1>2. CountUpTo({i}, i) = 1
  <2>1. {j \in {i} : j <= i} = {i}
    OBVIOUS
  <2> QED
    BY <1>1, <2>1 DEF CountUpTo
<1>3. (CHOOSE k \in {i} : CountUpTo({i}, k) = 1) = i
  BY <1>2
<1> DEFINE At(n) == CHOOSE k \in {i} : CountUpTo({i}, k) = n
<1>4. InOrder({i}) = [n \in 1..1 |-> At(n)]
  BY <1>1, Zenon DEF InOrder
<1> HIDE DEF At
<1>5. DOMAIN InOrder({i}) = 1..1 /\ InOrder({i})[1] = At(1)
  BY <1>4
<1>6. At(1) = i
  BY <1>3 DEF At
<1>7. InOrder({i}) # <<>>
  <2>1. 1 \in DOMAIN InOrder({i}) /\ 1 \notin DOMAIN <<>>
    BY <1>5
  <2> QED
    BY <2>1
<1> QED
  BY <1>5, <1>6, <1>7

LEMMA NoPlace == InOrder({}) = <<>>
<1>1. Cardinality({}) = 0
  BY FS_EmptySet
<1> QED
  BY <1>1 DEF InOrder

\* Places before all others of a list are its first ones.
LEMMA LeadingPlaces ==
  ASSUME NEW n \in Nat, NEW P \in SUBSET (1..n),
         \A i \in (1..n) \ P, j \in 1..n : i < j => j \notin P
  PROVE  \E p \in 0..n : P = 1..p
<1>1. CASE P = 1..n
  BY <1>1
<1>2. CASE P # 1..n
  <2> DEFINE Q == (1..n) \ P
  <2>1. Q # {} /\ Q \subseteq Nat
    <3>1. Q = {} => \A i \in 1..n : i \in P
      OBVIOUS
    <3>2. (\A i \in 1..n : i \in P) => P = 1..n
      BY Zenon
    <3> QED
      BY <3>1, <3>2, <1>2
  <2>2. PICK m \in Q : \A j \in Q : ~(<<j, m>> \in OpToRel(<, Nat))
    BY <2>1, WFMin, NatLessThanWellFounded
  <2>3. \A j \in 1..n : j < m => j \in P
    BY <2>1, <2>2 DEF OpToRel
  <2>4. m \in (1..n) \ P
    OBVIOUS
  <2> HIDE DEF Q
  <2>5. m \in 1..n /\ m \notin P /\ m - 1 \in 0..n
    BY <2>4
  <2>6. \A j \in 1..n : j \in P <=> j \in 1..(m - 1)
    <3> SUFFICES ASSUME NEW j \in 1..n
                 PROVE  j \in P <=> j < m
      BY <2>5
    <3>1. m < j => j \notin P
      BY <2>4
    <3> QED
      BY <3>1, <2>3, <2>5
  <2>7. 1..(m - 1) \subseteq 1..n
    BY <2>5
  <2>8. P = 1..(m - 1)
    BY <2>6, <2>7, Zenon
  <2> QED
    BY <2>5, <2>8
<1> QED
  BY <1>1, <1>2

\* The tree is a list of nodes.
LEMMA TreeIsList ==
  ASSUME TreeGrows
  PROVE  Len(program) \in Nat /\ DOMAIN program = 1..Len(program)
BY DEF TreeGrows

\* Where a request is called properly, its expression is the argument that is
\* bound to the parameter of that name.
LEMMA ExpressionIsBound ==
  ASSUME TreeGrows, NEW call, WellCalled(call)
  PROVE  Expression(call)
           = {Children(call)[k] : k \in {k \in DOMAIN Children(call) :
                StaticNames(ArgumentsOf(call), RequestParameters)[k] = "expression"}}
<1> DEFINE c == Children(call)
           args == ArgumentsOf(call)
           params == RequestParameters
           names == StaticNames(args, params)
           P == Positional(args)
           K == {k \in DOMAIN c : names[k] = "expression"}
           E == {i \in DOMAIN args : args[i].name = "expression"}
<1>1. PICK n \in Nat : DOMAIN c = 1..n
  <2> DEFINE S == {k \in DOMAIN program : program[k].parent = call}
  <2>1. IsFiniteSet(S)
    <3>1. IsFiniteSet(1..Len(program))
      BY TreeIsList, FS_Interval
    <3> QED
      BY <3>1, TreeIsList, FS_Subset
  <2>2. Cardinality(S) \in Nat
    BY <2>1, FS_CardinalityType
  <2>3. DOMAIN c = 1..Cardinality(S)
    BY DEF Children, InOrder
  <2> QED
    BY <2>2, <2>3
<1>2. DOMAIN args = 1..n /\ DOMAIN names = 1..n
  BY <1>1 DEF ArgumentsOf, StaticNames
<1>3. /\ \A i, j \in 1..n : i < j => names[i] # names[j]
      /\ \A i \in Named(args), j \in 1..n : i < j => j \in Named(args)
  BY <1>2 DEF WellCalled
<1>4. /\ Named(args) = {i \in 1..n : args[i].name # NoName}
      /\ P = (1..n) \ Named(args)
      /\ P = {i \in DOMAIN args : args[i].name = NoName}
  BY <1>2 DEF Named, Positional
<1>5. PICK p \in 0..n : P = 1..p
  <2>1. \A i \in (1..n) \ P, j \in 1..n : i < j => j \notin P
    BY <1>3, <1>4
  <2>2. P \in SUBSET (1..n)
    BY <1>4
  <2> HIDE DEF P, args
  <2> QED
    BY <2>1, <2>2, LeadingPlaces
<1>6. /\ Len(params) = 4 /\ params[3].name = "expression"
      /\ params[1].name # "expression" /\ params[2].name # "expression"
      /\ params[4].name # "expression"
  BY DEF RequestParameters
<1>7. ASSUME NEW i \in P
      PROVE  names[i] = "expression" <=> i = 3
  <2>1. i \in 1..p /\ i \in DOMAIN args /\ i \notin Named(args)
    BY <1>2, <1>4, <1>5
  <2>2. PositionalRank(args, i) = i
    <3>1. PositionalRank(args, i) = CountUpTo(1..p, i)
      BY <1>5, Zenon DEF PositionalRank
    <3>2. p \in Nat
      OBVIOUS
    <3>3. \A k \in 1..p : CountUpTo(1..p, k) = k
      BY <3>2, FirstPlaces
    <3> QED
      BY <3>1, <3>3, <2>1
  <2>3. RankParameter(args, params, i) = IF i <= 4 THEN i ELSE 0
    BY <1>6, <2>1, <2>2 DEF RankParameter
  <2>4. names[i] = IF i <= 4 THEN params[i].name ELSE NoName
    BY <2>1, <2>3 DEF StaticNames
  <2>5. i = 1 \/ i = 2 \/ i = 3 \/ i = 4 \/ ~(i <= 4)
    BY <2>1
  <2> QED
    <3>1. NoName # "expression"
      BY DEF NoName
    <3> HIDE DEF names, params
    <3> QED
      BY <2>4, <2>5, <1>6, <3>1
<1>8. ASSUME NEW i \in Named(args)
      PROVE  names[i] = args[i].name
  BY <1>8, <1>2, <1>4 DEF StaticNames
<1>9. E \subseteq Named(args) /\ E \subseteq K
  <2>1. E \subseteq Named(args)
    BY <1>2, <1>4 DEF NoName
  <2> QED
    BY <2>1, <1>1, <1>2, <1>8
<1>10. K \subseteq 1..n /\ \A j, k \in K : j = k
  BY <1>1, <1>3
<1>11. /\ GivenAs(args, "expression") = InOrder(E)
       /\ GivenAs(args, NoName) = InOrder(1..p)
  BY <1>4, <1>5 DEF GivenAs
<1>12. Expression(call) = IF InOrder(E) # <<>> THEN {c[InOrder(E)[1]]}
                          ELSE IF Len(InOrder(1..p)) > 2 THEN {c[InOrder(1..p)[3]]}
                          ELSE {}
  BY <1>11, Zenon DEF Expression
<1>13. CASE E # {}
  <2>1. PICK i \in E : TRUE
    BY <1>13
  <2>2. i \in Nat /\ E = {i} /\ K = {i}
    BY <2>1, <1>9, <1>10
  <2>3. InOrder(E) # <<>> /\ InOrder(E)[1] = i
    BY <2>2, OnePlace
  <2>4. Expression(call) = {c[i]}
    BY <1>12, <2>3
  <2> HIDE DEF c, K
  <2>5. Expression(call) = {c[k] : k \in K}
    BY <2>2, <2>4
  <2> QED
    BY <2>5 DEF c, K
<1>14. CASE E = {}
  <2>1. InOrder(E) = <<>>
    BY <1>14, NoPlace
  <2>2. \A k \in K : k \in P
    <3> SUFFICES ASSUME NEW k \in K, k \in Named(args)
                 PROVE  FALSE
      BY <1>4, <1>10
    <3> QED
      BY <1>2, <1>4, <1>8, <1>14
  <2>3. K = IF p > 2 THEN {3} ELSE {}
    <3>1. \A k \in K : k = 3 /\ k \in 1..p
      BY <2>2, <1>5, <1>7
    <3>2. 3 \in 1..p => 3 \in K
      BY <1>1, <1>5, <1>7
    <3> HIDE DEF K
    <3> QED
      BY <3>1, <3>2
  <2>4. Len(InOrder(1..p)) = p /\ (p > 2 => InOrder(1..p)[3] = 3)
    <3>1. p \in Nat
      OBVIOUS
    <3>2. InOrder(1..p) = [k \in 1..p |-> k] /\ Len(InOrder(1..p)) = p
      BY <3>1, FirstPlaces
    <3> QED
      BY <3>1, <3>2
  <2>5. Expression(call) = IF p > 2 THEN {c[3]} ELSE {}
    BY <1>12, <2>1, <2>4
  <2> HIDE DEF c, K
  <2>6. Expression(call) = {c[k] : k \in K}
    BY <2>3, <2>5
  <2> QED
    BY <2>6 DEF c, K
<1> QED
  BY <1>13, <1>14

-----------------------------------------------------------------------------
\* The identity of a series is required by what requests there are and by the
\* reads of the instrument's name outside of what they evaluate.
LEMMA IdentitiesRequired ==
  ASSUME result.ast
  PROVE  /\ "chart_series_identity" \in Required(CapabilityUsage)
              <=> \E k \in Members \ RequestedContext :
                    program[k].name = "syminfo.tickerid"
         /\ "requested_series_identity" \in Required(CapabilityUsage)
              <=> Security # {}
<1> DEFINE chart == \E k \in Members \ RequestedContext :
                      program[k].name = "syminfo.tickerid"
           two == <<"mtf_requested_series", "requested_series_identity">>
           known == {"mtf_requested_series", "requested_series_identity"}
           id == "chart_series_identity"
<1>1. /\ Range(<<>>) = {} /\ two # <<>>
      /\ Range(two) = {"mtf_requested_series", "requested_series_identity"}
      /\ two \in Seq(known) /\ Len(two) = 2 /\ <<>> \in Seq(known) /\ Len(<<>>) = 0
      /\ id # "mtf_requested_series" /\ id # "requested_series_identity"
  <2>1. DOMAIN two = 1..2 /\ two[1] = "mtf_requested_series"
          /\ two[2] = "requested_series_identity" /\ Len(two) = 2
    OBVIOUS
  <2>2. two # <<>>
    OBVIOUS
  <2>3. two \in Seq(known)
    OBVIOUS
  <2> HIDE DEF two
  <2>4. Range(two) = {two[1], two[2]}
    BY <2>1 DEF Range
  <2>5. Range(<<>>) = {}
    BY DEF Range
  <2> QED
    BY <2>1, <2>2, <2>3, <2>4, <2>5
<1>2. /\ Security = {} /\ ~chart => RequestUsage = <<>>
      /\ Security = {} /\ chart => RequestUsage = InsertAt(<<>>, 1, id)
      /\ Security # {} /\ ~chart => RequestUsage = two
      /\ Security # {} /\ chart => RequestUsage = InsertAt(two, 2, id)
  <2> HIDE DEF chart, id
  <2>1. two # <<>>
    BY <1>1
  <2> HIDE DEF two
  <2> QED
    BY <2>1, Zenon DEF RequestUsage, chart, two, id
<1> HIDE DEF two, chart, known
<1>3. /\ Range(InsertAt(<<>>, 1, id)) = {id}
      /\ Range(InsertAt(two, 2, id)) = Range(two) \cup {id}
  <2>1. 1 \in 1..(Len(<<>>) + 1) /\ 2 \in 1..(Len(two) + 1)
    BY <1>1
  <2> HIDE DEF id
  <2>2. Range(InsertAt(<<>>, 1, id)) = Range(<<>>) \cup {id}
    BY <2>1, <1>1, InsertRange
  <2>3. Range(InsertAt(two, 2, id)) = Range(two) \cup {id}
    BY <2>1, <1>1, InsertRange
  <2> QED
    BY <2>2, <2>3, <1>1
<1>4. /\ id \in Range(RequestUsage) <=> chart
      /\ "requested_series_identity" \in Range(RequestUsage) <=> Security # {}
  <2>1. CASE Security = {}
    BY <2>1, <1>1, <1>2, <1>3
  <2>2. CASE Security # {}
    BY <2>2, <1>1, <1>2, <1>3
  <2> QED
    BY <2>1, <2>2
<1>5. Required(CapabilityUsage)
        = Referenced \cup Range(RequestUsage) \cup VisualRequirements
            \cup DOMAIN StrategySettings
  BY DEF Required, CapabilityUsage
<1>6. /\ id \notin Referenced \cup VisualRequirements \cup DOMAIN StrategySettings
      /\ "requested_series_identity"
           \notin Referenced \cup VisualRequirements \cup DOMAIN StrategySettings
  <2>1. Referenced \subseteq DOMAIN InstrumentFeatures \cup OrderAndRiskFeatures
                            \cup {"broker_projection_reads"}
    BY DEF Referenced
  <2>2. VisualRequirements \subseteq {"visuals"}
    BY DEF VisualRequirements
  <2>3. DOMAIN StrategySettings \subseteq ExecutionSettings
    BY DEF StrategySettings
  <2> QED
    BY <2>1, <2>2, <2>3 DEF InstrumentFeatures, OrderAndRiskFeatures, ExecutionSettings
<1> HIDE DEF id
<1>7. /\ id \in Required(CapabilityUsage) <=> chart
      /\ "requested_series_identity" \in Required(CapabilityUsage) <=> Security # {}
  BY <1>4, <1>5, <1>6
<1> QED
  BY <1>7 DEF id, chart

\* The chart's identity is required iff syminfo.tickerid is read where the chart
\* evaluates it, that of a requested series iff there is a request.security: the
\* search by name and by position finds the argument that the parameter is bound
\* to, in every request that is called properly.
THEOREM IdentityFollowsContext == Spec => []SeriesIdentityByContext
<1>1. IInv => SeriesIdentityByContext
  <2> SUFFICES ASSUME IInv, frontend # None, result.ast,
                      \A call \in Security : WellCalled(call)
               PROVE  LET required == Required(frontend.usage)
                      IN /\ "chart_series_identity" \in required
                              <=> \E k \in Members :
                                    /\ program[k].name = "syminfo.tickerid"
                                    /\ ~EvaluatedByRequest(k)
                         /\ "requested_series_identity" \in required
                              <=> Security # {}
    BY DEF SeriesIdentityByContext
  <2>1. frontend.usage = CapabilityUsage /\ TreeGrows
    BY DEF IInv, Sealed
  <2>2. ASSUME NEW k
        PROVE  EvaluatedByRequest(k) <=> k \in RequestedContext
    <3> DEFINE Bound(call) ==
                 {Children(call)[i] : i \in {i \in DOMAIN Children(call) :
                    StaticNames(ArgumentsOf(call), RequestParameters)[i] = "expression"}}
    <3>1. EvaluatedByRequest(k)
            <=> \E call \in Security : \E e \in Bound(call) : k \in Subtree(e)
      BY Zenon DEF EvaluatedByRequest
    <3>2. k \in RequestedContext
            <=> \E call \in Security : \E e \in Expression(call) : k \in Subtree(e)
      BY Zenon DEF RequestedContext
    <3>3. \A call \in Security : Expression(call) = Bound(call)
      BY <2>1, ExpressionIsBound
    <3> QED
      BY <3>1, <3>2, <3>3, Zenon
  <2> QED
    BY <2>1, <2>2, IdentitiesRequired
<1> QED
  BY <1>1, Invariance, PTL

-----------------------------------------------------------------------------
(***************************************************************************)
(* Payloads.  The parts of a payload begin their paths with different      *)
(* keys, so what a validator looks for is in one part, and is what that    *)
(* part has there.                                                         *)
(***************************************************************************)

\* Paths are sequences.
IsPath(x) == \E S : x \in Seq(S)

\* A payload, with the keys it begins paths with.
Headed(p, heads) ==
  \A x \in DOMAIN p : IsPath(x) /\ Len(x) \in Nat \ {0} /\ x[1] \in heads

\* Parts that have no path in common are all in the payload, and nothing else.
LEMMA PartsTogether ==
  ASSUME NEW parts,
         \A p, q \in parts : \A x : x \in DOMAIN p /\ x \in DOMAIN q => p = q
  PROVE  /\ \A p \in parts : \A x \in DOMAIN p :
              x \in DOMAIN Payload(parts) /\ Payload(parts)[x] = p[x]
         /\ \A x \in DOMAIN Payload(parts) : \E p \in parts : x \in DOMAIN p
<1> DEFINE D == UNION {DOMAIN p : p \in parts}
           V(x) == (CHOOSE p \in parts : x \in DOMAIN p)[x]
<1>1. Payload(parts) = [x \in D |-> V(x)]
  BY Zenon DEF Payload
<1>2. ASSUME NEW p \in parts, NEW x \in DOMAIN p
      PROVE  x \in D /\ V(x) = p[x]
  <2>1. \E q \in parts : x \in DOMAIN q
    OBVIOUS
  <2> DEFINE c == CHOOSE q \in parts : x \in DOMAIN q
  <2>2. c \in parts /\ x \in DOMAIN c
    BY <2>1
  <2> HIDE DEF c
  <2>3. c = p
    BY <2>2
  <2> QED
    BY <2>3 DEF c
<1>3. \A x \in D : \E p \in parts : x \in DOMAIN p
  OBVIOUS
<1> HIDE DEF D, V
<1>4. DOMAIN Payload(parts) = D /\ \A x \in D : Payload(parts)[x] = V(x)
  BY <1>1
<1> QED
  BY <1>2, <1>3, <1>4

\* Short paths.
LEMMA ShortPaths ==
  /\ \A a : IsPath(<<a>>) /\ Len(<<a>>) = 1 /\ <<a>>[1] = a
  /\ \A a, b : IsPath(<<a, b>>) /\ Len(<<a, b>>) = 2 /\ <<a, b>>[1] = a /\ <<a, b>>[2] = b
  /\ \A a, b, c : IsPath(<<a, b, c>>) /\ Len(<<a, b, c>>) = 3 /\ <<a, b, c>>[1] = a
<1>1. /\ \A a : <<a>> \in Seq({a})
      /\ \A a, b : <<a, b>> \in Seq({a, b})
      /\ \A a, b, c : <<a, b, c>> \in Seq({a, b, c})
  OBVIOUS
<1>2. /\ \A a : Len(<<a>>) = 1 /\ <<a>>[1] = a
      /\ \A a, b : Len(<<a, b>>) = 2 /\ <<a, b>>[1] = a /\ <<a, b>>[2] = b
      /\ \A a, b, c : Len(<<a, b, c>>) = 3 /\ <<a, b, c>>[1] = a
  OBVIOUS
<1> QED
  BY <1>1, <1>2, Zenon DEF IsPath

\* A path made longer by a key, below another.
LEMMA PathExtended ==
  ASSUME NEW at, NEW x, NEW k, IsPath(at), IsPath(x)
  PROVE  (at \o x) \o <<k>> = at \o (x \o <<k>>)
<1>1. PICK A : at \in Seq(A)
  BY DEF IsPath
<1>2. PICK B : x \in Seq(B)
  BY DEF IsPath
<1> DEFINE C == A \cup B \cup {k}
<1>3. at \in Seq(C) /\ x \in Seq(C)
  <2>1. A \subseteq C /\ B \subseteq C
    OBVIOUS
  <2> HIDE DEF C
  <2> QED
    BY <1>1, <1>2, <2>1, SeqMonotonic
<1>4. <<k>> \in Seq(C)
  OBVIOUS
<1> HIDE DEF C
<1> QED
  BY <1>3, <1>4, ConcatAssociative

\* Paths put together.
LEMMA PathsJoined ==
  /\ \A a, b : <<a>> \o <<b>> = <<a, b>>
  /\ \A a, b, c : <<a, b>> \o <<c>> = <<a, b, c>>
  /\ \A at, x, k : IsPath(at) /\ IsPath(x) => (at \o x) \o <<k>> = at \o (x \o <<k>>)
  /\ \A x : IsPath(x) => <<>> \o x = x
<1>1. ASSUME NEW a, NEW b
      PROVE  <<a>> \o <<b>> = <<a, b>>
  <2> DEFINE s == <<a>> \o <<b>>
             t == <<a, b>>
  <2>1. <<a>> \in Seq({a, b}) /\ <<b>> \in Seq({a, b})
    OBVIOUS
  <2>2. s \in Seq({a, b}) /\ Len(s) = 2 /\ s[1] = a /\ s[2] = b
    BY <2>1
  <2>3. t \in Seq({a, b}) /\ Len(t) = 2 /\ t[1] = a /\ t[2] = b
    OBVIOUS
  <2> HIDE DEF s, t
  <2>4. \A i \in 1..Len(s) : s[i] = t[i]
    BY <2>2, <2>3
  <2>5. s = t
    BY <2>2, <2>3, <2>4, SeqEqual
  <2> QED
    BY <2>5 DEF s, t
<1>2. ASSUME NEW a, NEW b, NEW c
      PROVE  <<a, b>> \o <<c>> = <<a, b, c>>
  <2> DEFINE s == <<a, b>> \o <<c>>
             t == <<a, b, c>>
  <2>1. <<a, b>> \in Seq({a, b, c}) /\ <<c>> \in Seq({a, b, c})
    OBVIOUS
  <2>2. s \in Seq({a, b, c}) /\ Len(s) = 3 /\ s[1] = a /\ s[2] = b /\ s[3] = c
    BY <2>1
  <2>3. t \in Seq({a, b, c}) /\ Len(t) = 3 /\ t[1] = a /\ t[2] = b /\ t[3] = c
    OBVIOUS
  <2> HIDE DEF s, t
  <2>4. \A i \in 1..Len(s) : s[i] = t[i]
    BY <2>2, <2>3
  <2>5. s = t
    BY <2>2, <2>3, <2>4, SeqEqual
  <2> QED
    BY <2>5 DEF s, t
<1>3. ASSUME NEW at, NEW x, NEW k, IsPath(at), IsPath(x)
      PROVE  (at \o x) \o <<k>> = at \o (x \o <<k>>)
  BY <1>3, PathExtended
<1>4. ASSUME NEW x, IsPath(x)
      PROVE  <<>> \o x = x
  BY <1>4, ConcatEmptySeq DEF IsPath
<1> QED
  BY <1>1, <1>2, <1>3, <1>4

\* What a payload begins with, path by path.
LEMMA EnvelopeIs ==
  ASSUME NEW contract, NEW name
  PROVE  LET e == Envelope(contract, name)
         IN /\ DOMAIN e = {<<"schema_version">>, <<"contract">>, <<"ok">>,
                           <<"producer">>, <<"producer", "name">>,
                           <<"producer", "version">>, <<"source">>,
                           <<"source", "path">>, <<"source", "name">>}
            /\ e[<<"schema_version">>] = One /\ e[<<"contract">>] = contract
            /\ e[<<"ok">>] = "bool"
            /\ e[<<"producer">>] = "dict" /\ e[<<"source">>] = "dict"
            /\ e[<<"producer", "name">>] = "pine2ast"
            /\ e[<<"producer", "version">>] = "str" /\ e[<<"source", "path">>] = "str"
            /\ e[<<"source", "name">>] = name
BY DEF Envelope

LEMMA TypesNamed ==
  /\ TypeOf("int") = "int" /\ TypeOf("bool") = "bool" /\ TypeOf("dict") = "dict"
  /\ TypeOf("list") = "list" /\ TypeOf("none") = "none" /\ TypeOf("str") = "str"
  /\ TypeOf(One) = "int"
  /\ \A v : v \notin NoTexts => TypeOf(v) = "str"
BY DEF TypeOf, NoTexts, Types, One

\* The parts of payloads, with the keys their paths begin with.
LEMMA EnvelopeHeaded ==
  ASSUME NEW contract, NEW name
  PROVE  Headed(Envelope(contract, name),
                {"schema_version", "contract", "ok", "producer", "source"})
<1> DEFINE e == Envelope(contract, name)
<1>1. DOMAIN e = {<<"schema_version">>, <<"contract">>, <<"ok">>,
                  <<"producer">>, <<"producer", "name">>,
                  <<"producer", "version">>, <<"source">>,
                  <<"source", "path">>, <<"source", "name">>}
  BY EnvelopeIs
<1> DEFINE heads == {"schema_version", "contract", "ok", "producer", "source"}
<1>3. \A x \in DOMAIN e : \/ \E a \in heads : x = <<a>>
                        \/ \E a \in heads : \E b : x = <<a, b>>
  BY <1>1
<1> HIDE DEF e, heads
<1>5. \A x \in DOMAIN e : IsPath(x) /\ Len(x) \in Nat \ {0} /\ x[1] \in heads
  <2> SUFFICES ASSUME NEW x \in DOMAIN e
               PROVE  IsPath(x) /\ Len(x) \in {1, 2} /\ x[1] \in heads
    OBVIOUS
  <2>1. CASE \E a \in heads : x = <<a>>
    BY <2>1, ShortPaths
  <2>2. CASE \E a \in heads : \E b : x = <<a, b>>
    BY <2>2, ShortPaths
  <2> QED
    BY <2>1, <2>2, <1>3
<1> QED
  BY <1>5 DEF Headed, e, heads

LEMMA TypedIs ==
  ASSUME NEW keys, NEW type
  PROVE  /\ \A k \in keys : <<k>> \in DOMAIN Typed(keys, type)
                            /\ Typed(keys, type)[<<k>>] = type
         /\ \A x \in DOMAIN Typed(keys, type) : \E k \in keys : x = <<k>>
         /\ Headed(Typed(keys, type), keys)
<1> DEFINE t == Typed(keys, type)
<1>2. /\ \A k \in keys : <<k>> \in DOMAIN t /\ t[<<k>>] = type
      /\ \A x \in DOMAIN t : \E k \in keys : x = <<k>>
  BY DEF Typed
<1> HIDE DEF t
<1>3. Headed(t, keys)
  <2> SUFFICES ASSUME NEW x \in DOMAIN t
               PROVE  IsPath(x) /\ Len(x) \in Nat \ {0} /\ x[1] \in keys
    BY DEF Headed
  <2>1. PICK k \in keys : x = <<k>>
    BY <1>2
  <2>2. IsPath(x) /\ Len(x) = 1 /\ x[1] = k
    BY <2>1, ShortPaths
  <2> QED
    BY <2>2
<1> QED
  BY <1>2, <1>3 DEF t

\* The list of diagnostics: its path, one for each diagnostic, and their texts.
LEMMA DiagnosticsIs ==
  ASSUME NEW list
  PROVE  LET d == Diagnostics(list)
         IN /\ <<"diagnostics">> \in DOMAIN d /\ d[<<"diagnostics">>] = "list"
            /\ \A x \in DOMAIN d : Len(x) = 2 =>
                 \E k : /\ x = <<"diagnostics", k>> /\ d[x] = "dict"
                                 /\ \A f \in DiagnosticTexts :
                                      /\ <<"diagnostics", k, f>> \in DOMAIN d
                                      /\ d[<<"diagnostics", k, f>>] = "str"
            /\ Headed(d, {"diagnostics"})
<1> DEFINE d == Diagnostics(list)
           K == Places(list)
           one == Typed({"diagnostics"}, "list")
           two == [path \in {<<"diagnostics", k>> : k \in K} |-> "dict"]
           three == [path \in {<<"diagnostics", k, f>> : k \in K, f \in DiagnosticTexts}
                       |-> "str"]
<1>2. d = Payload({one, two, three})
  BY DEF Diagnostics
<1>3. \A x : x \in DOMAIN one <=> x = <<"diagnostics">>
  BY DEF Typed
<1>4. /\ \A x : x \in DOMAIN two <=> \E k \in K : x = <<"diagnostics", k>>
      /\ \A x \in DOMAIN two : two[x] = "dict"
  OBVIOUS
<1>5. /\ \A x : x \in DOMAIN three <=>
           \E k \in K, f \in DiagnosticTexts : x = <<"diagnostics", k, f>>
      /\ \A x \in DOMAIN three : three[x] = "str"
  OBVIOUS
<1>6. one[<<"diagnostics">>] = "list"
  BY DEF Typed
<1> HIDE DEF one, two, three, d, K
<1>9. /\ \A x \in DOMAIN one : Len(x) = 1 /\ x[1] = "diagnostics" /\ IsPath(x)
      /\ \A x \in DOMAIN two : Len(x) = 2 /\ x[1] = "diagnostics" /\ IsPath(x)
      /\ \A x \in DOMAIN three : Len(x) = 3 /\ x[1] = "diagnostics" /\ IsPath(x)
  BY <1>3, <1>4, <1>5, ShortPaths
<1>10. \A p, q \in {one, two, three} : \A x : x \in DOMAIN p /\ x \in DOMAIN q => p = q
  BY <1>9
<1>11. /\ \A p \in {one, two, three} : \A x \in DOMAIN p : x \in DOMAIN d /\ d[x] = p[x]
       /\ \A x \in DOMAIN d : \E p \in {one, two, three} : x \in DOMAIN p
  BY <1>2, <1>10, PartsTogether
<1>12. <<"diagnostics">> \in DOMAIN d /\ d[<<"diagnostics">>] = "list"
  BY <1>3, <1>6, <1>11
<1>13. ASSUME NEW x \in DOMAIN d, Len(x) = 2
       PROVE  \E k : /\ x = <<"diagnostics", k>> /\ d[x] = "dict"
                              /\ \A f \in DiagnosticTexts :
                                   /\ <<"diagnostics", k, f>> \in DOMAIN d
                                   /\ d[<<"diagnostics", k, f>>] = "str"
  <2>1. x \in DOMAIN two
    <3>1. PICK p \in {one, two, three} : x \in DOMAIN p
      BY <1>11
    <3>2. p # one /\ p # three
      BY <3>1, <1>9, <1>13
    <3> QED
      BY <3>1, <3>2
  <2>2. PICK k \in K : x = <<"diagnostics", k>>
    BY <2>1, <1>4
  <2>3. ASSUME NEW f \in DiagnosticTexts
        PROVE  <<"diagnostics", k, f>> \in DOMAIN d /\ d[<<"diagnostics", k, f>>] = "str"
    BY <1>5, <1>11
  <2>4. d[x] = "dict"
    BY <2>1, <1>4, <1>11
  <2> QED
    BY <2>2, <2>3, <2>4
<1>14. Headed(d, {"diagnostics"})
  BY <1>9, <1>11 DEF Headed
<1> QED
  BY <1>12, <1>13, <1>14 DEF d

\* The sections, or none.
LEMMA SectionsIs ==
  ASSUME NEW ast \in BOOLEAN
  PROVE  LET d == SectionsOf(ast)
         IN /\ \A s \in Sections : /\ <<s>> \in DOMAIN d
                                   /\ d[<<s>>] = IF ast THEN "dict" ELSE "none"
            /\ ast => \A s \in Sections :
                 /\ <<s, "contract">> \in DOMAIN d /\ <<s, "profile">> \in DOMAIN d
                 /\ d[<<s, "contract">>] = SectionContracts[s]
                 /\ d[<<s, "profile">>] = "str"
            /\ Headed(d, Sections)
<1>2. CASE ~ast
  BY <1>2, TypedIs DEF SectionsOf
<1>3. CASE ast
  <2> DEFINE d == SectionsOf(ast)
             one == Typed(Sections, "dict")
             two == [path \in {<<s, "contract">> : s \in Sections}
                       |-> SectionContracts[path[1]]]
             three == [path \in {<<s, "profile">> : s \in Sections} |-> "str"]
  <2>1. d = Payload({one, two, three})
    BY <1>3 DEF SectionsOf
  <2>2. /\ \A s \in Sections : <<s>> \in DOMAIN one /\ one[<<s>>] = "dict"
        /\ \A x \in DOMAIN one : \E s \in Sections : x = <<s>>
    BY TypedIs
  <2>3. /\ \A s \in Sections : /\ <<s, "contract">> \in DOMAIN two
                               /\ two[<<s, "contract">>] = SectionContracts[s]
        /\ \A x \in DOMAIN two : \E s \in Sections : x = <<s, "contract">>
    OBVIOUS
  <2>4. /\ \A s \in Sections : <<s, "profile">> \in DOMAIN three
                               /\ three[<<s, "profile">>] = "str"
        /\ \A x \in DOMAIN three : \E s \in Sections : x = <<s, "profile">>
    OBVIOUS
  <2> HIDE DEF one, two, three, d
  <2>8. /\ \A x \in DOMAIN one : Len(x) = 1 /\ x[1] \in Sections /\ IsPath(x)
        /\ \A x \in DOMAIN two : /\ Len(x) = 2 /\ x[1] \in Sections /\ IsPath(x)
                                 /\ x[2] = "contract"
        /\ \A x \in DOMAIN three : /\ Len(x) = 2 /\ x[1] \in Sections /\ IsPath(x)
                                   /\ x[2] = "profile"
    BY <2>2, <2>3, <2>4, ShortPaths
  <2>9. \A p, q \in {one, two, three} : \A x : x \in DOMAIN p /\ x \in DOMAIN q => p = q
    BY <2>8
  <2>10. /\ \A p \in {one, two, three} : \A x \in DOMAIN p : x \in DOMAIN d /\ d[x] = p[x]
         /\ \A x \in DOMAIN d : \E p \in {one, two, three} : x \in DOMAIN p
    BY <2>1, <2>9, PartsTogether
  <2>11. /\ \A s \in Sections : <<s>> \in DOMAIN d /\ d[<<s>>] = "dict"
         /\ \A s \in Sections :
              /\ <<s, "contract">> \in DOMAIN d /\ <<s, "profile">> \in DOMAIN d
              /\ d[<<s, "contract">>] = SectionContracts[s]
              /\ d[<<s, "profile">>] = "str"
    BY <2>2, <2>3, <2>4, <2>10
  <2>12. Headed(d, Sections)
    BY <2>8, <2>10 DEF Headed
  <2> QED
    BY <1>3, <2>11, <2>12 DEF d
<1> QED
  BY <1>2, <1>3

\* What p holds under these heads is q.
Part(p, q, heads) ==
  /\ \A x \in DOMAIN q : x \in DOMAIN p /\ p[x] = q[x]
  /\ \A x \in DOMAIN p : x[1] \in heads => x \in DOMAIN q

\* Parts whose paths begin differently.
BeginApart(I, f, H) ==
  /\ \A i \in I : Headed(f[i], H[i])
  /\ \A i, j \in I : i # j => H[i] \cap H[j] = {}

Together(I, f) == Payload({f[i] : i \in I})

LEMMA PartsByHeads ==
  ASSUME NEW I, NEW f, NEW H, BeginApart(I, f, H)
  PROVE  /\ \A i \in I : Part(Together(I, f), f[i], H[i])
         /\ \E heads : Headed(Together(I, f), heads)
<1> USE DEF BeginApart
<1> DEFINE parts == {f[i] : i \in I}
           p == Payload(parts)
<1>1. \A i \in I : \A x \in DOMAIN f[i] :
        IsPath(x) /\ Len(x) \in Nat \ {0} /\ x[1] \in H[i]
  BY DEF Headed
<1>2. \A a, b \in parts : \A x : x \in DOMAIN a /\ x \in DOMAIN b => a = b
  <2> SUFFICES ASSUME NEW i \in I, NEW j \in I, NEW x \in DOMAIN f[i], x \in DOMAIN f[j]
               PROVE  f[i] = f[j]
    OBVIOUS
  <2>1. x[1] \in H[i] /\ x[1] \in H[j]
    BY <1>1
  <2>2. i = j
    BY <2>1
  <2> QED
    BY <2>2
<1>3. /\ \A a \in parts : \A x \in DOMAIN a : x \in DOMAIN p /\ p[x] = a[x]
      /\ \A x \in DOMAIN p : \E a \in parts : x \in DOMAIN a
  BY <1>2, PartsTogether
<1>4. \A i \in I : f[i] \in parts
  OBVIOUS
<1>5. \A x \in DOMAIN p : \E i \in I : x \in DOMAIN f[i]
  BY <1>3
<1> HIDE DEF parts, p
<1>6. ASSUME NEW i \in I
      PROVE  Part(p, f[i], H[i])
  <2>1. \A x \in DOMAIN f[i] : x \in DOMAIN p /\ p[x] = f[i][x]
    BY <1>3, <1>4
  <2>2. ASSUME NEW x \in DOMAIN p, x[1] \in H[i]
        PROVE  x \in DOMAIN f[i]
    <3>1. PICK j \in I : x \in DOMAIN f[j]
      BY <1>5
    <3>2. x[1] \in H[j]
      BY <1>1, <3>1
    <3>3. i = j
      BY <2>2, <3>2
    <3> QED
      BY <3>1, <3>3
  <2> QED
    BY <2>1, <2>2 DEF Part
<1> DEFINE heads == UNION {H[i] : i \in I}
<1>7. \A i \in I : H[i] \subseteq heads
  OBVIOUS
<1> HIDE DEF heads
<1>8. Headed(p, heads)
  BY <1>1, <1>5, <1>7 DEF Headed
<1> QED
  BY <1>6, <1>8 DEF p, parts, Together

\* The OpenPine payload and its parts.
LEMMA OpenPineIs ==
  ASSUME NEW r, r.ast \in BOOLEAN, NEW name
  PROVE  LET q == OpenPine(r, name)
         IN /\ Part(q, Envelope("openpine.frontend.v2", name),
                    {"schema_version", "contract", "ok", "producer", "source"})
            /\ Part(q, Diagnostics(r.diagnostics), {"diagnostics"})
            /\ Part(q, SectionsOf(r.ast), Sections)
            /\ \E heads : Headed(q, heads)
<1> DEFINE e == Envelope("openpine.frontend.v2", name)
           c == Typed({"contracts"}, "dict")
           d == Diagnostics(r.diagnostics)
           s == SectionsOf(r.ast)
           f == <<e, c, d, s>>
           he == {"schema_version", "contract", "ok", "producer", "source"}
           H == <<he, {"contracts"}, {"diagnostics"}, Sections>>
<1>1. Headed(e, he) /\ Headed(c, {"contracts"}) /\ Headed(d, {"diagnostics"})
        /\ Headed(s, Sections)
  BY EnvelopeHeaded, TypedIs, DiagnosticsIs, SectionsIs
<1>2. OpenPine(r, name) = Payload({e, c, d, s})
  BY DEF OpenPine
<1> HIDE DEF e, c, d, s
<1>3. \A i, j \in 1..4 : i # j => H[i] \cap H[j] = {}
  <2>1. Sections = {"static_validation", "requests", "strategy", "types", "methods",
                    "collections", "callables", "control_flow"}
    BY DEF Sections, SectionContracts
  <2>2. Sections \cap he = {} /\ "contracts" \notin Sections /\ "diagnostics" \notin Sections
    BY <2>1
  <2>3. "contracts" \notin he /\ "diagnostics" \notin he
    OBVIOUS
  <2> HIDE DEF he
  <2> QED
    BY <2>2, <2>3
<1> HIDE DEF he
<1>4. /\ f[1] = e /\ f[2] = c /\ f[3] = d /\ f[4] = s
      /\ H[1] = he /\ H[2] = {"contracts"} /\ H[3] = {"diagnostics"} /\ H[4] = Sections
  OBVIOUS
<1> HIDE DEF f, H
<1>5. \A i \in 1..4 : Headed(f[i], H[i])
  BY <1>1, <1>4
<1>6. OpenPine(r, name) = Together(1..4, f)
  <2>1. {f[i] : i \in 1..4} = {e, c, d, s}
    BY <1>4
  <2> QED
    BY <1>2, <2>1 DEF Together
<1>7. /\ \A i \in 1..4 : Part(OpenPine(r, name), f[i], H[i])
      /\ \E heads : Headed(OpenPine(r, name), heads)
  <2>1. BeginApart(1..4, f, H)
    BY <1>3, <1>5, Zenon DEF BeginApart
  <2> QED
    BY <1>6, <2>1, PartsByHeads
<1>8. /\ Part(OpenPine(r, name), e, he) /\ Part(OpenPine(r, name), d, {"diagnostics"})
      /\ Part(OpenPine(r, name), s, Sections)
  BY <1>4, <1>7
<1> QED
  BY <1>7, <1>8 DEF e, d, s, he

\* A snapshot and its parts.
LEMMA SnapshotIs ==
  ASSUME NEW name
  PROVE  LET q == Snapshot(name)
         IN /\ Part(q, Envelope("pine2ast.semantic_snapshot.v1", name),
                    {"schema_version", "contract", "ok", "producer", "source"})
            /\ Part(q, Typed({"profile", "diagnostics", "counts"}, "dict"),
                    {"profile", "diagnostics", "counts"})
            /\ Part(q, Typed({"passes", "symbols", "scopes", "node_facts"}, "list"),
                    {"passes", "symbols", "scopes", "node_facts"})
            /\ \E heads : Headed(q, heads)
<1> DEFINE he == {"schema_version", "contract", "ok", "producer", "source"}
           hd == {"profile", "diagnostics", "counts"}
           hl == {"passes", "symbols", "scopes", "node_facts"}
           e == Envelope("pine2ast.semantic_snapshot.v1", name)
           d == Typed(hd, "dict")
           l == Typed(hl, "list")
           f == <<e, d, l>>
           H == <<he, hd, hl>>
<1>1. he \cap hd = {} /\ he \cap hl = {} /\ hd \cap hl = {}
  OBVIOUS
<1>2. Snapshot(name) = Payload({e, d, l})
  BY DEF Snapshot
<1> HIDE DEF he, hd, hl
<1>3. Headed(e, he) /\ Headed(d, hd) /\ Headed(l, hl)
  BY EnvelopeHeaded, TypedIs DEF he
<1> HIDE DEF e, d, l
<1>4. f[1] = e /\ f[2] = d /\ f[3] = l /\ H[1] = he /\ H[2] = hd /\ H[3] = hl
  OBVIOUS
<1> HIDE DEF f, H
<1>5. \A i \in 1..3 : Headed(f[i], H[i])
  BY <1>3, <1>4
<1>6. \A i, j \in 1..3 : i # j => H[i] \cap H[j] = {}
  BY <1>1, <1>4
<1>7. Snapshot(name) = Together(1..3, f)
  <2>1. {f[i] : i \in 1..3} = {e, d, l}
    BY <1>4
  <2> QED
    BY <1>2, <2>1 DEF Together
<1>8. /\ \A i \in 1..3 : Part(Snapshot(name), f[i], H[i])
      /\ \E heads : Headed(Snapshot(name), heads)
  <2>1. BeginApart(1..3, f, H)
    BY <1>5, <1>6, Zenon DEF BeginApart
  <2> QED
    BY <1>7, <2>1, PartsByHeads
<1>9. Part(Snapshot(name), e, he) /\ Part(Snapshot(name), d, hd) /\ Part(Snapshot(name), l, hl)
  BY <1>4, <1>8
<1> QED
  BY <1>8, <1>9 DEF e, d, l, he, hd, hl

\* What a path leads to below a key.
LEMMA BelowKey ==
  ASSUME NEW key, NEW x, IsPath(x)
  PROVE  /\ IsPath(<<key>> \o x) /\ Len(<<key>> \o x) = Len(x) + 1
         /\ Len(x) \in Nat
         /\ (<<key>> \o x)[1] = key /\ Tail(<<key>> \o x) = x
         /\ \A n \in 1..Len(x) : (<<key>> \o x)[n + 1] = x[n]
<1>1. PICK S : x \in Seq(S)
  BY DEF IsPath
<1> DEFINE T == S \cup {key}
<1>2. x \in Seq(T) /\ <<key>> \in Seq(T)
  <2>1. S \subseteq T
    OBVIOUS
  <2>2. <<key>> \in Seq(T)
    OBVIOUS
  <2> HIDE DEF T
  <2> QED
    BY <1>1, <2>1, <2>2, SeqMonotonic
<1> HIDE DEF T
<1>3. <<key>> \o x \in Seq(T)
  BY <1>2
<1>4. Len(x) \in Nat /\ Len(<<key>> \o x) = Len(x) + 1 /\ (<<key>> \o x)[1] = key
      /\ \A n \in 1..Len(x) : (<<key>> \o x)[n + 1] = x[n]
  BY <1>2
<1>5. Tail(<<key>> \o x) = x
  BY <1>2
<1> QED
  BY <1>3, <1>4, <1>5 DEF IsPath

\* e is p below a key, or nothing.
Embeds(e, wanted, key, p) ==
  /\ Headed(e, {key})
  /\ ~wanted => DOMAIN e = {}
  /\ wanted =>
       /\ <<key>> \in DOMAIN e /\ e[<<key>>] = "dict"
       /\ \A x \in DOMAIN p : <<key>> \o x \in DOMAIN e /\ e[<<key>> \o x] = p[x]
       /\ \A y \in DOMAIN e : Len(y) # 1 => \E x \in DOMAIN p : y = <<key>> \o x

\* A payload within another one.
LEMMA EmbeddedIs ==
  ASSUME NEW wanted \in BOOLEAN, NEW key, NEW p, \E heads : Headed(p, heads)
  PROVE  Embeds(Embedded(wanted, key, p), wanted, key, p)
<1>1. CASE ~wanted
  BY <1>1 DEF Embedded, Headed, Embeds
<1>2. CASE wanted
  <2> DEFINE e == Embedded(wanted, key, p)
             one == Typed({key}, "dict")
             two == Under(key, p)
  <2>1. e = Payload({one, two})
    BY <1>2 DEF Embedded
  <2>2. <<key>> \in DOMAIN one /\ one[<<key>>] = "dict"
        /\ \A x \in DOMAIN one : x = <<key>>
    BY TypedIs
  <2>3. \A x \in DOMAIN p : IsPath(x) /\ Len(x) \in Nat \ {0}
    BY DEF Headed
  <2>4. /\ \A x \in DOMAIN p : <<key>> \o x \in DOMAIN two /\ two[<<key>> \o x] = p[x]
        /\ \A y \in DOMAIN two : \E x \in DOMAIN p : y = <<key>> \o x
    <3>1. DOMAIN two = {<<key>> \o x : x \in DOMAIN p}
          /\ \A y \in DOMAIN two : two[y] = p[Tail(y)]
      BY DEF Under
    <3> HIDE DEF two
    <3>2. \A x \in DOMAIN p : Tail(<<key>> \o x) = x
      BY <2>3, BelowKey
    <3> QED
      BY <3>1, <3>2
  <2> HIDE DEF one, two, e
  <2>5. IsPath(<<key>>) /\ Len(<<key>>) = 1 /\ <<key>>[1] = key
    BY ShortPaths
  <2>6. \A y \in DOMAIN two : IsPath(y) /\ Len(y) \in Nat \ {0, 1} /\ y[1] = key
    <3> SUFFICES ASSUME NEW y \in DOMAIN two
                 PROVE  IsPath(y) /\ Len(y) \in Nat \ {0, 1} /\ y[1] = key
      OBVIOUS
    <3>1. PICK x \in DOMAIN p : y = <<key>> \o x
      BY <2>4
    <3> QED
      BY <3>1, <2>3, BelowKey
  <2>7. \A a, b \in {one, two} : \A x : x \in DOMAIN a /\ x \in DOMAIN b => a = b
    <3>1. \A x \in DOMAIN one : Len(x) = 1
      <4> SUFFICES ASSUME NEW x \in DOMAIN one
                   PROVE  Len(x) = 1
        OBVIOUS
      <4>1. x = <<key>>
        BY <2>2
      <4> QED
        BY <4>1, <2>5
    <3>2. \A x \in DOMAIN one : x \notin DOMAIN two
      <4> SUFFICES ASSUME NEW x \in DOMAIN one, x \in DOMAIN two
                   PROVE  FALSE
        OBVIOUS
      <4>1. Len(x) = 1
        BY <3>1
      <4>2. Len(x) \in Nat \ {0, 1}
        BY <2>6
      <4> QED
        BY <4>1, <4>2
    <3> QED
      BY <3>2
  <2>8. /\ \A a \in {one, two} : \A x \in DOMAIN a : x \in DOMAIN e /\ e[x] = a[x]
        /\ \A x \in DOMAIN e : \E a \in {one, two} : x \in DOMAIN a
    BY <2>1, <2>7, PartsTogether
  <2>9. Headed(e, {key})
    BY <2>2, <2>5, <2>6, <2>8 DEF Headed
  <2>10. <<key>> \in DOMAIN e /\ e[<<key>>] = "dict"
    BY <2>2, <2>8
  <2>11. \A x \in DOMAIN p : <<key>> \o x \in DOMAIN e /\ e[<<key>> \o x] = p[x]
    BY <2>4, <2>8
  <2>12. \A y \in DOMAIN e : Len(y) # 1 => \E x \in DOMAIN p : y = <<key>> \o x
    <3>1. \A x \in DOMAIN one : Len(x) = 1
      <4> SUFFICES ASSUME NEW x \in DOMAIN one
                   PROVE  Len(x) = 1
        OBVIOUS
      <4>1. x = <<key>>
        BY <2>2
      <4> QED
        BY <4>1, <2>5
    <3>2. \A x \in DOMAIN e : x \in DOMAIN one \/ x \in DOMAIN two
      BY <2>8
    <3> QED
      BY <2>4, <3>1, <3>2
  <2> QED
    BY <1>2, <2>9, <2>10, <2>11, <2>12 DEF e, Embeds
<1> QED
  BY <1>1, <1>2

\* An inspection payload and its parts.
LEMMA InspectIs ==
  ASSUME NEW r, r.ast \in BOOLEAN, NEW name, NEW o \in BOOLEAN, NEW s \in BOOLEAN
  PROVE  LET q == Inspect(r, name, o, s)
         IN /\ Part(q, Envelope("pine2ast.inspect.optimizer.v1", name),
                    {"schema_version", "contract", "ok", "producer", "source"})
            /\ Part(q, Typed({"tool", "script"}, "dict"), {"tool", "script"})
            /\ Part(q, Diagnostics(r.diagnostics), {"diagnostics"})
            /\ Part(q, Typed(InspectLists, "list"), InspectLists)
            /\ Part(q, Typed({"dependencies"}, IF r.ast THEN "dict" ELSE "none"),
                    {"dependencies"})
            /\ Part(q, Embedded(o, "openpine_contract", OpenPine(r, name)),
                    {"openpine_contract"})
            /\ Part(q, Embedded(s, "semantic_snapshot", Snapshot(name)),
                    {"semantic_snapshot"})
            /\ \E heads : Headed(q, heads)
<1> DEFINE he == {"schema_version", "contract", "ok", "producer", "source"}
           ht == {"tool", "script"}
           hd == {"diagnostics"}
           hl == InspectLists
           hp == {"dependencies"}
           ho == {"openpine_contract"}
           hs == {"semantic_snapshot"}
           e == Envelope("pine2ast.inspect.optimizer.v1", name)
           t == Typed(ht, "dict")
           d == Diagnostics(r.diagnostics)
           l == Typed(hl, "list")
           p == Typed(hp, IF r.ast THEN "dict" ELSE "none")
           op == Embedded(o, "openpine_contract", OpenPine(r, name))
           sn == Embedded(s, "semantic_snapshot", Snapshot(name))
           f == <<e, t, d, l, p, op, sn>>
           H == <<he, ht, hd, hl, hp, ho, hs>>
           q == Inspect(r, name, o, s)
<1>1. \A i, j \in 1..7 : i # j => H[i] \cap H[j] = {}
  <2>1. /\ \A h \in he : h \notin ht /\ h \notin hd /\ h \notin hl /\ h \notin hp
                         /\ h \notin ho /\ h \notin hs
        /\ \A h \in ht : h \notin hd /\ h \notin hl /\ h \notin hp
                         /\ h \notin ho /\ h \notin hs
        /\ \A h \in hd : h \notin hl /\ h \notin hp /\ h \notin ho /\ h \notin hs
        /\ \A h \in hl : h \notin hp /\ h \notin ho /\ h \notin hs
        /\ \A h \in hp : h \notin ho /\ h \notin hs
        /\ \A h \in ho : h \notin hs
    BY DEF InspectLists
  <2>2. /\ H[1] = he /\ H[2] = ht /\ H[3] = hd /\ H[4] = hl /\ H[5] = hp
        /\ H[6] = ho /\ H[7] = hs
    OBVIOUS
  <2> HIDE DEF he, ht, hd, hl, hp, ho, hs, H
  <2>3. \A i, j \in 1..7 : i < j => H[i] \cap H[j] = {}
    <3> SUFFICES ASSUME NEW i \in 1..7, NEW j \in 1..7, i < j,
                        NEW h, h \in H[i], h \in H[j]
                 PROVE  FALSE
      OBVIOUS
    <3>1. i = 1 \/ i = 2 \/ i = 3 \/ i = 4 \/ i = 5 \/ i = 6
      OBVIOUS
    <3>2. j = 2 \/ j = 3 \/ j = 4 \/ j = 5 \/ j = 6 \/ j = 7
      OBVIOUS
    <3> QED
      BY <2>1, <2>2, <3>1, <3>2
  <2> QED
    BY <2>3
<1>2. q = Payload({e, t, d, l, p, op, sn})
  BY DEF Inspect
<1>3. Headed(op, ho) /\ Headed(sn, hs)
  <2>1. \E heads : Headed(OpenPine(r, name), heads)
    BY OpenPineIs
  <2>2. \E heads : Headed(Snapshot(name), heads)
    BY SnapshotIs
  <2> QED
    BY <2>1, <2>2, EmbeddedIs DEF Embeds
<1>4. Headed(d, hd) /\ Headed(e, he)
  BY EnvelopeHeaded, DiagnosticsIs
<1> HIDE DEF he, ht, hd, hl, hp, ho, hs, e, d, op, sn, q
<1>5. Headed(t, ht) /\ Headed(l, hl) /\ Headed(p, hp)
  BY TypedIs
<1> HIDE DEF t, l, p
<1>6. /\ f[1] = e /\ f[2] = t /\ f[3] = d /\ f[4] = l /\ f[5] = p /\ f[6] = op
      /\ f[7] = sn
      /\ H[1] = he /\ H[2] = ht /\ H[3] = hd /\ H[4] = hl /\ H[5] = hp
      /\ H[6] = ho /\ H[7] = hs
  OBVIOUS
<1> HIDE DEF f, H
<1>7. \A i \in 1..7 : i = 1 \/ i = 2 \/ i = 3 \/ i = 4 \/ i = 5 \/ i = 6 \/ i = 7
  OBVIOUS
<1>8. \A i \in 1..7 : Headed(f[i], H[i])
  BY <1>3, <1>4, <1>5, <1>6, <1>7
<1>9. q = Together(1..7, f)
  <2>1. {f[i] : i \in 1..7} = {e, t, d, l, p, op, sn}
    BY <1>6, <1>7
  <2> QED
    BY <1>2, <2>1 DEF Together
<1>10. /\ \A i \in 1..7 : Part(q, f[i], H[i])
       /\ \E heads : Headed(q, heads)
  <2>1. BeginApart(1..7, f, H)
    BY <1>1, <1>8, Zenon DEF BeginApart
  <2> QED
    BY <1>9, <2>1, PartsByHeads
<1>11. /\ Part(q, e, he) /\ Part(q, t, ht) /\ Part(q, d, hd) /\ Part(q, l, hl)
       /\ Part(q, p, hp) /\ Part(q, op, ho) /\ Part(q, sn, hs)
  BY <1>6, <1>10
<1> QED
  BY <1>10, <1>11 DEF he, ht, hd, hl, hp, ho, hs, e, t, d, l, p, op, sn, q

\* What is there is an object if its type says so.
LEMMA DictFound ==
  ASSUME NEW p, NEW path
  PROVE  /\ path \in DOMAIN p => Get(p, path) = p[path]
         /\ path \notin DOMAIN p => Get(p, path) = "none"
         /\ path \in DOMAIN p /\ p[path] = "dict" => IsDict(p, path)
         /\ IsDict(p, path) => path \in DOMAIN p /\ p[path] # "none"
<1>1. TypeOf("none") = "none" /\ TypeOf("dict") = "dict"
  BY TypesNamed
<1>2. Get(p, path) = IF path \in DOMAIN p THEN p[path] ELSE "none"
  BY DEF Get
<1> QED
  BY <1>1, <1>2 DEF IsDict

\* What a validator looks for and finds.
LEMMA Found ==
  /\ \A p, path, types : path \in DOMAIN p /\ TypeOf(p[path]) \in types
                           => Requires(p, path, types) = {}
  /\ \A p, path, literal : path \in DOMAIN p /\ p[path] = literal /\ literal \notin NoTexts
                             => RequiresLiteral(p, path, literal) = {}
  /\ \A p, at, keys, types :
       (\A k \in keys : at \o <<k>> \in DOMAIN p /\ TypeOf(p[at \o <<k>>]) \in types)
         => RequiresAll(p, at, keys, types) = {}
<1>1. \A p, path, types : path \in DOMAIN p /\ TypeOf(p[path]) \in types
                            => Requires(p, path, types) = {}
  BY DEF Requires
<1>2. ASSUME NEW p, NEW path, NEW literal, path \in DOMAIN p, p[path] = literal,
             literal \notin NoTexts
      PROVE  RequiresLiteral(p, path, literal) = {}
  <2>1. TypeOf(p[path]) \in {"str"}
    BY <1>2, TypesNamed
  <2>2. Requires(p, path, {"str"}) = {}
    BY <1>1, <1>2, <2>1
  <2> QED
    BY <1>2, <2>2 DEF RequiresLiteral
<1>3. ASSUME NEW p, NEW at, NEW keys, NEW types,
             \A k \in keys : at \o <<k>> \in DOMAIN p /\ TypeOf(p[at \o <<k>>]) \in types
      PROVE  RequiresAll(p, at, keys, types) = {}
  <2>1. \A k \in keys : Requires(p, at \o <<k>>, types) = {}
    BY <1>1, <1>3
  <2> QED
    BY <2>1, Zenon DEF RequiresAll
<1> QED
  BY <1>1, <1>2, <1>3

\* All of q is found below a path.
Holds(p, at, q) == \A x \in DOMAIN q : at \o x \in DOMAIN p /\ p[at \o x] = q[x]

\* The beginning of a payload is accepted, ...
LEMMA EnvelopeAccepted ==
  ASSUME NEW p, NEW at, IsPath(at), NEW q, Holds(p, at, q),
         NEW contract, contract \notin NoTexts, NEW name, name \notin NoTexts,
         NEW heads, Part(q, Envelope(contract, name), heads)
  PROVE  EnvelopeIssues(p, at, contract) = {}
<1> DEFINE e == Envelope(contract, name)
<1>1. \A x \in DOMAIN e : at \o x \in DOMAIN p /\ p[at \o x] = e[x]
  BY DEF Part, Holds
<1>2. /\ DOMAIN e = {<<"schema_version">>, <<"contract">>, <<"ok">>,
                     <<"producer">>, <<"producer", "name">>,
                     <<"producer", "version">>, <<"source">>,
                     <<"source", "path">>, <<"source", "name">>}
      /\ e[<<"schema_version">>] = One /\ e[<<"contract">>] = contract
      /\ e[<<"ok">>] = "bool"
      /\ e[<<"producer">>] = "dict" /\ e[<<"source">>] = "dict"
      /\ e[<<"producer", "name">>] = "pine2ast"
      /\ e[<<"producer", "version">>] = "str" /\ e[<<"source", "path">>] = "str"
      /\ e[<<"source", "name">>] = name
  BY EnvelopeIs
<1> HIDE DEF e
<1>3. Requires(p, at \o <<"schema_version">>, {"int"}) = {}
  BY <1>1, <1>2, Found, TypesNamed
<1>4. RequiresLiteral(p, at \o <<"contract">>, contract) = {}
  BY <1>1, <1>2, Found
<1>5. Requires(p, at \o <<"ok">>, {"bool"}) = {}
  BY <1>1, <1>2, Found, TypesNamed
<1>6. ASSUME NEW holder, NEW texts, <<holder>> \in DOMAIN e, e[<<holder>>] = "dict",
             \A k \in texts : <<holder, k>> \in DOMAIN e /\ TypeOf(e[<<holder, k>>]) = "str"
      PROVE  HolderIssues(p, at \o <<holder>>, texts) = {}
  <2> DEFINE path == at \o <<holder>>
  <2>1. path \in DOMAIN p /\ TypeOf(p[path]) = "dict"
    BY <1>1, <1>6, TypesNamed
  <2>2. Requires(p, path, {"dict"}) = {}
    BY <2>1, Found
  <2>3. ASSUME NEW k \in texts
        PROVE  path \o <<k>> \in DOMAIN p /\ TypeOf(p[path \o <<k>>]) \in {"str"}
    <3>1. path \o <<k>> = at \o <<holder, k>>
      <4> DEFINE x == <<holder>>
      <4>1. IsPath(x)
        BY ShortPaths
      <4>2. x \o <<k>> = <<holder, k>>
        BY PathsJoined
      <4> HIDE DEF x
      <4>3. (at \o x) \o <<k>> = at \o (x \o <<k>>)
        BY <4>1, PathExtended
      <4> QED
        BY <4>2, <4>3 DEF x
    <3>2. at \o <<holder, k>> \in DOMAIN p /\ p[at \o <<holder, k>>] = e[<<holder, k>>]
      BY <1>1, <1>6
    <3> HIDE DEF path
    <3> QED
      BY <3>1, <3>2, <1>6
  <2> HIDE DEF path
  <2>4. RequiresAll(p, path, texts, {"str"}) = {}
    BY <2>3, Found
  <2> QED
    BY <2>2, <2>4 DEF HolderIssues, path
<1>7. TypeOf("pine2ast") = "str" /\ TypeOf("str") = "str" /\ TypeOf(name) = "str"
  <2>1. "pine2ast" \notin NoTexts
    BY DEF NoTexts, Types, One
  <2> QED
    BY <2>1, TypesNamed
<1>8. HolderIssues(p, at \o <<"producer">>, {"name", "version"}) = {}
  <2>1. \A k \in {"name", "version"} : /\ <<"producer", k>> \in DOMAIN e
                                       /\ TypeOf(e[<<"producer", k>>]) = "str"
    BY <1>2, <1>7
  <2> QED
    BY <2>1, <1>2, <1>6
<1>9. HolderIssues(p, at \o <<"source">>, {"path", "name"}) = {}
  <2>1. \A k \in {"path", "name"} : /\ <<"source", k>> \in DOMAIN e
                                    /\ TypeOf(e[<<"source", k>>]) = "str"
    BY <1>2, <1>7
  <2> QED
    BY <2>1, <1>2, <1>6
<1> QED
  BY <1>3, <1>4, <1>5, <1>8, <1>9 DEF EnvelopeIssues

\* ... so is the list of diagnostics, if what seems one of it is one, ...
LEMMA DiagnosticsAccepted ==
  ASSUME NEW p, NEW at, IsPath(at), NEW q, Holds(p, at, q),
         NEW list, Part(q, Diagnostics(list), {"diagnostics"}),
         \A y \in DOMAIN p :
           Len(y) = Len(at \o <<"diagnostics">>) + 1
             /\ SubSeq(y, 1, Len(at \o <<"diagnostics">>)) = at \o <<"diagnostics">>
           => \E x \in DOMAIN q : y = at \o x /\ Len(x) = 2 /\ x[1] = "diagnostics"
  PROVE  DiagnosticIssues(p, at) = {}
<1> DEFINE d == Diagnostics(list)
           here == at \o <<"diagnostics">>
           items == {y \in DOMAIN p : Len(y) = Len(here) + 1
                                      /\ SubSeq(y, 1, Len(here)) = here}
<1>1. /\ \A x \in DOMAIN d : at \o x \in DOMAIN p /\ p[at \o x] = d[x]
      /\ \A x \in DOMAIN q : x[1] = "diagnostics" => x \in DOMAIN d
  BY DEF Part, Holds
<1>2. /\ <<"diagnostics">> \in DOMAIN d /\ d[<<"diagnostics">>] = "list"
      /\ \A x \in DOMAIN d : Len(x) = 2 =>
           \E k : /\ x = <<"diagnostics", k>> /\ d[x] = "dict"
                  /\ \A f \in DiagnosticTexts :
                       /\ <<"diagnostics", k, f>> \in DOMAIN d
                       /\ d[<<"diagnostics", k, f>>] = "str"
  BY DiagnosticsIs
<1> HIDE DEF d
<1>3. Requires(p, here, {"list"}) = {}
  BY <1>1, <1>2, Found, TypesNamed
<1>4. ASSUME NEW y \in items
      PROVE  HolderIssues(p, y, DiagnosticTexts) = {}
  <2>1. PICK x \in DOMAIN q : y = at \o x /\ Len(x) = 2 /\ x[1] = "diagnostics"
    OBVIOUS
  <2>2. x \in DOMAIN d
    BY <2>1, <1>1
  <2>3. PICK k : /\ x = <<"diagnostics", k>> /\ d[x] = "dict"
                 /\ \A f \in DiagnosticTexts : /\ <<"diagnostics", k, f>> \in DOMAIN d
                                               /\ d[<<"diagnostics", k, f>>] = "str"
    BY <2>1, <2>2, <1>2
  <2> HIDE DEF items
  <2>4. ASSUME NEW f \in DiagnosticTexts
        PROVE  y \o <<f>> \in DOMAIN p /\ TypeOf(p[y \o <<f>>]) \in {"str"}
    <3>1. IsPath(x) /\ x \o <<f>> = <<"diagnostics", k, f>>
      BY <2>3, PathsJoined, ShortPaths
    <3>2. y \o <<f>> = at \o <<"diagnostics", k, f>>
      <4>1. (at \o x) \o <<f>> = at \o (x \o <<f>>)
        BY <3>1, PathsJoined
      <4> QED
        BY <2>1, <3>1, <4>1, Zenon
    <3>3. p[y \o <<f>>] = "str" /\ y \o <<f>> \in DOMAIN p
      BY <2>3, <3>2, <1>1
    <3> QED
      BY <3>3, TypesNamed
  <2>5. RequiresAll(p, y, DiagnosticTexts, {"str"}) = {}
    BY <2>4, Found
  <2>6. y \in DOMAIN p /\ p[y] = "dict"
    BY <2>1, <2>2, <2>3, <1>1
  <2>7. Requires(p, y, {"dict"}) = {}
    BY <2>6, Found, TypesNamed
  <2> QED
    BY <2>5, <2>7 DEF HolderIssues
<1>5. DiagnosticIssues(p, at)
        = IF Requires(p, here, {"list"}) # {} THEN Requires(p, here, {"list"})
          ELSE UNION {HolderIssues(p, y, DiagnosticTexts) : y \in items}
  BY DEF DiagnosticIssues
<1> HIDE DEF items, here
<1>6. UNION {HolderIssues(p, y, DiagnosticTexts) : y \in items} = {}
  BY <1>4, Zenon
<1> QED
  BY <1>3, <1>5, <1>6

\* ... and so are the sections.
LEMMA SectionsAccepted ==
  ASSUME NEW p, NEW at, IsPath(at), NEW q, Holds(p, at, q), NEW ast \in BOOLEAN,
         NEW heads, Part(q, SectionsOf(ast), heads), NEW s \in Sections
  PROVE  SectionIssues(p, at, s) = {}
<1> DEFINE d == SectionsOf(ast)
           here == at \o <<s>>
<1>1. \A x \in DOMAIN d : at \o x \in DOMAIN p /\ p[at \o x] = d[x]
  BY DEF Part, Holds
<1>2. /\ <<s>> \in DOMAIN d /\ d[<<s>>] = IF ast THEN "dict" ELSE "none"
      /\ ast => /\ <<s, "contract">> \in DOMAIN d /\ <<s, "profile">> \in DOMAIN d
                /\ d[<<s, "contract">>] = SectionContracts[s]
                /\ d[<<s, "profile">>] = "str"
  BY SectionsIs
<1>3. SectionContracts[s] \notin NoTexts
  BY DEF Sections, SectionContracts, NoTexts, Types, One
<1>4. here \o <<"contract">> = at \o <<s, "contract">>
      /\ here \o <<"profile">> = at \o <<s, "profile">>
  <2> DEFINE x == <<s>>
  <2>1. IsPath(x)
    BY ShortPaths
  <2>2. x \o <<"contract">> = <<s, "contract">> /\ x \o <<"profile">> = <<s, "profile">>
    BY PathsJoined
  <2> HIDE DEF d, x
  <2>3. ASSUME NEW k
        PROVE  (at \o x) \o <<k>> = at \o (x \o <<k>>)
    BY <2>1, PathsJoined
  <2> QED
    BY <2>2, <2>3, Zenon DEF x
<1> HIDE DEF d, here
<1>5. here \in DOMAIN p /\ p[here] = IF ast THEN "dict" ELSE "none"
  BY <1>1, <1>2 DEF here
<1>6. Requires(p, here, {"dict", "none"}) = {}
  BY <1>5, Found, TypesNamed
<1>7. CASE ~ast
  <2>1. ~IsDict(p, here)
    BY <1>5, <1>7, DictFound
  <2> QED
    BY <2>1, <1>6 DEF SectionIssues, here
<1>8. CASE ast
  <2>1. RequiresLiteral(p, here \o <<"contract">>, SectionContracts[s]) = {}
    BY <1>1, <1>2, <1>3, <1>4, <1>8, Found
  <2>2. Requires(p, here \o <<"profile">>, {"str"}) = {}
    BY <1>1, <1>2, <1>4, <1>8, Found, TypesNamed
  <2> QED
    BY <2>1, <2>2, <1>6 DEF SectionIssues, here
<1> QED
  BY <1>7, <1>8

-----------------------------------------------------------------------------
\* Every inspection payload is accepted by the public validator.
LEMMA InspectAccepted ==
  ASSUME NEW r, r.ast \in BOOLEAN, NEW name, name \notin NoTexts,
         NEW o \in BOOLEAN, NEW s \in BOOLEAN
  PROVE  InspectIssues(Inspect(r, name, o, s)) = {}
<1> DEFINE p == Inspect(r, name, o, s)
           q == OpenPine(r, name)
           n == Snapshot(name)
           he == {"schema_version", "contract", "ok", "producer", "source"}
           eo == Embedded(o, "openpine_contract", q)
           es == Embedded(s, "semantic_snapshot", n)
<1>1. /\ "pine2ast.inspect.optimizer.v1" \notin NoTexts
      /\ "openpine.frontend.v2" \notin NoTexts
      /\ "pine2ast.semantic_snapshot.v1" \notin NoTexts
  BY DEF NoTexts, Types, One
<1>2. /\ Part(p, Envelope("pine2ast.inspect.optimizer.v1", name), he)
      /\ Part(p, Typed({"tool", "script"}, "dict"), {"tool", "script"})
      /\ Part(p, Diagnostics(r.diagnostics), {"diagnostics"})
      /\ Part(p, Typed(InspectLists, "list"), InspectLists)
      /\ Part(p, Typed({"dependencies"}, IF r.ast THEN "dict" ELSE "none"),
              {"dependencies"})
      /\ Part(p, eo, {"openpine_contract"})
      /\ Part(p, es, {"semantic_snapshot"})
      /\ \E heads : Headed(p, heads)
  BY InspectIs
<1>3. /\ Part(q, Envelope("openpine.frontend.v2", name), he)
      /\ Part(q, Diagnostics(r.diagnostics), {"diagnostics"})
      /\ Part(q, SectionsOf(r.ast), Sections)
      /\ \E heads : Headed(q, heads)
  BY OpenPineIs
<1>4. /\ Part(n, Envelope("pine2ast.semantic_snapshot.v1", name), he)
      /\ Part(n, Typed({"profile", "diagnostics", "counts"}, "dict"),
              {"profile", "diagnostics", "counts"})
      /\ Part(n, Typed({"passes", "symbols", "scopes", "node_facts"}, "list"),
              {"passes", "symbols", "scopes", "node_facts"})
      /\ \E heads : Headed(n, heads)
  BY SnapshotIs
<1> HIDE DEF q, n, he
<1>5. Embeds(eo, o, "openpine_contract", q)
  <2>1. \E heads : Headed(q, heads)
    BY <1>3
  <2> QED
    BY <2>1, EmbeddedIs
<1>6. Embeds(es, s, "semantic_snapshot", n)
  <2>1. \E heads : Headed(n, heads)
    BY <1>4
  <2> QED
    BY <2>1, EmbeddedIs
<1> USE DEF Embeds
<1> HIDE DEF p, eo, es
<1>7. IsPath(<<>>) /\ \A k : IsPath(<<k>>)
  <2>1. <<>> \in Seq({})
    OBVIOUS
  <2> QED
    BY <2>1, ShortPaths DEF IsPath
<1>8. \A x \in DOMAIN p : IsPath(x) /\ Len(x) \in Nat \ {0}
  BY <1>2 DEF Headed
<1>9. Holds(p, <<>>, p)
  BY <1>8, PathsJoined DEF Holds
<1>10. \A k : <<>> \o <<k>> = <<k>>
  BY <1>7, PathsJoined
<1>11. EnvelopeIssues(p, <<>>, "pine2ast.inspect.optimizer.v1") = {}
  BY <1>1, <1>2, <1>7, <1>9, EnvelopeAccepted
<1>12. DiagnosticIssues(p, <<>>) = {}
  <2> DEFINE here == <<>> \o <<"diagnostics">>
  <2>1. here = <<"diagnostics">> /\ Len(here) = 1
    BY <1>10, ShortPaths
  <2>2. ASSUME NEW y \in DOMAIN p, Len(y) = Len(here) + 1, SubSeq(y, 1, Len(here)) = here
        PROVE  \E x \in DOMAIN p : y = <<>> \o x /\ Len(x) = 2 /\ x[1] = "diagnostics"
    <3>1. Len(y) = 2
      BY <2>1, <2>2
    <3>2. SubSeq(y, 1, 1)[1] = y[1]
      <4>1. PICK S : y \in Seq(S)
        BY <1>8 DEF IsPath
      <4> QED
        BY <4>1, <3>1
    <3>3. y[1] = "diagnostics"
      BY <2>1, <2>2, <3>2, ShortPaths
    <3>4. <<>> \o y = y
      BY <1>8, PathsJoined
    <3> QED
      BY <3>1, <3>3, <3>4
  <2> QED
    BY <2>2, <1>2, <1>7, <1>9, DiagnosticsAccepted
<1>13. ASSUME NEW keys, NEW type, NEW heads, Part(p, Typed(keys, type), heads),
              NEW k \in keys
       PROVE  <<>> \o <<k>> \in DOMAIN p /\ p[<<>> \o <<k>>] = type
  <2>1. <<k>> \in DOMAIN Typed(keys, type) /\ Typed(keys, type)[<<k>>] = type
    BY <1>13, TypedIs
  <2>2. <<k>> \in DOMAIN p /\ p[<<k>>] = type
    BY <2>1, <1>13 DEF Part
  <2> QED
    BY <2>2, <1>10
<1>14. RequiresAll(p, <<>>, {"script"}, {"dict"}) = {}
  <2>1. \A k \in {"script"} : /\ <<>> \o <<k>> \in DOMAIN p
                              /\ TypeOf(p[<<>> \o <<k>>]) \in {"dict"}
    <3>1. \A k \in {"tool", "script"} : <<>> \o <<k>> \in DOMAIN p
                                        /\ p[<<>> \o <<k>>] = "dict"
      BY <1>2, <1>13
    <3> QED
      BY <3>1, TypesNamed
  <2> QED
    BY <2>1, Found
<1>15. RequiresAll(p, <<>>, InspectLists, {"list"}) = {}
  <2>1. \A k \in InspectLists : <<>> \o <<k>> \in DOMAIN p /\ p[<<>> \o <<k>>] = "list"
    BY <1>2, <1>13
  <2>2. \A k \in InspectLists : /\ <<>> \o <<k>> \in DOMAIN p
                                /\ TypeOf(p[<<>> \o <<k>>]) \in {"list"}
    BY <2>1, TypesNamed
  <2> QED
    BY <2>2, Found
<1>16. RequiresAll(p, <<>>, {"dependencies"}, {"dict", "none"}) = {}
  <2>1. \A k \in {"dependencies"} :
          <<>> \o <<k>> \in DOMAIN p /\ p[<<>> \o <<k>>] = IF r.ast THEN "dict" ELSE "none"
    BY <1>2, <1>13
  <2>2. \A k \in {"dependencies"} : /\ <<>> \o <<k>> \in DOMAIN p
                                    /\ TypeOf(p[<<>> \o <<k>>]) \in {"dict", "none"}
    BY <2>1, TypesNamed
  <2> QED
    BY <2>2, Found
<1>17. IF o THEN IsDict(p, <<"openpine_contract">>)
       ELSE Get(p, <<"openpine_contract">>) = "none"
  <2> DEFINE at == <<"openpine_contract">>
  <2>1. at \in DOMAIN p => at \in DOMAIN eo
    BY <1>2, ShortPaths DEF Part
  <2>2. o => at \in DOMAIN p /\ p[at] = "dict"
    BY <1>2, <1>5 DEF Part
  <2> QED
    BY <2>1, <2>2, <1>5, DictFound
<1>18. IF s THEN IsDict(p, <<"semantic_snapshot">>)
       ELSE Get(p, <<"semantic_snapshot">>) = "none"
  <2> DEFINE at == <<"semantic_snapshot">>
  <2>1. at \in DOMAIN p => at \in DOMAIN es
    BY <1>2, ShortPaths DEF Part
  <2>2. s => at \in DOMAIN p /\ p[at] = "dict"
    BY <1>2, <1>6 DEF Part
  <2> QED
    BY <2>1, <2>2, <1>6, DictFound
<1>19. ASSUME o
       PROVE  OpenPineIssues(p, <<"openpine_contract">>) = {}
  <2> DEFINE at == <<"openpine_contract">>
             here == at \o <<"diagnostics">>
  <2>1. IsPath(at) /\ here = <<"openpine_contract", "diagnostics">> /\ Len(here) = 2
    BY ShortPaths, PathsJoined
  <2>2. Holds(p, at, q)
    BY <1>2, <1>5, <1>19 DEF Part, Holds
  <2>3. ASSUME NEW y \in DOMAIN p, Len(y) = Len(here) + 1, SubSeq(y, 1, Len(here)) = here
        PROVE  \E x \in DOMAIN q : y = at \o x /\ Len(x) = 2 /\ x[1] = "diagnostics"
    <3>1. Len(y) = 3
      BY <2>1, <2>3
    <3>2. SubSeq(y, 1, 2)[1] = y[1] /\ SubSeq(y, 1, 2)[2] = y[2]
      <4>1. PICK S : y \in Seq(S)
        BY <1>8 DEF IsPath
      <4> QED
        BY <4>1, <3>1
    <3>3. y[1] = "openpine_contract" /\ y[2] = "diagnostics"
      BY <2>1, <2>3, <3>2, ShortPaths
    <3>4. y \in DOMAIN eo
      BY <1>2, <3>3 DEF Part
    <3>5. PICK x \in DOMAIN q : y = at \o x
      <4>1. Len(y) # 1
        BY <3>1
      <4> QED
        BY <1>5, <1>19, <3>4, <4>1
    <3>6. IsPath(x) /\ Len(x) \in Nat \ {0}
      BY <1>3 DEF Headed
    <3>7. /\ Len(y) = Len(x) + 1
          /\ \A i \in 1..Len(x) : y[i + 1] = x[i]
      BY <3>5, <3>6, BelowKey
    <3>8. \A i \in Nat : 3 = i + 1 => i = 2
      OBVIOUS
    <3>9. Len(x) = 2
      BY <3>1, <3>6, <3>7, <3>8
    <3>10. y[1 + 1] = x[1] /\ 1 + 1 = 2
      BY <3>7, <3>9
    <3> QED
      BY <3>3, <3>5, <3>9, <3>10
  <2>4. EnvelopeIssues(p, at, "openpine.frontend.v2") = {}
    BY <1>1, <1>3, <2>1, <2>2, EnvelopeAccepted
  <2>5. DiagnosticIssues(p, at) = {}
    BY <1>3, <2>1, <2>2, <2>3, DiagnosticsAccepted
  <2>6. \A t \in Sections : SectionIssues(p, at, t) = {}
    BY <1>3, <2>1, <2>2, SectionsAccepted
  <2> HIDE DEF at, here
  <2>7. UNION {SectionIssues(p, at, t) : t \in Sections} = {}
    BY <2>6, Zenon
  <2>8. OpenPineIssues(p, at) = {}
    BY <2>4, <2>5, <2>7 DEF OpenPineIssues
  <2> QED
    BY <2>8 DEF at
<1>20. ASSUME s
       PROVE  SnapshotIssues(p, <<"semantic_snapshot">>) = {}
  <2> DEFINE at == <<"semantic_snapshot">>
  <2>1. IsPath(at)
    BY ShortPaths
  <2>2. Holds(p, at, n)
    BY <1>2, <1>6, <1>20 DEF Part, Holds
  <2> HIDE DEF at
  <2>3. EnvelopeIssues(p, at, "pine2ast.semantic_snapshot.v1") = {}
    BY <1>1, <1>4, <2>1, <2>2, EnvelopeAccepted
  <2>4. ASSUME NEW keys, NEW type, NEW heads, Part(n, Typed(keys, type), heads),
               NEW k \in keys
        PROVE  at \o <<k>> \in DOMAIN p /\ p[at \o <<k>>] = type
    <3>1. <<k>> \in DOMAIN Typed(keys, type) /\ Typed(keys, type)[<<k>>] = type
      BY <2>4, TypedIs
    <3>2. <<k>> \in DOMAIN n /\ n[<<k>>] = type
      BY <3>1, <2>4 DEF Part
    <3> QED
      BY <3>2, <2>2 DEF Holds
  <2>5. RequiresAll(p, at, {"profile", "diagnostics", "counts"}, {"dict"}) = {}
    <3>1. \A k \in {"profile", "diagnostics", "counts"} :
            at \o <<k>> \in DOMAIN p /\ p[at \o <<k>>] = "dict"
      BY <1>4, <2>4
    <3>2. \A k \in {"profile", "diagnostics", "counts"} :
            at \o <<k>> \in DOMAIN p /\ TypeOf(p[at \o <<k>>]) \in {"dict"}
      BY <3>1, TypesNamed
    <3> QED
      BY <3>2, Found
  <2>6. RequiresAll(p, at, {"passes", "symbols", "scopes", "node_facts"}, {"list"}) = {}
    <3>1. \A k \in {"passes", "symbols", "scopes", "node_facts"} :
            at \o <<k>> \in DOMAIN p /\ p[at \o <<k>>] = "list"
      BY <1>4, <2>4
    <3>2. \A k \in {"passes", "symbols", "scopes", "node_facts"} :
            at \o <<k>> \in DOMAIN p /\ TypeOf(p[at \o <<k>>]) \in {"list"}
      BY <3>1, TypesNamed
    <3> QED
      BY <3>2, Found
  <2>7. SnapshotIssues(p, at) = {}
    BY <2>3, <2>5, <2>6 DEF SnapshotIssues
  <2> QED
    BY <2>7 DEF at
<1>21. EmbeddedIssues(p, "openpine_contract",
                      OpenPineIssues(p, <<"openpine_contract">>)) = {}
  BY <1>17, <1>19 DEF EmbeddedIssues
<1>22. EmbeddedIssues(p, "semantic_snapshot",
                      SnapshotIssues(p, <<"semantic_snapshot">>)) = {}
  BY <1>18, <1>20 DEF EmbeddedIssues
<1>23. InspectIssues(p) = {}
  BY <1>11, <1>12, <1>14, <1>15, <1>16, <1>21, <1>22 DEF InspectIssues
<1> QED
  BY <1>23 DEF p

-----------------------------------------------------------------------------
(***************************************************************************)
(* Verdicts.                                                               *)
(***************************************************************************)

Refused == [ast |-> FALSE, diagnostics |-> <<"FATAL">>]

\* What the validators read later is what the parse came to, and the frontend
\* says of it what there is to say.
Judged ==
  /\ environment.name \notin NoTexts
  /\ pc \in {"clock", "commit", "support"} \cup Sealing => result \in Results
  /\ pc \in {"returned", "done"} => result \in Results \cup {Refused}
  /\ frontend # None =>
       /\ result \in Results
       /\ frontend.ok = Ok(result)
       /\ frontend.blocking = BlockingIn(result.diagnostics)
       /\ frontend.sections_present = IF result.ast THEN Sections ELSE {}
  /\ pc = "done" => payload.openpine \in BOOLEAN /\ payload.snapshot \in BOOLEAN

LEMMA JudgedInit == Init => Judged
<1> SUFFICES ASSUME Init
             PROVE  Judged
  OBVIOUS
<1>1. environment.name \notin NoTexts
  BY NamesAssumption DEF Init
<1> QED
  BY <1>1 DEF Init, Judged, Sealing

LEMMA JudgedStep == IInv /\ Judged /\ [Next]_vars => Judged'
<1> SUFFICES ASSUME IInv, Judged, [Next]_vars
             PROVE  Judged'
  OBVIOUS
<1>1. environment' = environment
  BY DEF Next, AddNode, Parse, RefusePath, Tick, Checkout, ReadClock, ReadCommit,
         SealSupport, SealFrontend, SealTree, Attach, Rebuild, BuildInspect, vars
<1>2. CASE AddNode \/ Tick \/ Checkout \/ UNCHANGED vars
  BY <1>2 DEF AddNode, Tick, Checkout, vars, Judged, Ok, HasSeverity, BlockingIn
<1>3. CASE Parse \/ RefusePath
  <2>1. frontend = None /\ frontend' = None
    BY <1>3 DEF Parse, RefusePath, IInv, Stages, Unsealed, Unread
  <2>2. \/ pc' = "clock" /\ result' \in Results
        \/ pc' = "returned" /\ result' = Refused
    BY <1>3 DEF Parse, RefusePath, Refused
  <2> QED
    BY <1>1, <2>1, <2>2 DEF Judged, Sealing
<1>4. CASE ReadClock \/ ReadCommit
  BY <1>4, <1>1 DEF ReadClock, ReadCommit, Judged, Sealing, Ok, HasSeverity, BlockingIn
<1>5. CASE SealSupport
  BY <1>5, <1>1 DEF SealSupport, Judged, Sealing, Ok, HasSeverity, BlockingIn
<1>6. CASE SealFrontend
  <2>1. result' = result /\ result \in Results
    BY <1>6 DEF SealFrontend, Judged, Sealing
  <2>2. frontend = None
    BY <1>6 DEF SealFrontend, IInv, Stages
  <2>3. CASE pc' = "raised"
    BY <2>1, <2>2, <2>3, <1>1, <1>6 DEF SealFrontend, Judged, Sealing
  <2>4. CASE frontend' = Frontend(created, commit, Hash(support)) /\ pc' = "tree"
    <3>1. /\ frontend'.ok = Ok(result)
          /\ frontend'.blocking = BlockingIn(result.diagnostics)
          /\ frontend'.sections_present = IF result.ast THEN Sections ELSE {}
      BY <2>4 DEF Frontend, BlockingDiagnostics
    <3> QED
      BY <2>1, <2>4, <3>1, <1>1 DEF Judged, Sealing, Ok, HasSeverity, BlockingIn
  <2> QED
    BY <1>6, <2>3, <2>4 DEF SealFrontend
<1>7. CASE SealTree \/ Attach \/ Rebuild
  BY <1>7, <1>1 DEF SealTree, Attach, Rebuild, Judged, Sealing, Ok, HasSeverity, BlockingIn
<1>8. CASE BuildInspect
  <2>1. payload'.openpine \in BOOLEAN /\ payload'.snapshot \in BOOLEAN
    BY <1>8 DEF BuildInspect
  <2> QED
    BY <1>8, <1>1, <2>1 DEF BuildInspect, Judged, Sealing, Ok, HasSeverity, BlockingIn
<1> QED
  BY <1>2, <1>3, <1>4, <1>5, <1>6, <1>7, <1>8 DEF Next

LEMMA JudgedAlways == Spec => []Judged
  BY JudgedInit, JudgedStep, Invariance, PTL DEF Spec

\* What the parse came to, or the refused path.
LEMMA Outcomes ==
  ASSUME NEW r \in Results \cup {Refused}
  PROVE  r.ast \in BOOLEAN /\ r.diagnostics \in Seq(Severities)
<1>1. Refused.ast = FALSE /\ Refused.diagnostics = <<"FATAL">>
  BY DEF Refused
<1>2. <<"FATAL">> \in Seq(Severities)
  BY DEF Severities
<1> QED
  BY <1>1, <1>2, ArtifactsAssumption

Unnamed(name) == When(name = "", <<<<"source", "name">>, "missing">>)

\* The other validator finds nothing but the missing name.
LEMMA SchemaAccepted ==
  ASSUME NEW r, r.ast \in BOOLEAN, NEW name, name \notin NoTexts
  PROVE  SchemaIssues(OpenPine(r, name)) = Unnamed(name)
<1> DEFINE p == OpenPine(r, name)
           he == {"schema_version", "contract", "ok", "producer", "source"}
           e == Envelope("openpine.frontend.v2", name)
           d == Diagnostics(r.diagnostics)
           c == SectionsOf(r.ast)
           keys == {"schema_version", "contract", "producer", "source", "ok", "diagnostics"}
<1>1. Part(p, e, he) /\ Part(p, d, {"diagnostics"}) /\ Part(p, c, Sections)
  BY OpenPineIs
<1>2. /\ <<"schema_version">> \in DOMAIN e /\ <<"contract">> \in DOMAIN e
      /\ <<"ok">> \in DOMAIN e /\ <<"producer">> \in DOMAIN e
      /\ <<"source">> \in DOMAIN e /\ <<"producer", "name">> \in DOMAIN e
      /\ <<"producer", "version">> \in DOMAIN e /\ <<"source", "name">> \in DOMAIN e
      /\ e[<<"contract">>] = "openpine.frontend.v2" /\ e[<<"schema_version">>] = One
      /\ e[<<"producer">>] = "dict" /\ e[<<"source">>] = "dict"
      /\ e[<<"producer", "name">>] = "pine2ast"
      /\ e[<<"producer", "version">>] = "str" /\ e[<<"source", "name">>] = name
  BY EnvelopeIs
<1>3. <<"diagnostics">> \in DOMAIN d /\ d[<<"diagnostics">>] = "list"
  BY DiagnosticsIs
<1>4. \A s \in Sections :
        /\ <<s>> \in DOMAIN c /\ c[<<s>>] = IF r.ast THEN "dict" ELSE "none"
        /\ r.ast => <<s, "contract">> \in DOMAIN c
                    /\ c[<<s, "contract">>] = SectionContracts[s]
  BY SectionsIs
<1> HIDE DEF p, e, d, c, he
<1>5. /\ <<"contract">> \in DOMAIN p /\ p[<<"contract">>] = "openpine.frontend.v2"
      /\ <<"schema_version">> \in DOMAIN p /\ p[<<"schema_version">>] = One
      /\ <<"producer">> \in DOMAIN p /\ p[<<"producer">>] = "dict"
      /\ <<"source">> \in DOMAIN p /\ p[<<"source">>] = "dict"
      /\ <<"producer", "name">> \in DOMAIN p /\ p[<<"producer", "name">>] = "pine2ast"
      /\ <<"producer", "version">> \in DOMAIN p /\ p[<<"producer", "version">>] = "str"
      /\ <<"source", "name">> \in DOMAIN p /\ p[<<"source", "name">>] = name
      /\ <<"diagnostics">> \in DOMAIN p /\ p[<<"diagnostics">>] = "list"
  BY <1>1, <1>2, <1>3 DEF Part
<1>6. \A k \in keys : <<k>> \in DOMAIN p
  BY <1>1, <1>2, <1>3 DEF Part
<1>7. /\ Get(p, <<"contract">>) = "openpine.frontend.v2"
      /\ Get(p, <<"schema_version">>) = One
      /\ Get(p, <<"producer", "name">>) = "pine2ast"
      /\ Get(p, <<"producer", "version">>) = "str"
      /\ Get(p, <<"source", "name">>) = name
      /\ TypeOf(Get(p, <<"diagnostics">>)) = "list"
      /\ IsDict(p, <<"producer">>) /\ IsDict(p, <<"source">>)
  BY <1>5, DictFound, TypesNamed
<1>8. ProducerIssues(p) = {}
  <2>1. ~Empty("str")
    BY DEF Empty
  <2> QED
    BY <2>1, <1>7 DEF ProducerIssues, When
<1>9. SourceIssues(p) = Unnamed(name)
  <2>1. Empty(name) <=> name = ""
    BY DEF Empty, NoTexts, Types
  <2> QED
    BY <2>1, <1>7 DEF SourceIssues, Unnamed, When
<1>10. ASSUME NEW s \in Sections
       PROVE  ContractIssues(p, s) = {}
  <2>1. <<s>> \in DOMAIN p /\ p[<<s>>] = IF r.ast THEN "dict" ELSE "none"
    BY <1>1, <1>4 DEF Part
  <2>2. CASE ~r.ast
    <3>1. Get(p, <<s>>) = "none"
      BY <2>1, <2>2, DictFound
    <3> QED
      BY <3>1 DEF ContractIssues
  <2>3. CASE r.ast
    <3>1. IsDict(p, <<s>>)
      BY <2>1, <2>3, DictFound
    <3>2. <<s, "contract">> \in DOMAIN p /\ p[<<s, "contract">>] = SectionContracts[s]
      BY <2>3, <1>1, <1>4 DEF Part
    <3>3. Get(p, <<s, "contract">>) = SectionContracts[s]
      BY <3>2, DictFound
    <3> QED
      BY <3>1, <3>3 DEF ContractIssues, When
  <2> QED
    BY <2>2, <2>3
<1> DEFINE missing == {<<<<k>>, "missing">> : k \in {k \in keys : <<k>> \notin DOMAIN p}}
           contracts == UNION {ContractIssues(p, s) : s \in Sections}
<1>11. missing = {}
  BY <1>6, Zenon
<1>12. contracts = {}
  BY <1>10, Zenon
<1>13. SchemaIssues(p)
         = missing \cup When(Get(p, <<"contract">>) # "openpine.frontend.v2",
                             <<<<"contract">>, "expected">>)
             \cup When(Get(p, <<"schema_version">>) # One, <<<<"schema_version">>, "expected">>)
             \cup ProducerIssues(p) \cup SourceIssues(p)
             \cup When(TypeOf(Get(p, <<"diagnostics">>)) # "list",
                       <<<<"diagnostics">>, "list">>)
             \cup contracts
  BY Zenon DEF SchemaIssues
<1>14. /\ When(Get(p, <<"contract">>) # "openpine.frontend.v2",
               <<<<"contract">>, "expected">>) = {}
       /\ When(Get(p, <<"schema_version">>) # One, <<<<"schema_version">>, "expected">>) = {}
       /\ When(TypeOf(Get(p, <<"diagnostics">>)) # "list", <<<<"diagnostics">>, "list">>) = {}
  BY <1>7 DEF When
<1> HIDE DEF missing, contracts
<1>15. SchemaIssues(p) = Unnamed(name)
  BY <1>8, <1>9, <1>11, <1>12, <1>13, <1>14
<1> QED
  BY <1>15 DEF p

\* Whatever a parse came to, what is built of it passes the public validator,
\* and of the other one asks no more than that the source has a name.
THEOREM PayloadsAccepted == Spec => []PayloadsValidate
<1>1. IInv /\ Judged => PayloadsValidate
  <2> SUFFICES ASSUME Judged, pc = "done"
               PROVE  /\ InspectIssues(Inspected) = {}
                      /\ SchemaIssues(OpenPine(result, environment.name))
                           = When(environment.name = "", <<<<"source", "name">>, "missing">>)
    BY DEF PayloadsValidate
  <2>1. result \in Results \cup {Refused}
    BY DEF Judged
  <2>2. result.ast \in BOOLEAN
    BY <2>1, Outcomes
  <2>3. environment.name \notin NoTexts /\ payload.openpine \in BOOLEAN
          /\ payload.snapshot \in BOOLEAN
    BY DEF Judged
  <2>4. InspectIssues(Inspected) = {}
    BY <2>2, <2>3, InspectAccepted DEF Inspected
  <2>5. SchemaIssues(OpenPine(result, environment.name))
          = When(environment.name = "", <<<<"source", "name">>, "missing">>)
    <3>1. SchemaIssues(OpenPine(result, environment.name)) = Unnamed(environment.name)
      BY <2>2, <2>3, SchemaAccepted
    <3> QED
      BY <3>1 DEF Unnamed
  <2> QED
    BY <2>4, <2>5
<1> QED
  BY <1>1, Invariance, JudgedAlways, PTL

\* There are blocking diagnostics iff the list of them is not empty.
LEMMA BlockingListed ==
  ASSUME NEW r \in Results \cup {Refused}
  PROVE  BlockingIn(r.diagnostics) # <<>> <=> HasSeverity(r.diagnostics, Blocking)
<1> DEFINE list == r.diagnostics
           S == {k \in DOMAIN list : list[k] \in Blocking}
<1>1. S \subseteq 1..Len(list) /\ Len(list) \in Nat
  BY Outcomes
<1>2. IsFiniteSet(S) /\ Cardinality(S) \in Nat
  <2> HIDE DEF S, list
  <2>1. IsFiniteSet(1..Len(list))
    BY <1>1, FS_Interval
  <2> QED
    BY <1>1, <2>1, FS_Subset, FS_CardinalityType
<1>3. HasSeverity(list, Blocking) <=> S # {}
  BY DEF HasSeverity
<1>4. DOMAIN BlockingIn(list) = 1..Cardinality(S)
  <2>1. DOMAIN InOrder(S) = 1..Cardinality(S)
    BY DEF InOrder
  <2> QED
    BY <2>1 DEF BlockingIn
<1> HIDE DEF list, S
<1>5. CASE S = {}
  <2>1. Cardinality(S) = 0
    BY <1>5, FS_EmptySet
  <2>2. DOMAIN BlockingIn(list) = {}
    BY <1>4, <2>1
  <2>3. BlockingIn(list) = <<>>
    <3>1. BlockingIn(list) = [n \in DOMAIN BlockingIn(list) |-> BlockingIn(list)[n]]
      BY DEF BlockingIn
    <3> QED
      BY <2>2, <3>1
  <2> QED
    BY <1>3, <1>5, <2>3 DEF list
<1>6. CASE S # {}
  <2>1. Cardinality(S) # 0
    BY <1>2, <1>6, FS_EmptySet
  <2>2. 1 \in DOMAIN BlockingIn(list)
    BY <1>2, <1>4, <2>1
  <2>3. BlockingIn(list) # <<>>
    <3>1. 1 \notin DOMAIN <<>>
      OBVIOUS
    <3> QED
      BY <2>2, <3>1
  <2> QED
    BY <1>3, <1>6, <2>3 DEF list
<1> QED
  BY <1>5, <1>6

\* A severity is counted iff there is a diagnostic of it.
LEMMA CountedIffThere ==
  ASSUME NEW r \in Results \cup {Refused}, NEW s \in {"FATAL", "ERROR", "WARNING"}
  PROVE  /\ Summary(r.diagnostics)[s] \in Nat
         /\ Summary(r.diagnostics)[s] > 0 <=> HasSeverity(r.diagnostics, {s})
<1> DEFINE list == r.diagnostics
           S == {k \in DOMAIN list : list[k] = s}
<1>1. S \subseteq 1..Len(list) /\ Len(list) \in Nat
  BY Outcomes
<1>2. IsFiniteSet(S) /\ Cardinality(S) \in Nat
  <2> HIDE DEF S, list
  <2>1. IsFiniteSet(1..Len(list))
    BY <1>1, FS_Interval
  <2> QED
    BY <1>1, <2>1, FS_Subset, FS_CardinalityType
<1>3. HasSeverity(list, {s}) <=> S # {}
  BY DEF HasSeverity
<1>4. Summary(list)[s] = Cardinality(S)
  BY DEF Summary
<1> HIDE DEF list, S
<1>5. Cardinality(S) = 0 <=> S = {}
  BY <1>2, FS_EmptySet
<1>6. Cardinality(S) > 0 <=> S # {}
  BY <1>2, <1>5
<1> QED
  BY <1>2, <1>3, <1>4, <1>6 DEF list

\* What blocks is an error or fatal, and that is what the exit code says.
LEMMA ExitCodes ==
  ASSUME NEW r
  PROVE  /\ ExitCode(r) \in {0, 1, 2}
         /\ ExitCode(r) = 2 <=> HasSeverity(r.diagnostics, {"FATAL"})
         /\ ExitCode(r) = 1 <=> /\ ~HasSeverity(r.diagnostics, {"FATAL"})
                                /\ HasSeverity(r.diagnostics, {"ERROR"})
         /\ ExitCode(r) # 0 <=> HasSeverity(r.diagnostics, Blocking)
<1>1. HasSeverity(r.diagnostics, Blocking)
        <=> \/ HasSeverity(r.diagnostics, {"FATAL"})
            \/ HasSeverity(r.diagnostics, {"ERROR"})
  BY DEF HasSeverity, Blocking
<1> QED
  BY <1>1 DEF ExitCode

\* The row of what is not supported is one, and says whether anything blocks.
LEMMA RowOfUnsupported ==
  LET row == CHOOSE f \in SupportFeatures : f.feature_id = "unsupported_features"
  IN row.lower = "UNSUPPORTED" <=> BlockingDiagnostics # <<>>
<1> DEFINE blocked == BlockingDiagnostics # <<>>
           there == Feature("unsupported_features",
                            IF blocked THEN "UNSUPPORTED" ELSE "SUPPORTED",
                            "NOT_APPLICABLE", "NOT_APPLICABLE", Absent)
           row == CHOOSE f \in SupportFeatures : f.feature_id = "unsupported_features"
<1>1. there \in SupportFeatures
  BY DEF SupportFeatures, BaseFeatures
<1>2. /\ there.feature_id = "unsupported_features"
      /\ there.lower = IF blocked THEN "UNSUPPORTED" ELSE "SUPPORTED"
  BY DEF Feature
<1> HIDE DEF there, blocked
<1>3. row \in SupportFeatures /\ row.feature_id = "unsupported_features"
  BY <1>1, <1>2
<1> HIDE DEF row
<1>4. row = there
  BY <1>1, <1>2, <1>3, RowsOfFeatures
<1>5. row.lower = "UNSUPPORTED" <=> blocked
  BY <1>2, <1>4
<1> QED
  BY <1>5 DEF row, blocked

\* The flag, the row of the support profile, the list of blocking diagnostics,
\* the exit code, the counts of the snapshot and the contract check never
\* disagree on whether the program may be used, and a failed parse that looks
\* clean, except for its flag, has lost its error to the limit.
THEOREM VerdictsSame == Spec => []VerdictsAgree
<1>1. IInv /\ Judged =>
        (frontend # None =>
           LET unsupported == CHOOSE f \in support.features :
                                f.feature_id = "unsupported_features"
           IN /\ unsupported.lower = "UNSUPPORTED" <=> frontend.blocking # <<>>
              /\ frontend.blocking # <<>> <=> ExitCode(result) # 0
              /\ frontend.ok => ExitCode(result) = 0 /\ frontend.sections_present = Sections
              /\ ~frontend.ok /\ ExitCode(result) = 0 =>
                   ~result.ast /\ Len(result.diagnostics) = MaxDiagnostics)
  <2> SUFFICES ASSUME IInv, Judged, frontend # None
               PROVE  LET unsupported == CHOOSE f \in support.features :
                                           f.feature_id = "unsupported_features"
                      IN /\ unsupported.lower = "UNSUPPORTED" <=> frontend.blocking # <<>>
                         /\ frontend.blocking # <<>> <=> ExitCode(result) # 0
                         /\ frontend.ok => /\ ExitCode(result) = 0
                                           /\ frontend.sections_present = Sections
                         /\ ~frontend.ok /\ ExitCode(result) = 0 =>
                              ~result.ast /\ Len(result.diagnostics) = MaxDiagnostics
    OBVIOUS
  <2>1. /\ result \in Results
        /\ frontend.ok = Ok(result)
        /\ frontend.blocking = BlockingDiagnostics
        /\ frontend.sections_present = IF result.ast THEN Sections ELSE {}
        /\ support.features = SupportFeatures
    BY DEF Judged, IInv, Sealed, BlockingDiagnostics
  <2>2. frontend.blocking # <<>> <=> HasSeverity(result.diagnostics, Blocking)
    BY <2>1, BlockingListed DEF BlockingDiagnostics
  <2>3. ExitCode(result) # 0 <=> HasSeverity(result.diagnostics, Blocking)
    BY ExitCodes
  <2>4. LET unsupported == CHOOSE f \in support.features :
                             f.feature_id = "unsupported_features"
        IN unsupported.lower = "UNSUPPORTED" <=> frontend.blocking # <<>>
    BY <2>1, RowOfUnsupported
  <2>5. Ok(result) <=> result.ast /\ ~HasSeverity(result.diagnostics, Blocking)
    BY DEF Ok
  <2>6. result.ast \in BOOLEAN
    BY <2>1, Outcomes
  <2>7. ~result.ast /\ ~HasSeverity(result.diagnostics, Blocking)
          => Len(result.diagnostics) = MaxDiagnostics
    BY <2>1, <2>6, ResultsAssumption
  <2> QED
    BY <2>1, <2>2, <2>3, <2>4, <2>5, <2>6, <2>7
<1>2. Judged =>
        (pc = "done" =>
           LET summary == Summary(result.diagnostics)
           IN /\ ContractCheckOk(result, Inspected) <=> Ok(result)
              /\ ExitCode(result) = 2 <=> summary["FATAL"] > 0
              /\ ExitCode(result) = 1 <=> summary["FATAL"] = 0 /\ summary["ERROR"] > 0)
  <2> SUFFICES ASSUME Judged, pc = "done"
               PROVE  LET summary == Summary(result.diagnostics)
                      IN /\ ContractCheckOk(result, Inspected) <=> Ok(result)
                         /\ ExitCode(result) = 2 <=> summary["FATAL"] > 0
                         /\ ExitCode(result) = 1 <=> /\ summary["FATAL"] = 0
                                                     /\ summary["ERROR"] > 0
    OBVIOUS
  <2>1. result \in Results \cup {Refused}
    BY DEF Judged
  <2>2. InspectIssues(Inspected) = {}
    BY <2>1, Outcomes, InspectAccepted DEF Judged, Inspected
  <2> DEFINE fatal == Summary(result.diagnostics)["FATAL"]
             error == Summary(result.diagnostics)["ERROR"]
  <2>3. /\ fatal \in Nat /\ error \in Nat
        /\ fatal > 0 <=> HasSeverity(result.diagnostics, {"FATAL"})
        /\ error > 0 <=> HasSeverity(result.diagnostics, {"ERROR"})
    BY <2>1, CountedIffThere
  <2> HIDE DEF fatal, error
  <2>4. fatal = 0 <=> ~HasSeverity(result.diagnostics, {"FATAL"})
    BY <2>3
  <2>5. /\ ExitCode(result) = 2 <=> fatal > 0
        /\ ExitCode(result) = 1 <=> fatal = 0 /\ error > 0
    BY <2>3, <2>4, ExitCodes
  <2>6. ContractCheckOk(result, Inspected) <=> Ok(result)
    BY <2>2, Zenon DEF ContractCheckOk
  <2> QED
    BY <2>5, <2>6 DEF fatal, error
<1>3. IInv /\ Judged => VerdictsAgree
  BY <1>1, <1>2 DEF VerdictsAgree
<1> QED
  BY <1>3, Invariance, JudgedAlways, PTL
=============================================================================
