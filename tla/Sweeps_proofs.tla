---------------------------- MODULE Sweeps_proofs ----------------------------
(***************************************************************************)
(* What an answer of labs 01-10 is worth, for any account, any number of   *)
(* resources and of changes in the middle of the sweep.                    *)
(*                                                                         *)
(* The argument: a flaw that has been there all along is on record, or is  *)
(* still ahead: the phase that looks for it has not gone over its resource *)
(* yet, and every phase before that one kept what leads there.             *)
(***************************************************************************)
EXTENDS Sweeps_walks

-----------------------------------------------------------------------------
(* Where the sweep is.                                                     *)

\* What is kept and what is to do is what the phases looked for.
PlaceInv ==
    /\ account \in [Item -> (UNION {Facts[k] : k \in Kinds}) \union {Gone}]
    /\ kept \in [{p.name : p \in Phases} -> SUBSET Item]
    /\ \A k \in DOMAIN walk : kept[walk[k].name] \subseteq OfKind[walk[k].kind]
    /\ todo \subseteq IF at \in DOMAIN walk THEN TodoOf(Phase) ELSE {}
    /\ at \in DOMAIN walk /\ Phase.by = "all" => todo \in {{}, TodoOf(Phase)}

\* Between the reads of a resource, that resource is what the phase is at.
CursorInv ==
    \/ cursor = Idle
    \/ /\ at \in DOMAIN walk /\ Phase.by = "one"
       /\ cursor.item \in todo /\ cursor.reads \in 1..Len(Phase.reads) - 1

BaseInv == TypeOK /\ Rooted /\ PlaceInv /\ CursorInv

LEMMA Lengths ==
    ASSUME NEW w \in AllWalks
    PROVE  DOMAIN w = 1..Len(w) /\ Len(w) \in 1..3
BY Phases01, Phases02, Phases03, Phases04, Phases05, Phases06, Phases07, Phases08, Phases09,
   Phases10
   DEF AllWalks

LEMMA WalkTypes ==
    ASSUME TypeOK
    PROVE  walk \in AllWalks /\ DOMAIN walk = 1..Len(walk) /\ Len(walk) \in 1..3
BY Lengths, WalksAssumption DEF TypeOK

LEMMA KindSets ==
    ASSUME NEW k \in Kinds
    PROVE  OfKind[k] = {i \in Item : i.kind = k}
BY DEF OfKind

\* What a phase goes over are resources, of its own kind where it does not
\* read what belongs to them.
LEMMA TodoTypes ==
    ASSUME TypeOK, PlaceInv, NEW k \in DOMAIN walk
    PROVE  /\ TodoOf(walk[k]) \subseteq Item
           /\ ~walk[k].members => TodoOf(walk[k]) \subseteq OfKind[walk[k].kind]
<1> DEFINE p == walk[k]
<1>0. walk \in AllWalks /\ DOMAIN walk = 1..Len(walk) /\ Len(walk) \in 1..3
  BY WalkTypes
<1>1. PhaseShape(p) /\ Chained(walk, k) /\ Peculiar(walk, k)
  BY <1>0, PhaseShapes, WalkShapes
<1>2. CASE p.over \in Kinds
  <2>1. TodoOf(p) = OfKind[p.over]
    BY <1>2 DEF TodoOf, Kinds
  <2> QED
    BY <1>1, <1>2, <2>1, KindSets DEF PhaseShape
<1>3. CASE p.over = "trail_buckets"
  <2>1. walk = Walk07 /\ p.kind = "bucket"
    BY <1>1, <1>3 DEF Peculiar, PhaseShape
  <2>2. kept["trails"] \subseteq OfKind["trail"]
    BY <2>1, <1>0, Phases07, DescribeTrailsRow DEF PlaceInv, Row
  <2>3. "trail" \in Kinds /\ "bucket" \in Kinds
    BY DEF Kinds
  <2>4. TrailBuckets(kept["trails"]) \subseteq OfKind["bucket"]
    BY <2>3, KindSets, ItemAssumption, HomeAssumption DEF TrailBuckets
  <2>5. TodoOf(p) = TrailBuckets(kept["trails"]) \union {EvidenceBucket}
    BY <1>3 DEF TodoOf
  <2> QED
    BY <2>1, <2>3, <2>4, <2>5, KindSets, ItemAssumption, HomeAssumption
<1>4. CASE p.over \notin Kinds \union {"trail_buckets"}
  <2>1. TodoOf(p) = kept[p.over]
    BY <1>4 DEF TodoOf
  <2>2. k \in {2, 3} /\ k - 1 \in DOMAIN walk /\ p.over = walk[k - 1].name
    BY <1>0, <1>1, <1>4 DEF Chained
  <2>3. kept[p.over] \subseteq OfKind[walk[k - 1].kind] /\ walk[k - 1].kind \in Kinds
    BY <1>0, <2>2, PhaseShapes DEF PlaceInv, PhaseShape
  <2>4. ~p.members => walk[k - 1].kind = p.kind
    BY <1>1, <1>4 DEF Chained
  <2> QED
    BY <2>1, <2>3, <2>4, KindSets
<1> QED
  BY <1>2, <1>3, <1>4

-----------------------------------------------------------------------------
(* What a step does.                                                       *)

rest == <<account, changes, walk, at, todo, cursor, kept, found, pages, remaining, still>>

\* The phase is done and there is more to do, or the sweep may conclude.
Advance ==
    /\ at \in DOMAIN walk /\ todo = {}
    /\ Phase.none = "CONFIG_ERROR" => kept[Phase.name] # {}
    /\ \/ at' = at + 1
       \/ at' = Len(walk) + 1 /\ Phase.none = "conclude" /\ kept[Phase.name] = {}
    /\ todo' = IF at' \in DOMAIN walk THEN TodoOf(walk[at']) ELSE {}
    /\ UNCHANGED <<account, changes, walk, cursor, kept, found, pages, remaining, still>>

\* A step changes the account, makes a call, advances, or only answers.
LEMMA Steps ==
    [Next]_vars =>
        Disturb \/ (Sweeping /\ \E S \in Portions : Read(S)) \/ Advance \/ UNCHANGED rest
<1> SUFFICES ASSUME [Next]_vars
             PROVE  Disturb \/ (Sweeping /\ \E S \in Portions : Read(S)) \/ Advance
                    \/ UNCHANGED rest
  OBVIOUS
<1>1. ASSUME NEW v, Answer(v) PROVE UNCHANGED rest
  BY <1>1 DEF Answer, estate, position, results, limits, rest
<1>2. CASE GiveUp \/ Fail \/ Conclude
  BY <1>1, <1>2 DEF GiveUp, Fail, Conclude
<1>3. CASE Proceed
  <2>1. CASE kept[Phase.name] = {} /\ Phase.none = "CONFIG_ERROR"
    BY <1>1, <1>3, <2>1 DEF Proceed
  <2>2. CASE ~(kept[Phase.name] = {} /\ Phase.none = "CONFIG_ERROR")
    BY <1>3, <2>2 DEF Proceed, Sweeping, Advance, estate, results, limits
  <2> QED
    BY <2>1, <2>2
<1>4. CASE UNCHANGED vars
  BY <1>4 DEF vars, rest
<1> QED
  BY <1>2, <1>3, <1>4 DEF Next, Sweep

\* What a call over S adds to what is kept.
Newly(S) == {i \in Targets(S) : Live(i) /\ Kept(Phase, account[i])}

\* What a call goes over is to do, and its targets are of the phase's kind.
LEMMA PortionTypes ==
    ASSUME BaseInv, Sweeping, NEW S \in Portions
    PROVE  /\ S \subseteq todo /\ todo \subseteq TodoOf(Phase) /\ todo \subseteq Item
           /\ Targets(S) \subseteq OfKind[Phase.kind] /\ Targets(S) \subseteq Item
           /\ Phase.by = "all" => S = todo
           /\ Phase.by = "one" => \E a \in todo : S = {a}
           /\ cursor.reads > 0 => S = {cursor.item} /\ cursor.item \in todo
           /\ cursor.reads + 1 \in DOMAIN Phase.reads
<1>0. walk \in AllWalks /\ at \in DOMAIN walk /\ PhaseShape(Phase) /\ Phase.kind \in Kinds
  BY WalkTypes, PhaseShapes DEF BaseInv, Sweeping, Phase, PhaseShape
<1>1. \/ cursor.reads = 0 /\ ~(cursor.reads > 0)
      \/ cursor.reads > 0 /\ cursor.item \in todo /\ Phase.by = "one"
  <2>1. CASE cursor = Idle
    BY <2>1 DEF Idle
  <2>2. CASE cursor # Idle
    BY <2>2 DEF BaseInv, CursorInv
  <2> QED
    BY <2>1, <2>2
<1>2. S \subseteq todo /\ (cursor.reads > 0 => S = {cursor.item})
      /\ (Phase.by = "all" => S = todo) /\ (Phase.by = "one" => \E a \in todo : S = {a})
  BY <1>0, <1>1 DEF Portions, PhaseShape
<1>3. cursor.reads + 1 \in DOMAIN Phase.reads
  <2>1. CASE cursor = Idle
    <3>1. cursor.reads + 1 = 1
      BY <2>1 DEF Idle
    <3>2. DOMAIN Phase.reads = 1..Len(Phase.reads) /\ Len(Phase.reads) \in 1..4
      BY <1>0 DEF PhaseShape
    <3> QED
      BY <3>1, <3>2
  <2>2. CASE cursor # Idle
    <3>1. cursor.reads \in 1..Len(Phase.reads) - 1
      BY <2>2 DEF BaseInv, CursorInv
    <3>2. DOMAIN Phase.reads = 1..Len(Phase.reads) /\ Len(Phase.reads) \in 1..4
      BY <1>0 DEF PhaseShape
    <3> QED
      BY <3>1, <3>2
  <2> QED
    BY <2>1, <2>2
<1>4. todo \subseteq TodoOf(Phase)
  BY <1>0 DEF BaseInv, PlaceInv
<1>5. TodoOf(Phase) \subseteq Item
      /\ (~Phase.members => TodoOf(Phase) \subseteq OfKind[Phase.kind])
  BY <1>0, TodoTypes DEF BaseInv, Phase
<1>6. Targets(S) \subseteq OfKind[Phase.kind]
  BY <1>2, <1>4, <1>5 DEF Targets
<1>7. OfKind[Phase.kind] \subseteq Item
  BY <1>0, KindSets
<1> QED
  BY <1>1, <1>2, <1>3, <1>4, <1>5, <1>6, <1>7

\* What a call changes, and what it leaves alone.
LEMMA ReadStep ==
    ASSUME BaseInv, Sweeping, NEW S \in Portions, Read(S)
    PROVE  /\ UNCHANGED <<account, changes, walk, at, still, verdict>>
           /\ kept' \in [{p.name : p \in Phases} -> SUBSET Item]
           /\ kept'[Phase.name] = kept[Phase.name] \union Newly(S)
           /\ \A k \in DOMAIN walk : k # at => kept'[walk[k].name] = kept[walk[k].name]
           /\ TodoOf(Phase)' = TodoOf(Phase)
           /\ found \union InSight(S) \subseteq found'
              /\ found' \subseteq found \union InSight(S) \union Doubtful(S)
           /\ Phase.gone = "ERROR" => \A i \in S : Live(i)
           /\ \/ /\ cursor.reads + 1 < Len(Phase.reads) /\ todo' = todo
                 /\ \E a \in S : cursor' = [item |-> a, reads |-> cursor.reads + 1]
              \/ cursor.reads + 1 = Len(Phase.reads) /\ todo' = todo \ S /\ cursor' = Idle
<1>0. walk \in AllWalks /\ at \in DOMAIN walk /\ PhaseShape(Phase)
  BY WalkTypes, PhaseShapes DEF BaseInv, Sweeping, Phase
<1>1. UNCHANGED <<account, changes, walk, at, still, verdict>>
  BY DEF Read, estate
<1>2. kept \in [{p.name : p \in Phases} -> SUBSET Item] /\ Phase.name \in {p.name : p \in Phases}
  BY <1>0 DEF BaseInv, PlaceInv, Phases, Phase
<1>3. kept' = [kept EXCEPT ![Phase.name] = @ \union Newly(S)]
  BY DEF Read, Newly
<1>4. Newly(S) \subseteq Item
  BY PortionTypes DEF Newly
<1>5. kept' \in [{p.name : p \in Phases} -> SUBSET Item]
      /\ kept'[Phase.name] = kept[Phase.name] \union Newly(S)
  BY <1>2, <1>3, <1>4
<1>6. ASSUME NEW k \in DOMAIN walk, k # at PROVE kept'[walk[k].name] = kept[walk[k].name]
  <2>1. walk[k].name # Phase.name
    BY <1>0, <1>6, NamesDiffer DEF Phase
  <2>2. walk[k].name \in {p.name : p \in Phases}
    BY DEF Phases
  <2> QED
    BY <1>2, <1>3, <2>1, <2>2
<1>7. TodoOf(Phase)' = TodoOf(Phase)
  <2>1. Phase' = Phase /\ OfKind' = OfKind
    BY <1>1 DEF Phase, OfKind
  <2>2. CASE Phase.over \in Kinds
    BY <2>1, <2>2 DEF TodoOf, Kinds
  <2>3. CASE Phase.over = "trail_buckets"
    <3>1. walk = Walk07 /\ at = 3
      BY <1>0, <2>3, WalkShapes DEF Peculiar, Phase
    <3>2. kept'["trails"] = kept["trails"]
      BY <1>6, <3>1, Phases07, DescribeTrailsRow DEF Row
    <3>3. TrailBuckets(kept["trails"])' = TrailBuckets(kept["trails"])
      BY <2>1, <3>2 DEF TrailBuckets
    <3> QED
      BY <2>1, <2>3, <3>3 DEF TodoOf
  <2>4. CASE Phase.over \notin Kinds \union {"trail_buckets"}
    <3>1. at \in {2, 3} /\ Phase.over = walk[at - 1].name /\ at - 1 \in DOMAIN walk
      BY <1>0, <2>4, WalkShapes, WalkTypes DEF Chained, Phase, BaseInv
    <3>2. kept'[Phase.over] = kept[Phase.over]
      BY <1>6, <3>1
    <3> QED
      BY <2>1, <2>4, <3>2 DEF TodoOf
  <2> QED
    BY <2>2, <2>3, <2>4
<1>8. /\ found \union InSight(S) \subseteq found'
         /\ found' \subseteq found \union InSight(S) \union Doubtful(S)
      /\ Phase.gone = "ERROR" => Vanished(S) = {}
  BY DEF Read
<1>9. Phase.gone = "ERROR" => \A i \in S : Live(i)
  BY <1>8 DEF Vanished
<1>10. /\ IF cursor.reads + 1 < Len(Phase.reads)
          THEN /\ \E i \in S : cursor' = [item |-> i, reads |-> cursor.reads + 1]
               /\ todo' = todo
          ELSE todo' = todo \ S /\ cursor' = Idle
       /\ cursor.reads + 1 \in 1..Len(Phase.reads) /\ Len(Phase.reads) \in 1..4
  BY <1>0, PortionTypes DEF Read, PhaseShape
<1> QED
  BY <1>1, <1>5, <1>6, <1>7, <1>8, <1>9, <1>10

-----------------------------------------------------------------------------
(* The flaws of the account.                                               *)

Scope == LiveTrails \union GovernedKeys

LEMMA SweptItems ==
    ASSUME walk \in Walks, NEW i
    PROVE  i \in Swept
              <=> i \in Item /\ \E k \in DOMAIN walk : i.kind \in {walk[k].kind, walk[k].over}
BY DEF Swept, SweptBy

\* The flaws of a resource, of the account as a whole, and that there are no others.
LEMMA FlawsOfItems ==
    ASSUME walk \in Walks, NEW i \in Item, NEW r
    PROVE  <<i, r>> \in Flaws <=> i \in Swept /\ r \in Judged(i, Scope) /\ r # "warning"
<1>1. i # Whole
  BY WholeAssumption
<1>2. <<i, r>> \notin LackFlaws /\ <<i, r>> \notin CoverFlaws
  BY <1>1 DEF LackFlaws, CoverFlaws
<1>3. <<i, r>> \in ItemFlaws <=> i \in Swept /\ r \in Judged(i, Scope) /\ r # "warning"
  BY DEF ItemFlaws, Scope
<1> QED
  BY <1>2, <1>3 DEF Flaws

LEMMA FlawsOfWhole ==
    ASSUME walk \in Walks, NEW n
    PROVE  <<Whole, n>> \in Flaws <=>
              \/ \E k \in DOMAIN walk : n = walk[k].name /\ Needed(walk[k]) /\ Lacks(walk[k])
              \/ n = "coverage" /\ walk = Walk07 /\ Uncovered
<1>1. <<Whole, n>> \notin ItemFlaws
  BY SweptItems, WholeAssumption DEF ItemFlaws
<1>2. <<Whole, n>> \in LackFlaws
         <=> \E k \in DOMAIN walk : n = walk[k].name /\ Needed(walk[k]) /\ Lacks(walk[k])
  BY DEF LackFlaws, Phases
<1>3. <<Whole, n>> \in CoverFlaws <=> n = "coverage" /\ walk = Walk07 /\ Uncovered
  BY DEF CoverFlaws
<1> QED
  BY <1>1, <1>2, <1>3 DEF Flaws

LEMMA FlawForms ==
    ASSUME walk \in Walks, NEW x \in Flaws
    PROVE  (\E i \in Item : \E r : x = <<i, r>>) \/ (\E n : x = <<Whole, n>>)
<1>1. CASE x \in ItemFlaws
  BY <1>1, SweptItems DEF ItemFlaws
<1>2. CASE x \in LackFlaws
  BY <1>2 DEF LackFlaws
<1>3. CASE x \in CoverFlaws
  BY <1>3 DEF CoverFlaws
<1> QED
  BY <1>1, <1>2, <1>3 DEF Flaws

LEMMA SightSought ==
    ASSUME NEW k \in DOMAIN walk, NEW r, Sight(walk[k], r)
    PROVE  r \in Sought
BY DEF Sight, Sought, Phases

LEMMA FlawTypes ==
    ASSUME walk \in Walks
    PROVE  Flaws \subseteq (Item \union {Whole}) \X (Sought \union {p.name : p \in Phases})
<1>1. walk \in AllWalks
  BY WalksAssumption
<1>2. ASSUME NEW i \in Item, NEW r, <<i, r>> \in Flaws PROVE r \in Sought
  BY <1>1, <1>2, FlawsOfItems, SweptItems, FlawsSought, SightSought
<1>3. ASSUME NEW n, <<Whole, n>> \in Flaws PROVE n \in Sought \union {p.name : p \in Phases}
  <2>1. CASE walk = Walk07 /\ n = "coverage"
    <3>1. 1 \in DOMAIN walk /\ Sight(walk[1], "coverage")
      BY <2>1, Phases07, DescribeTrailsRow DEF Row, Reads, Sight
    <3> QED
      BY <2>1, <3>1, SightSought
  <2> QED
    BY <1>3, <2>1, FlawsOfWhole DEF Phases
<1> QED
  BY <1>2, <1>3, FlawForms

-----------------------------------------------------------------------------
(* Types and places.                                                       *)

LEMMA FirstPhase ==
    ASSUME NEW w \in AllWalks
    PROVE  1 \in DOMAIN w /\ w[1].over \in Kinds
<1>1. 1 \in DOMAIN w
  BY Lengths
<1> QED
  BY <1>1, WalkShapes DEF Chained, Peculiar

LEMMA BaseInit == Init => BaseInv
<1> SUFFICES ASSUME Init PROVE BaseInv
  OBVIOUS
<1>1. walk \in Walks /\ walk \in AllWalks /\ DOMAIN walk = 1..Len(walk) /\ Len(walk) \in 1..3
      /\ 1 \in DOMAIN walk /\ walk[1].over \in Kinds
  BY WalksAssumption, Lengths, FirstPhase DEF Init
<1>2. OfKind[walk[1].over] \subseteq Item /\ TodoOf(walk[1]) = OfKind[walk[1].over]
  BY <1>1, KindSets DEF TodoOf, Kinds
<1>3. still \subseteq (Item \union {Whole}) \X (Sought \union {p.name : p \in Phases})
  BY <1>1, FlawTypes DEF Init, Begin
<1>4. TypeOK
  <2>1. cursor \in [item: Item \union {Whole}, reads: 0..3]
    BY DEF Init, Begin, Idle
  <2>2. changes \in 0..MaxChanges /\ pages \in 0..MaxPages /\ remaining \in 0..Budget
    BY ChangesAssumption, BudgetAssumption DEF Init, Begin
  <2> QED
    BY <1>1, <1>2, <1>3, <2>1, <2>2 DEF Init, Begin, TypeOK
<1>5. PlaceInv
  <2>1. \A k \in DOMAIN walk : kept[walk[k].name] = {}
    BY DEF Init, Begin, Phases
  <2>2. kept \in [{p.name : p \in Phases} -> SUBSET Item]
    BY DEF Init, Begin
  <2> QED
    BY <1>1, <1>2, <2>1, <2>2 DEF Init, Begin, PlaceInv, Phase
<1> QED
  BY <1>4, <1>5 DEF BaseInv, CursorInv, Init, Begin

LEMMA Judgements ==
    ASSUME walk \in AllWalks
    PROVE  Judgement \in {"PASS", "FAIL", "NOT_APPLICABLE"}
BY DEF Judgement, AllWalks, FailOn, Evaluate01, BuildEvidence02, BuildEvidence03, BuildEvidence04,
       BuildEvidence05, BuildEvidence06, BuildEvidence07, BuildEvidence08, BuildEvidence09,
       BuildEvidence10

LEMMA VerdictTypes ==
    ASSUME TypeOK, [Next]_vars
    PROVE  verdict' \in Verdicts \union {"none"}
<1>1. CASE GiveUp \/ Fail \/ Conclude
  BY <1>1, Judgements, WalkTypes DEF GiveUp, Fail, Conclude, Answer, Verdicts
<1>2. CASE Proceed
  BY <1>2 DEF Proceed, Answer, Verdicts, TypeOK
<1>3. CASE Disturb \/ \E S \in Portions : Read(S)
  BY <1>3 DEF Disturb, Read, TypeOK
<1>4. CASE UNCHANGED vars
  BY <1>4 DEF vars, TypeOK
<1> QED
  BY <1>1, <1>2, <1>3, <1>4 DEF Next, Sweep

LEMMA SameWalk ==
    ASSUME walk' = walk
    PROVE  Phases' = Phases /\ Sought' = Sought /\ OfKind' = OfKind
BY DEF Phases, Sought, OfKind

LEMMA BaseDisturb ==
    ASSUME BaseInv, Disturb, verdict' \in Verdicts \union {"none"}
    PROVE  BaseInv'
<1>1. walk' = walk /\ at' = at /\ todo' = todo /\ cursor' = cursor /\ kept' = kept
      /\ found' = found
      /\ pages' = pages /\ remaining' = remaining /\ still' \subseteq still
  BY DEF Disturb, position, results, limits
<1>2. PICK i \in Swept : \E f \in Facts[i.kind] \union {Gone} : Change(i, f)
  BY DEF Disturb
<1>3. PICK f \in Facts[i.kind] \union {Gone} : Change(i, f)
  BY <1>2
<1>4. i \in Item /\ i.kind \in Kinds
  BY SweptItems, ItemAssumption DEF BaseInv, TypeOK
<1>5. account' = [account EXCEPT ![i] = f] /\ Rooted' /\ changes' = changes + 1
      /\ changes < MaxChanges
  BY <1>3 DEF Change
<1>6. account' \in [Item -> (UNION {Facts[k] : k \in Kinds}) \union {Gone}]
      /\ \A j \in Item : account'[j] \in Facts[j.kind] \union {Gone}
  <2> DEFINE All == (UNION {Facts[k] : k \in Kinds}) \union {Gone}
  <2>1. account \in [Item -> All]
    BY DEF BaseInv, PlaceInv
  <2>2. f \in All
    <3>1. Facts[i.kind] \in {Facts[k] : k \in Kinds}
      BY <1>4
    <3> QED
      BY <1>3, <3>1
  <2>3. \A j \in Item : account[j] \in Facts[j.kind] \union {Gone}
    BY DEF BaseInv, TypeOK
  <2> HIDE DEF All
  <2>4. account' \in [Item -> All]
    BY <1>4, <1>5, <2>1, <2>2
  <2>5. \A j \in Item : account'[j] \in Facts[j.kind] \union {Gone}
    BY <1>3, <1>4, <1>5, <2>1, <2>3
  <2> QED
    BY <2>4, <2>5 DEF All
<1>7. changes' \in 0..MaxChanges
  BY <1>5, ChangesAssumption DEF BaseInv, TypeOK
<1>8. Phases' = Phases /\ Sought' = Sought /\ OfKind' = OfKind
  BY <1>1, SameWalk
<1>9. TypeOK'
  BY <1>1, <1>6, <1>7, <1>8 DEF BaseInv, TypeOK
<1>10. PlaceInv'
  <2>1. Phase' = Phase /\ TodoOf(Phase)' = TodoOf(Phase)
    BY <1>1, <1>8 DEF Phase, TodoOf, TrailBuckets
  <2> QED
    BY <1>1, <1>6, <1>8, <2>1 DEF BaseInv, PlaceInv
<1>11. CursorInv'
  BY <1>1 DEF BaseInv, CursorInv, Phase
<1> QED
  BY <1>5, <1>9, <1>10, <1>11 DEF BaseInv

LEMMA NextRead ==
    ASSUME NEW r \in 0..3, NEW l \in 1..4, r + 1 < l
    PROVE  r + 1 \in 1..l - 1 /\ r + 1 \in 0..3 /\ l # 1
OBVIOUS

LEMMA InSightCases ==
    ASSUME NEW S, NEW x \in InSight(S)
    PROVE  \/ \E i \in Targets(S) : \E r \in Judged(i, Known) \intersect Watched : x = <<i, r>>
           \/ x = <<Whole, "coverage">> /\ "coverage" \in Watched /\ Uncovered
BY DEF InSight

LEMMA BaseRead ==
    ASSUME BaseInv, Sweeping, NEW S \in Portions, Read(S), verdict' \in Verdicts \union {"none"}
    PROVE  BaseInv'
<1>0. walk \in AllWalks /\ at \in DOMAIN walk /\ PhaseShape(Phase) /\ Phase.kind \in Kinds
  BY WalkTypes, PhaseShapes DEF BaseInv, Sweeping, Phase, PhaseShape
<1>1. UNCHANGED <<account, changes, walk, at, still>>
  BY ReadStep
<1>2. Phases' = Phases /\ Sought' = Sought /\ OfKind' = OfKind /\ Phase' = Phase
  BY <1>1, SameWalk DEF Phase
<1>3. todo' \subseteq todo /\ todo \subseteq Item /\ todo \subseteq TodoOf(Phase)
  BY ReadStep, PortionTypes
<1>4. cursor' \in [item: Item \union {Whole}, reads: 0..3]
  <2>1. CASE cursor' = Idle
    BY <2>1 DEF Idle
  <2>2. CASE cursor' # Idle
    <3>1. PICK a \in S : cursor' = [item |-> a, reads |-> cursor.reads + 1]
      BY <2>2, ReadStep
    <3>2. cursor.reads + 1 < Len(Phase.reads) /\ Len(Phase.reads) \in 1..4 /\ a \in Item
      BY <1>0, <2>2, ReadStep, PortionTypes DEF PhaseShape
    <3>3. cursor.reads \in 0..3
      BY DEF BaseInv, TypeOK
    <3>4. cursor.reads + 1 \in 0..3
      BY <3>2, <3>3, NextRead
    <3> QED
      BY <3>1, <3>2, <3>4
  <2> QED
    BY <2>1, <2>2
<1>5. found' \subseteq (Item \union {Whole}) \X Sought
  <2>1. Watched \subseteq Sought
    BY <1>0, PortionTypes, SightSought DEF Watched, Sight, Phase
  <2>2. InSight(S) \subseteq (Item \union {Whole}) \X Sought
    <3> SUFFICES ASSUME NEW x \in InSight(S) PROVE x \in (Item \union {Whole}) \X Sought
      OBVIOUS
    <3> QED
      BY <2>1, PortionTypes, InSightCases
  <2>3. Doubtful(S) \subseteq (Item \union {Whole}) \X Sought
    BY <2>1, PortionTypes DEF Doubtful, Vanished
  <2>4. found \subseteq (Item \union {Whole}) \X Sought
    BY DEF BaseInv, TypeOK
  <2> QED
    BY <2>2, <2>3, <2>4, ReadStep
<1>6. pages' \in 0..MaxPages /\ remaining' \in 0..Budget
  <2>1. pages \in 0..MaxPages /\ remaining \in 0..Budget /\ MaxPages \in Nat /\ Budget \in Nat
    BY BudgetAssumption DEF BaseInv, TypeOK
  <2>2. CASE Timed
    BY <2>1, <2>2 DEF Read, SpendTime, TooManyPages
  <2>3. CASE ~Timed
    BY <2>1, <2>3 DEF Read, SpendTime, limits
  <2> QED
    BY <2>2, <2>3
<1>7. \A n \in DOMAIN kept' : kept'[n] \subseteq Item
  BY ReadStep
<1>8. TypeOK'
  BY <1>1, <1>2, <1>3, <1>4, <1>5, <1>6, <1>7 DEF BaseInv, TypeOK
<1>9. PlaceInv'
  <2>1. \A k \in DOMAIN walk : kept'[walk[k].name] \subseteq OfKind[walk[k].kind]
    <3>1. Newly(S) \subseteq OfKind[Phase.kind]
      BY PortionTypes DEF Newly
    <3> QED
      BY <1>0, <3>1, ReadStep DEF BaseInv, PlaceInv, Phase
  <2>2. TodoOf(Phase)' = TodoOf(Phase)
    BY ReadStep
  <2>3. Phase.by = "all" => todo' \in {{}, TodoOf(Phase)}
    <3>1. ASSUME Phase.by = "all" PROVE S = todo /\ (todo = {} \/ todo = TodoOf(Phase))
      BY <1>0, <3>1, PortionTypes DEF BaseInv, PlaceInv
    <3> QED
      BY <3>1, ReadStep
  <2>4. kept' \in [{p.name : p \in Phases} -> SUBSET Item]
    BY ReadStep
  <2>5. account \in [Item -> (UNION {Facts[k] : k \in Kinds}) \union {Gone}]
    BY DEF BaseInv, PlaceInv
  <2> QED
    BY <1>0, <1>1, <1>2, <1>3, <2>1, <2>2, <2>3, <2>4, <2>5 DEF PlaceInv
<1>10. CursorInv'
  <2>1. CASE cursor' = Idle
    BY <2>1 DEF CursorInv, Idle
  <2>2. CASE cursor' # Idle
    <3>1. PICK a \in S : cursor' = [item |-> a, reads |-> cursor.reads + 1]
      BY <2>2, ReadStep
    <3>2. cursor.reads + 1 < Len(Phase.reads) /\ todo' = todo /\ a \in todo
          /\ Len(Phase.reads) \in 1..4
      BY <1>0, <2>2, <3>1, ReadStep, PortionTypes DEF PhaseShape
    <3>3. cursor.reads \in 0..3
      BY DEF BaseInv, TypeOK
    <3>4. cursor'.item \in todo' /\ cursor'.reads \in 1..Len(Phase.reads) - 1
      <4>1. cursor'.item = a /\ cursor'.reads = cursor.reads + 1
        BY <3>1
      <4>2. cursor.reads + 1 \in 1..Len(Phase.reads) - 1
        BY <3>2, <3>3, NextRead
      <4> QED
        BY <3>2, <4>1, <4>2
    <3>5. Phase.by = "one"
      <4>1. Len(Phase.reads) # 1
        BY <3>2, <3>3, NextRead
      <4> QED
        BY <1>0, <4>1 DEF PhaseShape
    <3> QED
      BY <1>0, <1>1, <1>2, <3>4, <3>5 DEF CursorInv
  <2> QED
    BY <2>1, <2>2
<1>11. Rooted'
  BY <1>1, <1>2 DEF BaseInv, Rooted, Live
<1> QED
  BY <1>8, <1>9, <1>10, <1>11 DEF BaseInv

\* What an advance changes, and what it leaves alone.
LEMMA AdvanceStep ==
    ASSUME BaseInv, Advance
    PROVE  /\ cursor = Idle /\ cursor' = Idle /\ at \in DOMAIN walk
           /\ at' \in 1..Len(walk) + 1 /\ at < at'
           /\ UNCHANGED <<account, changes, walk, kept, found, pages, remaining, still>>
           /\ at' \in DOMAIN walk => todo' = TodoOf(walk[at']) /\ Phase' = walk[at']
              /\ TodoOf(Phase)' = todo'
           /\ at' \notin DOMAIN walk => todo' = {}
<1>1. UNCHANGED <<account, changes, walk, cursor, kept, found, pages, remaining, still>>
      /\ todo = {} /\ at \in DOMAIN walk
  BY DEF Advance
<1>2. cursor = Idle
  BY <1>1 DEF BaseInv, CursorInv
<1>3. at' \in 1..Len(walk) + 1 /\ at < at'
  <2>1. at \in 1..Len(walk) /\ Len(walk) \in 1..3
    BY <1>1, WalkTypes DEF BaseInv
  <2> QED
    BY <2>1 DEF Advance
<1>4. ASSUME NEW k \in DOMAIN walk, k = at'
      PROVE  todo' = TodoOf(walk[k]) /\ Phase' = walk[k] /\ TodoOf(Phase)' = TodoOf(walk[k])
  <2>1. todo' = TodoOf(walk[k])
    BY <1>4 DEF Advance
  <2>2. Phase' = walk[k]
    BY <1>1, <1>4 DEF Phase
  <2> QED
    BY <1>1, <2>1, <2>2 DEF TodoOf, TrailBuckets, OfKind
<1>5. at' \notin DOMAIN walk => todo' = {}
  BY DEF Advance
<1> QED
  BY <1>1, <1>2, <1>3, <1>4, <1>5

LEMMA BaseAdvance ==
    ASSUME BaseInv, Advance, verdict' \in Verdicts \union {"none"}
    PROVE  BaseInv'
<1>1. UNCHANGED <<account, changes, walk, kept, found, pages, remaining, still>> /\ cursor' = Idle
      /\ cursor = Idle /\ at' \in 1..Len(walk) + 1
  BY AdvanceStep
<1>2. Phases' = Phases /\ Sought' = Sought /\ OfKind' = OfKind
  BY <1>1, SameWalk
<1>3. todo' \subseteq Item
  BY AdvanceStep, TodoTypes DEF BaseInv
<1>4. TypeOK'
  <2>1. Idle \in [item: Item \union {Whole}, reads: 0..3]
    BY DEF Idle
  <2> QED
    BY <1>1, <1>2, <1>3, <2>1 DEF BaseInv, TypeOK
<1>5. at' \in DOMAIN walk => todo' = TodoOf(Phase)'
  BY AdvanceStep
<1>6. at' \notin DOMAIN walk => todo' = {}
  BY AdvanceStep
<1>7. PlaceInv'
  BY <1>1, <1>2, <1>5, <1>6 DEF BaseInv, PlaceInv
<1>8. Rooted'
  BY <1>1, <1>2 DEF BaseInv, Rooted, Live
<1> QED
  BY <1>1, <1>4, <1>7, <1>8 DEF BaseInv, CursorInv

LEMMA BaseStutter ==
    ASSUME BaseInv, UNCHANGED rest, verdict' \in Verdicts \union {"none"}
    PROVE  BaseInv'
<1>1. UNCHANGED <<account, changes, walk, at, todo, cursor, kept, found, pages, remaining, still>>
  BY DEF rest
<1>2. Phases' = Phases /\ Sought' = Sought /\ OfKind' = OfKind /\ Phase' = Phase
  BY <1>1, SameWalk DEF Phase
<1>3. TypeOK'
  BY <1>1, <1>2 DEF BaseInv, TypeOK
<1>4. TodoOf(Phase)' = TodoOf(Phase)
  BY <1>1, <1>2 DEF TodoOf, TrailBuckets
<1>5. PlaceInv'
  BY <1>1, <1>2, <1>4 DEF BaseInv, PlaceInv
<1>6. CursorInv' /\ Rooted'
  BY <1>1, <1>2 DEF BaseInv, CursorInv, Idle, Rooted, Live
<1> QED
  BY <1>3, <1>5, <1>6 DEF BaseInv

LEMMA BaseNext == BaseInv /\ [Next]_vars => BaseInv'
<1> SUFFICES ASSUME BaseInv, [Next]_vars PROVE BaseInv'
  OBVIOUS
<1>1. verdict' \in Verdicts \union {"none"}
  BY VerdictTypes DEF BaseInv
<1> QED
  BY <1>1, Steps, BaseDisturb, BaseRead, BaseAdvance, BaseStutter

LEMMA BaseAlways == Spec => []BaseInv
BY BaseInit, BaseNext, PTL DEF Spec

\* The variables of Sweeps keep their types: what is on record, and what there is
\* to be found, are flaws that some phase of the walk looks for.
THEOREM TypeCorrect == Spec => []TypeOK
<1>1. BaseInv => TypeOK
  BY DEF BaseInv
<1> QED
  BY <1>1, BaseAlways, PTL

-----------------------------------------------------------------------------
(* Lasting flaws.                                                          *)

\* Lasting flaws are flaws.
StillInv == still \subseteq Flaws

\* The resource whose listing leads to i.
Root(i) == IF i.kind \in {"access_key", "finding", "group"} THEN Home[i] ELSE i

\* A list keeps every resource that a lasting flaw hangs on.
Listed(k, i) ==
    Root(i).kind = walk[k].kind =>
        Root(i) \in kept[walk[k].name] \/ at < k \/ (at = k /\ Root(i) \in todo)
ListInv ==
    \A k \in DOMAIN walk : Lists(walk[k]) =>
        \A i \in Item : (\E r : <<i, r>> \in still) => Listed(k, i)

\* What phase k must go over for it to see the flaws of i.
Anchor(p, i) == IF p.members THEN Home[i] ELSE i

\* It is known why bucket i is in scope.
Claimed(i, r) == i \in TrailBuckets(kept["trails"]) \/ (i = EvidenceBucket /\ r # "lock")

\* Phase k is still to come, and nothing that leads to i is lost.
Ahead(k, i, r) ==
    /\ at < k
    /\ walk = Walk05 /\ k = 3 /\ at = 2 => Home[i] \in todo \union kept["posture"]
    /\ walk[k].over = "trail_buckets" => Claimed(i, r) \/ (at = 1 /\ todo # {})

\* It is the current one, and has not made the call that sees the flaw.
Due(k, i, r) ==
    /\ at = k /\ Anchor(walk[k], i) \in todo
    /\ walk[k].over = "trail_buckets" => Claimed(i, r)
    /\ \E n \in DOMAIN walk[k].reads :
            r \in walk[k].reads[n] /\ (cursor.item = Anchor(walk[k], i) => n > cursor.reads)

\* A lasting flaw of a resource is on record, or some flaw is, or it will be found.
Blamed == \E x \in found : x[2] # "warning"
Awaited(i, r) ==
    \E k \in DOMAIN walk :
        walk[k].kind = i.kind /\ Sight(walk[k], r) /\ (Ahead(k, i, r) \/ Due(k, i, r))
FlawInv == Blamed \/ \A i \in Item : \A r : <<i, r>> \in still => Awaited(i, r)

\* What the account as a whole lacks.
NeedInv ==
    \A k \in DOMAIN walk :
        Needed(walk[k]) /\ <<Whole, walk[k].name>> \in still => kept[walk[k].name] = {}
PassedInv ==
    \A k \in DOMAIN walk : k < at /\ walk[k].none = "CONFIG_ERROR" => kept[walk[k].name] # {}
CoverInv == <<Whole, "coverage">> \in still => Blamed \/ (at = 1 /\ todo # {})

ItemFlawsAre ==
    \A x : x \in ItemFlaws
              <=> \E i \in Swept : \E r \in Judged(i, Scope) : r # "warning" /\ x = <<i, r>>

LEMMA ItemFlawForm == ItemFlawsAre
<1> DEFINE Of(i) == {<<i, r>> : r \in Judged(i, Scope) \ {"warning"}}
<1> SUFFICES ASSUME NEW x
             PROVE  x \in ItemFlaws
                       <=> \E i \in Swept : \E r \in Judged(i, Scope) : r # "warning"
                       /\ x = <<i, r>>
  BY DEF ItemFlawsAre
<1>1. ItemFlaws = UNION {Of(i) : i \in Swept}
  BY DEF ItemFlaws, Scope
<1>2. \A i : x \in Of(i) <=> \E r \in Judged(i, Scope) : r # "warning" /\ x = <<i, r>>
  OBVIOUS
<1> HIDE DEF Of
<1> QED
  BY <1>1, <1>2

LEMMA SameFlaws ==
    ASSUME account' = account, walk' = walk
    PROVE  Flaws' = Flaws
<1>1. OfKind' = OfKind /\ Phases' = Phases /\ Swept' = Swept
  BY SameWalk DEF Swept, SweptBy
<1>2. LiveTrails' = LiveTrails /\ GovernedKeys' = GovernedKeys
  BY <1>1 DEF LiveTrails, GovernedKeys, Live
<1>3. Uncovered' = Uncovered /\ CoverFlaws' = CoverFlaws
  BY <1>2 DEF Uncovered, CoverFlaws
<1>4. \A p : Lacks(p)' = Lacks(p)
  BY <1>1 DEF Lacks, Live
<1>5. LackFlaws' = LackFlaws
  BY <1>1, <1>4 DEF LackFlaws
<1>6. ItemFlaws' = ItemFlaws
  <2>1. ItemFlawsAre /\ ItemFlawsAre'
    BY ItemFlawForm, PTL
  <2>2. Scope' = Scope
    BY <1>2 DEF Scope
  <2>3. \A i : Judged(i, Scope)' = Judged(i, Scope)
    BY <1>1, <2>2 DEF Judged, Live, TrailBuckets
  <2> QED
    BY <1>1, <2>1, <2>3 DEF ItemFlawsAre
<1> QED
  BY <1>3, <1>5, <1>6 DEF Flaws

LEMMA StillNext == StillInv /\ [Next]_vars => StillInv'
<1> SUFFICES ASSUME StillInv, [Next]_vars PROVE StillInv'
  OBVIOUS
<1>1. CASE Disturb
  BY <1>1 DEF Disturb, StillInv
<1>2. ASSUME account' = account, walk' = walk, still' = still PROVE StillInv'
  BY <1>2, SameFlaws DEF StillInv
<1>3. CASE \E S \in Portions : Read(S)
  BY <1>2, <1>3 DEF Read, estate
<1>4. CASE Advance
  BY <1>2, <1>4 DEF Advance
<1>5. CASE UNCHANGED rest
  BY <1>2, <1>5 DEF rest
<1> QED
  BY <1>1, <1>3, <1>4, <1>5, Steps

\* What a lasting flaw of a resource says of the account now.
LEMMA LastingNow ==
    ASSUME TypeOK, StillInv, NEW i \in Item, NEW r, <<i, r>> \in still
    PROVE  i \in Swept /\ r \in Judged(i, Scope) /\ r # "warning"
BY FlawsOfItems DEF StillInv, TypeOK

LEMMA RootTypes ==
    ASSUME NEW i \in Item
    PROVE  Root(i) \in Item /\ Root(i).kind \notin {"access_key", "finding", "group"}
BY ItemAssumption, HomeAssumption DEF Root

LEMMA RootLive ==
    ASSUME BaseInv, StillInv, NEW i \in Item, NEW r, <<i, r>> \in still, Root(i).kind # "runbook"
    PROVE  Live(Root(i)) /\ (Root(i).kind = "key" => account[Root(i)].governed)
<1>1. r \in Judged(i, Scope)
  BY LastingNow DEF BaseInv
<1>2. CASE i.kind \in {"access_key", "finding", "group"}
  <2>1. Live(i) /\ i \in OfKind[i.kind]
    BY <1>1, <1>2, JudgedLive, KindSets DEF Kinds
  <2>2. Live(Home[i])
    BY <1>2, <2>1 DEF BaseInv, Rooted
  <2>3. Root(i).kind # "key"
    BY <1>2, HomeAssumption DEF Root
  <2> QED
    BY <1>2, <2>2, <2>3 DEF Root
<1>3. CASE i.kind \notin {"access_key", "finding", "group"}
  <2>1. Root(i) = i /\ Live(i)
    BY <1>1, <1>3, JudgedLive DEF Root
  <2>2. i.kind = "key" => i \in Scope
    BY <1>1, JudgedKeys
  <2>3. ~(i.kind = "key" /\ i \in LiveTrails)
    BY KindSets DEF LiveTrails, Kinds
  <2> QED
    BY <2>1, <2>2, <2>3 DEF Scope, GovernedKeys
<1> QED
  BY <1>2, <1>3

-----------------------------------------------------------------------------
(* Lists keep what lasting flaws hang on.                                  *)

LEMMA ListInit == Init => ListInv
<1> SUFFICES ASSUME Init, NEW k \in DOMAIN walk, Lists(walk[k]), NEW i \in Item
             PROVE  Listed(k, i)
  BY DEF ListInv
<1>1. walk \in AllWalks /\ DOMAIN walk = 1..Len(walk) /\ Len(walk) \in 1..3 /\ at = 1
  BY WalksAssumption, Lengths DEF Init, Begin
<1>2. CASE k = 1
  <2>1. todo = OfKind[walk[k].kind] /\ walk[k].kind \in Kinds
    BY <1>1, <1>2, PhaseShapes DEF Init, Begin, Lists, PhaseShape
  <2> QED
    BY <1>1, <1>2, <2>1, RootTypes, KindSets DEF Listed
<1>3. CASE k # 1
  BY <1>1, <1>3 DEF Listed
<1> QED
  BY <1>2, <1>3

LEMMA ListRead ==
    ASSUME BaseInv, StillInv, ListInv, Sweeping, NEW S \in Portions, Read(S)
    PROVE  ListInv'
<1>0. UNCHANGED <<account, walk, at, still>>
  BY ReadStep
<1> SUFFICES ASSUME NEW k \in DOMAIN walk, Lists(walk[k]), NEW i \in Item, NEW r, <<i,
                    r>> \in still,
                    Root(i).kind = walk[k].kind
             PROVE  \/ Root(i) \in kept'[walk[k].name] \/ at < k
                    \/ at = k /\ Root(i) \in todo'
  BY <1>0 DEF ListInv, Listed
<1>1. Root(i) \in kept[walk[k].name] \/ at < k \/ (at = k /\ Root(i) \in todo)
  BY DEF ListInv, Listed
<1>2. CASE k # at
  BY <1>1, <1>2, ReadStep
<1>3. CASE k = at
  <2>1. walk \in AllWalks /\ at \in DOMAIN walk /\ PhaseShape(Phase) /\ Phase = walk[k]
    BY <1>3, WalkTypes, PhaseShapes DEF BaseInv, Sweeping, Phase
  <2>2. kept'[Phase.name] = kept[Phase.name] \union Newly(S)
    BY ReadStep
  <2>3. todo' = todo \/ todo' = todo \ S
    BY ReadStep
  <2>4. ASSUME Root(i) \in S PROVE Root(i) \in Newly(S)
    <3>1. Live(Root(i)) /\ (Root(i).kind = "key" => account[Root(i)].governed)
      BY RootLive DEF Lists
    <3>2. Targets(S) = S
      BY <2>1 DEF Targets, PhaseShape, Lists
    <3>3. Phase.keeps = "all" \/ (Phase.keeps = "governed" /\ account[Root(i)].governed)
      BY <2>1, <3>1 DEF PhaseShape, Lists
    <3>4. Kept(Phase, account[Root(i)])
      BY <3>3 DEF Kept
    <3> QED
      BY <2>4, <3>1, <3>2, <3>4 DEF Newly
  <2> QED
    BY <1>1, <1>3, <2>1, <2>2, <2>3, <2>4
<1> QED
  BY <1>2, <1>3

LEMMA ListAdvance ==
    ASSUME BaseInv, ListInv, Advance
    PROVE  ListInv'
<1>0. UNCHANGED <<account, walk, kept, still>> /\ todo = {} /\ at \in DOMAIN walk
  BY AdvanceStep DEF Advance
<1> SUFFICES ASSUME NEW k \in DOMAIN walk, Lists(walk[k]), NEW i \in Item, NEW r, <<i,
                    r>> \in still,
                    Root(i).kind = walk[k].kind
             PROVE  \/ Root(i) \in kept[walk[k].name] \/ at' < k
                    \/ at' = k /\ Root(i) \in todo'
  BY <1>0 DEF ListInv, Listed
<1>1. Root(i) \in kept[walk[k].name] \/ at < k
  BY <1>0 DEF ListInv, Listed
<1>2. walk \in AllWalks /\ DOMAIN walk = 1..Len(walk) /\ Len(walk) \in 1..3
  BY WalkTypes DEF BaseInv
<1>3. CASE at' = k
  <2>1. todo' = TodoOf(walk[k])
    BY <1>3, AdvanceStep
  <2>2. walk[k].over = walk[k].kind /\ walk[k].kind \in Kinds
    BY <1>2, PhaseShapes DEF PhaseShape, Lists
  <2>3. TodoOf(walk[k]) = OfKind[walk[k].kind]
    BY <2>2 DEF TodoOf, Kinds
  <2> QED
    BY <1>3, <2>1, <2>2, <2>3, RootTypes, KindSets
<1>4. CASE at < k /\ k < at'
  <2>1. at' # at + 1
    BY <1>0, <1>2, <1>4
  <2>2. walk = Walk08 /\ at = 1
    BY <1>0, <1>2, <2>1, WalkShapes DEF Advance, Phase, Peculiar
  <2>3. k = 2 \/ k = 3
    BY <1>2, <1>4, <2>2
  <2>4. k = 3
    BY <2>2, <2>3, Phases08, FlowLogsByResourceRow DEF Row, Lists
  <2>5. walk[k].kind = "group"
    BY <2>2, <2>4, Phases08, ListSecurityGroupsRow DEF Row
  <2> QED
    BY <2>5, RootTypes
<1> QED
  <2>1. at' \in 1..Len(walk) + 1
    BY AdvanceStep
  <2> QED
    BY <1>1, <1>2, <1>3, <1>4, <2>1

LEMMA ListNext == BaseInv /\ StillInv /\ ListInv /\ [Next]_vars => ListInv'
<1> SUFFICES ASSUME BaseInv, StillInv, ListInv, [Next]_vars PROVE ListInv'
  OBVIOUS
<1>1. CASE Disturb
  <2>1. UNCHANGED <<walk, at, todo, kept>> /\ still' \subseteq still
    BY <1>1 DEF Disturb, position, results
  <2> QED
    BY <2>1 DEF ListInv, Listed
<1>2. CASE UNCHANGED rest
  BY <1>2 DEF rest, ListInv, Listed
<1> QED
  BY <1>1, <1>2, Steps, ListRead, ListAdvance

-----------------------------------------------------------------------------
(* What the account as a whole lacks.                                      *)

AccountInv == NeedInv /\ PassedInv /\ CoverInv

LEMMA AccountInit == Init => AccountInv
<1> SUFFICES ASSUME Init PROVE AccountInv
  OBVIOUS
<1>1. walk \in Walks /\ walk \in AllWalks /\ DOMAIN walk = 1..Len(walk) /\ Len(walk) \in 1..3
      /\ at = 1
  BY WalksAssumption, Lengths DEF Init, Begin
<1>2. NeedInv
  BY DEF NeedInv, Init, Begin, Phases
<1>3. PassedInv
  BY <1>1 DEF PassedInv
<1>4. CoverInv
  <2> SUFFICES ASSUME <<Whole, "coverage">> \in Flaws PROVE todo # {}
    BY <1>1 DEF CoverInv, Init, Begin
  <2>1. walk = Walk07
    BY <1>1, FlawsOfWhole, PhaseShapes DEF PhaseShape
  <2>2. todo = OfKind["trail"] /\ "trail" \in Kinds
    BY <2>1, Phases07, DescribeTrailsRow DEF Init, Begin, Row, Kinds
  <2> QED
    BY <2>2, KindSets, TrailAssumption
<1> QED
  BY <1>2, <1>3, <1>4 DEF AccountInv

\* What is there of the account as a whole is there now.
LEMMA LacksNow ==
    ASSUME TypeOK, StillInv, NEW k \in DOMAIN walk, <<Whole, walk[k].name>> \in still
    PROVE  Lacks(walk[k])
<1>1. walk \in AllWalks /\ walk \in Walks /\ <<Whole, walk[k].name>> \in Flaws
  BY WalkTypes DEF TypeOK, StillInv
<1>2. walk[k].name # "coverage"
  BY <1>1, PhaseShapes DEF PhaseShape
<1> QED
  BY <1>1, <1>2, FlawsOfWhole, NamesDiffer

LEMMA UncoveredNow ==
    ASSUME TypeOK, StillInv, <<Whole, "coverage">> \in still
    PROVE  walk = Walk07 /\ Uncovered
<1>1. walk \in AllWalks /\ walk \in Walks /\ <<Whole, "coverage">> \in Flaws
  BY WalkTypes DEF TypeOK, StillInv
<1>2. \A k \in DOMAIN walk : walk[k].name # "coverage"
  BY <1>1, PhaseShapes DEF PhaseShape
<1> QED
  BY <1>1, <1>2, FlawsOfWhole

LEMMA BlamedStays ==
    ASSUME found \subseteq found', Blamed
    PROVE  Blamed'
BY DEF Blamed

LEMMA AccountRead ==
    ASSUME BaseInv, StillInv, AccountInv, Sweeping, NEW S \in Portions, Read(S)
    PROVE  AccountInv'
<1>0. UNCHANGED <<account, walk, at, still>> /\ at \in DOMAIN walk
  BY ReadStep DEF Sweeping
<1>1. NeedInv'
  <2> SUFFICES ASSUME NEW k \in DOMAIN walk, Needed(walk[k]), <<Whole, walk[k].name>> \in still
               PROVE  kept'[walk[k].name] = {}
    BY <1>0 DEF NeedInv, Needed
  <2>1. kept[walk[k].name] = {}
    BY DEF AccountInv, NeedInv
  <2>2. CASE k # at
    BY <2>1, <2>2, ReadStep
  <2>3. CASE k = at
    <3>1. Lacks(Phase)
      BY <2>3, LacksNow DEF BaseInv, Phase
    <3>2. Newly(S) = {}
      BY <3>1, PortionTypes DEF Lacks, Newly
    <3> QED
      BY <2>1, <2>3, <3>2, ReadStep DEF Phase
  <2> QED
    BY <2>2, <2>3
<1>2. PassedInv'
  <2> SUFFICES ASSUME NEW k \in DOMAIN walk, k < at, walk[k].none = "CONFIG_ERROR"
               PROVE  kept'[walk[k].name] # {}
    BY <1>0 DEF PassedInv
  <2>1. k # at
    BY <1>0, WalkTypes DEF BaseInv
  <2> QED
    BY <2>1, ReadStep DEF AccountInv, PassedInv
<1>3. CoverInv'
  <2> SUFFICES ASSUME <<Whole, "coverage">> \in still PROVE Blamed'
    BY <1>0 DEF CoverInv
  <2>1. CASE Blamed
    BY <2>1, ReadStep, BlamedStays
  <2>2. CASE at = 1
    <3>1. walk = Walk07 /\ Uncovered
      BY UncoveredNow DEF BaseInv
    <3>2. "coverage" \in Watched
      BY <2>2, <3>1, PortionTypes, Phases07, DescribeTrailsRow DEF Row, Reads, Watched, Phase
    <3>3. <<Whole, "coverage">> \in InSight(S)
      BY <3>1, <3>2 DEF InSight
    <3>4. <<Whole, "coverage">> \in found'
      BY <3>3, ReadStep
    <3>5. <<Whole, "coverage">>[2] # "warning"
      OBVIOUS
    <3> QED
      BY <3>4, <3>5 DEF Blamed
  <2> QED
    BY <2>1, <2>2 DEF AccountInv, CoverInv
<1> QED
  BY <1>1, <1>2, <1>3 DEF AccountInv

LEMMA AccountAdvance ==
    ASSUME BaseInv, AccountInv, Advance
    PROVE  AccountInv'
<1>0. UNCHANGED <<account, walk, kept, found, still>> /\ todo = {} /\ at \in DOMAIN walk
  BY AdvanceStep DEF Advance
<1>1. NeedInv'
  BY <1>0 DEF AccountInv, NeedInv, Needed
<1>2. PassedInv'
  <2> SUFFICES ASSUME NEW k \in DOMAIN walk, k < at', walk[k].none = "CONFIG_ERROR"
               PROVE  kept[walk[k].name] # {}
    BY <1>0 DEF PassedInv
  <2>0. walk \in AllWalks /\ DOMAIN walk = 1..Len(walk) /\ Len(walk) \in 1..3
    BY WalkTypes DEF BaseInv
  <2>1. CASE k < at
    BY <2>1 DEF AccountInv, PassedInv
  <2>2. CASE k = at
    BY <2>2 DEF Advance, Phase
  <2>3. CASE at < k
    <3>1. at' # at + 1
      BY <1>0, <2>0, <2>3
    <3>2. walk = Walk08
      BY <1>0, <2>0, <3>1, WalkShapes DEF Advance, Phase, Peculiar
    <3> QED
      BY <3>2, Phases08, ListVpcsRow, FlowLogsByResourceRow, ListSecurityGroupsRow DEF Row
  <2> QED
    BY <1>0, <2>0, <2>1, <2>2, <2>3
<1>3. CoverInv'
  BY <1>0 DEF AccountInv, CoverInv, Blamed
<1> QED
  BY <1>1, <1>2, <1>3 DEF AccountInv

LEMMA AccountNext == BaseInv /\ StillInv /\ AccountInv /\ [Next]_vars => AccountInv'
<1> SUFFICES ASSUME BaseInv, StillInv, AccountInv, [Next]_vars PROVE AccountInv'
  OBVIOUS
<1>1. CASE Disturb
  <2>1. UNCHANGED <<walk, at, todo, kept, found>> /\ still' \subseteq still
    BY <1>1 DEF Disturb, position, results
  <2> QED
    BY <2>1 DEF AccountInv, NeedInv, Needed, PassedInv, CoverInv, Blamed
<1>2. CASE UNCHANGED rest
  BY <1>2 DEF rest, AccountInv, NeedInv, Needed, PassedInv, CoverInv, Blamed
<1> QED
  BY <1>1, <1>2, Steps, AccountRead, AccountAdvance

-----------------------------------------------------------------------------
(* A lasting flaw is on record or ahead.                                   *)

\* A phase that goes over a kind of resources goes over all that leads to its own.
LEMMA AnchorThere ==
    ASSUME NEW p, PhaseShape(p), p.over \in Kinds, NEW i \in Item, i.kind = p.kind
    PROVE  Anchor(p, i) \in OfKind[p.over]
<1>1. CASE p.members
  <2>1. p.over = "iam_user" /\ p.kind = "access_key"
    BY <1>1 DEF PhaseShape
  <2> QED
    BY <1>1, <2>1, ItemAssumption, HomeAssumption, KindSets DEF Anchor
<1>2. CASE ~p.members
  BY <1>2, KindSets DEF PhaseShape, Anchor
<1> QED
  BY <1>1, <1>2

LEMMA FlawInit == Init => FlawInv
<1> SUFFICES ASSUME Init, NEW i \in Item, NEW r, <<i, r>> \in Flaws PROVE Awaited(i, r)
  BY DEF FlawInv, Init, Begin
<1>1. walk \in Walks /\ walk \in AllWalks /\ DOMAIN walk = 1..Len(walk) /\ Len(walk) \in 1..3
      /\ at = 1 /\ cursor = Idle /\ todo = OfKind[walk[1].over]
  BY WalksAssumption, Lengths DEF Init, Begin
<1>2. PICK k \in DOMAIN walk : walk[k].kind = i.kind /\ Sight(walk[k], r)
  BY <1>1, FlawsOfItems, SweptItems, FlawsSought
<1>3. PhaseShape(walk[k]) /\ Peculiar(walk, k)
  BY <1>1, PhaseShapes, WalkShapes
<1>4. CASE k = 1
  <2>1. walk[k].over \in Kinds
    BY <1>1, <1>4, FirstPhase
  <2>2. Anchor(walk[k], i) \in todo
    BY <1>1, <1>2, <1>3, <1>4, <2>1, AnchorThere
  <2>3. walk[k].over # "trail_buckets"
    BY <2>1 DEF Kinds
  <2>4. PICK n \in DOMAIN walk[k].reads : r \in walk[k].reads[n]
    BY <1>2 DEF Sight
  <2>5. n > cursor.reads
    BY <1>1, <1>3 DEF Idle, PhaseShape
  <2>6. Due(k, i, r)
    BY <1>1, <1>4, <2>2, <2>3, <2>4, <2>5 DEF Due
  <2> QED
    BY <1>2, <2>6 DEF Awaited
<1>5. CASE k # 1
  <2>1. walk[k].over = "trail_buckets" => todo # {}
    <3>1. ASSUME walk[k].over = "trail_buckets" PROVE todo = OfKind["trail"] /\ "trail" \in Kinds
      BY <1>1, <1>3, <3>1, Phases07, DescribeTrailsRow DEF Peculiar, Row, Kinds
    <3> QED
      BY <3>1, KindSets, TrailAssumption
  <2>2. Ahead(k, i, r)
    BY <1>1, <1>5, <2>1 DEF Ahead
  <2> QED
    BY <1>2, <2>2 DEF Awaited
<1> QED
  BY <1>4, <1>5

\* What a call records of a resource that it goes over.
LEMMA Recorded ==
    ASSUME BaseInv, Sweeping, NEW S \in Portions, Read(S), NEW i \in Targets(S),
           NEW r \in Watched,
           r \in Judged(i, Known), r # "warning"
    PROVE  Blamed'
<1>1. <<i, r>> \in InSight(S)
  BY DEF InSight
<1>2. <<i, r>> \in found'
  BY <1>1, ReadStep
<1>3. <<i, r>>[2] # "warning"
  OBVIOUS
<1> QED
  BY <1>2, <1>3 DEF Blamed

\* What is known of the reason why a bucket is in scope stays known.
LEMMA ClaimedStays ==
    ASSUME kept["trails"] \subseteq kept'["trails"], NEW i, NEW r, Claimed(i, r)
    PROVE  Claimed(i, r)'
BY DEF Claimed, TrailBuckets, OfKind

LEMMA TrailsStay ==
    ASSUME BaseInv, Sweeping, NEW S \in Portions, Read(S), walk = Walk07
    PROVE  kept["trails"] \subseteq kept'["trails"]
<1>1. 1 \in DOMAIN walk /\ walk[1].name = "trails"
  BY Phases07, DescribeTrailsRow DEF Row
<1>2. CASE at = 1
  BY <1>1, <1>2, ReadStep DEF Phase
<1>3. CASE at # 1
  BY <1>1, <1>3, ReadStep
<1> QED
  BY <1>2, <1>3

\* The trails are listed in one call: after it, the buckets they write to are known.
LEMMA TrailsListed ==
    ASSUME BaseInv, StillInv, Sweeping, NEW S \in Portions, Read(S), walk = Walk07, at = 1,
           todo # {},
           NEW i \in Item, i.kind = "bucket", NEW r, <<i, r>> \in still
    PROVE  Claimed(i, r)'
<1>1. 1 \in DOMAIN walk /\ Phase = DescribeTrails
  BY Phases07 DEF Phase
<1>2. Phase.name = "trails" /\ Phase.by = "all" /\ Phase.keeps = "all" /\ ~Phase.members
      /\ Phase.over = "trail"
  BY <1>1, DescribeTrailsRow DEF Row
<1>3. S = OfKind["trail"]
  BY <1>1, <1>2, PortionTypes DEF BaseInv, PlaceInv, TodoOf, Kinds
<1>4. Newly(S) = LiveTrails
  BY <1>2, <1>3 DEF Newly, Targets, Kept, LiveTrails
<1>5. LiveTrails \subseteq kept'["trails"]
  BY <1>2, <1>4, ReadStep
<1>6. r \in Judged(i, Scope)
  BY LastingNow DEF BaseInv
<1>7. i \in TrailBuckets(Scope) \/ (i = EvidenceBucket /\ r # "lock")
  BY <1>6, JudgedBuckets
<1>8. CASE i \in TrailBuckets(Scope)
  <2>1. PICK t \in Scope \intersect OfKind["trail"] : i = Home[t]
    BY <1>8 DEF TrailBuckets
  <2>2. t \in LiveTrails
    BY <2>1, KindSets DEF Scope, GovernedKeys, Kinds
  <2>3. t \in kept'["trails"] \intersect OfKind["trail"]
    BY <1>5, <2>1, <2>2
  <2> QED
    BY <2>1, <2>3 DEF Claimed, TrailBuckets, OfKind
<1> QED
  BY <1>7, <1>8 DEF Claimed

\* A call in an earlier phase keeps what a later one needs.
LEMMA AheadRead ==
    ASSUME BaseInv, StillInv, Sweeping, NEW S \in Portions, Read(S), ~Blamed',
           NEW i \in Item, NEW r, <<i, r>> \in still,
           NEW k \in DOMAIN walk, walk[k].kind = i.kind, Ahead(k, i, r)
    PROVE  Ahead(k, i, r)'
<1>0. UNCHANGED <<account, walk, at, still>> /\ at \in DOMAIN walk /\ walk \in AllWalks
      /\ PhaseShape(walk[k]) /\ Peculiar(walk, k)
  BY ReadStep, WalkTypes, PhaseShapes, WalkShapes DEF Sweeping, BaseInv
<1>1. ASSUME walk = Walk05, k = 3, at = 2
      PROVE  Home[i] \in todo' \union kept'["posture"]
  <2>1. Phase = DetectorPosture /\ i.kind = "finding"
    BY <1>1, Phases05, FetchHighSeverityFindingsRow DEF Phase, Row
  <2>2. Phase.name = "posture" /\ ~Phase.members /\ Phase.keeps = "enabled"
        /\ Phase.gone = "ERROR"
        /\ Reads(Phase.reads, 1, {"disabled"})
    BY <2>1, DetectorPostureRow DEF Row
  <2>3. Home[i] \in todo \union kept["posture"] /\ Home[i] \in Item /\ Home[i].kind = "detector"
    BY <1>1, <2>1, ItemAssumption, HomeAssumption DEF Ahead
  <2>4. kept'["posture"] = kept["posture"] \union Newly(S) /\ (todo' = todo \/ todo' = todo \ S)
        /\ (\A a \in S : Live(a))
    BY <2>2, ReadStep
  <2>5. ASSUME Home[i] \in S PROVE Home[i] \in Newly(S)
    <3>1. Home[i] \in Targets(S) /\ Live(Home[i])
      BY <2>2, <2>4, <2>5 DEF Targets
    <3>2. "disabled" \in Watched
      BY <2>2, PortionTypes DEF Reads, Watched
    <3>3. account[Home[i]].enabled
      <4>1. SUFFICES ASSUME ~account[Home[i]].enabled PROVE FALSE
        OBVIOUS
      <4>2. "disabled" \in Judged(Home[i], Known)
        BY <2>3, <3>1, <4>1 DEF Judged, If
      <4> QED
        BY <3>1, <3>2, <4>2, Recorded
    <3> QED
      BY <2>2, <3>1, <3>3 DEF Newly, Kept
  <2> QED
    BY <2>3, <2>4, <2>5
<1>2. ASSUME walk[k].over = "trail_buckets"
      PROVE  Claimed(i, r)'
  <2>1. walk = Walk07 /\ i.kind = "bucket"
    BY <1>0, <1>2 DEF PhaseShape, Peculiar
  <2>2. CASE Claimed(i, r)
    BY <2>1, <2>2, TrailsStay, ClaimedStays
  <2>3. CASE at = 1 /\ todo # {}
    BY <2>1, <2>3, TrailsListed
  <2> QED
    BY <1>2, <2>2, <2>3 DEF Ahead
<1> QED
  BY <1>0, <1>1, <1>2 DEF Ahead

LEMMA LaterRead ==
    ASSUME NEW n \in Nat, NEW done \in 0..3, NEW l \in 1..4, n \in 1..l, n > done, n # done + 1
    PROVE  done + 1 < l /\ n > done + 1
OBVIOUS

\* A call that goes over the resource sees all that it watches for.
LEMMA DueSeen ==
    ASSUME BaseInv, StillInv, Sweeping, NEW S \in Portions, Read(S),
           NEW i \in Item, NEW r \in Watched, <<i, r>> \in still,
           Phase.kind = i.kind, i \in Targets(S), Due(at, i, r)
    PROVE  Blamed'
<1>1. at \in DOMAIN walk /\ walk \in AllWalks /\ PhaseShape(Phase) /\ Peculiar(walk, at)
      /\ DOMAIN walk = 1..Len(walk) /\ Len(walk) \in 1..3
  BY WalkTypes, PhaseShapes, WalkShapes DEF Sweeping, BaseInv, Phase
<1>2. r \in Judged(i, Scope) /\ r # "warning"
  BY LastingNow DEF BaseInv
<1>3. CASE i.kind = "key"
  <2>1. walk = Walk06
    BY <1>1, <1>3 DEF Peculiar, Phase
  <2>2. at # 1
    <3>1. cursor.reads + 1 \in DOMAIN Phase.reads
      BY PortionTypes
    <3> QED
      BY <2>1, <3>1, Phases06, ListCustomerKeysRow DEF Row, Reads, Watched, Phase
  <2>3. at = 2
    BY <1>1, <1>3, <2>1, <2>2, Phases06, ListSecretsRow DEF Row, Phase
  <2>4. Phase.over = "keys" /\ ~Phase.members
    BY <2>1, <2>3, Phases06, EvaluateKeysRow DEF Row, Phase
  <2>5. TodoOf(Phase) = kept["keys"] /\ Known = kept["keys"]
    BY <2>1, <2>4, Phases06, Phases07, ListCustomerKeysRow, DescribeTrailsRow
       DEF TodoOf, Kinds, Known, Row
  <2>6. i \in Known
    BY <2>4, <2>5, PortionTypes DEF Targets
  <2>7. r \in Judged(i, Known)
    BY <1>2, <1>3, <2>6, JudgedKeys
  <2> QED
    BY <1>2, <2>7, Recorded
<1>4. CASE i.kind = "bucket"
  <2>1. walk = Walk07 /\ Claimed(i, r)
    BY <1>1, <1>4 DEF PhaseShape, Peculiar, Due, Phase
  <2>2. Known = kept["trails"]
    BY <2>1 DEF Known
  <2>3. r \in Judged(i, Known)
    BY <1>2, <1>4, <2>1, <2>2, JudgedBuckets DEF Claimed
  <2> QED
    BY <1>2, <2>3, Recorded
<1>5. CASE i.kind \notin {"key", "bucket"}
  <2>1. r \in Judged(i, Known)
    BY <1>2, <1>5, JudgedOthers
  <2> QED
    BY <1>2, <2>1, Recorded
<1> QED
  BY <1>3, <1>4, <1>5

\* After a call the phase is between resources, or at the next read of one.
LEMMA CursorMoves ==
    ASSUME BaseInv, Sweeping, NEW S \in Portions, Read(S)
    PROVE  \/ cursor.reads + 1 = Len(Phase.reads) /\ cursor'.item = Whole
           \/ cursor.reads + 1 < Len(Phase.reads) /\ todo' = todo
              /\ cursor'.item \in S /\ cursor'.reads = cursor.reads + 1
<1>1. CASE cursor' = Idle /\ cursor.reads + 1 = Len(Phase.reads)
  BY <1>1 DEF Idle
<1>2. CASE \E b \in S : cursor' = [item |-> b, reads |-> cursor.reads + 1]
  <2>1. PICK b \in S : cursor' = [item |-> b, reads |-> cursor.reads + 1]
    BY <1>2
  <2>2. cursor'.item \in S /\ cursor'.reads = cursor.reads + 1
    BY <2>1
  <2>3. cursor'.item # Whole
    BY <2>2, PortionTypes, WholeAssumption
  <2>4. cursor' # Idle
    BY <2>3 DEF Idle
  <2> QED
    BY <2>2, <2>4, ReadStep
<1> QED
  BY <1>1, <1>2, ReadStep

\* A flaw in the current phase is recorded, or its resource or read is still to come.
LEMMA DueRead ==
    ASSUME BaseInv, StillInv, Sweeping, NEW S \in Portions, Read(S), ~Blamed',
           NEW i \in Item, NEW r, <<i, r>> \in still,
           NEW k \in DOMAIN walk, walk[k].kind = i.kind, Due(k, i, r)
    PROVE  Due(k, i, r)'
<1> DEFINE a == Anchor(Phase, i)
<1>0. UNCHANGED <<account, walk, at, still>> /\ at \in DOMAIN walk /\ walk \in AllWalks
      /\ PhaseShape(Phase) /\ Peculiar(walk, at) /\ k = at /\ Phase = walk[k] /\ a \in todo
         /\ a \in Item
  BY ReadStep, WalkTypes, PhaseShapes, WalkShapes, PortionTypes DEF Sweeping, BaseInv, Due, Phase
<1>1. Phase.over = "trail_buckets" => Claimed(i, r)'
  <2> SUFFICES ASSUME Phase.over = "trail_buckets" PROVE Claimed(i, r)'
    OBVIOUS
  <2>1. walk = Walk07 /\ Claimed(i, r)
    BY <1>0 DEF Peculiar, Due, Phase
  <2> QED
    BY <2>1, TrailsStay, ClaimedStays
<1>2. PICK n \in DOMAIN Phase.reads : r \in Phase.reads[n] /\ (cursor.item = a
      => n > cursor.reads)
  BY <1>0 DEF Due
<1>3. n \in 1..Len(Phase.reads) /\ Len(Phase.reads) \in 1..4 /\ cursor.reads \in 0..3
  BY <1>0 DEF PhaseShape, BaseInv, TypeOK
<1>4. CASE a \in S
  <2>1. i \in Targets(S)
    <3>1. i \in OfKind[Phase.kind]
      BY <1>0, KindSets DEF PhaseShape
    <3> QED
      BY <1>4, <3>1 DEF Targets, Anchor
  <2>2. r \notin Watched
    BY <1>0, <2>1, DueSeen
  <2>3. n # cursor.reads + 1
    BY <1>2, <2>2 DEF Watched
  <2>4. n > cursor.reads
    <3>1. CASE cursor.reads = 0
      BY <1>3, <3>1
    <3>2. CASE cursor.reads > 0
      BY <1>2, <1>4, <3>2, PortionTypes
    <3> QED
      BY <1>3, <3>1, <3>2
  <2>5. cursor.reads + 1 < Len(Phase.reads) /\ n > cursor.reads + 1
    BY <1>3, <2>3, <2>4, LaterRead
  <2>6. todo' = todo /\ cursor'.reads = cursor.reads + 1
    <3>1. cursor.reads + 1 # Len(Phase.reads)
      BY <1>3, <2>5
    <3> QED
      BY <3>1, CursorMoves
  <2> QED
    BY <1>0, <1>1, <1>2, <2>5, <2>6 DEF Due
<1>5. CASE a \notin S
  <2>1. a \in todo'
    BY <1>0, <1>5, ReadStep
  <2>2. cursor'.item # a
    <3>1. a # Whole
      BY <1>0, WholeAssumption
    <3> QED
      BY <1>5, <3>1, CursorMoves
  <2> QED
    BY <1>0, <1>1, <1>2, <2>1, <2>2 DEF Due
<1> QED
  BY <1>4, <1>5

LEMMA FlawRead ==
    ASSUME BaseInv, StillInv, FlawInv, Sweeping, NEW S \in Portions, Read(S)
    PROVE  FlawInv'
<1>0. UNCHANGED <<walk, still>> /\ found \subseteq found'
  BY ReadStep
<1> SUFFICES ASSUME ~Blamed', NEW i \in Item, NEW r, <<i, r>> \in still
             PROVE  Awaited(i, r)'
  BY <1>0 DEF FlawInv
<1>1. ~Blamed
  BY <1>0, BlamedStays
<1>2. PICK k \in DOMAIN walk : /\ walk[k].kind = i.kind /\ Sight(walk[k], r)
                               /\ Ahead(k, i, r) \/ Due(k, i, r)
  BY <1>1 DEF FlawInv, Awaited
<1>3. Ahead(k, i, r)' \/ Due(k, i, r)'
  BY <1>2, AheadRead, DueRead
<1> QED
  BY <1>0, <1>2, <1>3 DEF Awaited, Sight

\* What a list that was read to its end has of what leads to i.
LEMMA ListKept ==
    ASSUME BaseInv, ListInv, NEW k \in DOMAIN walk, Lists(walk[k]), k < at \/ (k = at
           /\ todo = {}),
           NEW i \in Item, NEW r, <<i, r>> \in still, Root(i).kind = walk[k].kind
    PROVE  Root(i) \in kept[walk[k].name]
<1>1. k \in Nat /\ at \in Nat
  BY WalkTypes DEF BaseInv, TypeOK
<1>2. Listed(k, i)
  BY DEF ListInv
<1> QED
  BY <1>1, <1>2 DEF Listed

\* The list that phase k goes over has i, or what leads to it.
LEMMA DueAdvance ==
    ASSUME BaseInv, ListInv, Advance, NEW i \in Item, NEW r, <<i, r>> \in still,
           NEW k \in DOMAIN walk, walk[k].kind = i.kind, Sight(walk[k], r), Ahead(k, i, r),
           at' = k
    PROVE  Due(k, i, r)'
<1>0. /\ UNCHANGED <<walk, kept, still>> /\ todo = {} /\ at \in DOMAIN walk /\ cursor' = Idle
      /\ walk \in AllWalks /\ DOMAIN walk = 1..Len(walk) /\ Len(walk) \in 1..3 /\ at < k
      /\ PhaseShape(walk[k]) /\ Peculiar(walk, k) /\ Chained(walk, k)
      /\ todo' = TodoOf(walk[k])
  BY AdvanceStep, WalkTypes, PhaseShapes, WalkShapes DEF Advance, BaseInv, Ahead
<1>1. walk[k].over = "trail_buckets" => Claimed(i, r) /\ Claimed(i, r)'
  BY <1>0 DEF Ahead, Claimed, TrailBuckets, OfKind
<1>2. Anchor(walk[k], i) \in TodoOf(walk[k])
  <2>1. CASE walk[k].over \in Kinds
    <3>1. walk[k].over # "trail_buckets"
      BY <2>1 DEF Kinds
    <3> QED
      BY <1>0, <2>1, <3>1, AnchorThere DEF TodoOf
  <2>2. CASE walk[k].over = "trail_buckets"
    <3>1. ~walk[k].members
      BY <1>0, <2>2 DEF PhaseShape
    <3> QED
      BY <1>1, <2>2, <3>1 DEF Claimed, Anchor, TodoOf
  <2>3. CASE /\ k = 2 /\ walk[2].over = walk[1].name /\ walk[2].kind = walk[1].kind
             /\ ~walk[2].members /\ Lists(walk[1])
                /\ walk[k].over \notin Kinds \union {"trail_buckets"}
    <3>1. at = 1 /\ 1 \in DOMAIN walk
      BY <1>0, <2>3
    <3>2. i.kind # "access_key"
      <4>1. walk[1].kind \in Kinds /\ Peculiar(walk, 1)
        BY <1>0, <3>1, PhaseShapes, WalkShapes DEF PhaseShape
      <4> QED
        BY <2>3, <4>1 DEF Peculiar, Lists
    <3>3. Root(i) = i
      BY <1>0, <2>3, <3>2 DEF Root, Peculiar
    <3>4. i \in kept[walk[1].name]
      BY <1>0, <2>3, <3>1, <3>3, ListKept
    <3> QED
      BY <2>3, <3>4 DEF TodoOf, Anchor
  <2>4. CASE /\ k = 3 /\ walk = Walk05 /\ walk[3].over = walk[2].name /\ walk[3].members
             /\ walk[k].over \notin Kinds \union {"trail_buckets"}
    <3>1. at = 2
      <4>1. ~(at' = Len(walk) + 1)
        BY <1>0
      <4> QED
        BY <1>0, <2>4, <4>1 DEF Advance
    <3>2. Home[i] \in kept["posture"] /\ walk[2].name = "posture"
      BY <1>0, <2>4, <3>1, Phases05, DetectorPostureRow DEF Ahead, Row
    <3> QED
      BY <2>4, <3>2 DEF TodoOf, Anchor
  <2> QED
    BY <1>0, <2>1, <2>2, <2>3, <2>4 DEF Chained
<1>3. PICK n \in DOMAIN walk[k].reads : r \in walk[k].reads[n]
  BY DEF Sight
<1>4. n > cursor'.reads
  BY <1>0 DEF Idle, PhaseShape
<1> QED
  BY <1>0, <1>1, <1>2, <1>3, <1>4 DEF Due

LEMMA AheadAdvance ==
    ASSUME BaseInv, ListInv, Advance, NEW i \in Item, NEW r, <<i, r>> \in still,
           NEW k \in DOMAIN walk, walk[k].kind = i.kind, Ahead(k, i, r), at' < k
    PROVE  Ahead(k, i, r)'
<1>0. UNCHANGED <<walk, kept, still>> /\ todo = {} /\ at \in DOMAIN walk
      /\ DOMAIN walk = 1..Len(walk) /\ Len(walk) \in 1..3 /\ at < at'
      /\ at' \in 1..Len(walk) + 1
  BY AdvanceStep, WalkTypes DEF Advance, BaseInv
<1>1. walk[k].over = "trail_buckets" => Claimed(i, r)'
  BY <1>0 DEF Ahead, Claimed, TrailBuckets, OfKind
<1>2. ASSUME walk = Walk05, k = 3, at' = 2 PROVE Home[i] \in todo'
  <2>1. at = 1 /\ 1 \in DOMAIN walk
    BY <1>0, <1>2
  <2>2. /\ walk[1] = ListDetectorIds /\ walk[2] = DetectorPosture /\ 2 \in DOMAIN walk
        /\ walk[3] = FetchHighSeverityFindings
    BY <1>2, Phases05
  <2>3. /\ Lists(walk[1]) /\ walk[1].kind = "detector" /\ walk[1].name = "detectors"
        /\ walk[2].over = "detectors" /\ i.kind = "finding"
    BY <1>2, <2>2, ListDetectorIdsRow, DetectorPostureRow, FetchHighSeverityFindingsRow
       DEF Row, Lists
  <2>4. Root(i) = Home[i] /\ Home[i].kind = "detector"
    BY <2>3, HomeAssumption DEF Root
  <2>5. Home[i] \in kept["detectors"]
    BY <1>0, <2>1, <2>3, <2>4, ListKept
  <2>6. todo' = TodoOf(walk[2])
    BY <1>2, <2>2, AdvanceStep
  <2> QED
    BY <2>3, <2>5, <2>6 DEF TodoOf, Kinds
<1> QED
  BY <1>0, <1>1, <1>2 DEF Ahead

\* Lab 08 skips its other phases only where it found no VPC, hence nothing lasting.
LEMMA NothingSkipped ==
    ASSUME BaseInv, ListInv, Advance, NEW i \in Item, NEW r, <<i, r>> \in still,
           NEW k \in DOMAIN walk, walk[k].kind = i.kind, at < k
    PROVE  at' <= k
<1>0. todo = {} /\ at \in DOMAIN walk /\ walk \in AllWalks /\ DOMAIN walk = 1..Len(walk)
      /\ Len(walk) \in 1..3
  BY WalkTypes DEF Advance, BaseInv
<1> SUFFICES ASSUME at' # at + 1 PROVE FALSE
  BY <1>0
<1>1. walk = Walk08 /\ at = 1 /\ kept[walk[1].name] = {}
  BY <1>0, WalkShapes DEF Advance, Phase, Peculiar
<1>2. 1 \in DOMAIN walk /\ Lists(walk[1]) /\ walk[1].kind = "vpc"
  BY <1>1, Phases08, ListVpcsRow DEF Row, Lists
<1>3. i.kind \in {"vpc", "group"}
  BY <1>0, <1>1, Phases08, FlowLogsByResourceRow, ListSecurityGroupsRow DEF Row
<1>4. Root(i).kind = "vpc"
  BY <1>3, HomeAssumption DEF Root
<1> QED
  BY <1>0, <1>1, <1>2, <1>4, ListKept

LEMMA FlawAdvance ==
    ASSUME BaseInv, ListInv, FlawInv, Advance
    PROVE  FlawInv'
<1>0. UNCHANGED <<walk, still, found>> /\ todo = {} /\ at \in DOMAIN walk
  BY DEF Advance
<1> SUFFICES ASSUME ~Blamed, NEW i \in Item, NEW r, <<i, r>> \in still
             PROVE  Awaited(i, r)'
  BY <1>0 DEF FlawInv, Blamed
<1>1. PICK k \in DOMAIN walk : walk[k].kind = i.kind /\ Sight(walk[k], r) /\ Ahead(k, i, r)
  BY <1>0 DEF FlawInv, Awaited, Due
<1>2. at' <= k
  BY <1>1, NothingSkipped DEF Ahead
<1>3. at' \in Nat /\ k \in Nat
  BY AdvanceStep, WalkTypes DEF BaseInv
<1>4. Ahead(k, i, r)' \/ Due(k, i, r)'
  BY <1>1, <1>2, <1>3, DueAdvance, AheadAdvance
<1> QED
  BY <1>0, <1>1, <1>4 DEF Awaited, Sight

LEMMA FlawNext == BaseInv /\ StillInv /\ ListInv /\ FlawInv /\ [Next]_vars => FlawInv'
<1> SUFFICES ASSUME BaseInv, StillInv, ListInv, FlawInv, [Next]_vars PROVE FlawInv'
  OBVIOUS
<1>1. ASSUME UNCHANGED <<walk, at, todo, cursor, kept, found>>, still' \subseteq still
      PROVE  FlawInv'
  <2>1. \A i, r : Awaited(i, r)' = Awaited(i, r)
    BY <1>1 DEF Awaited, Ahead, Due, Claimed, Anchor, Sight, TrailBuckets, OfKind
  <2> QED
    BY <1>1, <2>1 DEF FlawInv, Blamed
<1>2. CASE Disturb
  BY <1>1, <1>2 DEF Disturb, position, results
<1>3. CASE UNCHANGED rest
  BY <1>1, <1>3 DEF rest
<1> QED
  BY <1>2, <1>3, Steps, FlawRead, FlawAdvance

-----------------------------------------------------------------------------
(* The verdicts.                                                           *)

LEMMA JudgementOf ==
    /\ walk = Walk01 => Judgement = Evaluate01
    /\ walk = Walk02 => Judgement = BuildEvidence02
    /\ walk = Walk03 => Judgement = BuildEvidence03
    /\ walk = Walk04 => Judgement = BuildEvidence04
    /\ walk = Walk05 => Judgement = BuildEvidence05
    /\ walk = Walk06 => Judgement = BuildEvidence06
    /\ walk = Walk07 => Judgement = BuildEvidence07
    /\ walk = Walk08 => Judgement = BuildEvidence08
    /\ walk = Walk09 => Judgement = BuildEvidence09
    /\ walk = Walk10 => Judgement = BuildEvidence10
BY WalksDiffer DEF Judgement

\* The flaws that a walk can see, but for warnings, are what its lab fails on.
LEMMA SightsFail ==
    ASSUME NEW w \in AllWalks, NEW k \in DOMAIN w, NEW r, Sight(w[k], r), r # "warning"
    PROVE
    /\ w = Walk01 => r \in {"mfa"}
    /\ w = Walk02 => r \in {"breached"}
    /\ w = Walk03 => r \in {"stale", "rotation"}
    /\ w = Walk04 => r \in {"drift"}
    /\ w = Walk05 => r \in {"disabled", "active"}
    /\ w = Walk06 => r \in {"rotation", "policy", "stale"}
    /\ w = Walk07 => r \in {"logging", "validation", "kms", "coverage"}
                           \union {"public_access", "encryption", "versioning", "lock"}
    /\ w = Walk08 => r \in {"flow_log", "ingress"}
    /\ w = Walk09 => r \in {"runbook", "subscribers"}
    /\ w = Walk10 => r \in Resources \union {"scan_on_push", "tags"}
<1>1. ASSUME w = Walk01
      PROVE  r \in {"mfa"}
  BY <1>1, Phases01, FetchUsersRow, FetchFactorsRow DEF Row, Reads, Sight
<1>2. ASSUME w = Walk02
      PROVE  r \in {"breached"}
  BY <1>2, Phases02, FetchOpenFindingsRow DEF Row, Reads, Sight
<1>3. ASSUME w = Walk03
      PROVE  r \in {"stale", "rotation"}
  BY <1>3, Phases03, DiscoverAccessKeysRow, DiscoverSecretsRow DEF Row, Reads, Sight
<1>4. ASSUME w = Walk04
      PROVE  r \in {"drift"}
  BY <1>4, Phases04, CheckRecordersRow, FetchConfigRulesRow, FetchRuleComplianceRow
     DEF Row, Reads, Sight
<1>5. ASSUME w = Walk05
      PROVE  r \in {"disabled", "active"}
  BY <1>5, Phases05, ListDetectorIdsRow, DetectorPostureRow, FetchHighSeverityFindingsRow
     DEF Row, Reads, Sight
<1>6. ASSUME w = Walk06
      PROVE  r \in {"rotation", "policy", "stale"}
  BY <1>6, Phases06, ListCustomerKeysRow, EvaluateKeysRow, ListSecretsRow DEF Row, Reads, Sight
<1>7. ASSUME w = Walk07
      PROVE  r \in {"logging", "validation", "kms", "coverage"}
                           \union {"public_access", "encryption", "versioning", "lock"}
  BY <1>7, Phases07, DescribeTrailsRow, TrailStatusRow, BucketPostureRow DEF Row, Reads, Sight
<1>8. ASSUME w = Walk08
      PROVE  r \in {"flow_log", "ingress"}
  BY <1>8, Phases08, ListVpcsRow, FlowLogsByResourceRow, ListSecurityGroupsRow
     DEF Row, Reads, Sight
<1>9. ASSUME w = Walk09
      PROVE  r \in {"runbook", "subscribers"}
  BY <1>9, Phases09, CheckRunbooksRow, CheckEscalationTopicRow DEF Row, Reads, Sight
<1>10. ASSUME w = Walk10
      PROVE  r \in Resources \union {"scan_on_push", "tags"}
  BY <1>10, Phases10, FetchInspectorAccountsRow, ListRepositoriesRow DEF Row, Reads, Sight
<1> QED
  BY <1>1, <1>2, <1>3, <1>4, <1>5, <1>6, <1>7, <1>8, <1>9, <1>10

\* With a flaw on record no lab answers PASS.
LEMMA BlamedFails ==
    ASSUME TypeOK, Blamed
    PROVE  Judgement # "PASS"
<1>0. walk \in AllWalks
  BY WalkTypes
<1>1. PICK x \in found : x[2] # "warning"
  BY DEF Blamed
<1>2. x[2] \in Sought
  BY DEF TypeOK
<1>3. PICK k \in DOMAIN walk : Sight(walk[k], x[2])
  BY <1>2 DEF Sought, Phases, Sight
<1>4. ASSUME NEW flaws, x[2] \in flaws PROVE FailOn(flaws) = "FAIL"
  BY <1>4 DEF FailOn
<1>5. CASE walk = Walk01
  BY <1>0, <1>1, <1>3, <1>4, <1>5, SightsFail, JudgementOf DEF Evaluate01
<1>6. CASE walk = Walk02
  BY <1>0, <1>1, <1>3, <1>4, <1>6, SightsFail, JudgementOf DEF BuildEvidence02
<1>7. CASE walk = Walk03
  BY <1>0, <1>1, <1>3, <1>4, <1>7, SightsFail, JudgementOf DEF BuildEvidence03
<1>8. CASE walk = Walk04
  BY <1>0, <1>1, <1>3, <1>4, <1>8, SightsFail, JudgementOf DEF BuildEvidence04
<1>9. CASE walk = Walk05
  BY <1>0, <1>1, <1>3, <1>4, <1>9, SightsFail, JudgementOf DEF BuildEvidence05
<1>10. CASE walk = Walk06
  BY <1>0, <1>1, <1>3, <1>4, <1>10, SightsFail, JudgementOf DEF BuildEvidence06
<1>11. CASE walk = Walk07
  BY <1>0, <1>1, <1>3, <1>4, <1>11, SightsFail, JudgementOf DEF BuildEvidence07
<1>12. CASE walk = Walk08
  BY <1>0, <1>1, <1>3, <1>4, <1>12, SightsFail, JudgementOf DEF BuildEvidence08
<1>13. CASE walk = Walk09
  BY <1>0, <1>1, <1>3, <1>4, <1>13, SightsFail, JudgementOf DEF BuildEvidence09
<1>14. CASE walk = Walk10
  BY <1>0, <1>1, <1>3, <1>4, <1>14, SightsFail, JudgementOf DEF BuildEvidence10
<1> QED
  BY <1>0, <1>5, <1>6, <1>7, <1>8, <1>9, <1>10, <1>11, <1>12, <1>13, <1>14 DEF AllWalks
\* Labs 06 and 08 may find that there is nothing to govern.
LEMMA DeniedOnly ==
    ASSUME walk \in AllWalks, Judgement = "NOT_APPLICABLE"
    PROVE  \/ walk = Walk06 /\ kept["keys"] = {} /\ kept["secrets"] = {}
           \/ walk = Walk08 /\ kept["vpcs"] = {}
BY JudgementOf
   DEF AllWalks, FailOn, Evaluate01, BuildEvidence02, BuildEvidence03, BuildEvidence04,
       BuildEvidence05, BuildEvidence06, BuildEvidence07, BuildEvidence08, BuildEvidence09,
       BuildEvidence10

\* Labs 06 and 08 find nothing to govern only where nothing lasting hangs on it.
LEMMA DeniedSafe ==
    ASSUME BaseInv, StillInv, ListInv, at = Len(walk) + 1, Judgement = "NOT_APPLICABLE",
           NEW i \in Item, NEW r
    PROVE  <<i, r>> \notin still
<1> SUFFICES ASSUME <<i, r>> \in still PROVE FALSE
  OBVIOUS
<1>1. walk \in AllWalks /\ i \in Swept /\ r \in Judged(i, Scope) /\ i.kind \in Kinds
      /\ walk \in Walks
  BY WalkTypes, LastingNow, ItemAssumption DEF BaseInv, TypeOK
<1>2. PICK j \in DOMAIN walk : i.kind \in {walk[j].kind, walk[j].over}
  BY <1>1, SweptItems
<1>3. CASE walk = Walk06 /\ kept["keys"] = {} /\ kept["secrets"] = {}
  <2>1. i.kind \in {"key", "secret"}
    BY <1>1, <1>2, <1>3, Phases06, ListCustomerKeysRow, EvaluateKeysRow, ListSecretsRow
       DEF Row, Kinds
  <2>2. Root(i) = i
    BY <2>1 DEF Root
  <2>3. /\ 1 \in DOMAIN walk /\ Lists(walk[1]) /\ walk[1].kind = "key" /\ kept[walk[1].name] = {}
        /\ 3 \in DOMAIN walk /\ Lists(walk[3]) /\ walk[3].kind = "secret"
           /\ kept[walk[3].name] = {}
        /\ at = 4
    BY <1>3, Phases06, ListCustomerKeysRow, ListSecretsRow DEF Row, Lists
  <2> QED
    BY <2>1, <2>2, <2>3, ListKept
<1>4. CASE walk = Walk08 /\ kept["vpcs"] = {}
  <2>1. i.kind \in {"vpc", "group"}
    BY <1>1, <1>2, <1>4, Phases08, ListVpcsRow, FlowLogsByResourceRow, ListSecurityGroupsRow
       DEF Row, Kinds
  <2>2. Root(i).kind = "vpc"
    BY <2>1, HomeAssumption DEF Root
  <2>3. /\ 1 \in DOMAIN walk /\ Lists(walk[1]) /\ walk[1].kind = "vpc" /\ kept[walk[1].name] = {}
        /\ at = 4
    BY <1>4, Phases08, ListVpcsRow DEF Row, Lists
  <2> QED
    BY <2>2, <2>3, ListKept
<1> QED
  BY <1>1, <1>3, <1>4, DeniedOnly

\* What the account as a whole lacks is not answered with PASS or NOT_APPLICABLE.
LEMMA WholeSafe ==
    ASSUME BaseInv, StillInv, AccountInv, at = Len(walk) + 1,
           Judgement \in {"PASS", "NOT_APPLICABLE"}, NEW n
    PROVE  <<Whole, n>> \notin still
<1> SUFFICES ASSUME <<Whole, n>> \in still PROVE FALSE
  OBVIOUS
<1>1. walk \in AllWalks /\ walk \in Walks /\ DOMAIN walk = 1..Len(walk) /\ Len(walk) \in 1..3
  BY WalkTypes DEF BaseInv, TypeOK
<1>2. CASE \E k \in DOMAIN walk : n = walk[k].name /\ Needed(walk[k])
  <2>1. PICK k \in DOMAIN walk : n = walk[k].name /\ Needed(walk[k])
    BY <1>2
  <2>2. kept[n] = {}
    BY <2>1 DEF AccountInv, NeedInv
  <2>3. walk[k].none # "CONFIG_ERROR"
    BY <1>1, <2>1, <2>2 DEF AccountInv, PassedInv
  <2>4. walk = Walk04 /\ k = 3
    BY <1>1, <2>1, <2>3, WalkShapes DEF Needed, Peculiar
  <2>5. n = "compliance"
    BY <2>1, <2>4, Phases04, FetchRuleComplianceRow DEF Row
  <2> QED
    BY <2>2, <2>4, <2>5, JudgementOf DEF BuildEvidence04
<1>3. CASE n = "coverage" /\ walk = Walk07
  <2>1. Blamed
    BY <1>1, <1>3 DEF AccountInv, CoverInv
  <2>2. Judgement # "PASS"
    BY <2>1, BlamedFails DEF BaseInv
  <2> QED
    BY <1>1, <1>3, <2>2, DeniedOnly, WalksDiffer
<1> QED
  BY <1>1, <1>2, <1>3, FlawsOfWhole DEF StillInv

\* At the end nothing is ahead: what is still there is on record.
LEMMA ItemSafe ==
    ASSUME BaseInv, FlawInv, at = Len(walk) + 1, Judgement = "PASS", NEW i \in Item, NEW r
    PROVE  <<i, r>> \notin still
<1>1. ~Blamed
  BY BlamedFails DEF BaseInv
<1>2. DOMAIN walk = 1..Len(walk) /\ Len(walk) \in 1..3
  BY WalkTypes DEF BaseInv
<1>3. ~Awaited(i, r)
  BY <1>2 DEF Awaited, Ahead, Due
<1> QED
  BY <1>1, <1>3 DEF FlawInv

LEMMA ConcludeSafe ==
    ASSUME BaseInv, StillInv, ListInv, AccountInv, FlawInv, Conclude,
           verdict' \in {"PASS", "NOT_APPLICABLE"}
    PROVE  still' = {}
<1>1. at = Len(walk) + 1 /\ Judgement \in {"PASS", "NOT_APPLICABLE"} /\ still' = still
  BY DEF Conclude, Answer, estate
<1>2. \A i \in Item : \A r : <<i, r>> \notin still
  BY <1>1, DeniedSafe, ItemSafe
<1>3. \A n : <<Whole, n>> \notin still
  BY <1>1, WholeSafe
<1>4. \A x \in still : x \in Flaws /\ walk \in Walks
  BY DEF StillInv, BaseInv, TypeOK
<1> QED
  BY <1>1, <1>2, <1>3, <1>4, FlawForms

-----------------------------------------------------------------------------
(* The invariant.                                                          *)

SweepInv == BaseInv /\ StillInv /\ ListInv /\ AccountInv /\ FlawInv

LEMMA SweepInvInit == Init => SweepInv
BY BaseInit, ListInit, AccountInit, FlawInit DEF SweepInv, StillInv, Init, Begin

LEMMA SweepInvNext == SweepInv /\ [Next]_vars => SweepInv'
BY BaseNext, StillNext, ListNext, AccountNext, FlawNext DEF SweepInv

LEMMA SweepInvAlways == Spec => []SweepInv
BY SweepInvInit, SweepInvNext, PTL DEF Spec

LEMMA LastingNext == SweepInv /\ LastingFlawFails /\ [Next]_vars => LastingFlawFails'
<1> SUFFICES ASSUME SweepInv, LastingFlawFails, [Next]_vars, verdict' \in {"PASS",
                    "NOT_APPLICABLE"}
             PROVE  still' = {}
  BY DEF LastingFlawFails
<1>1. CASE Disturb \/ (Sweeping /\ \E S \in Portions : Read(S))
  BY <1>1 DEF Disturb, Read, Sweeping
<1>2. CASE GiveUp \/ Fail
  BY <1>2 DEF GiveUp, Fail, Answer
<1>3. CASE Proceed
  BY <1>3 DEF Proceed, Sweeping, Answer
<1>4. CASE Conclude
  BY <1>4, ConcludeSafe DEF SweepInv
<1>5. CASE UNCHANGED vars
  BY <1>5 DEF vars, LastingFlawFails
<1> QED
  BY <1>1, <1>2, <1>3, <1>4, <1>5 DEF Next, Sweep

\* A flaw that is there from the first call of a sweep to its answer is never
\* answered with PASS or NOT_APPLICABLE, whatever changes of the account between
\* any two calls, and in whatever portions its lists arrive.
THEOREM LastingFlawsFail == Spec => []LastingFlawFails
<1>1. Init => LastingFlawFails
  BY DEF Init, Begin, LastingFlawFails
<1> QED
  BY <1>1, SweepInvAlways, LastingNext, PTL DEF Spec

-----------------------------------------------------------------------------
(* An account that does not change.                                        *)

\* It is as it was read: what is kept is there, what is on record is a flaw,
\* and no rule that complies was passed over.
QuietInv ==
    changes = 0 =>
        /\ still = Flaws
        /\ \A k \in DOMAIN walk : \A i \in kept[walk[k].name] : Live(i)
           /\ Kept(walk[k], account[i])
        /\ \A x \in found : x[2] # "warning" => x \in Flaws
        /\ walk = Walk04 =>
             \A i \in OfKind["rule"] : Live(i) /\ account[i].compliance = "COMPLIANT" =>
                 i \in kept["compliance"] \/ at < 3 \/ (at = 3 /\ i \in todo)

LEMMA QuietInit == Init => QuietInv
<1> SUFFICES ASSUME Init PROVE QuietInv
  OBVIOUS
<1>1. \A k \in DOMAIN walk : kept[walk[k].name] = {}
  BY DEF Init, Begin, Phases
<1>2. still = Flaws /\ found = {} /\ at = 1
  BY DEF Init, Begin
<1> QED
  BY <1>1, <1>2 DEF QuietInv

\* What a call puts on record is a flaw of the account as it is, as far as what
\* the phases before it kept is still so.
LEMMA SeenIsFlaw ==
    ASSUME BaseInv, Sweeping, NEW S \in Portions,
           \A k \in DOMAIN walk : \A i \in kept[walk[k].name] : Live(i)
           /\ Kept(walk[k], account[i]),
           NEW x \in InSight(S), x[2] # "warning"
    PROVE  x \in Flaws
<1>0. at \in DOMAIN walk /\ walk \in AllWalks /\ walk \in Walks /\ PhaseShape(Phase)
      /\ Peculiar(walk, at) /\ Coverage(walk, at)
  BY WalkTypes, PhaseShapes, WalkShapes DEF Sweeping, BaseInv, Phase, TypeOK
<1>1. CASE \E i \in Targets(S) : \E r \in Judged(i, Known) \intersect Watched : x = <<i, r>>
  <2>0. PICK i \in Targets(S) : \E r \in Judged(i, Known) \intersect Watched : x = <<i, r>>
    BY <1>1
  <2>1. PICK r \in Judged(i, Known) \intersect Watched : x = <<i, r>>
    BY <2>0
  <2>2. i \in Item /\ i.kind = Phase.kind /\ r # "warning"
    BY <1>0, <2>1, PortionTypes, KindSets DEF PhaseShape
  <2>3. i \in Swept
    BY <1>0, <2>2, SweptItems DEF Phase
  <2>4. CASE i.kind = "key"
    <3>1. walk = Walk06
      BY <1>0, <2>2, <2>4 DEF Peculiar, Phase
    <3>2. Known = kept["keys"] /\ 1 \in DOMAIN walk /\ walk[1].name = "keys"
          /\ walk[1].keeps = "governed"
      BY <3>1, Phases06, ListCustomerKeysRow, Phases07, DescribeTrailsRow DEF Known, Row
    <3>3. i \in Known
      BY <2>1, <2>2, <2>4, JudgedKeys
    <3>4. Live(i) /\ account[i].governed
      BY <3>2, <3>3 DEF Kept
    <3>5. i \in Scope
      BY <2>2, <2>4, <3>4, KindSets DEF Scope, GovernedKeys, Kinds
    <3>6. r \in Judged(i, Scope)
      BY <2>1, <2>2, <2>4, <3>5, JudgedKeys
    <3> QED
      BY <1>0, <2>1, <2>2, <2>3, <3>6, FlawsOfItems
  <2>5. CASE i.kind = "bucket"
    <3>1. walk = Walk07
      BY <1>0, <2>2, <2>5 DEF PhaseShape, Peculiar, Phase
    <3>2. Known = kept["trails"] /\ 1 \in DOMAIN walk /\ walk[1].name = "trails"
      BY <3>1, Phases07, DescribeTrailsRow DEF Known, Row
    <3>3. Known \intersect OfKind["trail"] \subseteq Scope
      BY <3>2 DEF Scope, LiveTrails
    <3>4. TrailBuckets(Known) \subseteq TrailBuckets(Scope)
      BY <3>3 DEF TrailBuckets
    <3>5. r \in Judged(i, Scope)
      BY <2>1, <2>2, <2>5, <3>4, JudgedBuckets
    <3> QED
      BY <1>0, <2>1, <2>2, <2>3, <3>5, FlawsOfItems
  <2>6. CASE i.kind \notin {"key", "bucket"}
    <3>1. r \in Judged(i, Scope)
      BY <2>1, <2>2, <2>6, JudgedOthers
    <3> QED
      BY <1>0, <2>1, <2>2, <2>3, <3>1, FlawsOfItems
  <2> QED
    BY <2>4, <2>5, <2>6
<1>2. CASE x = <<Whole, "coverage">> /\ "coverage" \in Watched /\ Uncovered
  <2>1. walk = Walk07
    BY <1>0, <1>2, PortionTypes DEF Coverage, Watched, Phase
  <2> QED
    BY <1>0, <1>2, <2>1, FlawsOfWhole
<1> QED
  BY <1>1, <1>2, InSightCases

LEMMA QuietRead ==
    ASSUME BaseInv, QuietInv, Sweeping, NEW S \in Portions, Read(S)
    PROVE  QuietInv'
<1>0. /\ UNCHANGED <<account, changes, walk, at, still>> /\ at \in DOMAIN walk
      /\ walk \in AllWalks /\ PhaseShape(Phase) /\ Peculiar(walk, at) /\ Chained(walk, at)
      /\ Flaws' = Flaws /\ OfKind' = OfKind
  BY ReadStep, SameFlaws, SameWalk, WalkTypes, PhaseShapes, WalkShapes
     DEF Sweeping, BaseInv, Phase
<1> SUFFICES ASSUME changes = 0
             PROVE
        /\ still = Flaws
        /\ \A k \in DOMAIN walk : \A i \in kept'[walk[k].name] : Live(i)
           /\ Kept(walk[k], account[i])
        /\ \A x \in found' : x[2] # "warning" => x \in Flaws
        /\ walk = Walk04 =>
             \A i \in OfKind["rule"] : Live(i) /\ account[i].compliance = "COMPLIANT" =>
                 i \in kept'["compliance"] \/ at < 3 \/ (at = 3 /\ i \in todo')
  BY <1>0 DEF QuietInv, Live
<1>1. \A k \in DOMAIN walk : \A i \in kept[walk[k].name] : Live(i) /\ Kept(walk[k], account[i])
  BY DEF QuietInv
<1>2. ASSUME NEW k \in DOMAIN walk, NEW i \in kept'[walk[k].name]
      PROVE  Live(i) /\ Kept(walk[k], account[i])
  <2>1. CASE k = at
    BY <1>1, <2>1, ReadStep DEF Newly, Phase
  <2>2. CASE k # at
    BY <1>1, <2>2, ReadStep
  <2> QED
    BY <2>1, <2>2
<1>3. Doubtful(S) = {}
  <2>1. CASE Phase.gone = "doubtful"
    <3>1. walk = Walk08 /\ at = 2
      BY <1>0, <2>1 DEF Peculiar, Phase
    <3>2. TodoOf(Phase) = kept["vpcs"] /\ 1 \in DOMAIN walk /\ walk[1].name = "vpcs"
      BY <3>1, Phases08, ListVpcsRow, FlowLogsByResourceRow DEF Row, TodoOf, Kinds, Phase
    <3>3. \A i \in S : Live(i)
      BY <1>1, <3>2, PortionTypes
    <3>4. Vanished(S) = {}
      BY <3>3 DEF Vanished
    <3> QED
      BY <3>4 DEF Doubtful
  <2>2. CASE Phase.gone # "doubtful"
    BY <2>2 DEF Doubtful
  <2> QED
    BY <2>1, <2>2
<1>4. ASSUME NEW x \in found', x[2] # "warning" PROVE x \in Flaws
  <2>1. x \in found \/ x \in InSight(S)
    BY <1>3, ReadStep
  <2> QED
    BY <1>1, <1>4, <2>1, SeenIsFlaw DEF QuietInv
<1>5. ASSUME walk = Walk04, NEW i \in OfKind["rule"], Live(i), account[i].compliance = "COMPLIANT"
      PROVE  i \in kept'["compliance"] \/ at < 3 \/ (at = 3 /\ i \in todo')
  <2>1. i \in kept["compliance"] \/ at < 3 \/ (at = 3 /\ i \in todo)
    BY <1>5 DEF QuietInv
  <2>2. 3 \in DOMAIN walk /\ walk[3].name = "compliance" /\ walk[3].keeps = "compliant"
        /\ ~walk[3].members
    BY <1>5, Phases04, FetchRuleComplianceRow DEF Row
  <2>3. CASE at # 3
    BY <2>1, <2>2, <2>3, ReadStep
  <2>4. CASE at = 3
    <3>1. i \in S => i \in Newly(S)
      BY <1>5, <2>2, <2>4 DEF Newly, Targets, Kept, Phase
    <3>2. kept'["compliance"] = kept["compliance"] \union Newly(S) /\ (todo' = todo
          \/ todo' = todo \ S)
      BY <2>2, <2>4, ReadStep DEF Phase
    <3> QED
      BY <2>1, <2>4, <3>1, <3>2
  <2> QED
    BY <2>3, <2>4
<1> QED
  BY <1>2, <1>4, <1>5 DEF QuietInv

LEMMA QuietAdvance ==
    ASSUME BaseInv, QuietInv, Advance
    PROVE  QuietInv'
<1>0. /\ UNCHANGED <<account, changes, walk, kept, found, still>> /\ todo = {}
         /\ at \in DOMAIN walk
      /\ walk \in AllWalks /\ Flaws' = Flaws /\ OfKind' = OfKind
  BY AdvanceStep, SameFlaws, SameWalk, WalkTypes DEF Advance, BaseInv
<1>1. ASSUME changes = 0, walk = Walk04, NEW i \in OfKind["rule"], Live(i),
             account[i].compliance = "COMPLIANT"
      PROVE  i \in kept["compliance"] \/ at' < 3 \/ (at' = 3 /\ i \in todo')
  <2>1. i \in kept["compliance"] \/ at < 3
    BY <1>0, <1>1 DEF QuietInv
  <2>2. /\ DOMAIN walk = 1..3 /\ walk[3].over = "rule"
        /\ walk[1].none # "conclude" /\ walk[2].none # "conclude" /\ walk[3].none # "conclude"
    BY <1>1, Phases04, CheckRecordersRow, FetchConfigRulesRow, FetchRuleComplianceRow DEF Row
  <2>3. at' = at + 1
    BY <1>0, <2>2 DEF Advance, Phase
  <2>4. at' = 3 => todo' = OfKind["rule"]
    BY <2>2, AdvanceStep DEF TodoOf, Kinds
  <2> QED
    BY <1>0, <1>1, <2>1, <2>2, <2>3, <2>4
<1> QED
  BY <1>0, <1>1 DEF QuietInv, Live

LEMMA QuietNext == BaseInv /\ QuietInv /\ [Next]_vars => QuietInv'
<1> SUFFICES ASSUME BaseInv, QuietInv, [Next]_vars PROVE QuietInv'
  OBVIOUS
<1>1. CASE Disturb
  <2>1. changes' = changes + 1 /\ changes \in Nat
    BY <1>1, ChangesAssumption DEF Disturb, Change, BaseInv, TypeOK
  <2> QED
    BY <2>1 DEF QuietInv
<1>2. CASE UNCHANGED rest
  <2>1. UNCHANGED <<account, changes, walk, at, todo, kept, found, still>>
    BY <1>2 DEF rest
  <2>2. Flaws' = Flaws /\ OfKind' = OfKind
    BY <2>1, SameFlaws, SameWalk
  <2> QED
    BY <2>1, <2>2 DEF QuietInv, Live
<1> QED
  BY <1>1, <1>2, Steps, QuietRead, QuietAdvance

\* FAIL has a flaw on record, or, in lab 04, no rule that complies.
LEMMA FailMeans ==
    ASSUME walk \in AllWalks, Judgement = "FAIL"
    PROVE  Blamed \/ (walk = Walk04 /\ kept["compliance"] = {})
<1>1. ASSUME NEW flaws, "warning" \notin flaws, FailOn(flaws) = "FAIL" PROVE Blamed
  BY <1>1 DEF FailOn, Blamed
<1> QED
  BY <1>1, JudgementOf
     DEF AllWalks, Resources, Evaluate01, BuildEvidence02, BuildEvidence03, BuildEvidence04,
         BuildEvidence05, BuildEvidence06, BuildEvidence07, BuildEvidence08, BuildEvidence09,
         BuildEvidence10

LEMMA ConcludeExact ==
    ASSUME SweepInv, QuietInv, Conclude, changes = 0
    PROVE  verdict' = "FAIL" <=> Flaws # {}
<1>1. /\ at = Len(walk) + 1 /\ verdict' = Judgement /\ still' = still /\ still = Flaws
      /\ walk \in AllWalks /\ walk \in Walks
  BY WalkTypes DEF Conclude, Answer, estate, QuietInv, SweepInv, BaseInv, TypeOK
<1>2. Judgement \in {"PASS", "FAIL", "NOT_APPLICABLE"}
  BY <1>1, Judgements
<1>3. ASSUME Flaws # {} PROVE Judgement = "FAIL"
  BY <1>1, <1>2, <1>3, ConcludeSafe DEF SweepInv
<1>4. ASSUME Judgement = "FAIL" PROVE Flaws # {}
  <2>1. CASE Blamed
    BY <2>1 DEF Blamed, QuietInv
  <2>2. CASE walk = Walk04 /\ kept["compliance"] = {}
    <3>1. /\ 3 \in DOMAIN walk /\ walk[3].name = "compliance" /\ walk[3].keeps = "compliant"
          /\ walk[3].kind = "rule" /\ at = 4
      BY <1>1, <2>2, Phases04, FetchRuleComplianceRow DEF Row
    <3>2. Needed(walk[3]) /\ Lacks(walk[3])
      BY <2>2, <3>1 DEF Needed, Lacks, Kept, QuietInv
    <3> QED
      BY <1>1, <3>1, <3>2, FlawsOfWhole
  <2> QED
    BY <1>1, <1>4, <2>1, <2>2, FailMeans
<1> QED
  BY <1>1, <1>3, <1>4

LEMMA QuietExactNext == SweepInv /\ QuietInv /\ QuietSweepIsExact /\ [Next]_vars
=> QuietSweepIsExact'
<1> SUFFICES ASSUME SweepInv, QuietInv, QuietSweepIsExact, [Next]_vars, changes' = 0,
                    verdict' \in {"PASS", "FAIL", "NOT_APPLICABLE"}
             PROVE  verdict' = "FAIL" <=> Flaws' # {}
  BY DEF QuietSweepIsExact
<1>1. CASE Disturb \/ (Sweeping /\ \E S \in Portions : Read(S))
  BY <1>1 DEF Disturb, Read, Sweeping
<1>2. CASE GiveUp \/ Fail
  BY <1>2 DEF GiveUp, Fail, Answer
<1>3. CASE Proceed
  BY <1>3 DEF Proceed, Sweeping, Answer
<1>4. CASE Conclude
  <2>1. account' = account /\ walk' = walk /\ changes' = changes
    BY <1>4 DEF Conclude, Answer, estate
  <2> QED
    BY <1>4, <2>1, ConcludeExact, SameFlaws
<1>5. CASE UNCHANGED vars
  <2>1. account' = account /\ walk' = walk /\ changes' = changes /\ verdict' = verdict
    BY <1>5 DEF vars
  <2> QED
    BY <2>1, SameFlaws DEF QuietSweepIsExact
<1> QED
  BY <1>1, <1>2, <1>3, <1>4, <1>5 DEF Next, Sweep

\* Over an account that does not change during the sweep, the sweep answers FAIL
\* exactly where the account has a flaw when it begins.
THEOREM QuietSweepsAreExact == Spec => []QuietSweepIsExact
<1>1. Init => QuietSweepIsExact
  BY DEF Init, Begin, QuietSweepIsExact
<1> QED
  BY <1>1, QuietInit, QuietNext, SweepInvAlways, QuietExactNext, PTL DEF Spec, SweepInv
=============================================================================
