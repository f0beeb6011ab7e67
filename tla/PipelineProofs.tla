--------------------------- MODULE PipelineProofs ---------------------------
(***************************************************************************)
(* Theorems about the stages together (Pipeline) and about the log and its *)
(* filters inside the collection stage (StraceLog).  Where Pipeline's      *)
(* Distil says that a list has all the build opened, the second half of    *)
(* this module says what the filters get out of the log of a build.        *)
(*                                                                         *)
(* That a pass is whole needs an invariant of what each stage has done     *)
(* for the entries its loop has visited, kept by every stage that may run  *)
(* after it, and one fact about folders: when the listings of two folders  *)
(* have the same names, the files at equal positions have the same name.   *)
(***************************************************************************)
EXTENDS Pipeline, StraceLog, FiniteSetTheorems, TLAPS

-----------------------------------------------------------------------------
(* Positions in sorted listings. *)

\* Among any names there is one that sorts first.
LEMMA FirstName ==
  ASSUME NEW S \in SUBSET Name, S # {}
  PROVE  \E p \in S : \A q \in S : Rank[p] <= Rank[q]
<1> DEFINE Ranks == {Rank[p] : p \in S}
           Less  == OpToRel(<, Nat)
<1>1. Ranks \subseteq Nat /\ Ranks # {}
  BY PipelineAssumption
<1>2. IsWellFoundedOn(Less, Nat)
  BY NatLessThanWellFounded
<1>3. \A m, n \in Nat : m < n => <<m, n>> \in Less
  BY DEF OpToRel
<1> HIDE DEF Ranks, Less
<1>4. PICK m \in Ranks : \A n \in Ranks : ~(<<n, m>> \in Less)
  BY <1>1, <1>2, WFMin
<1>5. ASSUME NEW n \in Ranks PROVE m <= n
  <2>1. m \in Nat /\ n \in Nat BY <1>1
  <2>2. ~(n < m) BY <2>1, <1>3, <1>4
  <2> QED BY <2>1, <2>2
<1> QED BY <1>5 DEF Ranks

LEMMA CurInTodo ==
  ASSUME TypeOK, todo # {}
  PROVE  Cur \in todo
<1>1. \E p \in todo : \A q \in todo : Rank[p] <= Rank[q]
  BY FirstName DEF TypeOK
<1> QED BY <1>1 DEF Cur

\* The names of a folder in front of a name.
Before(S, p) == {q \in S : Rank[q] < Rank[p]}

LEMMA BeforeFinite ==
  ASSUME NEW S \in SUBSET Name, NEW p \in Name
  PROVE  IsFiniteSet(Before(S, p))
<1> DEFINE B == Before(S, p)
           T == 0..Rank[p]
           f == [q \in B |-> Rank[q]]
<1>1. Rank \in [Name -> Nat] /\ \A q, r \in Name : Rank[q] = Rank[r] => q = r
  BY PipelineAssumption
<1>2. IsFiniteSet(T)
  BY <1>1, FS_Interval
<1>3. B \subseteq Name /\ \A q \in B : Rank[q] \in T
  BY <1>1 DEF Before
<1>4. f \in Injection(B, T)
  BY <1>1, <1>3 DEF Injection, IsInjective
<1> HIDE DEF B, T, f
<1>5. IsFiniteSet(B)
  BY <1>2, <1>4, FS_Injection
<1> QED BY <1>5 DEF B

\* Equal positions in one listing are one name.
LEMMA SamePosition ==
  ASSUME NEW S \in SUBSET Name, NEW p \in S, NEW q \in S,
         Cardinality(Before(S, p)) = Cardinality(Before(S, q))
  PROVE  p = q
<1>1. Rank \in [Name -> Nat] /\ \A r, s \in Name : Rank[r] = Rank[s] => r = s
  BY PipelineAssumption
<1>2. ASSUME NEW r \in S, NEW s \in S, Rank[r] < Rank[s],
             Cardinality(Before(S, r)) = Cardinality(Before(S, s))
      PROVE  FALSE
  <2>1. Before(S, r) \in SUBSET Before(S, s)
    BY <1>1, <1>2 DEF Before
  <2>2. r \in Before(S, s) /\ r \notin Before(S, r)
    BY <1>1, <1>2 DEF Before
  <2>3. IsFiniteSet(Before(S, s))
    BY BeforeFinite
  <2>4. Before(S, s) = Before(S, r)
    BY <1>2, <2>1, <2>3, FS_Subset
  <2> QED BY <2>2, <2>4
<1>3. Rank[p] = Rank[q] \/ Rank[p] < Rank[q] \/ Rank[q] < Rank[p]
  BY <1>1
<1> QED BY <1>1, <1>2, <1>3

\* A folder that has one file for each name of S, sorted like the names, has
\* p's file at p's position.
LEMMA Aligned ==
  ASSUME NEW S \in SUBSET Name, NEW p \in S, NEW key,
         \A q, r \in S : key[q] < key[r] <=> Rank[q] < Rank[r]
  PROVE  At({[name |-> q, key |-> key[q]] : q \in S},
            Cardinality(Before(S, p))) = {p}
<1> DEFINE file(q) == [name |-> q, key |-> key[q]]
           files == {file(q) : q \in S}
           Ahead(g) == {h \in files : h.key < g.key}
<1>1. ASSUME NEW q \in S
      PROVE  Cardinality(Ahead(file(q))) = Cardinality(Before(S, q))
  <2> DEFINE B == Before(S, q)
             f == [r \in B |-> file(r)]
             H == Ahead(file(q))
  <2>1. H = {file(r) : r \in B}
    <3>1. ASSUME NEW r \in S
          PROVE  file(r).key < file(q).key <=> Rank[r] < Rank[q]
      OBVIOUS
    <3> QED BY <3>1 DEF Before
  <2>2. \A r, s \in B : file(r) = file(s) => r = s
    OBVIOUS
  <2>3. IsFiniteSet(B)
    BY BeforeFinite
  <2> HIDE DEF B, H, file
  <2>4. f \in Bijection(B, H)
    BY <2>1, <2>2 DEF Bijection, Injection, Surjection, IsInjective
  <2> HIDE DEF f
  <2>5. Cardinality(H) = Cardinality(B)
    BY <2>3, <2>4, FS_Bijection DEF ExistsBijection
  <2> QED BY <2>5 DEF B, H
<1>2. ASSUME NEW q \in S
      PROVE  Cardinality(Ahead(file(q))) = Cardinality(Before(S, p)) <=> q = p
  BY <1>1, SamePosition
<1> HIDE DEF file
<1>3. {g \in files : Cardinality(Ahead(g)) = Cardinality(Before(S, p))}
        = {file(p)}
  BY <1>2
<1>4. file(p).name = p
  BY DEF file
<1>5. At(files, Cardinality(Before(S, p))) =
        {h.name : h \in {g \in files :
                          Cardinality(Ahead(g)) = Cardinality(Before(S, p))}}
  BY DEF At
<1> HIDE DEF files, Ahead
<1>6. At(files, Cardinality(Before(S, p))) = {p}
  BY <1>3, <1>4, <1>5
<1> QED BY <1>6 DEF files, file

-----------------------------------------------------------------------------
(* The invariant. *)

\* A loop has visited part of what it goes through, and half way through an
\* iteration the file or folder of the entry in hand is there.
LoopInv ==
  /\ stage = "idle" => todo = {} /\ ~half
  /\ stage # "sbom" => absolute
  /\ stage # "idle" => todo \subseteq Visits(stage)
  /\ half =>
       /\ stage \in {"sbom", "collect", "bins", "combine"} /\ todo # {}
       /\ stage = "collect" => Cur \in bins
       /\ stage = "bins" => Cur \in binLists
       /\ stage = "combine" => Cur \in outs

\* Nothing is linked that was not built.
FileInv == linked \subseteq built

\* A pass is not counted further than the stages started.
PassInv ==
  /\ passed > 0 /\ stage # "idle" => InOrder(stage)
  /\ passed <= starts /\ (stage # "idle" => passed < starts)

\* What each of the first three stages has done for the names D.
Collected(D) == D \subseteq lists \cap opened \cap bins /\ D \cap logs = {}
Listed(D)    == D \subseteq binLists /\ D \cap built \subseteq linked

SweepInv ==
  /\ stage = "sbom"    => present \ todo \subseteq Tested
  /\ stage = "collect" => Collected(Glob(present) \ todo)
  /\ stage = "bins"    => Listed(Glob(bins) \ todo)
  /\ passed >= 1 => present \subseteq sboms
  /\ passed >= 2 => Collected(Glob(present))
  /\ passed >= 3 => Listed(Glob(bins))

\* The combine stage, over folders without files of projects that are gone.
Combined(D) == \A p \in D : p \in outs /\ holds[p] = Evidence(p)
Inputs      == sboms \cup lists \cup logs \cup bins \cup binLists

CombineInv ==
  Inputs \subseteq present =>
    /\ passed = 3 /\ stage = "combine" => Combined(sboms \ todo)
    /\ passed > 3 => Combined(sboms)

\* The batch, if the combine folder has none of these either, and every project
\* has a go.mod.
BatchInv ==
  /\ stage = "newsboms" =>
       dirs \ todo \subseteq described /\ described \subseteq present
  /\ passed = 5 /\ Inputs \cup dirs \subseteq present /\ modules = present =>
       described = present

\* A first pass, in order from the start, has made all the files there are.
First ==
  IF stage = "idle" THEN starts = passed
                    ELSE starts = passed + 1 /\ InOrder(stage)

Made == lists \cup logs \cup bins \cup binLists \cup dirs

FirstInv ==
  First =>
    /\ sboms \subseteq present
    /\ starts = 0 \/ ~absolute => sboms = {}
    /\ Made \subseteq IF passed = 0 THEN {} ELSE Glob(present)

Sweeps == SweepInv /\ CombineInv /\ BatchInv /\ FirstInv
Inv    == TypeOK /\ LoopInv /\ FileInv /\ PassInv /\ Sweeps

-----------------------------------------------------------------------------
LEMMA StageNames ==
  /\ Stage = {"sbom", "collect", "bins", "combine", "newsboms"}
  /\ "idle" \notin Stage
<1>1. 1..5 = {1, 2, 3, 4, 5} OBVIOUS
<1> QED BY <1>1 DEF Stage, Order

LEMMA PassOrder ==
  ASSUME passed \in 0..5
  PROVE  \A s : InOrder(s) <=> \/ passed = 0 /\ s = "sbom"
                               \/ passed = 1 /\ s = "collect"
                               \/ passed = 2 /\ s = "bins"
                               \/ passed = 3 /\ s = "combine"
                               \/ passed = 4 /\ s = "newsboms"
<1>1. passed \in {0, 1, 2, 3, 4, 5} OBVIOUS
<1> QED BY <1>1 DEF InOrder, Order

LEMMA VisitsNames ==
  ASSUME TypeOK, NEW s \in Stage PROVE Visits(s) \subseteq Name
BY StageNames DEF TypeOK, Visits, Glob, Name

\* When a script is over, a pass goes on or is given up.
LEMMA ExitPasses ==
  ASSUME TypeOK, Exit
  PROVE  /\ stage' = "idle" /\ todo' = {} /\ half' = FALSE /\ passed' \in 0..5
         /\ absolute' /\ absolute' \in BOOLEAN
         /\ \/ passed' = 0
            \/ passed = 0 /\ stage = "sbom"     /\ passed' = 1 /\ absolute
            \/ passed = 1 /\ stage = "collect"  /\ passed' = 2
            \/ passed = 2 /\ stage = "bins"     /\ passed' = 3
            \/ passed = 3 /\ stage = "combine"  /\ passed' = 4
            \/ passed = 4 /\ stage = "newsboms" /\ passed' = 5
BY PassOrder DEF Exit, TypeOK

\* What a start chooses, and what follows of a pass that goes on.
LEMMA StartType ==
  ASSUME Start
  PROVE  /\ stage' \in Stage /\ absolute' \in BOOLEAN
         /\ stage' # "sbom" => absolute' = TRUE
<1>1. stage' \in Stage BY DEF Start
<1>2. absolute' \in IF stage' = "sbom" THEN BOOLEAN ELSE {TRUE} BY DEF Start
<1>3. CASE stage' = "sbom"
  <2>1. absolute' \in BOOLEAN BY ONLY <1>2, <1>3
  <2> QED BY <1>1, <1>3, <2>1
<1>4. CASE stage' # "sbom"
  <2>1. absolute' = TRUE BY ONLY <1>2, <1>4
  <2> QED BY <1>1, <2>1
<1> QED BY <1>3, <1>4

LEMMA InitInv == Init => Inv
<1> SUFFICES ASSUME Init PROVE Inv OBVIOUS
<1> USE DEF Init
<1>1. TypeOK
  <2>1. /\ lang \in {"go", "rust"} /\ absolute \in BOOLEAN /\ half \in BOOLEAN
        /\ stage \in Stage \cup {"idle"} /\ modules \subseteq present
    OBVIOUS
  <2>2. /\ holds \in [Project -> SUBSET Kind]
        /\ passed \in 0..5 /\ starts \in 0..MaxStarts
    BY PipelineAssumption
  <2> QED BY <2>1, <2>2 DEF TypeOK
<1>2. LoopInv /\ FileInv /\ PassInv BY DEF LoopInv, FileInv, PassInv
<1>3. Sweeps
  BY DEF Sweeps, SweepInv, CombineInv, BatchInv, FirstInv, First, Inputs,
         Made
<1> QED BY <1>1, <1>2, <1>3 DEF Inv

-----------------------------------------------------------------------------
(* Types. *)

LEMMA TypeStep == TypeOK /\ LoopInv /\ FileInv /\ [Next]_vars => TypeOK'
<1> SUFFICES ASSUME TypeOK, LoopInv, FileInv, [Next]_vars PROVE TypeOK'
  OBVIOUS
<1> USE DEF env, loop, sfiles, cfiles, bfiles, ofiles
<1>1. CASE Start
  <2>1. stage' \in Stage /\ absolute' \in BOOLEAN
    BY <1>1, StartType
  <2>2. Visits(stage') \subseteq Name
    BY <2>1, VisitsNames
  <2> QED BY <1>1, <2>1, <2>2, PipelineAssumption DEF Start, TypeOK
<1>2. CASE Finish
  BY <1>2, ExitPasses DEF Finish, Exit, TypeOK
<1>3. CASE Describe
  <2>1. Cur \in todo /\ todo \subseteq present
    BY <1>3, CurInTodo, StageNames DEF Describe, Begin, LoopInv, Visits
  <2>2. /\ sboms' \subseteq Project /\ inner' \subseteq present
        /\ UNCHANGED <<present, modules>>
    BY <1>3, <2>1 DEF Describe, Tested, TypeOK
  <2> QED BY <1>3, <2>1, <2>2 DEF Describe, Begin, TypeOK
<1>4. CASE Decide
  <2>1. /\ present' \subseteq Project
        /\ modules' \subseteq present' /\ inner' \subseteq present'
    BY <1>4 DEF Decide, TypeOK
  <2> QED BY <1>4, <2>1 DEF Decide, End, TypeOK
<1>5. CASE Collect
  <2>1. Cur \in Name
    BY <1>5, CurInTodo DEF Collect, Begin, TypeOK
  <2> QED BY <1>5, <2>1 DEF Collect, Begin, TypeOK
<1>6. CASE Distil
  <2>1. Cur \in Name /\ Cur \in bins
    BY <1>6, CurInTodo DEF Distil, End, TypeOK, LoopInv
  <2> QED BY <1>6, <2>1 DEF Distil, End, TypeOK
<1>7. CASE Touch
  <2>1. Cur \in Name
    BY <1>7, CurInTodo DEF Touch, Begin, TypeOK
  <2> QED BY <1>7, <2>1 DEF Touch, Begin, TypeOK
<1>8. CASE AppendLinked
  <2>1. Cur \in binLists
    BY <1>8 DEF AppendLinked, End, LoopInv
  <2> QED BY <1>8, <2>1 DEF AppendLinked, End, TypeOK
<1>9. CASE Pair
  <2>1. Cur \in sboms
    BY <1>9, CurInTodo, StageNames DEF Pair, LoopInv, Visits
  <2>2. dirs' = dirs \cup {Cur} /\ dirs' \subseteq Project
    BY <1>9, <2>1 DEF Pair, TypeOK
  <2>3. outs' \in {outs, outs \cup {Cur}} /\ holds' \in [Project -> SUBSET Kind]
    BY <1>9, <2>1 DEF Pair, TypeOK
  <2>4. /\ stage' \in Stage \cup {"idle"} /\ todo' \subseteq Name
        /\ half' \in BOOLEAN /\ passed' \in 0..5
    BY <1>9, ExitPasses DEF Pair, TypeOK
  <2> QED BY <1>9, <2>2, <2>3, <2>4 DEF Pair, Exit, TypeOK
<1>10. CASE Unite
  <2>1. holds' \in [Project -> SUBSET Kind]
    BY <1>10 DEF Unite, TypeOK, Kind
  <2> QED BY <1>10, <2>1 DEF Unite, End, TypeOK
<1>11. CASE NewSbom
  <2>1. described' \subseteq Project
    BY <1>11 DEF NewSbom, TypeOK
  <2>2. /\ stage' \in Stage \cup {"idle"} /\ todo' \subseteq Name
        /\ half' \in BOOLEAN /\ passed' \in 0..5
    BY <1>11, ExitPasses DEF NewSbom, TypeOK
  <2> QED BY <1>11, <2>1, <2>2 DEF NewSbom, Exit, TypeOK
<1>12. CASE Kill
  <2>1. half => Cur \in Name
    BY CurInTodo DEF TypeOK, LoopInv
  <2>2. lists' \subseteq Name /\ opened' \subseteq lists'
    BY <1>12, <2>1 DEF Kill, TypeOK
  <2>3. half' \in BOOLEAN
    BY <1>12 DEF Kill
  <2>4. /\ stage' \in Stage \cup {"idle"} /\ todo' \subseteq Name
        /\ passed' \in 0..5
    BY <1>12 DEF Kill
  <2>5. /\ UNCHANGED <<lang, present, sboms, logs, bins, built, bfiles, ofiles,
                       described, starts>>
        /\ absolute' = TRUE
    BY <1>12 DEF Kill
  <2>6. modules' \subseteq present /\ inner' \subseteq present
    BY <1>12 DEF Kill, TypeOK
  <2> QED BY <2>2, <2>3, <2>4, <2>5, <2>6 DEF TypeOK
<1>13. CASE Clone
  BY <1>13 DEF Clone, TypeOK
<1>14. CASE UNCHANGED vars
  BY <1>14 DEF vars, TypeOK
<1> QED
  BY <1>1, <1>2, <1>3, <1>4, <1>5, <1>6, <1>7, <1>8, <1>9, <1>10, <1>11, <1>12,
     <1>13, <1>14 DEF Next

-----------------------------------------------------------------------------
(* The loops. *)

LEMMA LoopStep == TypeOK /\ LoopInv /\ [Next]_vars => LoopInv'
<1> SUFFICES ASSUME TypeOK, LoopInv, [Next]_vars PROVE LoopInv'
  OBVIOUS
<1> USE StageNames DEF env, loop, sfiles, cfiles, bfiles, ofiles
<1>1. CASE Start
  <2>1. /\ stage' \in Stage /\ half' = FALSE /\ todo' = Visits(stage')
        /\ stage' # "sbom" => absolute' = TRUE
    BY <1>1, StartType DEF Start, LoopInv, TypeOK
  <2>2. ASSUME NEW s PROVE Visits(s)' = Visits(s)
    BY <1>1 DEF Start, Visits
  <2>3. todo' = Visits(stage)'
    BY <2>1, <2>2
  <2> QED BY <2>1, <2>3 DEF LoopInv
<1>2. ASSUME stage' = "idle", todo' = {}, half' = FALSE, absolute' = TRUE
      PROVE  LoopInv'
  BY <1>2 DEF LoopInv
<1>3. CASE Describe \/ Collect \/ Touch
  <2>1. /\ stage' = stage /\ todo' = todo /\ half' = TRUE /\ todo # {}
        /\ Cur' = Cur /\ absolute' = absolute
    BY <1>3 DEF Describe, Collect, Touch, Begin, Cur
  <2>2. stage \in {"sbom", "collect", "bins"} /\ Visits(stage)' = Visits(stage)
    BY <1>3 DEF Describe, Collect, Touch, Begin, Visits
  <2>3. /\ stage = "collect" => Cur \in bins'
        /\ stage = "bins" => Cur \in binLists'
    BY <1>3 DEF Describe, Collect, Touch, Begin
  <2> QED BY <2>1, <2>2, <2>3 DEF LoopInv
<1>4. CASE Decide \/ Distil \/ AppendLinked \/ Unite
  <2>1. /\ stage' = stage /\ half' = FALSE /\ todo' = todo \ {Cur}
        /\ absolute' = absolute
    BY <1>4 DEF Decide, Distil, AppendLinked, Unite, End
  <2>2. stage \in Stage /\ Visits(stage) \ {Cur} \subseteq Visits(stage)'
    BY <1>4 DEF Decide, Distil, AppendLinked, Unite, End, Visits, Glob
  <2>3. todo' \subseteq Visits(stage)'
    BY <2>1, <2>2 DEF LoopInv
  <2> QED BY <2>1, <2>2, <2>3 DEF LoopInv
<1>5. CASE Pair
  <2>1. CASE stage' = stage
    <3>1. /\ todo' = todo /\ half' = TRUE /\ stage = "combine" /\ todo # {}
          /\ absolute' = absolute
          /\ Cur' = Cur /\ Cur \in outs' /\ Visits(stage)' = Visits(stage)
      BY <1>5, <2>1 DEF Pair, Exit, Cur, Visits
    <3> QED BY <2>1, <3>1 DEF LoopInv
  <2>2. CASE stage' # stage
    BY <1>2, <1>5, <2>2 DEF Pair, Exit
  <2> QED BY <2>1, <2>2
<1>6. CASE NewSbom
  <2>1. CASE stage' = stage
    <3>1. /\ todo' \subseteq todo /\ half' = half /\ stage = "newsboms"
          /\ absolute' = absolute
          /\ Visits(stage)' = Visits(stage)
      BY <1>6, <2>1 DEF NewSbom, Exit, Visits
    <3> QED BY <2>1, <3>1 DEF LoopInv
  <2>2. CASE stage' # stage
    BY <1>2, <1>6, <2>2 DEF NewSbom, Exit
  <2> QED BY <2>1, <2>2
<1>7. CASE Finish \/ Kill
  BY <1>2, <1>7 DEF Finish, Exit, Kill
<1>8. CASE Clone
  BY <1>8 DEF Clone, LoopInv
<1>9. CASE UNCHANGED vars
  <2>1. Cur' = Cur /\ Visits(stage)' = Visits(stage)
    BY <1>9 DEF vars, Cur, Visits
  <2> QED BY <1>9, <2>1 DEF vars, LoopInv
<1> QED BY <1>1, <1>3, <1>4, <1>5, <1>6, <1>7, <1>8, <1>9 DEF Next

LEMMA FileStep == TypeOK /\ LoopInv /\ FileInv /\ [Next]_vars => FileInv'
<1> SUFFICES ASSUME TypeOK, LoopInv, FileInv, [Next]_vars PROVE FileInv'
  OBVIOUS
<1> USE DEF env, loop, sfiles, cfiles, bfiles, ofiles
<1>1. CASE Distil
  BY <1>1 DEF Distil, FileInv
<1>2. CASE AppendLinked
  BY <1>2 DEF AppendLinked, FileInv
<1>3. ASSUME UNCHANGED <<built, linked>> PROVE FileInv'
  BY <1>3 DEF FileInv
<1>4. CASE Start \/ Finish \/ Describe \/ Decide \/ Collect \/ Touch
  BY <1>3, <1>4 DEF Start, Finish, Describe, Decide, Collect, Touch
<1>5. CASE Pair \/ Unite \/ NewSbom \/ Kill \/ Clone
  BY <1>3, <1>5 DEF Pair, Unite, NewSbom, Kill, Clone
<1>6. CASE UNCHANGED vars
  BY <1>3, <1>6 DEF vars
<1> QED BY <1>1, <1>2, <1>4, <1>5, <1>6 DEF Next

LEMMA PassStep == TypeOK /\ LoopInv /\ PassInv /\ [Next]_vars => PassInv'
<1> SUFFICES ASSUME TypeOK, LoopInv, PassInv, [Next]_vars PROVE PassInv'
  OBVIOUS
<1> USE StageNames DEF env, loop, sfiles, cfiles, bfiles, ofiles
<1>1. CASE Start
  <2>1. /\ starts' = starts + 1 /\ passed' \in {0, passed}
        /\ passed' > 0 => InOrder(stage') /\ passed' = passed
    BY <1>1 DEF Start, TypeOK
  <2>2. passed' > 0 => InOrder(stage)'
    BY <2>1 DEF InOrder
  <2> QED BY <2>1, <2>2 DEF PassInv, TypeOK
<1>2. ASSUME Exit, stage # "idle" PROVE PassInv'
  BY <1>2 DEF Exit, PassInv, TypeOK
<1>3. CASE Finish
  BY <1>2, <1>3 DEF Finish
<1>4. CASE Pair \/ NewSbom
  <2>1. CASE Exit
    BY <1>2, <1>4, <2>1 DEF Pair, NewSbom
  <2>2. CASE UNCHANGED <<stage, passed, starts>>
    BY <2>2 DEF PassInv, InOrder
  <2> QED BY <1>4, <2>1, <2>2 DEF Pair, NewSbom
<1>5. CASE Kill \/ Clone
  BY <1>5 DEF Kill, Clone, PassInv, LoopInv, TypeOK
<1>6. CASE UNCHANGED <<stage, passed, starts>>
  BY <1>6 DEF PassInv, InOrder
<1> QED BY <1>1, <1>3, <1>4, <1>5, <1>6
      DEF Next, Describe, Decide, Collect, Distil, Touch, AppendLinked, Unite,
          Begin, End, vars

-----------------------------------------------------------------------------
(* What the stages have done. *)

\* A stage that runs while a pass is under way is the pass's next one.
LEMMA PassStage ==
  ASSUME TypeOK, PassInv
  PROVE  /\ stage = "sbom"     => passed = 0
         /\ stage = "collect"  => passed \in {0, 1}
         /\ stage = "bins"     => passed \in {0, 2}
         /\ stage = "combine"  => passed \in {0, 3}
         /\ stage = "newsboms" => passed \in {0, 4}
BY PassOrder DEF PassInv, TypeOK

\* A pass that stops, for whatever reason, is not in the middle of a stage.
LEMMA SweepStop ==
  ASSUME stage' = "idle", passed' = 0 PROVE SweepInv'
BY DEF SweepInv

LEMMA SweepStep ==
  TypeOK /\ LoopInv /\ PassInv /\ SweepInv /\ [Next]_vars => SweepInv'
<1> SUFFICES ASSUME TypeOK, LoopInv, PassInv, SweepInv, [Next]_vars
             PROVE  SweepInv'
  OBVIOUS
<1> USE StageNames, PassStage DEF env, loop, sfiles, cfiles, bfiles, ofiles
<1>1. CASE Start
  <2>1. passed' = passed \/ passed' = 0
    BY <1>1 DEF Start
  <2>2. todo' = Visits(stage') /\ UNCHANGED <<sfiles, cfiles, bfiles>>
    BY <1>1 DEF Start
  <2>3. /\ stage' = "sbom" => todo' = present
        /\ stage' = "collect" => todo' = Glob(present)
        /\ stage' = "bins" => todo' = Glob(bins)
    BY <2>2 DEF Visits
  <2> QED BY <2>1, <2>2, <2>3 DEF SweepInv, Collected, Listed, Glob, TypeOK
<1>2. ASSUME Exit, UNCHANGED <<sfiles, cfiles, bfiles>>,
             todo = {} \/ stage \in {"combine", "newsboms"}
      PROVE  SweepInv'
  BY <1>2, ExitPasses DEF SweepInv, Collected, Listed, Glob, Tested
<1>3. ASSUME UNCHANGED <<absolute, stage, todo, passed, sfiles, cfiles, bfiles>>
      PROVE  SweepInv'
  BY <1>3 DEF SweepInv, Collected, Listed, Glob, Tested
<1>4. CASE Finish
  BY <1>2, <1>4 DEF Finish
<1>5. CASE Describe
  <2>1. stage = "sbom" /\ passed = 0 /\ Cur \in todo
    BY <1>5, CurInTodo DEF Describe, Begin
  <2>2. present' = present /\ Tested \ {Cur} \subseteq Tested'
    BY <1>5 DEF Describe, Begin, Tested
  <2> QED BY <1>5, <2>1, <2>2 DEF Describe, Begin, SweepInv
<1>6. CASE Decide
  <2>1. stage = "sbom" /\ passed = 0
    BY <1>6 DEF Decide, End
  <2>2. present' \ todo' \subseteq Tested'
    <3>1. ASSUME NEW p \in present', p \notin todo' PROVE p \in Tested'
      <4>1. p \in Tested /\ p \in present
        BY <1>6, <2>1, <3>1 DEF Decide, End, SweepInv
      <4>2. CASE absolute BY <1>6, <4>1, <4>2 DEF Decide, End, Tested
      <4>3. CASE ~absolute BY <1>6, <3>1, <4>1, <4>3 DEF Decide, End, Tested
      <4> QED BY <4>2, <4>3
    <3> QED BY <3>1
  <2> QED BY <1>6, <2>1, <2>2 DEF Decide, End, SweepInv
<1>7. CASE Collect
  <2>1. stage = "collect" /\ passed \in {0, 1} /\ Cur \in todo
    BY <1>7, CurInTodo DEF Collect, Begin
  <2> QED BY <1>7, <2>1 DEF Collect, Begin, SweepInv, Collected, Glob
<1>8. CASE Distil
  <2>1. stage = "collect" /\ passed \in {0, 1} /\ Cur \in bins
    BY <1>8 DEF Distil, End, LoopInv
  <2> QED BY <1>8, <2>1 DEF Distil, End, SweepInv, Collected, Glob
<1>9. CASE Touch
  <2>1. stage = "bins" /\ passed \in {0, 2}
    BY <1>9 DEF Touch, Begin
  <2> QED BY <1>9, <2>1 DEF Touch, Begin, SweepInv, Collected, Listed, Glob
<1>10. CASE AppendLinked
  <2>1. stage = "bins" /\ passed \in {0, 2} /\ Cur \in binLists
    BY <1>10 DEF AppendLinked, End, LoopInv
  <2> QED
    BY <1>10, <2>1 DEF AppendLinked, End, SweepInv, Collected, Listed, Glob
<1>11. CASE Pair
  BY <1>2, <1>3, <1>11 DEF Pair
<1>12. CASE Unite
  <2>1. stage = "combine" /\ passed \in {0, 3}
    BY <1>12 DEF Unite, End
  <2> QED BY <1>12, <2>1 DEF Unite, End, SweepInv, Collected, Listed, Glob
<1>13. CASE NewSbom
  <2>1. stage = "newsboms"
    BY <1>13 DEF NewSbom
  <2>2. CASE Exit
    BY <1>2, <1>13, <2>1, <2>2 DEF NewSbom
  <2>3. CASE UNCHANGED <<stage, passed>>
    BY <1>13, <2>1, <2>3 DEF NewSbom, SweepInv, Collected, Listed, Glob
  <2> QED BY <1>13, <2>2, <2>3 DEF NewSbom
<1>14. CASE Kill \/ Clone
  BY <1>14, SweepStop DEF Kill, Clone
<1>15. CASE UNCHANGED vars
  BY <1>3, <1>15 DEF vars
<1> QED
  BY <1>1, <1>4, <1>5, <1>6, <1>7, <1>8, <1>9, <1>10, <1>11, <1>12, <1>13,
     <1>14, <1>15 DEF Next

\* After the first three stages, over folders without files of projects that
\* are gone, the two arrays have an SBOM's own files at its position.
LEMMA Paired ==
  ASSUME TypeOK, FileInv, SweepInv, passed >= 3, Inputs \subseteq present,
         NEW p \in sboms
  PROVE  /\ PkgFile(p) = {p} /\ BinFile(p) = {p}
         /\ p \in opened /\ (p \in linked <=> p \in built)
<1>1. /\ Collected(Glob(present)) /\ Listed(Glob(bins))
      /\ sboms = present /\ present # {} /\ present \subseteq Name
    BY DEF SweepInv, Inputs, TypeOK, Name
<1>2. Glob(present) = present /\ Glob(bins) = bins /\ bins = present
  BY <1>1 DEF Glob, Collected, Inputs
<1>3. lists = sboms /\ logs = {} /\ binLists = sboms
  BY <1>1, <1>2 DEF Collected, Listed, Inputs
<1>4. p \in opened /\ (p \in linked <=> p \in built)
  BY <1>1, <1>2 DEF Collected, Listed, FileInv
<1>5. \A q, r \in sboms : /\ 2 * Rank[q] < 2 * Rank[r] <=> Rank[q] < Rank[r]
  BY <1>1, PipelineAssumption
<1>6. Index(p) = Cardinality(Before(sboms, p))
  BY DEF Index, Before
<1>7. PkgFile(p) = {p}
  <2> DEFINE key == [q \in Name |-> 2 * Rank[q]]
  <2>1. ListFiles = {[name |-> q, key |-> key[q]] : q \in sboms}
    BY <1>1, <1>3 DEF ListFiles
  <2>2. \A q, r \in sboms : key[q] < key[r] <=> Rank[q] < Rank[r]
    BY <1>1, <1>5
  <2> HIDE DEF key
  <2> QED BY <1>1, <1>6, <2>1, <2>2, Aligned DEF PkgFile
<1>8. BinFile(p) = {p}
  <2>1. BinFiles = {[name |-> q, key |-> Rank[q]] : q \in sboms}
    BY <1>3 DEF BinFiles
  <2> QED BY <1>1, <1>6, <2>1, Aligned DEF BinFile
<1> QED BY <1>4, <1>7, <1>8

LEMMA CombineStep ==
  TypeOK /\ LoopInv /\ FileInv /\ PassInv /\ SweepInv /\ CombineInv
    /\ [Next]_vars => CombineInv'
<1> SUFFICES ASSUME TypeOK, LoopInv, FileInv, PassInv, SweepInv, CombineInv,
                    [Next]_vars, (Inputs \subseteq present)'
             PROVE  /\ (passed = 3 /\ stage = "combine")' =>
                         Combined(sboms \ todo)'
                    /\ (passed > 3)' => Combined(sboms)'
  BY DEF CombineInv
<1> USE StageNames, PassStage DEF env, loop, sfiles, cfiles, bfiles, ofiles
\* Steps that change nothing that has been combined.
<1>1. ASSUME UNCHANGED <<sfiles, cfiles, bfiles, ofiles>>
      PROVE  /\ Inputs \subseteq present
             /\ \A D : Combined(D)' <=> Combined(D)
  <2>1. Inputs' = Inputs /\ \A p : Evidence(p)' = Evidence(p)
    BY <1>1 DEF Inputs, Evidence
  <2> QED BY <1>1, <2>1 DEF Combined
<1>2. CASE Start
  <2>1. /\ UNCHANGED <<sfiles, cfiles, bfiles, ofiles>>
        /\ (passed' = passed \/ passed' = 0) /\ todo' = Visits(stage')
        /\ stage' = "combine" => todo' = sboms
    BY <1>2 DEF Start, Visits
  <2>2. Combined({})
    BY DEF Combined
  <2>3. /\ Inputs \subseteq present
        /\ \A D : Combined(D)' <=> Combined(D)
    BY <1>1, <2>1
  <2>4. stage' = "combine" => Combined(sboms \ todo)'
    <3>1. stage' = "combine" => sboms' \ todo' = {}
      BY <2>1
    <3> QED BY <2>2, <2>3, <3>1
  <2>5. passed' > 3 => Combined(sboms)'
    <3>1. passed' > 3 => passed > 3 BY <2>1
    <3>2. passed > 3 => Combined(sboms) BY <2>3 DEF CombineInv
    <3>3. sboms' = sboms BY <2>1
    <3> QED BY <2>3, <3>1, <3>2, <3>3
  <2> QED BY <2>4, <2>5
<1>3. CASE Finish
  <2>1. /\ UNCHANGED <<sfiles, cfiles, bfiles, ofiles>>
        /\ stage' = "idle" /\ todo = {} /\ Exit
    BY <1>3 DEF Finish, Exit
  <2>2. passed' > 3 => passed > 3 \/ (passed = 3 /\ stage = "combine")
    BY <2>1, ExitPasses
  <2>3. Inputs \subseteq present /\ (Combined(sboms) => Combined(sboms)')
    BY <1>1, <2>1
  <2>4. sboms \ todo = sboms
    BY <2>1
  <2>5. passed' > 3 => Combined(sboms)
    BY <2>2, <2>3, <2>4 DEF CombineInv
  <2> QED BY <2>1, <2>3, <2>5
<1>4. CASE Describe \/ Decide \/ Collect \/ Distil \/ Touch \/ AppendLinked
  <2>1. passed' = passed /\ passed \in {0, 1, 2} /\ stage' = stage
    BY <1>4 DEF Describe, Decide, Collect, Distil, Touch, AppendLinked, Begin,
                End
  <2> QED BY <2>1
<1>5. CASE Pair
  <2>1. /\ stage = "combine" /\ passed \in {0, 3} /\ Cur \in todo
        /\ Cur \in sboms /\ todo \subseteq sboms
        /\ UNCHANGED <<sfiles, cfiles, bfiles>>
    BY <1>5, CurInTodo DEF Pair, LoopInv, Visits
  <2>2. Inputs \subseteq present
    BY <2>1 DEF Inputs
  <2>3. CASE ~(PkgFile(Cur) \cup BinFile(Cur) \subseteq {Cur})
    <3>1. passed # 3
      <4> SUFFICES ASSUME passed = 3 PROVE FALSE
        OBVIOUS
      <4>1. PkgFile(Cur) = {Cur} /\ BinFile(Cur) = {Cur}
        BY <2>1, <2>2, Paired
      <4> QED BY <2>3, <4>1
    <3>2. Exit
      BY <1>5, <2>3 DEF Pair
    <3>3. stage' = "idle" /\ passed' = 0
      BY <2>1, <3>1, <3>2, ExitPasses
    <3> QED BY <3>3
  <2>4. CASE PkgFile(Cur) \cup BinFile(Cur) \subseteq {Cur}
    <3>1. /\ outs' = outs \cup {Cur} /\ holds' = [holds EXCEPT ![Cur] = {}]
          /\ UNCHANGED <<stage, todo, passed>>
      BY <1>5, <2>4 DEF Pair
    <3>2. ASSUME NEW p, p # Cur
          PROVE  holds'[p] = holds[p] /\ Evidence(p)' = Evidence(p)
      BY <2>1, <3>1, <3>2 DEF TypeOK, Evidence
    <3>3. Combined(sboms \ todo) => Combined(sboms \ todo)'
      BY <2>1, <3>1, <3>2 DEF Combined
    <3> QED BY <2>1, <2>2, <3>1, <3>3 DEF CombineInv
  <2> QED BY <2>3, <2>4
<1>6. CASE Unite
  <2>1. /\ stage = "combine" /\ passed \in {0, 3}
        /\ Cur \in todo /\ Cur \in outs
        /\ Cur \in sboms /\ todo \subseteq sboms
        /\ UNCHANGED <<sfiles, cfiles, bfiles, stage, passed, outs>>
        /\ todo' = todo \ {Cur}
    BY <1>6, CurInTodo DEF Unite, End, LoopInv, Visits
  <2>2. Inputs \subseteq present
    BY <2>1 DEF Inputs
  <2>3. CASE passed = 3
    <3>1. /\ PkgFile(Cur) = {Cur} /\ BinFile(Cur) = {Cur}
          /\ Cur \in opened /\ (Cur \in linked <=> Cur \in built)
      BY <2>1, <2>2, <2>3, Paired
    <3>2. holds' = [holds EXCEPT ![Cur] = Evidence(Cur)]
      BY <1>6, <3>1 DEF Unite, Evidence
    <3>3. \A p : Evidence(p)' = Evidence(p)
      BY <2>1 DEF Evidence
    <3>4. holds'[Cur] = Evidence(Cur) /\ \A p : p # Cur => holds'[p] = holds[p]
      BY <2>1, <3>2 DEF TypeOK
    <3>5. Combined(sboms \ todo)
      BY <2>1, <2>2, <2>3 DEF CombineInv
    <3>6. Combined(sboms \ todo)'
      BY <2>1, <3>3, <3>4, <3>5 DEF Combined
    <3> QED BY <2>1, <2>3, <3>6
  <2>4. CASE passed = 0
    BY <2>1, <2>4
  <2> QED BY <2>1, <2>3, <2>4
<1>7. CASE NewSbom
  <2>1. /\ stage = "newsboms" /\ passed \in {0, 4}
        /\ UNCHANGED <<sfiles, cfiles, bfiles, ofiles>>
        /\ stage' # "combine" /\ (passed' = passed \/ Exit)
    BY <1>7 DEF NewSbom, Exit
  <2>2. passed' > 3 => passed > 3
    <3>1. CASE Exit
      <4>1. passed' = 0 \/ (passed = 4 /\ passed' = 5)
        BY <2>1, <3>1, ExitPasses
      <4> QED BY <4>1
    <3> QED BY <2>1, <3>1
  <2>3. Inputs \subseteq present /\ (Combined(sboms) => Combined(sboms)')
    BY <1>1, <2>1
  <2>4. passed' > 3 => Combined(sboms)
    BY <2>2, <2>3 DEF CombineInv
  <2> QED BY <2>1, <2>3, <2>4
<1>8. CASE Kill \/ Clone
  BY <1>8 DEF Kill, Clone
<1>9. CASE UNCHANGED vars
  BY <1>1, <1>9 DEF vars, CombineInv
<1> QED BY <1>2, <1>3, <1>4, <1>5, <1>6, <1>7, <1>8, <1>9 DEF Next

LEMMA BatchStep ==
  Inv /\ [Next]_vars => BatchInv'
<1> SUFFICES ASSUME Inv, [Next]_vars PROVE BatchInv'
  OBVIOUS
<1> USE StageNames, PassStage
    DEF Inv, Sweeps, env, loop, sfiles, cfiles, bfiles, ofiles
<1>1. ASSUME stage' # "newsboms", passed' # 5 PROVE BatchInv'
  BY <1>1 DEF BatchInv
<1>2. CASE Start
  <2>1. passed' # 5
    BY <1>2 DEF Start, InOrder
  <2>2. stage' = "newsboms" => todo' = dirs' /\ described' = {}
    BY <1>2 DEF Start, Visits
  <2> QED BY <2>1, <2>2 DEF BatchInv
<1>3. CASE Finish
  <2>1. CASE stage = "newsboms" /\ passed = 4
    <3>1. /\ todo = {} /\ stage' = "idle"
          /\ UNCHANGED <<sfiles, cfiles, bfiles, ofiles, described>>
      BY <1>3 DEF Finish, Exit
    <3>2. ASSUME Inputs \cup dirs \subseteq present, modules = present
          PROVE  described = present
      <4>1. Combined(sboms) /\ present \subseteq sboms
        BY <2>1, <3>2 DEF CombineInv, SweepInv
      <4>2. present \subseteq outs /\ outs \subseteq dirs
        BY <4>1 DEF Combined, TypeOK
      <4>3. dirs \subseteq described /\ described \subseteq present
        BY <2>1, <3>1 DEF BatchInv
      <4> QED BY <4>2, <4>3
    <3> QED BY <3>1, <3>2 DEF BatchInv, Inputs
  <2>2. CASE ~(stage = "newsboms" /\ passed = 4)
    BY <1>1, <1>3, <2>2, ExitPasses DEF Finish, Exit, TypeOK
  <2> QED BY <2>1, <2>2
<1>4. CASE \/ Describe \/ Decide \/ Collect \/ Distil \/ Touch
           \/ AppendLinked \/ Unite
  <2>1. passed' = passed /\ stage' = stage /\ stage # "newsboms" /\ passed # 5
    BY <1>4 DEF Describe, Decide, Collect, Distil, Touch, AppendLinked, Unite,
                Begin, End
  <2> QED BY <1>1, <2>1
<1>5. CASE Pair
  <2>1. /\ stage = "combine" /\ passed \in {0, 3}
        /\ Exit \/ UNCHANGED <<stage, passed>>
    BY <1>5 DEF Pair
  <2> QED BY <1>1, <2>1, ExitPasses DEF Exit
<1>6. CASE NewSbom
  <2>1. /\ stage = "newsboms" /\ passed \in {0, 4} /\ Cur \in todo
        /\ todo \subseteq dirs
        /\ UNCHANGED <<sfiles, cfiles, bfiles, ofiles>>
    BY <1>6, CurInTodo DEF NewSbom, LoopInv, Visits
  <2>2. CASE Cur \in outs \cap modules
    BY <1>6, <2>1, <2>2 DEF NewSbom, BatchInv, TypeOK
  <2>3. CASE Cur \notin outs \cap modules
    <3>1. Exit
      BY <1>6, <2>3 DEF NewSbom
    <3>2. ~(/\ passed = 4 /\ Inputs \cup dirs \subseteq present
            /\ modules = present)
      <4>1. SUFFICES ASSUME passed = 4, Inputs \cup dirs \subseteq present,
                            modules = present
                     PROVE  Cur \in outs \cap modules
        BY <2>3
      <4>2. Combined(sboms) /\ present \subseteq sboms
        BY <4>1 DEF CombineInv, SweepInv
      <4> QED BY <2>1, <4>1, <4>2 DEF Combined
    <3> QED BY <2>1, <3>1, <3>2, ExitPasses DEF BatchInv, Inputs
  <2> QED BY <2>2, <2>3
<1>7. CASE Kill \/ Clone
  BY <1>1, <1>7 DEF Kill, Clone
<1>8. CASE UNCHANGED vars
  BY <1>8 DEF vars, BatchInv, Inputs
<1> QED BY <1>2, <1>3, <1>4, <1>5, <1>6, <1>7, <1>8 DEF Next

LEMMA FirstStep ==
  Inv /\ [Next]_vars => FirstInv'
<1> DEFINE Bound == IF passed = 0 THEN {} ELSE Glob(present)
<1> SUFFICES ASSUME Inv, [Next]_vars, First'
             PROVE  /\ sboms' \subseteq present'
                    /\ starts' = 0 \/ ~absolute' => sboms' = {}
                    /\ Made' \subseteq Bound'
  BY DEF FirstInv
<1> USE StageNames, PassOrder
    DEF Inv, Sweeps, env, loop, sfiles, cfiles, bfiles, ofiles
<1>1. ASSUME UNCHANGED <<cfiles, bfiles, dirs>>
      PROVE  Made' = Made
  BY <1>1 DEF Made
<1>2. CASE Start
  <2>1. stage = "idle" /\ starts' = starts + 1 /\ starts' = passed' + 1
    BY <1>2 DEF Start, First, TypeOK
  <2>2. passed' = passed
    BY <1>2, <2>1 DEF Start, PassInv, TypeOK
  <2>3. First
    BY <2>1, <2>2 DEF First, TypeOK
  <2>4. ~absolute' => starts = 0
    <3>1. InOrder(stage')
      <4>1. InOrder(stage)' BY <1>2, <2>1, StartType DEF First
      <4> QED BY <2>2, <4>1 DEF InOrder
    <3>2. stage' = "sbom" => passed = 0 BY <3>1 DEF TypeOK
    <3>3. passed = 0 => starts = 0 BY <2>1, <2>2 DEF TypeOK
    <3> QED BY <1>2, <3>2, <3>3, StartType
  <2>5. starts' # 0 BY <2>1 DEF TypeOK
  <2> QED
    BY <1>1, <1>2, <2>2, <2>3, <2>4, <2>5 DEF Start, FirstInv, Glob
<1>3. ASSUME Exit, stage # "idle"
      PROVE  /\ First /\ passed' # 0 /\ InOrder(stage)
             /\ starts' # 0 /\ absolute'
  <2>1. starts' = starts /\ starts = passed'
    BY <1>3 DEF Exit, First
  <2> QED BY <1>3, <2>1 DEF Exit, First, PassInv, TypeOK
<1>4. ASSUME UNCHANGED <<stage, passed, starts>>
      PROVE  First /\ (stage # "idle" => InOrder(stage) /\ starts # 0)
  BY <1>4 DEF First, InOrder, TypeOK
<1>5. CASE Finish
  BY <1>1, <1>3, <1>5 DEF Finish, FirstInv, Glob
<1>6. CASE Describe \/ Decide
  <2>1. /\ UNCHANGED <<absolute, stage, passed, starts, cfiles, bfiles, dirs>>
        /\ stage = "sbom"
    BY <1>6 DEF Describe, Decide, Begin, End
  <2>2. First /\ passed = 0 /\ starts # 0
    BY <1>4, <2>1 DEF TypeOK
  <2>3. CASE Describe
    <3>1. Cur \in present
      BY <2>3, CurInTodo DEF Describe, Begin, LoopInv, Visits
    <3> QED
      BY <1>1, <2>1, <2>2, <2>3, <3>1 DEF Describe, FirstInv, Tested
  <2>4. CASE Decide
    <3>1. sboms' = sboms /\ (Cur \in Tested \/ present' = present \ {Cur})
      BY <2>4 DEF Decide
    <3>2. Cur \in Tested => present' = present
      BY <2>4 DEF Decide
    <3> QED BY <1>1, <2>1, <2>2, <3>1, <3>2 DEF FirstInv, Tested
  <2> QED BY <1>6, <2>3, <2>4
<1>7. CASE Collect \/ Distil
  <2>1. /\ UNCHANGED <<absolute, stage, passed, starts, present, sboms, bfiles,
                       dirs>>
        /\ stage = "collect"
    BY <1>7 DEF Collect, Distil, Begin, End
  <2>2. First /\ passed = 1
    BY <1>4, <2>1 DEF TypeOK
  <2>3. Cur \in Glob(present)
    BY <1>7, <2>1, CurInTodo DEF Collect, Distil, Begin, End, LoopInv, Visits
  <2>4. Made' \subseteq Made \cup {Cur}
    BY <1>7 DEF Collect, Distil, Made
  <2> QED BY <2>1, <2>2, <2>3, <2>4 DEF FirstInv, Glob
<1>8. CASE Touch \/ AppendLinked
  <2>1. /\ UNCHANGED <<absolute, stage, passed, starts, present, sboms, cfiles,
                       dirs>>
        /\ stage = "bins"
    BY <1>8 DEF Touch, AppendLinked, Begin, End
  <2>2. First /\ passed = 2
    BY <1>4, <2>1 DEF TypeOK
  <2>3. Glob(present) \subseteq bins
    BY <2>2 DEF SweepInv, Collected
  <2>4. Cur \in bins
    <3>1. Cur \in Glob(bins)
      BY <1>8, <2>1, CurInTodo
         DEF Touch, AppendLinked, Begin, End, LoopInv, Visits
    <3>2. bins # {}
      BY <2>3 DEF Glob
    <3> QED BY <3>1, <3>2 DEF Glob
  <2>5. Made' \subseteq Made \cup {Cur} /\ Cur \in Made
    BY <1>8, <2>4 DEF Touch, AppendLinked, Made
  <2> QED BY <2>1, <2>2, <2>5 DEF FirstInv, Glob
<1>9. CASE Pair
  <2>1. /\ UNCHANGED <<sfiles, cfiles, bfiles>> /\ dirs' = dirs \cup {Cur}
        /\ stage = "combine"
        /\ Exit \/ UNCHANGED <<absolute, stage, passed, starts>>
    BY <1>9 DEF Pair
  <2>2. /\ First /\ InOrder(stage) /\ passed' # 0 /\ passed # 0
        /\ starts' # 0 /\ absolute'
    <3>1. CASE Exit BY <1>3, <2>1, <3>1 DEF TypeOK
    <3>2. CASE UNCHANGED <<absolute, stage, passed, starts>>
      <4>1. First /\ InOrder(stage) /\ starts # 0 BY <1>4, <2>1, <3>2
      <4>2. absolute /\ passed # 0 BY <2>1, <4>1 DEF LoopInv, TypeOK
      <4> QED BY <3>2, <4>1, <4>2
    <3> QED BY <2>1, <3>1, <3>2
  <2>3. Cur \in Glob(present)
    <3>1. Cur \in sboms
      BY <1>9, CurInTodo DEF Pair, LoopInv, Visits
    <3> QED BY <2>2, <3>1 DEF FirstInv, Glob
  <2>4. Made' = Made \cup {Cur} /\ Glob(present)' = Glob(present)
    BY <2>1 DEF Made, Glob
  <2> QED BY <2>1, <2>2, <2>3, <2>4 DEF FirstInv
<1>10. CASE Unite
  BY <1>1, <1>4, <1>10 DEF Unite, End, FirstInv, Glob
<1>11. CASE NewSbom
  <2>1. /\ UNCHANGED <<sfiles, cfiles, bfiles, dirs>> /\ stage = "newsboms"
        /\ Exit \/ UNCHANGED <<absolute, stage, passed, starts>>
    BY <1>11 DEF NewSbom
  <2>2. /\ First /\ passed' # 0 /\ passed # 0
        /\ starts' # 0 /\ absolute'
    <3>1. CASE Exit BY <1>3, <2>1, <3>1 DEF TypeOK
    <3>2. CASE UNCHANGED <<absolute, stage, passed, starts>>
      <4>1. First /\ InOrder(stage) /\ starts # 0 BY <1>4, <2>1, <3>2
      <4>2. absolute /\ passed # 0 BY <2>1, <4>1 DEF LoopInv, TypeOK
      <4> QED BY <3>2, <4>1, <4>2
    <3> QED BY <2>1, <3>1, <3>2
  <2> QED BY <1>1, <2>1, <2>2 DEF FirstInv, Glob
<1>12. CASE Kill
  <2>1. starts' = starts /\ starts = 0 /\ stage # "idle"
    BY <1>12 DEF Kill, First
  <2> QED BY <2>1 DEF PassInv, TypeOK
<1>13. CASE Clone
  <2>1. /\ stage = "idle" /\ starts = 0 /\ UNCHANGED <<cfiles, bfiles, dirs>>
        /\ UNCHANGED <<sboms, starts>> /\ passed' = 0
    BY <1>13 DEF Clone, First, LoopInv
  <2>2. passed = 0 /\ First
    BY <2>1 DEF PassInv, TypeOK, First
  <2> QED BY <1>1, <2>1, <2>2 DEF FirstInv
<1>14. CASE UNCHANGED vars
  BY <1>1, <1>4, <1>14 DEF vars, FirstInv, Glob
<1> QED
  BY <1>2, <1>5, <1>6, <1>7, <1>8, <1>9, <1>10, <1>11, <1>12, <1>13, <1>14
     DEF Next

LEMMA Invariance == Spec => []Inv
<1>1. Inv /\ [Next]_vars => Inv'
  BY TypeStep, LoopStep, FileStep, PassStep, SweepStep, CombineStep, BatchStep,
     FirstStep DEF Inv, Sweeps
<1> QED BY <1>1, InitInv, PTL DEF Spec

-----------------------------------------------------------------------------
\* The folders of all stages hold files of projects, or of the literal */.
THEOREM TypeCorrect == Spec => []TypeOK
<1>1. Inv => TypeOK BY DEF Inv
<1> QED BY <1>1, Invariance, PTL

\* After the stages have run in the README's order, the first with an absolute
\* -o, whatever was run and killed before, every project has a combined list
\* with all its evidence, and a new SBOM if each of them has a go.mod.
THEOREM PassesAreWhole == Spec => []PassIsWhole
<1>1. Inv => PassIsWhole
  <2> SUFFICES ASSUME Inv, passed >= 4,
                      Orphans = {} \/ (starts = passed /\ present # {})
               PROVE  /\ sboms = present /\ outs = present
                      /\ \A p \in present : holds[p] = Evidence(p)
                      /\ passed = 5 /\ modules = present => described = present
    BY DEF PassIsWhole
  <2> USE DEF Inv, Sweeps
  <2>1. Inputs \cup dirs \subseteq present
    <3>1. CASE Orphans = {}
      BY <3>1 DEF Orphans, Inputs
    <3>2. CASE starts = passed /\ present # {}
      <4>1. First
        BY <3>2 DEF First, PassInv, TypeOK
      <4> QED BY <3>2, <4>1 DEF FirstInv, Glob, Made, Inputs
    <3> QED BY <3>1, <3>2
  <2>2. sboms = present
    BY <2>1 DEF SweepInv, Inputs, TypeOK
  <2>3. Combined(sboms)
    BY <2>1 DEF CombineInv, TypeOK
  <2>4. outs = present
    BY <2>1, <2>2, <2>3 DEF Combined, TypeOK
  <2> QED BY <2>1, <2>2, <2>3, <2>4 DEF Combined, BatchInv
<1> QED BY <1>1, Invariance, PTL

\* A pass that has begun over its own files: nothing is left of projects that
\* are gone, or it is a first pass and there are projects.
CleanPass ==
  passed > 0 /\ (Orphans = {} \/ (starts = passed + 1 /\ present # {}))

\* The batch, at a project that has all it needs but a go.mod.
LacksGoMod ==
  stage = "newsboms" /\ todo # {} /\ Cur \in (outs \cap present) \ modules

\* In such a pass no stage ends before it has visited all, unless it is killed,
\* or is the batch at a project without a go.mod.
StopsExplained ==
  [][CleanPass /\ stage # "idle" /\ todo # {} /\ stage' = "idle" =>
       Kill \/ LacksGoMod]_vars

\* The two stages that test what they find and exit with 1 find what they test
\* for when they come in their order, whatever was run and killed before, as
\* long as no files of deleted projects are in the way: the combine stage all
\* of it, the batch all but the go.mod, which a project may never have had or
\* have lost in a killed rm -rf.
THEOREM StopsAreExplained == Spec => StopsExplained
<1>1. Inv /\ [Next]_vars =>
        [CleanPass /\ stage # "idle" /\ todo # {} /\ stage' = "idle" =>
           Kill \/ LacksGoMod]_vars
  <2> SUFFICES ASSUME Inv, [Next]_vars, CleanPass, stage # "idle", todo # {},
                      stage' = "idle", ~Kill, ~LacksGoMod
               PROVE  FALSE
    OBVIOUS
  <2> USE StageNames DEF Inv, Sweeps, CleanPass
  <2>1. Inputs \cup dirs \subseteq present
    <3>1. CASE Orphans = {}
      BY <3>1 DEF Orphans, Inputs
    <3>2. CASE starts = passed + 1 /\ present # {}
      <4>1. First
        BY <3>2 DEF First, PassInv
      <4> QED BY <3>2, <4>1 DEF FirstInv, Glob, Made, Inputs, TypeOK
    <3> QED BY <3>1, <3>2
  <2>2. InOrder(stage)
    BY DEF PassInv
  <2>3. ~Pair
    <3> SUFFICES ASSUME Pair PROVE FALSE
      OBVIOUS
    <3>1. stage = "combine" /\ passed = 3 /\ Cur \in sboms
      BY <2>2, PassOrder, CurInTodo DEF Pair, LoopInv, Visits, TypeOK
    <3>2. PkgFile(Cur) = {Cur} /\ BinFile(Cur) = {Cur}
      BY <2>1, <3>1, Paired
    <3> QED BY <3>1, <3>2 DEF Pair
  <2>4. ~NewSbom
    <3> SUFFICES ASSUME NewSbom PROVE FALSE
      OBVIOUS
    <3>1. stage = "newsboms" /\ passed = 4 /\ Cur \in dirs
      BY <2>2, PassOrder, CurInTodo DEF NewSbom, LoopInv, Visits, TypeOK
    <3>2. Cur \in outs \cap present
      BY <2>1, <3>1 DEF CombineInv, SweepInv, Combined
    <3> QED BY <3>1, <3>2 DEF NewSbom, LacksGoMod
  <2> QED
    BY <2>3, <2>4 DEF Next, Start, Finish, Describe, Decide, Collect, Distil,
       Touch, AppendLinked, Unite, Begin, End, Clone, vars, loop
<1> QED BY <1>1, Invariance, PTL DEF Spec, StopsExplained

-----------------------------------------------------------------------------
(* Theorems about StraceLog: what the filters report of a log, for every     *)
(* number of processes, calls and lines of output, and every set of paths.   *)

(* Type correctness of the log. *)

LEMMA LineType ==
  ASSUME NEW f \in Path \cup {None}, NEW e \in BOOLEAN,
         NEW n \in SUBSET Mention
  PROVE  Line(f, e, n) \in LineOf
BY DEF Line, LineOf

\* A head in the log belongs to a process that is in a call.
HeadInCall == head # None => head \in Proc /\ call[head] # None

LogTypeInv == LogTypeOK /\ HeadInCall

LEMMA BrokenType ==
  ASSUME LogTypeInv, NEW n \in SUBSET Mention PROVE Broken(n) \subseteq LineOf
<1>1. CASE head = None
  <2>1. Line(None, FALSE, n) \in LineOf
    BY LineType
  <2>2. QED BY <1>1, <2>1 DEF Broken
<1>2. CASE head # None
  <2>1. call[head] \in Path \cup {None}
    BY <1>2 DEF LogTypeInv, LogTypeOK, HeadInCall
  <2>2. Line(call[head], FALSE, n) \in LineOf
    BY <2>1, LineType
  <2>3. QED BY <1>2, <2>2 DEF Broken
<1>3. QED BY <1>1, <1>2

LEMMA CutType == ASSUME LogTypeInv PROVE Cut \subseteq Path
BY DEF LogTypeInv, LogTypeOK, HeadInCall, Cut

\* The filters report paths, or text for what they took to be one.
LEMMA FilterType ==
  ASSUME NEW lines \in SUBSET LineOf
  PROVE  /\ CFilter(lines) \subseteq Path \cup {Text}
         /\ GoFilter(lines) \subseteq Path \cup {Text}
         /\ RustFilter(lines) \subseteq Path \cup {Text}
<1>1. \A l \in lines : l.path \in Path \cup {None}
  BY DEF LineOf
<1>2. CFilter(lines) \subseteq Path \cup {Text}
  BY <1>1 DEF CFilter, CField
<1>3. GoFilter(lines) \subseteq Path \cup {Text}
  BY PathAssumption DEF GoFilter
<1>4. RustFilter(lines) \subseteq Path \cup {Text}
  BY PathAssumption DEF RustFilter
<1>5. QED BY <1>2, <1>3, <1>4

LEMMA LogInitType == LogInit => LogTypeInv
BY PathAssumption DEF LogInit, LogTypeInv, LogTypeOK, HeadInCall

LEMMA LogStepType == LogTypeInv /\ [LogNext]_logVars => LogTypeInv'
<1> SUFFICES ASSUME LogTypeInv, [LogNext]_logVars PROVE LogTypeInv'
  OBVIOUS
<1>0. /\ LogTypeOK /\ HeadInCall
      /\ Broken({}) \subseteq LineOf /\ Cut \subseteq Path
  BY BrokenType, CutType DEF LogTypeInv
<1> USE PathAssumption DEF logVars, LogTypeInv
<1>1. ASSUME NEW q \in Proc, Enter(q) PROVE LogTypeInv'
  BY <1>0, <1>1 DEF Enter, LogTypeOK, HeadInCall
<1>2. ASSUME NEW q \in Proc, NEW res \in Result, Return(q, res)
      PROVE  LogTypeInv'
  <2>1. call[q] \in Path
    BY <1>0, <1>2 DEF Return, LogTypeOK
  <2>2. /\ Line(call[q], res = "ENOENT", {}) \in LineOf
        /\ Line(None, res = "ENOENT", {}) \in LineOf
    BY <2>1, LineType
  <2>3. log' \subseteq LineOf
    BY <1>0, <1>2, <2>2 DEF Return, LogTypeOK
  <2>4. QED
    BY <1>0, <1>2, <2>1, <2>3 DEF Return, LogTypeOK, HeadInCall
<1>3. ASSUME NEW q \in Proc, Die(q) PROVE LogTypeInv'
  BY <1>0, <1>3 DEF Die, LogTypeOK, HeadInCall
<1>4. ASSUME NEW n \in Noise, Output(n) PROVE LogTypeInv'
  <2>1. log' \subseteq LineOf
    BY <1>0, <1>4, BrokenType DEF Output, LogTypeOK
  <2>2. QED BY <1>0, <1>4, <2>1 DEF Output, LogTypeOK, HeadInCall
<1>5. CASE FilterLog
  <2>1. result' \in [{"c", "go", "rust"} -> SUBSET (Path \cup {Text})]
    BY <1>0, <1>5, FilterType DEF FilterLog, LogTypeOK
  <2>2. QED BY <1>0, <1>5, <2>1 DEF FilterLog, LogTypeOK, HeadInCall
<1>6. CASE UNCHANGED logVars
  BY <1>0, <1>6 DEF LogTypeOK, HeadInCall
<1>7. QED BY <1>1, <1>2, <1>3, <1>4, <1>5, <1>6 DEF LogNext

\* Calls, lines and what the filters report keep their types.
THEOREM LogTypeCorrect == LogSpec => []LogTypeOK
<1>1. LogTypeInv => LogTypeOK
  BY DEF LogTypeInv
<1>2. QED BY <1>1, LogInitType, LogStepType, PTL DEF LogSpec

-----------------------------------------------------------------------------
(* Completeness.  The path of a call is in the log on a line that is not     *)
(* marked as failed as soon as its head is cut off, and when it returns      *)
(* successfully; what stands behind it is at most what the build printed.    *)

Logged(f) == \E n \in SUBSET said : Line(f, FALSE, n) \in log

CutHeads == \A q \in Proc : call[q] # None /\ head # q => Logged(call[q])
Opens    == \A f \in got : Logged(f)
Reported == phase = "filter" => /\ result["c"] = CFilter(log)
                                /\ result["go"] = GoFilter(log)
                                /\ result["rust"] = RustFilter(log)

LogInv == LogTypeInv /\ CutHeads /\ Opens /\ Reported

\* Lines and kinds of output only accumulate, and so does what is logged.
LEMMA LoggedGrows ==
  ASSUME log \subseteq log', said \subseteq said', NEW f, Logged(f)
  PROVE  Logged(f)'
BY DEF Logged

\* Cutting off a head logs its call.
LEMMA BrokenLogs ==
  ASSUME head # None, NEW f, f = call[head],
         NEW n \in SUBSET said', Broken(n) \subseteq log'
  PROVE  Logged(f)'
<1>1. Line(f, FALSE, n) \in log'
  BY DEF Broken
<1>2. QED BY <1>1 DEF Logged

LEMMA LogInitInv == LogInit => LogInv
BY LogInitType DEF LogInit, LogInv, CutHeads, Opens, Reported

LEMMA LogStepInv == LogInv /\ [LogNext]_logVars => LogInv'
<1> SUFFICES ASSUME LogInv, [LogNext]_logVars
             PROVE  (CutHeads /\ Opens /\ Reported)'
  BY LogStepType DEF LogInv
<1>0. LogTypeOK /\ LogTypeInv /\ CutHeads /\ Opens
  BY DEF LogInv, LogTypeInv
<1> USE PathAssumption DEF logVars
<1>a. ASSUME NEW n \in SUBSET said', Broken(n) \subseteq log',
             log \subseteq log', said \subseteq said', NEW p \in Proc,
             call[p] # None
      PROVE  \A f : f = call[p] => Logged(f)'
  <2>1. SUFFICES ASSUME NEW f, f = call[p] PROVE Logged(f)'
    OBVIOUS
  <2>2. CASE head = p
    <3>1. head # None
      BY <2>2
    <3>2. QED BY <1>a, <2>1, <2>2, <3>1, BrokenLogs
  <2>3. CASE head # p
    <3>1. Logged(f)
      BY <1>0, <1>a, <2>1, <2>3 DEF CutHeads
    <3>2. QED BY <1>a, <3>1, LoggedGrows
  <2>4. QED BY <2>2, <2>3
<1>b. ASSUME log \subseteq log', said \subseteq said'
      PROVE  \A f \in got : Logged(f)'
  BY <1>0, <1>b, LoggedGrows DEF Opens
<1>1. ASSUME NEW q \in Proc, Enter(q) PROVE (CutHeads /\ Opens /\ Reported)'
  <2>1. /\ log' = log \cup Broken({}) /\ said' = said /\ got' = got
        /\ head' = q /\ phase = "build" /\ phase' = "build"
        /\ call[q] = None
    BY <1>1 DEF Enter
  <2>2. \A p \in Proc \ {q} : call'[p] = call[p]
    BY <1>0, <1>1 DEF Enter, LogTypeOK
  <2>3. CutHeads'
    <3>1. ASSUME NEW p \in Proc, call'[p] # None, head' # p, NEW f, f = call'[p]
          PROVE  Logged(f)'
      BY <1>a, <2>1, <2>2, <3>1
    <3>2. QED BY <3>1 DEF CutHeads, Logged
  <2>4. QED BY <1>b, <2>1, <2>3 DEF Opens, Reported
<1>2. ASSUME NEW q \in Proc, NEW res \in Result, Return(q, res)
      PROVE  (CutHeads /\ Opens /\ Reported)'
  <2>1. /\ log \subseteq log' /\ said' = said /\ head' = None
        /\ phase = "build" /\ phase' = "build" /\ call[q] # None
    BY <1>2 DEF Return
  <2>2. call' = [call EXCEPT ![q] = None]
    BY <1>2 DEF Return
  <2>3. \A p \in Proc : call'[p] # None => p # q /\ call'[p] = call[p]
    BY <1>0, <2>2 DEF LogTypeOK
  <2>4. head # q => Broken({}) \subseteq log'
    BY <1>2 DEF Return
  <2>5. CutHeads'
    <3>1. ASSUME NEW p \in Proc, call'[p] # None, NEW f, f = call'[p]
          PROVE  Logged(f)'
      <4>1. CASE head = q
        <5>1. Logged(f)
          BY <1>0, <2>3, <3>1, <4>1 DEF CutHeads
        <5>2. QED BY <2>1, <5>1, LoggedGrows
      <4>2. CASE head # q
        BY <1>a, <2>1, <2>3, <2>4, <3>1, <4>2
      <4>3. QED BY <4>1, <4>2
    <3>2. QED BY <3>1 DEF CutHeads, Logged
  <2>6. res = "ok" => \A f : f = call[q] => Logged(f)'
    <3>1. SUFFICES ASSUME res = "ok", NEW f, f = call[q] PROVE Logged(f)'
      OBVIOUS
    <3>2. CASE head = q
      <4>1. Line(f, FALSE, {}) \in log'
        BY <1>2, <3>1, <3>2 DEF Return
      <4>2. QED BY <4>1 DEF Logged
    <3>3. CASE head # q
      BY <1>a, <2>1, <2>4, <3>1, <3>3
    <3>4. QED BY <3>2, <3>3
  <2>7. got' = IF res = "ok" THEN got \cup {call[q]} ELSE got
    BY <1>2 DEF Return
  <2>8. Opens'
    <3>1. ASSUME NEW f \in got' PROVE Logged(f)'
      BY <1>b, <2>1, <2>6, <2>7, <3>1
    <3>2. QED BY <3>1 DEF Opens
  <2>9. QED BY <2>1, <2>5, <2>8 DEF Reported
<1>3. ASSUME NEW q \in Proc, Die(q) PROVE (CutHeads /\ Opens /\ Reported)'
  <2>1. /\ log' = log \cup Broken({}) /\ said' = said /\ got' = got
        /\ phase = "build" /\ phase' = "build"
        /\ call' = [call EXCEPT ![q] = None]
    BY <1>3 DEF Die
  <2>2. \A p \in Proc : call'[p] # None => call'[p] = call[p]
    BY <1>0, <2>1 DEF LogTypeOK
  <2>3. ASSUME NEW p \in Proc, call'[p] # None, NEW f, f = call'[p]
        PROVE  Logged(f)'
    BY <1>a, <2>1, <2>2, <2>3
  <2>4. CutHeads'
    BY <2>3 DEF CutHeads, Logged
  <2>5. QED BY <1>b, <2>1, <2>4 DEF Opens, Reported
<1>4. ASSUME NEW n \in Noise, Output(n) PROVE (CutHeads /\ Opens /\ Reported)'
  <2>1. /\ log' = log \cup Broken(n) /\ said' = said \cup n /\ got' = got
        /\ phase = "build" /\ phase' = "build" /\ call' = call
    BY <1>4 DEF Output
  <2>2. ASSUME NEW p \in Proc, call'[p] # None, NEW f, f = call'[p]
        PROVE  Logged(f)'
    BY <1>a, <2>1, <2>2
  <2>3. CutHeads'
    BY <2>2 DEF CutHeads, Logged
  <2>4. QED BY <1>b, <2>1, <2>3 DEF Opens, Reported
<1>5. CASE FilterLog
  <2>1. /\ UNCHANGED <<call, head, log, got, said>>
        /\ result' = [f \in {"c", "go", "rust"} |->
                        CASE f = "c" -> CFilter(log)
                          [] f = "go" -> GoFilter(log)
                          [] f = "rust" -> RustFilter(log)]
    BY <1>5 DEF FilterLog
  <2>2. Reported'
    BY <2>1 DEF Reported, CFilter, GoFilter, RustFilter
  <2>3. QED BY <1>0, <2>1, <2>2 DEF CutHeads, Opens, Logged
<1>6. CASE UNCHANGED logVars
  BY <1>0, <1>6 DEF LogInv, CutHeads, Opens, Logged, Reported
<1>7. QED BY <1>1, <1>2, <1>3, <1>4, <1>5, <1>6 DEF LogNext

-----------------------------------------------------------------------------
(* What each filter makes of a path that is logged. *)

LEMMA CReports ==
  ASSUME NEW f \in Lib \ Conf, said \cap {"quoted", "drop"} = {}, Logged(f)
  PROVE  f \in CFilter(log)
<1>1. PICK n \in SUBSET said : Line(f, FALSE, n) \in log
  BY DEF Logged
<1>2. "quoted" \notin n /\ "drop" \notin n /\ f # None
  BY <1>1, PathAssumption
<1>3. CField(Line(f, FALSE, n)) = f
  BY <1>2 DEF CField, Line
<1>4. QED BY <1>1, <1>3 DEF CFilter, Line

LEMMA GoReports ==
  ASSUME NEW f \in Mod \ Cached, "cache" \notin said, Logged(f)
  PROVE  f \in GoFilter(log)
<1>1. PICK n \in SUBSET said : Line(f, FALSE, n) \in log
  BY DEF Logged
<1>2. "cache" \notin n
  BY <1>1, PathAssumption
<1>3. QED BY <1>1, <1>2 DEF GoFilter, Line

LEMMA RustReports ==
  ASSUME NEW f \in Crate, "crate" \notin said, Logged(f)
  PROVE  f \in RustFilter(log)
BY DEF Logged, RustFilter, Line

\* No library that was opened escapes the C filter as long as the build prints
\* no quotes and nothing that line 68 drops, however its processes' lines cut
\* each other up.
THEOREM LibrariesAreComplete == LogSpec => []LibrariesComplete
<1>1. LogInv => LibrariesComplete
  BY CReports DEF LogInv, Opens, Reported, LibrariesComplete
<1>2. QED BY <1>1, LogInitInv, LogStepInv, PTL DEF LogSpec

\* No module file that was opened escapes the Go filter as long as the build
\* mentions no path with /cache/ in its output.
THEOREM ModulesAreComplete == LogSpec => []ModulesComplete
<1>1. LogInv => ModulesComplete
  BY GoReports DEF LogInv, Opens, Reported, ModulesComplete
<1>2. QED BY <1>1, LogInitInv, LogStepInv, PTL DEF LogSpec

\* No crate file that was opened escapes the Rust filter as long as the build
\* does not print the quoted path of one itself.
THEOREM CratesAreComplete == LogSpec => []CratesComplete
<1>1. LogInv => CratesComplete
  BY RustReports DEF LogInv, Opens, Reported, CratesComplete
<1>2. QED BY <1>1, LogInitInv, LogStepInv, PTL DEF LogSpec

-----------------------------------------------------------------------------
(* Soundness of the C filter.  A line that does not say that the file is not *)
(* there is that of a call that found it, or that was cut off.               *)

Unfailed ==
  \A l \in log : l.path \in Path /\ ~l.enoent =>
    l.path \in got \cup refused \cup cut

SoundInv == LogInv /\ Unfailed

\* A line written because a head was cut off has its path among those cut.
LEMMA BrokenCut ==
  ASSUME NEW n, NEW l \in Broken(n), l.path \in Path PROVE l.path \in Cut
<1>1. CASE head = None
  BY <1>1, PathAssumption DEF Broken, Line
<1>2. CASE head # None
  BY <1>2 DEF Broken, Line, Cut
<1>3. QED BY <1>1, <1>2

LEMMA StepSound == SoundInv /\ [LogNext]_logVars => SoundInv'
<1> SUFFICES ASSUME SoundInv, [LogNext]_logVars PROVE Unfailed'
  BY LogStepInv DEF SoundInv
<1> USE PathAssumption DEF logVars, SoundInv
<1>1. ASSUME NEW n, log' = log \cup Broken(n), cut' = cut \cup Cut, got' = got,
             refused' = refused
      PROVE  Unfailed'
  <2>1. ASSUME NEW l \in log', l.path \in Path, ~l.enoent
        PROVE  l.path \in got' \cup refused' \cup cut'
    BY <1>1, <2>1, BrokenCut DEF Unfailed
  <2>2. QED BY <2>1 DEF Unfailed
<1>2. ASSUME NEW q \in Proc, Enter(q) PROVE Unfailed'
  BY <1>1, <1>2 DEF Enter
<1>3. ASSUME NEW q \in Proc, Die(q) PROVE Unfailed'
  BY <1>1, <1>3 DEF Die
<1>4. ASSUME NEW n \in Noise, Output(n) PROVE Unfailed'
  BY <1>1, <1>4 DEF Output
<1>5. ASSUME NEW q \in Proc, NEW res \in Result, Return(q, res) PROVE Unfailed'
  <2>1. /\ log' = log \cup
             IF head = q THEN {Line(call[q], res = "ENOENT", {})}
                         ELSE Broken({}) \cup {Line(None, res = "ENOENT", {})}
        /\ got' = IF res = "ok" THEN got \cup {call[q]} ELSE got
        /\ refused' = IF res = "failed" THEN refused \cup {call[q]} ELSE refused
        /\ cut' = IF head = q THEN cut ELSE cut \cup Cut
    BY <1>5 DEF Return
  <2>2. CASE head = q
    <3>1. ASSUME NEW l \in log', l.path \in Path, ~l.enoent
          PROVE  l.path \in got' \cup refused' \cup cut'
      <4>1. CASE l \in log
        BY <2>1, <3>1, <4>1 DEF Unfailed
      <4>2. CASE l = Line(call[q], res = "ENOENT", {})
        <5>1. l.path = call[q] /\ l.enoent = (res = "ENOENT")
          BY <4>2 DEF Line
        <5>2. QED BY <2>1, <3>1, <5>1 DEF Result
      <4>3. QED BY <2>1, <2>2, <3>1, <4>1, <4>2
    <3>2. QED BY <3>1 DEF Unfailed
  <2>3. CASE head # q
    <3>1. ASSUME NEW l \in log', l.path \in Path, ~l.enoent
          PROVE  l.path \in got' \cup refused' \cup cut'
      <4>1. l # Line(None, res = "ENOENT", {})
        BY <3>1 DEF Line
      <4>2. QED BY <2>1, <2>3, <3>1, <4>1, BrokenCut DEF Unfailed
    <3>2. QED BY <3>1 DEF Unfailed
  <2>4. QED BY <2>2, <2>3
<1>6. CASE FilterLog
  BY <1>6 DEF FilterLog, Unfailed
<1>7. CASE UNCHANGED logVars
  BY <1>7 DEF Unfailed
<1>8. QED BY <1>2, <1>3, <1>4, <1>5, <1>6, <1>7 DEF LogNext

\* The C filter reports no library that was not there whenever it was opened,
\* except one whose line was cut before the result.
THEOREM AbsentAreNotReported == LogSpec => []AbsentNotReported
<1>1. LogInit => SoundInv
  BY LogInitInv DEF LogInit, SoundInv, Unfailed
<1>2. SoundInv => AbsentNotReported
  <2> SUFFICES ASSUME SoundInv, phase = "filter", NEW x \in CFilter(log)
               PROVE  x \in got \cup refused \cup cut \cup {Text}
    BY DEF AbsentNotReported, SoundInv, LogInv, Reported
  <2>1. PICK l \in log : x = CField(l) /\ ~l.enoent
    BY DEF CFilter
  <2>2. l.path \in Path \cup {None}
    BY DEF SoundInv, LogInv, LogTypeInv, LogTypeOK, LineOf
  <2>3. QED BY <2>1, <2>2 DEF CField, SoundInv, Unfailed
<1>3. QED BY <1>1, <1>2, StepSound, PTL DEF LogSpec
=============================================================================
