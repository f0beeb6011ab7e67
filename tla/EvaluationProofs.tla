-------------------------- MODULE EvaluationProofs --------------------------
(***************************************************************************)
(* Proofs about Evaluation and the script of BinPkgs in it, for any        *)
(* projects, packages, binaries and folders.                               *)
(***************************************************************************)
EXTENDS Evaluation, FiniteSetTheorems, TLAPS

\* The history of what was ever held covers what is held now.
HeldInv ==
  \A n \in Name :
    /\ Current(n) \subseteq ever[n]
    /\ n \notin folders => Current(n) = {}

\* What the script has not yet read of the folder in hand is all it lacks.
ReadInv ==
  /\ bpc \in {"read", "write"} =>
       /\ cur \in binFiles
       /\ temp \subseteq ever[cur]
       /\ \A f \in Looks \ items :
            holds[cur][f] \subseteq binLines[cur] \cup temp
       /\ cur \in folders => items \subseteq Looks
       /\ cur \notin folders => items = {}
       /\ bpc = "write" => items = {}
       /\ bpc = "read" /\ lang = "C" => temp = {}

\* The part of the left array that has been gone through.
Visited == {lefts[j] : j \in 1..(i - 1)}

LoopInv ==
  cpc = "loop" =>
    /\ lefts = Array(left) /\ rights = Array(binFiles)
    /\ i <= Len(lefts) + 1
    /\ \A j \in 1..(i - 1) : j <= Len(rights) /\ rights[j] = lefts[j]

\* The names in S whose two sets are in relation k.
InCondition(S, k) == {n \in S \ broken : Condition(n, n) = k}

CountInv ==
  cpc = "loop" /\ Star \notin left =>
    /\ IsFiniteSet(Visited)
    /\ total = Cardinality(Visited)
    /\ \A k \in 0..3 : count[k] = Cardinality(InCondition(Visited, k))

\* A verdict is there only while what it was given on cannot change.
VerdictInv ==
  /\ bpc # "idle" \/ cpc = "loop" => verdict = "none"
  /\ verdict = "totals" /\ Star \notin left => IsFiniteSet(left)

Lists == ReadInv /\ HeldInv /\ ListsExplained /\ CollectedComplete
Counts ==
  LoopInv /\ CountInv /\ VerdictInv /\ TotalsTrue /\ RefusesOnlyMisaligned

Inv == TypeOK /\ Lists /\ Counts

-----------------------------------------------------------------------------
LEMMA ListingType ==
  ASSUME NEW S \in SUBSET Name
  PROVE  Listing[S] \in Seq(Name)
  BY BinPkgsAssumption

LEMMA ConcatElements ==
  ASSUME NEW X, NEW a \in Seq(X), NEW b \in Seq(X), NEW S,
         \A k \in 1..Len(a) : a[k] \in S,
         \A k \in 1..Len(b) : b[k] \in S
  PROVE  \A k \in 1..Len(a \o b) : (a \o b)[k] \in S
<1> TAKE k \in 1..Len(a \o b)
<1>1. Len(a \o b) = Len(a) + Len(b) OBVIOUS
<1>2. CASE k <= Len(a)
  <2>1. (a \o b)[k] = a[k] BY <1>1, <1>2
  <2> QED BY <1>1, <1>2, <2>1
<1>3. CASE k > Len(a)
  <2>1. (a \o b)[k] = b[k - Len(a)] BY <1>1, <1>3
  <2>2. k - Len(a) \in 1..Len(b) BY <1>1, <1>3
  <2> QED BY <2>1, <2>2
<1> QED BY <1>2, <1>3

\* An array names the files of its folder and nothing else.
LEMMA ArrayElements ==
  ASSUME NEW S \in SUBSET Name
  PROVE  /\ Array(S) \in Seq(Name)
         /\ \A k \in 1..Len(Array(S)) : Array(S)[k] \in S
<1>1. /\ Listing[S] \in Seq(Name)
      /\ \A k \in 1..Len(Listing[S]) : Listing[S][k] \in S
  BY BinPkgsAssumption
<1>2. DEFINE T == S \ {Star}
<1>3. /\ Listing[T] \in Seq(Name)
      /\ \A k \in 1..Len(Listing[T]) : Listing[T][k] \in T
  BY BinPkgsAssumption, T \in SUBSET Name
<1>4. CASE Star \in S
  <2>1. Array(S) = Listing[S] \o Listing[T] BY <1>4 DEF Array
  <2>2. \A k \in 1..Len(Listing[T]) : Listing[T][k] \in S BY <1>3
  <2> HIDE DEF T
  <2>3. Listing[S] \o Listing[T] \in Seq(Name) BY <1>1, <1>3
  <2>4. \A k \in 1..Len(Listing[S] \o Listing[T]) :
          (Listing[S] \o Listing[T])[k] \in S
    BY <1>1, <1>3, <2>2, ConcatElements
  <2> QED BY <2>1, <2>3, <2>4
<1>5. CASE Star \notin S BY <1>1, <1>5 DEF Array
<1> QED BY <1>4, <1>5

\* Without *-pkg.txt, it names each of them once.
LEMMA ArrayOnce ==
  ASSUME NEW S \in SUBSET Name, Star \notin S
  PROVE  /\ \A p \in S : \E k \in 1..Len(Array(S)) : Array(S)[k] = p
         /\ \A j, k \in 1..Len(Array(S)) : Array(S)[j] = Array(S)[k] => j = k
  BY BinPkgsAssumption DEF Array

LEMMA RelationType ==
  ASSUME NEW A, NEW B
  PROVE  Relation(A, B) \in 0..3
  BY DEF Relation

LEMMA ConditionType ==
  ASSUME NEW n, NEW m
  PROVE  Condition(n, m) \in 0..3
  BY RelationType DEF Condition

LEMMA RelationZero ==
  ASSUME NEW A, NEW B, Relation(A, B) = 0
  PROVE  A = B
  BY DEF Relation

-----------------------------------------------------------------------------
LEMMA InitInv == Init => Inv
<1> SUFFICES ASSUME Init PROVE Inv OBVIOUS
<1> USE BinPkgsAssumption, EvaluationAssumption DEF Init, BinPkgsInit
<1>1. TypeOK BY DEF TypeOK, BinPkgsTypeOK, Name, Zero
<1>2. Lists
  BY DEF Lists, ReadInv, HeldInv, ListsExplained, CollectedComplete, Current,
         Looks, Lang, File
<1>3. Counts
  BY DEF Counts, LoopInv, CountInv, VerdictInv, TotalsTrue,
         RefusesOnlyMisaligned
<1> QED BY <1>1, <1>2, <1>3 DEF Inv

\* Steps that leave the comparison and what it reads alone.
LEMMA CountsFrame ==
  ASSUME Counts, UNCHANGED <<lvars, cvars, binFiles, binLines>>,
         bpc' # "idle" => bpc # "idle"
  PROVE  Counts'
<1> USE DEF lvars, cvars
<1>1. Visited' = Visited BY DEF Visited
<1>2. ASSUME NEW n, NEW m PROVE Condition(n, m)' = Condition(n, m)
  BY DEF Condition, Seen
<1>3. ASSUME NEW k PROVE InCondition(Visited, k)' = InCondition(Visited, k)
  BY <1>1, <1>2 DEF InCondition
<1>4. LoopInv' BY DEF Counts, LoopInv, Array
<1>5. CountInv' BY <1>1, <1>3 DEF Counts, CountInv
<1>6. VerdictInv' /\ RefusesOnlyMisaligned'
  BY DEF Counts, VerdictInv, RefusesOnlyMisaligned
<1>7. TotalsTrue'
  <2>1. ASSUME NEW k
        PROVE  {n \in left \ broken : Condition(n, n) = k}' =
               {n \in left \ broken : Condition(n, n) = k}
    BY <1>2
  <2> QED BY <2>1 DEF Counts, TotalsTrue
<1> QED BY <1>4, <1>5, <1>6, <1>7 DEF Counts

\* Steps of the list script: there is no comparison and no verdict.
LEMMA CountsIdle ==
  ASSUME TypeOK, Counts, bpc # "idle", UNCHANGED <<lvars, cvars>>
  PROVE  Counts'
<1>1. cpc = "idle" /\ verdict = "none"
  BY DEF TypeOK, Counts, VerdictInv
<1> QED
  BY <1>1 DEF Counts, LoopInv, CountInv, VerdictInv, TotalsTrue,
         RefusesOnlyMisaligned, lvars, cvars

\* Steps that leave the lists, and what they are made from, alone.
LEMMA ListsFrame ==
  ASSUME Lists, UNCHANGED bvars
  PROVE  Lists'
  BY DEF Lists, ReadInv, HeldInv, ListsExplained, CollectedComplete, Current,
         Looks, bvars, binaries

-----------------------------------------------------------------------------
LEMMA ChangeStep ==
  ASSUME Inv, Change
  PROVE  Inv'
<1> USE BinPkgsAssumption DEF Inv, Change, ChangeBinary
<1>1. PICK p \in Project, f \in File, C \in Contents :
        /\ folders' = folders \cup {p}
        /\ holds' = [holds EXCEPT ![p][f] = C]
        /\ ever' = [ever EXCEPT ![p] = IF f \in Looks THEN @ \cup C ELSE @]
        /\ collected' = collected \ {p}
  OBVIOUS
<1>2. TypeOK'
  BY <1>1 DEF TypeOK, BinPkgsTypeOK, Name, lvars, cvars
<1>3. HeldInv'
  <2> USE DEF TypeOK, BinPkgsTypeOK
  <2>1. Looks' = Looks BY DEF Looks
  <2>2. ASSUME NEW n \in Name, n # p
        PROVE  Current(n)' = Current(n) /\ ever'[n] = ever[n]
    <3>1. holds'[n] = holds[n] /\ ever'[n] = ever[n] BY <1>1, <2>2
    <3>2. Current(n)' = UNION {holds'[n][g] : g \in Looks}
      BY <2>1 DEF Current
    <3>3. {holds'[n][g] : g \in Looks} = {holds[n][g] : g \in Looks} BY <3>1
    <3> HIDE DEF TypeOK, BinPkgsTypeOK
    <3> QED BY ONLY <3>1, <3>2, <3>3 DEF Current
  <2>3. ASSUME NEW g \in Looks
        PROVE  holds'[p][g] \subseteq ever'[p]
    <3>0. Looks \subseteq File BY DEF Looks, File, Lang
    <3>1. CASE g = f BY <1>1, <2>3, <3>0, <3>1 DEF Name
    <3>2. CASE g # f
      <4>1. holds'[p][g] = holds[p][g] BY <1>1, <2>3, <3>0, <3>2 DEF Name
      <4>2. holds[p][g] \subseteq ever[p]
        BY <2>3 DEF Lists, HeldInv, Current, Name
      <4>3. ever[p] \subseteq ever'[p] BY <1>1 DEF Name
      <4> QED BY <4>1, <4>2, <4>3
    <3> QED BY <3>1, <3>2
  <2>4. Current(p)' \subseteq ever'[p] BY <2>1, <2>3 DEF Current
  <2> QED BY <1>1, <2>2, <2>4 DEF Lists, HeldInv
<1>4. ReadInv' BY DEF ReadInv
<1>5. ListsExplained'
  BY <1>1 DEF Lists, ListsExplained, TypeOK, BinPkgsTypeOK, Name
<1>6. CollectedComplete'
  <2> USE DEF TypeOK, BinPkgsTypeOK
  <2>1. ASSUME NEW n \in collected'
        PROVE  Current(n)' = Current(n)
    BY <1>1, <2>1 DEF Current, Looks, Name
  <2> QED BY <1>1, <2>1 DEF Lists, CollectedComplete
<1>7. Counts' BY CountsFrame, UNCHANGED <<lvars, cvars>>
<1> QED BY <1>2, <1>3, <1>4, <1>5, <1>6, <1>7 DEF Lists

LEMMA StartBinPkgsStep ==
  ASSUME Inv, StartBinPkgs
  PROVE  Inv'
<1> USE BinPkgsAssumption DEF Inv, StartBinPkgs, StartBins, binaries, lvars
<1>0. todo' \in Seq(Name)
  <2>1. <<Star>> \in Seq(Name) BY DEF Name
  <2>2. Listing[folders] \in Seq(Name)
    BY ListingType DEF TypeOK, BinPkgsTypeOK, Name
  <2> QED BY <2>1, <2>2
<1>1. TypeOK'
  <2>1. BinPkgsTypeOK' BY <1>0 DEF TypeOK, BinPkgsTypeOK
  <2> QED BY <2>1 DEF TypeOK, Zero
<1>2. Lists'
  BY DEF Lists, ReadInv, HeldInv, ListsExplained, CollectedComplete, Current,
         Looks
<1>3. Counts'
  BY DEF Counts, LoopInv, CountInv, VerdictInv, TotalsTrue,
         RefusesOnlyMisaligned
<1> QED BY <1>1, <1>2, <1>3

LEMMA NextFolderStep ==
  ASSUME Inv, NextFolder, UNCHANGED <<lvars, cvars>>
  PROVE  Inv'
<1> USE BinPkgsAssumption DEF Inv, NextFolder, binaries
<1>0. Looks \subseteq File /\ Looks' = Looks BY DEF Looks, File
<1>a. Head(todo) \in Name /\ Tail(todo) \in Seq(Name)
  BY DEF TypeOK, BinPkgsTypeOK
<1>1. TypeOK' BY <1>0, <1>a DEF TypeOK, BinPkgsTypeOK, lvars, cvars
<1>2. ReadInv'
  <2>1. ASSUME Head(todo) \notin folders, NEW f \in Looks
        PROVE  holds[Head(todo)][f] = {}
    BY <1>a, <2>1 DEF Lists, HeldInv, Current
  <2> QED BY <1>0, <1>a, <2>1 DEF ReadInv, TypeOK, BinPkgsTypeOK
<1>3. HeldInv' /\ ListsExplained' /\ CollectedComplete'
  BY <1>0 DEF Lists, HeldInv, ListsExplained, CollectedComplete, Current
<1>4. Counts' BY CountsIdle
<1> QED BY <1>1, <1>2, <1>3, <1>4 DEF Lists

\* What appending lines to one of the files does to all of them.
LEMMA AppendLines ==
  ASSUME NEW B \in [Name -> SUBSET Pkg], NEW n \in Name, NEW L \in SUBSET Pkg,
         NEW C, C = [B EXCEPT ![n] = @ \cup L]
  PROVE  /\ C \in [Name -> SUBSET Pkg]
         /\ C[n] = B[n] \cup L
         /\ \A m \in Name : m # n => C[m] = B[m]
  OBVIOUS

LEMMA ReadFileStep ==
  ASSUME Inv, ReadFile, UNCHANGED <<lvars, cvars>>
  PROVE  Inv'
<1> USE BinPkgsAssumption DEF Inv, ReadFile, binaries, TypeOK, BinPkgsTypeOK
<1>0. Looks \subseteq File /\ Looks' = Looks BY DEF Looks, File
<1>1. PICK f \in items :
       /\ items' = items \ {f}
       /\ IF lang = "C"
          THEN /\ binLines' = [binLines EXCEPT ![cur] = @ \cup holds[cur][f]]
               /\ UNCHANGED temp
          ELSE /\ temp' = temp \cup holds[cur][f]
               /\ UNCHANGED binLines
  OBVIOUS
<1>2. holds[cur][f] \in SUBSET Pkg /\ holds[cur][f] \subseteq ever[cur]
  BY <1>1 DEF Lists, ReadInv, HeldInv, Current
<1>3. /\ binLines' \in [Name -> SUBSET Pkg]
      /\ \A n \in Name : binLines[n] \subseteq binLines'[n]
      /\ \A n \in Name : n # cur => binLines'[n] = binLines[n]
      /\ binLines'[cur] \subseteq binLines[cur] \cup holds[cur][f]
      /\ holds[cur][f] \subseteq binLines'[cur] \cup temp'
      /\ temp \subseteq temp' /\ temp' \subseteq temp \cup holds[cur][f]
  <2>1. CASE lang = "C"
    <3>1. /\ binLines' = [binLines EXCEPT ![cur] = @ \cup holds[cur][f]]
          /\ temp' = temp
      BY <1>1, <2>1
    <3>2. /\ binLines' \in [Name -> SUBSET Pkg]
          /\ binLines'[cur] = binLines[cur] \cup holds[cur][f]
          /\ \A m \in Name : m # cur => binLines'[m] = binLines[m]
      BY <1>2, <3>1, AppendLines
    <3> QED BY <3>1, <3>2
  <2>2. CASE lang # "C"
    <3>1. binLines' = binLines /\ temp' = temp \cup holds[cur][f]
      BY <1>1, <2>2
    <3> QED BY <3>1
  <2> QED BY <2>1, <2>2
<1>4. TypeOK' BY <1>1, <1>2, <1>3 DEF lvars, cvars
<1>5. ReadInv' BY <1>0, <1>1, <1>2, <1>3 DEF Lists, ReadInv
<1>6. HeldInv' BY <1>0 DEF Lists, HeldInv, Current
<1>7. ListsExplained'
  <2>1. \A n \in Name : binLines[n] \subseteq ever[n]
    BY DEF Lists, ListsExplained
  <2> QED BY <1>2, <1>3, <2>1 DEF ListsExplained
<1>a. CollectedComplete'
  <2>1. \A n \in collected : n \in Name /\ Current(n) \subseteq binLines[n]
    BY DEF Lists, CollectedComplete
  <2>2. ASSUME NEW n PROVE Current(n)' = Current(n) BY <1>0 DEF Current
  <2> QED BY <1>3, <2>1, <2>2 DEF CollectedComplete
<1>8. Counts' BY CountsIdle
<1> QED BY <1>4, <1>5, <1>6, <1>7, <1>8, <1>a DEF Lists

LEMMA SortFolderStep ==
  ASSUME Inv, SortFolder, UNCHANGED <<lvars, cvars>>
  PROVE  Inv'
<1> USE BinPkgsAssumption DEF Inv, SortFolder, binaries, TypeOK, BinPkgsTypeOK
<1>0. Looks \subseteq File /\ Looks' = Looks BY DEF Looks, File
<1>1. /\ binLines' \in [Name -> SUBSET Pkg]
      /\ \A n \in Name : binLines'[n] \subseteq binLines[n]
      /\ \A n \in Name \ {cur} : binLines'[n] = binLines[n]
      /\ temp' \subseteq temp \cup binLines[cur]
      /\ binLines[cur] \cup temp \subseteq binLines'[cur] \cup temp'
  <2>1. CASE lang = "C"
    <3>1. temp' = binLines[cur] /\ binLines' = [binLines EXCEPT ![cur] = {}]
      BY <2>1
    <3>2. temp = {} BY <2>1 DEF Lists, ReadInv
    <3> QED BY <3>1, <3>2
  <2>2. CASE lang # "C"
    <3>1. temp' = temp /\ binLines' = binLines BY <2>2
    <3> QED BY <3>1
  <2> QED BY <2>1, <2>2
<1>2. /\ collected' \subseteq collected
      /\ binLines' # binLines => cur \notin collected'
  OBVIOUS
<1>3. ListsExplained' BY <1>1 DEF Lists, ListsExplained
<1>4. TypeOK' BY <1>1, <1>2 DEF lvars, cvars
<1>5. ReadInv'
  <2>1. bpc' = "write" /\ items' = {} /\ cur' = cur /\ cur \in binFiles'
    BY DEF Lists, ReadInv
  <2>2. temp' \subseteq ever[cur]
    BY <1>1 DEF Lists, ReadInv, ListsExplained
  <2>3. \A f \in Looks \ items :
          holds[cur][f] \subseteq binLines[cur] \cup temp
    BY DEF Lists, ReadInv
  <2>4. \A f \in Looks \ items :
          holds[cur][f] \subseteq binLines'[cur] \cup temp'
    BY <1>1, <2>3
  <2> QED BY <1>0, <2>1, <2>2, <2>4 DEF ReadInv
<1>6. HeldInv' BY <1>0 DEF Lists, HeldInv, Current
<1>7. CollectedComplete'
  <2>1. ASSUME NEW n \in collected'
        PROVE  n \in collected /\ binLines'[n] = binLines[n]
    BY <1>1, <1>2
  <2> QED BY <1>0, <2>1 DEF Lists, CollectedComplete, Current
<1>8. Counts' BY CountsIdle
<1> QED BY <1>3, <1>4, <1>5, <1>6, <1>7, <1>8 DEF Lists

LEMMA AppendFolderStep ==
  ASSUME Inv, AppendFolder, UNCHANGED <<lvars, cvars>>
  PROVE  Inv'
<1> USE BinPkgsAssumption DEF Inv, AppendFolder, binaries, TypeOK, BinPkgsTypeOK
<1>0. Looks \subseteq File /\ Looks' = Looks BY DEF Looks, File
<1>1. TypeOK' BY DEF Lists, ReadInv, lvars, cvars
<1>2. ReadInv' BY DEF ReadInv
<1>3. HeldInv' BY <1>0 DEF Lists, HeldInv, Current
<1>4. ListsExplained' BY DEF Lists, ReadInv, ListsExplained
<1>5. CollectedComplete'
  <2>1. Current(cur) \subseteq binLines'[cur]
    <3>1. \A f \in Looks : holds[cur][f] \subseteq binLines[cur] \cup temp
      BY DEF Lists, ReadInv
    <3>2. binLines'[cur] = binLines[cur] \cup temp BY AppendLines
    <3> QED BY <3>1, <3>2 DEF Current
  <2>2. ASSUME NEW n \in collected
        PROVE  Current(n) \subseteq binLines'[n]
    BY <2>2 DEF Lists, CollectedComplete
  <2> QED BY <1>0, <2>1, <2>2 DEF CollectedComplete, Current
<1>6. Counts' BY CountsIdle
<1> QED BY <1>1, <1>2, <1>3, <1>4, <1>5, <1>6 DEF Lists

LEMMA BinsGoneStep ==
  ASSUME Inv, FinishBins \/ KillBins, UNCHANGED <<lvars, cvars>>
  PROVE  Inv'
<1> USE DEF Inv, FinishBins, KillBins, Gone, binaries
<1>0. /\ binLines' \in [Name -> SUBSET Pkg]
      /\ \A n \in Name : binLines[n] \subseteq binLines'[n]
      /\ ListsExplained'
  <2>0. binLines \in [Name -> SUBSET Pkg] /\ cur \in Name /\ temp \subseteq Pkg
    BY DEF TypeOK, BinPkgsTypeOK
  <2>1. CASE UNCHANGED binLines
    BY <2>0, <2>1 DEF Lists, ListsExplained
  <2>2. CASE ~UNCHANGED binLines
    <3>1. PICK part \in SUBSET temp :
            binLines' = [binLines EXCEPT ![cur] = @ \cup part]
      BY <2>2
    <3>2. bpc = "write" /\ part \subseteq ever[cur]
      BY <2>2 DEF Lists, ReadInv
    <3>3. /\ binLines' \in [Name -> SUBSET Pkg]
          /\ binLines'[cur] = binLines[cur] \cup part
          /\ \A m \in Name : m # cur => binLines'[m] = binLines[m]
      BY <2>0, <3>1, AppendLines
    <3>4. \A n \in Name : binLines[n] \subseteq ever[n]
      BY DEF Lists, ListsExplained
    <3> QED BY <3>2, <3>3, <3>4 DEF ListsExplained
  <2> QED BY <2>1, <2>2
<1>1. TypeOK'
  <2>1. BinPkgsTypeOK'
    <3>0. todo' = <<>> /\ cur' = Star /\ Star \in Name BY DEF Name
    <3>1. todo' \in Seq(Name) /\ cur' \in Name BY ONLY <3>0
    <3> QED BY <1>0, <3>1 DEF TypeOK, BinPkgsTypeOK
  <2>2. bpc' = "idle" OBVIOUS
  <2> QED BY <2>1, <2>2 DEF TypeOK, lvars, cvars
<1>2. Lists'
  <2>1. ReadInv' /\ HeldInv'
    BY DEF Lists, ReadInv, HeldInv, Current, Looks
  <2>2. CollectedComplete'
    <3>1. collected \subseteq Name BY DEF TypeOK, BinPkgsTypeOK
    <3> QED
      BY <1>0, <3>1 DEF Lists, CollectedComplete, Current, Looks
  <2> QED BY <1>0, <2>1, <2>2 DEF Lists
<1>3. Counts' BY CountsIdle
<1> QED BY <1>1, <1>2, <1>3

-----------------------------------------------------------------------------
LEMMA StartCompareStep ==
  ASSUME Inv, StartCompare
  PROVE  Inv'
<1> DEFINE L == Array(left)
           R == Array(binFiles)
<1> USE DEF Inv, StartCompare, Exit
<1>0. L \in Seq(Name) /\ R \in Seq(Name)
  BY ArrayElements DEF TypeOK, BinPkgsTypeOK
<1>1. UNCHANGED bvars /\ UNCHANGED lvars OBVIOUS
<1>2. Lists' BY <1>1, ListsFrame
<1>3. CASE mode = "pkgs" /\ Len(L) # Len(R)
  <2>1. TypeOK'
    BY <1>1, <1>3 DEF TypeOK, BinPkgsTypeOK, bvars, binaries, lvars, Zero
  <2>2. left # binFiles BY <1>3
  <2>3. Counts'
    BY <1>1, <1>3, <2>2 DEF Counts, LoopInv, CountInv, VerdictInv, TotalsTrue,
           RefusesOnlyMisaligned, bvars, binaries, lvars
  <2> QED BY <1>2, <2>1, <2>3
<1>4. CASE ~(mode = "pkgs" /\ Len(L) # Len(R))
  <2>0. /\ cpc' = "loop" /\ verdict' = "none"
        /\ lefts' = L /\ rights' = R /\ i' = 1
    BY <1>4
  <2>1. TypeOK'
    BY <1>0, <1>1, <2>0 DEF TypeOK, BinPkgsTypeOK, bvars, binaries, lvars, Zero
  <2>2. LoopInv'
    <3>1. lefts' = Array(left)' /\ rights' = Array(binFiles)'
      BY <1>1, <2>0 DEF Array, bvars, lvars
    <3>2. Len(lefts') \in Nat /\ 1..(i' - 1) = {} BY <1>0, <2>0
    <3> QED BY <2>0, <3>1, <3>2 DEF LoopInv
  <2>3. Visited' = {} BY <2>0 DEF Visited
  <2>4. \A k \in 0..3 : InCondition(Visited, k)' = {}
    BY <2>3 DEF InCondition
  <2>5. CountInv' BY <2>3, <2>4, FS_EmptySet DEF CountInv, Zero
  <2>6. VerdictInv' /\ TotalsTrue' /\ RefusesOnlyMisaligned'
    BY <2>0 DEF VerdictInv, TotalsTrue, RefusesOnlyMisaligned
  <2> QED BY <1>2, <2>1, <2>2, <2>5, <2>6 DEF Counts
<1> QED BY <1>3, <1>4

LEMMA CompareOneStep ==
  ASSUME Inv, CompareOne
  PROVE  Inv'
<1> USE EvaluationAssumption DEF Inv, CompareOne, TypeOK
<1>0. UNCHANGED bvars /\ UNCHANGED lvars OBVIOUS
<1>a. lefts[i] \in Name /\ i \in 1..Len(lefts) OBVIOUS
<1>b. i <= Len(rights) /\ rights[i] = lefts[i] BY <1>a DEF At
<1> DEFINE n == lefts[i]
           c == Condition(n, n)
<1>c. c \in 0..3 /\ Condition(lefts[i], rights[i]) = c BY <1>b, ConditionType
<1>1. TypeOK' BY <1>0, <1>c DEF BinPkgsTypeOK, bvars, binaries, lvars
<1>2. Lists' BY <1>0, ListsFrame
<1>3. LoopInv'
  <2>1. lefts = Array(left) /\ rights = Array(binFiles)
    BY DEF Counts, LoopInv
  <2>2. lefts' = Array(left)' /\ rights' = Array(binFiles)'
    BY <1>0, <2>1 DEF Array, bvars, lvars
  <2>3. \A j \in 1..(i - 1) : j <= Len(rights) /\ rights[j] = lefts[j]
    BY DEF Counts, LoopInv
  <2>4. i' = i + 1 /\ i' - 1 = i /\ i' <= Len(lefts) + 1 BY <1>a
  <2>5. \A j \in 1..i : j \in 1..(i - 1) \/ j = i BY <1>a
  <2> QED BY <1>b, <2>2, <2>3, <2>4, <2>5 DEF LoopInv
<1>4. CountInv'
  <2> SUFFICES ASSUME Star \notin left
               PROVE  /\ IsFiniteSet(Visited')
                      /\ total' = Cardinality(Visited')
                      /\ \A k \in 0..3 :
                           count'[k] = Cardinality(InCondition(Visited, k)')
    BY <1>0 DEF CountInv, lvars
  <2> HIDE DEF c
  <2>1. Visited' = Visited \cup {n}
    <3>1. i' - 1 = i /\ 1..i = 1..(i - 1) \cup {i} BY <1>a
    <3> QED BY <3>1 DEF Visited
  <2>2. n \notin Visited
    <3>1. \A j, k \in 1..Len(lefts) : lefts[j] = lefts[k] => j = k
      <4>1. lefts = Array(left) BY DEF Counts, LoopInv
      <4>2. left \in SUBSET Name OBVIOUS
      <4> QED BY <4>1, <4>2, ArrayOnce
    <3>2. \A j \in 1..(i - 1) : j \in 1..Len(lefts) /\ j # i
      BY <1>a
    <3> QED BY <1>a, <3>1, <3>2 DEF Visited
  <2>3. /\ IsFiniteSet(Visited) /\ total = Cardinality(Visited)
        /\ \A k \in 0..3 : count[k] = Cardinality(InCondition(Visited, k))
    BY DEF Counts, CountInv
  <2>4. IsFiniteSet(Visited') /\ total' = Cardinality(Visited')
    <3>1. total' = total + 1 OBVIOUS
    <3> QED BY <2>1, <2>2, <2>3, <3>1, FS_AddElement
  <2>5. ASSUME NEW k \in 0..3
        PROVE  count'[k] = Cardinality(InCondition(Visited, k)')
    <3> DEFINE S == InCondition(Visited, k)
    <3>1. InCondition(Visited, k)' = InCondition(Visited \cup {n}, k)
      BY <1>0, <2>1 DEF InCondition, Condition, Seen, bvars, lvars
    <3>2. IsFiniteSet(S) /\ n \notin S
      BY <2>2, <2>3, FS_Subset DEF InCondition
    <3>3. CASE n \notin broken /\ c = k
      <4>1. InCondition(Visited \cup {n}, k) = S \cup {n}
        BY <3>3 DEF InCondition, c
      <4>2. count'[k] = count[k] + 1 BY <1>c, <3>3
      <4>3. Cardinality(S \cup {n}) = Cardinality(S) + 1
        BY <3>2, FS_AddElement
      <4> QED BY <2>3, <3>1, <4>1, <4>2, <4>3
    <3>4. CASE n \in broken \/ c # k
      <4>1. InCondition(Visited \cup {n}, k) = S
        BY <3>4 DEF InCondition, c
      <4>2. count'[k] = count[k] BY <1>c, <3>4
      <4> QED BY <2>3, <3>1, <4>1, <4>2
    <3> QED BY <3>3, <3>4
  <2> QED BY <2>4, <2>5
<1>5. VerdictInv' /\ TotalsTrue' /\ RefusesOnlyMisaligned'
  BY <1>0 DEF Counts, VerdictInv, TotalsTrue, RefusesOnlyMisaligned
<1> QED BY <1>1, <1>2, <1>3, <1>4, <1>5 DEF Counts

LEMMA CompareAbortsStep ==
  ASSUME Inv, CompareAborts
  PROVE  Inv'
<1> USE DEF Inv, CompareAborts, Exit, TypeOK
<1>0. UNCHANGED bvars /\ UNCHANGED lvars OBVIOUS
<1>1. TypeOK' BY <1>0 DEF BinPkgsTypeOK, bvars, binaries, lvars
<1>2. Lists' BY <1>0, ListsFrame
<1>3. left # binFiles BY DEF Counts, LoopInv, At
<1>4. Counts'
  BY <1>0, <1>3 DEF Counts, LoopInv, CountInv, VerdictInv, TotalsTrue,
         RefusesOnlyMisaligned, bvars, binaries, lvars
<1> QED BY <1>1, <1>2, <1>4

LEMMA CompareEndsStep ==
  ASSUME Inv, CompareEnds
  PROVE  Inv'
<1> USE DEF Inv, CompareEnds, Exit, TypeOK
<1>0. UNCHANGED bvars /\ UNCHANGED lvars OBVIOUS
<1>1. TypeOK' BY <1>0 DEF BinPkgsTypeOK, bvars, binaries, lvars
<1>2. Lists' BY <1>0, ListsFrame
<1>3. i = Len(lefts) + 1 /\ i - 1 = Len(lefts) BY DEF Counts, LoopInv
<1>4. ASSUME Star \notin left PROVE Visited = left
  <2>1. /\ \A p \in left : \E k \in 1..Len(lefts) : lefts[k] = p
        /\ \A k \in 1..Len(lefts) : lefts[k] \in left
    <3>1. lefts = Array(left) BY DEF Counts, LoopInv
    <3>2. left \in SUBSET Name OBVIOUS
    <3>3. \A k \in 1..Len(Array(left)) : Array(left)[k] \in left
      BY ONLY <3>2, ArrayElements
    <3>4. \A p \in left : \E k \in 1..Len(Array(left)) : Array(left)[k] = p
      BY ONLY <1>4, <3>2, ArrayOnce
    <3> QED BY ONLY <3>1, <3>3, <3>4
  <2> QED BY <1>3, <2>1 DEF Visited
<1>5. left \subseteq binFiles \/ Star \in left
  <2>1. \A k \in 1..Len(rights) : rights[k] \in binFiles
    BY ArrayElements DEF Counts, LoopInv, BinPkgsTypeOK
  <2>2. \A n \in Visited : n \in binFiles
    BY <2>1 DEF Counts, LoopInv, Visited
  <2> QED BY <1>4, <2>2
<1>6. TotalsTrue'
  <2> SUFFICES ASSUME Star \notin left
               PROVE  /\ left \subseteq binFiles
                      /\ total = Cardinality(left)
                      /\ \A k \in 0..3 :
                           count[k] = Cardinality(InCondition(left, k))
    BY <1>0 DEF TotalsTrue, InCondition, Condition, Seen, bvars, lvars
  <2> QED BY <1>4, <1>5 DEF Counts, CountInv
<1>7. VerdictInv'
  BY <1>0, <1>4 DEF Counts, CountInv, VerdictInv, bvars, lvars
<1>8. LoopInv' /\ CountInv' /\ RefusesOnlyMisaligned'
  BY DEF LoopInv, CountInv, RefusesOnlyMisaligned
<1> QED BY <1>1, <1>2, <1>6, <1>7, <1>8 DEF Counts

LEMMA CompareKilledStep ==
  ASSUME Inv, CompareKilled
  PROVE  Inv'
<1> USE DEF Inv, CompareKilled, Exit, TypeOK
<1>0. UNCHANGED bvars /\ UNCHANGED lvars OBVIOUS
<1>1. TypeOK' BY <1>0 DEF BinPkgsTypeOK, bvars, binaries, lvars, Zero
<1>2. Lists' BY <1>0, ListsFrame
<1>3. Counts'
  BY <1>0 DEF Counts, LoopInv, CountInv, VerdictInv, TotalsTrue,
         RefusesOnlyMisaligned
<1> QED BY <1>1, <1>2, <1>3

LEMMA NextInv == Inv /\ [Next]_vars => Inv'
<1> SUFFICES ASSUME Inv, [Next]_vars PROVE Inv' OBVIOUS
<1>1. CASE BinPkgsStep
  <2> USE <1>1 DEF BinPkgsStep, BinsStep
  <2>1. CASE NextFolder BY <2>1, NextFolderStep
  <2>2. CASE ReadFile BY <2>2, ReadFileStep
  <2>3. CASE AppendFolder BY <2>3, AppendFolderStep
  <2>4. CASE FinishBins BY <2>4, BinsGoneStep
  <2>5. CASE SortFolder BY <2>5, SortFolderStep
  <2> QED BY <2>1, <2>2, <2>3, <2>4, <2>5
<1>2. CASE BinPkgsKill BY <1>2, BinsGoneStep DEF BinPkgsKill
<1>3. CASE CompareStep
  BY <1>3, CompareOneStep, CompareAbortsStep, CompareEndsStep DEF CompareStep
<1>4. CASE UNCHANGED vars
  <2> USE <1>4 DEF vars
  <2>1. TypeOK' BY DEF Inv, TypeOK, BinPkgsTypeOK, bvars, binaries, lvars, cvars
  <2>2. Lists' BY ListsFrame DEF Inv
  <2>3. Counts' BY CountsFrame DEF Inv, bvars
  <2> QED BY <2>1, <2>2, <2>3 DEF Inv
<1> QED
  BY <1>1, <1>2, <1>3, <1>4, ChangeStep, StartBinPkgsStep, StartCompareStep,
     CompareKilledStep DEF Next

LEMMA Invariance == Spec => []Inv
  BY InitInv, NextInv, PTL DEF Spec

-----------------------------------------------------------------------------
\* The files, both scripts' memory and the counters keep their types.
THEOREM TypeCorrect == Spec => []TypeOK
<1>1. Inv => TypeOK BY DEF Inv
<1> QED BY <1>1, Invariance, PTL

\* A project's list names only packages that one of its own binaries named.
THEOREM ListsAreExplained == Spec => []ListsExplained
<1>1. Inv => ListsExplained BY DEF Inv, Lists
<1> QED BY <1>1, Invariance, PTL

\* A list whose folder was gone through since it last changed, and which C has
\* not begun to sort again, is complete.
THEOREM CollectionsAreComplete == Spec => []CollectedComplete
<1>1. Inv => CollectedComplete BY DEF Inv, Lists
<1> QED BY <1>1, Invariance, PTL

\* Printed totals count every project once, under its true condition.
THEOREM TotalsAreTrue == Spec => []TotalsTrue
<1>1. Inv => TotalsTrue BY DEF Inv, Counts
<1> QED BY <1>1, Invariance, PTL

\* Folders that hold the same projects are never refused.
THEOREM RefusalsAreMisaligned == Spec => []RefusesOnlyMisaligned
<1>1. Inv => RefusesOnlyMisaligned BY DEF Inv, Counts
<1> QED BY <1>1, Invariance, PTL

\* If all projects are in condition 0, every binary's packages are in the
\* left file of its project.
THEOREM AgreementsAreEvidence == Spec => []AgreementIsEvidence
<1>1. Inv => AgreementIsEvidence
  <2> SUFFICES ASSUME Inv, verdict = "totals", count[0] = total,
                      Star \notin left, NEW n \in left \cap collected
               PROVE  Current(n) \subseteq Seen(n)
    BY DEF AgreementIsEvidence
  <2> USE DEF Inv
  <2>1. IsFiniteSet(left) BY DEF Counts, VerdictInv
  <2>2. Cardinality(InCondition(left, 0)) = Cardinality(left)
    BY DEF Counts, TotalsTrue, InCondition
  <2>3. InCondition(left, 0) = left
    BY <2>1, <2>2, FS_Subset DEF InCondition
  <2>4. Condition(n, n) = 0 BY <2>3 DEF InCondition
  <2>5. binLines[n] = Seen(n) BY <2>4, RelationZero DEF Condition
  <2> QED BY <2>5 DEF Lists, CollectedComplete
<1> QED BY <1>1, Invariance, PTL
=============================================================================
