--------------------------- MODULE NewSbomsProofs ---------------------------
(***************************************************************************)
(* Proofs about NewSboms, for any projects, lists and number of batches.   *)
(***************************************************************************)
EXTENDS NewSboms, SequenceTheorems, TLAPS

\* How far the go.mod in hand has come.
IrInv ==
  /\ pc \in {"add", "cdxgen"} =>
       /\ cur \notin todo
       /\ basis[cur] = list[cur] /\ rest \subseteq basis[cur]
       /\ ir[cur] = Orig[cur] \cup
                      {Written(l) : l \in (basis[cur] \ rest) \cap Kept(cur)}
  /\ pc = "cdxgen" => rest = {} /\ cur \notin open
  /\ pc = "copy" => cur \notin fresh

\* The Go loop visits the directories in order, each once, and has made nothing
\* yet of those ahead of it.
OrderInv ==
  pc \in Running \cup {"aborted"} =>
    /\ todo \subseteq dirs
    /\ \A p \in todo : sbom[p] = before[p] /\ p \notin fresh
    /\ pc # "next" =>
         /\ cur \in dirs \ todo
         /\ lang = "go" => /\ \A p \in todo : Rank[cur] < Rank[p]
                          /\ \A p \in dirs \ todo : Rank[p] <= Rank[cur]
         /\ sbom[cur] = before[cur] /\ cur \notin fresh

\* Every directory behind the loop has a finished go.mod.
PassedInv ==
  pc \in Running \cup {"aborted"} /\ lang = "go" =>
    /\ \A p \in dirs \ todo :
         (p = cur => pc = "next") => basis[p] = list[p] /\ p \notin open
    /\ pc = "next" => \A p \in dirs \ todo : \A q \in todo : Rank[p] < Rank[q]

\* Only a Go batch aborts.
GoAborts == pc = "aborted" => lang = "go"

Inv == TypeOK /\ IrInv /\ OrderInv /\ PassedInv /\ NewSbomExact /\ GoAborts

-----------------------------------------------------------------------------
(* What the scripts write are entries, and what they are left are lists. *)

LEMMA WrittenEntries ==
  ASSUME NEW l \in Line PROVE Written(l) \in Entry
BY DEF Entry

LEMMA EvidenceLines ==
  ASSUME NEW p \in Project PROVE Evidence(p) \subseteq Line
BY NewSbomsAssumption DEF Evidence, Line

LEMMA LeftLists == Left \subseteq Lists
<1> SUFFICES ASSUME NEW l \in Left PROVE l \in Lists
  OBVIOUS
<1>1. /\ l \in [Project -> SUBSET UNION {Evidence(p) : p \in Project}]
      /\ \A p \in Project : l[p] \subseteq Evidence(p)
  BY DEF Left
<1>2. \A p \in Project : l[p] \in SUBSET Line
  BY <1>1, EvidenceLines
<1>3. QED BY <1>1, <1>2 DEF Lists

LEMMA OrigEntries == ASSUME NEW p \in Project PROVE Orig[p] \subseteq Entry
BY NewSbomsAssumption DEF Entry

LEMMA InitInv == Init => Inv
<1> SUFFICES ASSUME Init PROVE Inv OBVIOUS
<1>1. /\ \A p \in Project : list[p] = Evidence(p)
      /\ list = [p \in Project |-> Evidence(p)]
  BY DEF Init
<1>2. list \in Lists
  BY <1>1, EvidenceLines DEF Lists
<1> USE NewSbomsAssumption DEF Init
<1>3. TypeOK BY <1>2 DEF TypeOK, Running, Lists, Results
<1>4. IrInv /\ OrderInv /\ PassedInv /\ NewSbomExact /\ GoAborts
  BY DEF IrInv, OrderInv, PassedInv, NewSbomExact, GoAborts
<1> QED BY <1>3, <1>4 DEF Inv

LEMMA TypeStep == TypeOK /\ [Next]_vars => TypeOK'
<1> SUFFICES ASSUME TypeOK, [Next]_vars PROVE TypeOK' OBVIOUS
<1> USE DEF TypeOK, inputs, Running, Lists, Results
<1>1. CASE NextProject \/ CallByHand
  BY <1>1 DEF NextProject, CallByHand
<1>2. CASE Finish \/ Rename \/ Crash
  BY <1>2 DEF Finish, Rename, Crash
<1>3. CASE Copy
  BY <1>3, OrigEntries DEF Copy
<1>4. CASE AddLine
  BY <1>4, WrittenEntries DEF AddLine
<1>5. CASE Cdxgen
  BY <1>5, OrigEntries DEF Cdxgen
<1>6. CASE StartAgain
  BY <1>6, LeftLists, NewSbomsAssumption DEF StartAgain
<1>7. CASE UNCHANGED vars
  BY <1>7 DEF vars
<1> QED BY <1>1, <1>2, <1>3, <1>4, <1>5, <1>6, <1>7 DEF Next, Step

\* The go.mod in hand grows by one kept line at a time, from the project's own.
LEMMA IrStep == TypeOK /\ IrInv /\ OrderInv /\ [Next]_vars => IrInv'
<1> SUFFICES ASSUME TypeOK, IrInv, OrderInv, [Next]_vars PROVE IrInv' OBVIOUS
<1> USE DEF TypeOK, IrInv, inputs, Lists, Results, Kept
<1>1. CASE NextProject \/ CallByHand
  BY <1>1 DEF NextProject, CallByHand, OrderInv, Running
<1>2. CASE Finish \/ Cdxgen \/ Crash \/ StartAgain
  BY <1>2 DEF Finish, Cdxgen, Crash, StartAgain
<1>3. CASE Copy
  BY <1>3 DEF Copy, OrderInv, Running
<1>4. CASE AddLine
  BY <1>4 DEF AddLine
<1>5. CASE Rename
  BY <1>5 DEF Rename
<1>6. CASE UNCHANGED vars
  BY <1>6 DEF vars
<1> QED BY <1>1, <1>2, <1>3, <1>4, <1>5, <1>6 DEF Next, Step

\* The directory visited next ranks behind all that were visited, and before
\* all that will be.
LEMMA OrderStep ==
  TypeOK /\ OrderInv /\ PassedInv /\ [Next]_vars => OrderInv'
<1> SUFFICES ASSUME TypeOK, OrderInv, PassedInv, [Next]_vars PROVE OrderInv'
  OBVIOUS
<1> USE DEF TypeOK, OrderInv, inputs, Running
<1>1. CASE NextProject
  BY <1>1, NewSbomsAssumption DEF NextProject, PassedInv
<1>2. CASE CallByHand
  BY <1>2 DEF CallByHand
<1>3. CASE Finish \/ Copy \/ AddLine \/ Rename \/ Crash
  BY <1>3 DEF Finish, Copy, AddLine, Rename, Crash
<1>4. CASE Cdxgen
  BY <1>4 DEF Cdxgen, Results
<1>5. CASE StartAgain
  BY <1>5 DEF StartAgain
<1>6. CASE UNCHANGED vars
  BY <1>6 DEF vars
<1> QED BY <1>1, <1>2, <1>3, <1>4, <1>5, <1>6 DEF Next, Step

\* A directory is behind the loop when cdxgen has run on its finished go.mod.
LEMMA PassedStep ==
  TypeOK /\ IrInv /\ OrderInv /\ PassedInv /\ [Next]_vars => PassedInv'
<1> SUFFICES ASSUME TypeOK, IrInv, OrderInv, PassedInv, [Next]_vars
             PROVE  PassedInv'
  OBVIOUS
<1> USE NewSbomsAssumption DEF TypeOK, PassedInv, inputs, Running
<1>1. CASE NextProject
  BY <1>1 DEF NextProject, OrderInv
<1>2. CASE CallByHand
  BY <1>2 DEF CallByHand
<1>3. CASE Finish \/ AddLine \/ Crash
  BY <1>3 DEF Finish, AddLine, Crash
<1>4. CASE Copy \/ Rename
  BY <1>4 DEF Copy, Rename, Lists
<1>5. CASE Cdxgen
  BY <1>5 DEF Cdxgen, IrInv, OrderInv
<1>6. CASE StartAgain
  BY <1>6 DEF StartAgain
<1>7. CASE UNCHANGED vars
  BY <1>7 DEF vars
<1> QED BY <1>1, <1>2, <1>3, <1>4, <1>5, <1>6, <1>7 DEF Next, Step

\* An SBOM is made of a finished go.mod, and no project described in this batch
\* is copied again in it.
LEMMA ExactStep ==
  TypeOK /\ IrInv /\ OrderInv /\ NewSbomExact /\ [Next]_vars => NewSbomExact'
<1> SUFFICES ASSUME TypeOK, IrInv, OrderInv, NewSbomExact, [Next]_vars
             PROVE  NewSbomExact'
  OBVIOUS
<1> USE DEF TypeOK, NewSbomExact, inputs, Kept
<1>1. CASE NextProject \/ CallByHand \/ Finish \/ AddLine \/ Rename \/ Crash
  BY <1>1 DEF NextProject, CallByHand, Finish, AddLine, Rename, Crash
<1>2. CASE Copy
  BY <1>2 DEF Copy, OrderInv, Running, Lists
<1>3. CASE Cdxgen
  BY <1>3 DEF Cdxgen, IrInv, Results
<1>4. CASE StartAgain
  BY <1>4 DEF StartAgain
<1>5. CASE UNCHANGED vars
  BY <1>5 DEF vars
<1> QED BY <1>1, <1>2, <1>3, <1>4, <1>5 DEF Next, Step

LEMMA AbortStep == GoAborts /\ [Next]_vars => GoAborts'
BY DEF GoAborts, Next, Step, NextProject, CallByHand, Finish, Copy, AddLine,
   Rename, Cdxgen, Crash, StartAgain, vars, inputs

LEMMA Invariance == Spec => []Inv
<1>1. Inv /\ [Next]_vars => Inv'
  BY TypeStep, IrStep, OrderStep, PassedStep, ExactStep, AbortStep DEF Inv
<1> QED BY <1>1, InitInv, PTL DEF Spec

-----------------------------------------------------------------------------
\* The inputs, the script's memory and what it has made keep their types.
THEOREM TypeCorrect == Spec => []TypeOK
<1>1. Inv => TypeOK BY DEF Inv
<1> QED BY <1>1, Invariance, PTL

\* A new SBOM describes the project's own requirements and the kept lines of
\* the list it was made from, and nothing else.
THEOREM NewSbomsAreExact == Spec => []NewSbomExact
<1>1. Inv => NewSbomExact BY DEF Inv
<1> QED BY <1>1, Invariance, PTL

-----------------------------------------------------------------------------
(* Names. *)

\* A line with one @, in front of the version, is read back as it was meant.
LEMMA WrittenBack ==
  ASSUME NEW x \in Crate, x.version # <<>>, NEW line,
         line = [parts |-> x.name \o x.version, ats |-> {Len(x.name) + 1}]
  PROVE  Written(line) = x
<1> DEFINE n == Len(x.name)
           v == Len(x.version)
           file == x.name \o x.version
<1>1. /\ x.name \in Seq(Part) /\ x.version \in Seq(Part)
      /\ x = [name |-> x.name, version |-> x.version]
      /\ n \in Nat /\ v \in Nat /\ v >= 1
  BY EmptySeq DEF Crate
<1>2. file \in Seq(Part) /\ Len(file) = n + v
  BY <1>1, ConcatProperties
<1>3. FirstOf(line.ats, line) = n + 1
  BY <1>1, <1>2 DEF FirstOf
<1>4. FirstOf(line.ats \ {n + 1}, line) = n + v + 1
  BY <1>1, <1>2 DEF FirstOf
<1>5. SubSeq(file, 1, n) = x.name
  <2>1. CASE n = 0
    BY <2>1, <1>1, SubSeqEmpty, EmptySeq
  <2>2. CASE n > 0
    <3>1. SubSeq(file, 1, n) = SubSeq(x.name, 1, n)
      BY <2>2, <1>1, SubSeqOfConcat1
    <3>2. QED BY <3>1, <1>1, SubSeqFull
  <2>3. QED BY <2>1, <2>2, <1>1
<1>6. SubSeq(file, n + 1, n + v) = x.version
  <2>1. SubSeq(file, n + 1, n + v) = SubSeq(x.version, (n + 1) - n, (n + v) - n)
    BY <1>1, SubSeqOfConcat2
  <2>2. (n + 1) - n = 1 /\ (n + v) - n = v
    BY <1>1
  <2>3. SubSeq(x.version, 1, v) = x.version
    BY <1>1, SubSeqFull
  <2>4. QED BY <2>1, <2>2, <2>3
<1>7. Written(line) = [name    |-> SubSeq(file, 1, (n + 1) - 1),
                       version |-> SubSeq(file, n + 1, (n + v + 1) - 1)]
  BY <1>3, <1>4 DEF Written
<1>8. (n + 1) - 1 = n /\ (n + v + 1) - 1 = n + v
  BY <1>1
<1> QED BY <1>1, <1>5, <1>6, <1>7, <1>8

\* The name of a plain package goes through a bom-ref ...
LEMMA PurlSurvives ==
  ASSUME NEW x \in Crate, Plain(x) PROVE Written(FromPurl(x)) = x
BY WrittenBack DEF FromPurl, Plain

\* ... and through the name of a crate file.
LEMMA CrateSurvives ==
  ASSUME NEW x \in Crate, Plain(x) PROVE Written(FromCrate(x)) = x
<1> DEFINE n == Len(x.name)
           v == Len(x.version)
           file == x.name \o x.version
<1>1. /\ x.name \in Seq(Part) /\ x.version \in Seq(Part)
      /\ n \in Nat /\ v \in Nat /\ n >= 1 /\ v >= 1
  BY EmptySeq DEF Crate, Plain
<1>2. /\ Len(file) = n + v
      /\ \A i \in 1..(n + v) :
           file[i] = IF i <= n THEN x.name[i] ELSE x.version[i - n]
  BY <1>1, ConcatProperties
<1>5. /\ \A k \in 2..n : x.name[k] \notin Number
      /\ x.version[1] \in Number
      /\ \A k \in 2..v : x.version[k] \notin Number
  BY DEF Plain
<1> HIDE DEF n, v, file
<1>3. {k \in 2..Len(file) : file[k] \in Number} = {n + 1}
  <2>1. ASSUME NEW k \in 2..Len(file) PROVE file[k] \in Number <=> k = n + 1
    <3> /\ k \in Nat /\ k >= 2 /\ k <= n + v /\ k \in 1..(n + v)
        /\ n \in Nat /\ v \in Nat
      BY <1>1, <1>2
    <3>0. file[k] = IF k <= n THEN x.name[k] ELSE x.version[k - n]
      BY <1>2
    <3>1. CASE k <= n
      <4>1. k \in 2..n /\ k # n + 1 BY <3>1
      <4>2. file[k] = x.name[k] BY <3>0, <3>1
      <4>3. x.name[k] \notin Number BY <4>1, <1>5
      <4>4. QED BY <4>1, <4>2, <4>3
    <3>2. CASE k = n + 1
      <4>1. ~(k <= n) /\ k - n = 1 BY <3>2
      <4>2. file[k] = x.version[1] BY <3>0, <4>1
      <4>3. QED BY <4>2, <3>2, <1>5
    <3>3. CASE k > n + 1
      <4>1. ~(k <= n) /\ k # n + 1 /\ k - n \in 2..v BY <3>3
      <4>2. file[k] = x.version[k - n] BY <3>0, <4>1
      <4>3. x.version[k - n] \notin Number BY <4>1, <1>5
      <4>4. QED BY <4>1, <4>2, <4>3
    <3>4. QED BY <3>1, <3>2, <3>3
  <2>2. n + 1 \in 2..Len(file) BY <1>1, <1>2
  <2>3. QED BY <2>1, <2>2
<1>4. FromCrate(x) = [parts |-> file, ats |-> {n + 1}]
  BY <1>3 DEF FromCrate, file
<1> QED BY <1>4, WrittenBack DEF Plain, file, n

\* The lists, and what the new SBOMs are made of, are lines of the evidence.
SourceInv ==
  \A p \in Project : list[p] \subseteq Evidence(p) /\ basis[p] \subseteq Evidence(p)

LEMMA SourceInvariant == Spec => []SourceInv
<1>1. Init => SourceInv
  BY DEF Init, SourceInv, Evidence
<1>2. TypeOK /\ SourceInv /\ [Next]_vars => SourceInv'
  <2> SUFFICES ASSUME TypeOK, SourceInv, [Next]_vars, NEW p \in Project
               PROVE list'[p] \subseteq Evidence(p)' /\ basis'[p] \subseteq Evidence(p)'
    BY DEF SourceInv
  <2>1. lang' = lang
    BY DEF Next, Step, NextProject, CallByHand, Finish, Copy, AddLine, Rename,
           Cdxgen, Crash, StartAgain, vars, inputs
  <2>2. Evidence(p)' = Evidence(p)
    BY <2>1 DEF Evidence
  <2>3. CASE Copy
    BY <2>2, <2>3 DEF Copy, inputs, SourceInv, TypeOK, Lists
  <2>4. CASE StartAgain
    BY <2>2, <2>4 DEF StartAgain, Left, SourceInv
  <2>5. CASE list' = list /\ basis' = basis
    BY <2>2, <2>5 DEF SourceInv
  <2>6. QED
    BY <2>3, <2>4, <2>5 DEF Next, Step, NextProject, CallByHand, Finish,
       AddLine, Rename, Cdxgen, Crash, vars, inputs
<1> QED BY <1>1, <1>2, TypeCorrect, PTL DEF Spec

\* A new SBOM names no package but the project's own requirements and those the
\* evidence is about: the names come out of both conversions as they went in.
THEOREM NamesSurviveConversion == Spec => []NamesSurvive
<1>1. TypeOK /\ NewSbomExact /\ SourceInv => NamesSurvive
  <2> SUFFICES ASSUME TypeOK, NewSbomExact, SourceInv, NEW p \in fresh,
                      \A x \in Uses[p] : Plain(x),
                      NEW e \in sbom[p], e \notin Orig[p]
               PROVE  e \in Uses[p]
    BY DEF NamesSurvive
  <2>1. p \in Project
    BY DEF TypeOK
  <2>2. PICK l \in basis[p] : e = Written(l)
    BY DEF NewSbomExact
  <2>3. l \in Evidence(p)
    BY <2>1, <2>2 DEF SourceInv
  <2>4. PICK x \in Uses[p] : l = FromPurl(x) \/ l = FromCrate(x)
    BY <2>3 DEF Evidence
  <2>5. x \in Crate
    BY <2>1, NewSbomsAssumption
  <2>6. e = x
    BY <2>2, <2>4, <2>5, PurlSurvives, CrateSurvives
  <2>7. QED BY <2>6
<1> QED BY <1>1, SourceInvariant, TypeCorrect, NewSbomsAreExact, PTL

\* A batch that stops has finished the directories before the one it stopped
\* at and touched no SBOM behind it.
THEOREM AbortsAreClean == Spec => []AbortKeepsLater
<1>1. Inv => AbortKeepsLater
  <2> SUFFICES ASSUME Inv, pc = "aborted", NEW p \in dirs
               PROVE  /\ Rank[p] >= Rank[cur] => sbom[p] = before[p]
                      /\ Rank[p] < Rank[cur] => basis[p] = list[p] /\ p \notin open
    BY DEF AbortKeepsLater
  <2> USE NewSbomsAssumption DEF Inv, TypeOK, OrderInv, PassedInv, GoAborts
  <2>1. CASE p \in todo BY <2>1
  <2>2. CASE p = cur BY <2>2
  <2>3. CASE p \notin todo /\ p # cur BY <2>3
  <2> QED BY <2>1, <2>2, <2>3
<1> QED BY <1>1, Invariance, PTL
=============================================================================
