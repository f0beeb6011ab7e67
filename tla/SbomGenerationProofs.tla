------------------------ MODULE SbomGenerationProofs ------------------------
(***************************************************************************)
(* Proofs about SbomGeneration, for any set of projects and any number of  *)
(* runs, with the -o option absolute or relative and in each of the three  *)
(* languages.                                                              *)
(***************************************************************************)
EXTENDS SbomGeneration, TLAPS

InProject == {"cdxgen", "writing", "check", "rmsbom", "leave", "back"}
Deleting  == {"leave", "rm", "rmrest"}

\* Where the shell stands, and that the project it works on is still there.
WhereInv ==
  /\ pc \in {"next", "rm", "rmrest"} => here = Home
  /\ pc \in InProject => here = cur
  /\ pc \in InProject \cup {"rm", "rmrest"} =>
       cur \in present \cap enterable /\ cur \in listed \ todo
  /\ pc = "rmrest" => cur \notin intact

\* What is still to be visited is there: only the project in hand is removed.
TodoInv ==
  /\ todo \subseteq listed
  /\ pc \in Running => todo \cap Project \subseteq present

\* No file without its project; none either for one about to be removed.
FileInv ==
  /\ \A p \in Project : p \notin present => file[p] = None
  /\ pc \in Deleting => file[cur] = None /\ lang # "c"
  /\ pc = "rmsbom" => lang = "go"
  /\ pc = "back" /\ lang # "c" => file[cur] # None

\* The projects the loop is done with.
Settling ==
  {p \in (listed \ todo) \cap enterable : p = cur => pc \in {"next", "done"}}

SettledInv ==
  pc \in Running \cup {"done"} /\ lang # "c" =>
    \A p \in Settling : p \in present <=> file[p] # None

\* A project that cdxgen could describe is kept, with its file of this run.
HealthyInv ==
  pc \in Running \cup {"done"} /\ absolute =>
    /\ \A p \in Settling \ failed : p \in present /\ file[p] = run
    /\ pc = "check" /\ cur \notin failed => file[cur] = run /\ ~bad
    /\ pc \in Deleting \cup {"rmsbom"} => cur \in failed
    /\ pc = "back" /\ cur \notin failed => file[cur] = run

EndInv == pc = "done" => todo = {}

Inv ==
  /\ TypeOK /\ WhereInv /\ TodoInv /\ FileInv
  /\ SettledInv /\ HealthyInv /\ EndInv

-----------------------------------------------------------------------------
LEMMA InitInv == Init => Inv
<1> SUFFICES ASSUME Init PROVE Inv OBVIOUS
<1> USE SbomAssumption DEF Init, Glob
<1>1. TypeOK BY DEF TypeOK, Running, Content
<1>2. WhereInv /\ TodoInv /\ EndInv
  BY DEF WhereInv, TodoInv, EndInv, InProject
<1>3. FileInv BY DEF FileInv, Deleting
<1>4. Settling = {} BY DEF Settling
<1>5. SettledInv /\ HealthyInv BY <1>4 DEF SettledInv, HealthyInv, Deleting
<1> QED BY <1>1, <1>2, <1>3, <1>5 DEF Inv

\* The project that cdxgen is given, or that is being removed, is a project.
LEMMA CurInProject ==
  ASSUME TypeOK, WhereInv, pc \in InProject \cup {"rm", "rmrest"}
  PROVE  cur \in Project
BY DEF TypeOK, WhereInv

LEMMA TypeStep == TypeOK /\ WhereInv /\ [Next]_vars => TypeOK'
<1> SUFFICES ASSUME TypeOK, WhereInv, [Next]_vars PROVE TypeOK' OBVIOUS
<1> USE SbomAssumption DEF env, hist, Running
<1>1. CASE NextProject
  BY <1>1 DEF NextProject, TypeOK
<1>2. CASE Finish \/ Reject \/ TestFile \/ Leave \/ Crash
  BY <1>2 DEF Finish, Reject, TestFile, Leave, Crash, TypeOK
<1>3. CASE CdxgenOpens \/ CdxgenWrites \/ CdxgenFails \/ CdxgenFindsNoFolder
  <2>1. cur \in Project
    BY <1>3, CurInProject DEF CdxgenOpens, CdxgenWrites, CdxgenFails,
       CdxgenFindsNoFolder, InProject
  <2> QED BY <1>3, <2>1 DEF CdxgenOpens, CdxgenWrites, CdxgenFails,
          CdxgenFindsNoFolder, TypeOK, Content
<1>4. CASE RemoveSbom \/ RemoveBegins \/ RemoveEnds
  <2>1. file' \in [Project -> Content]
    BY <1>4 DEF RemoveSbom, RemoveBegins, RemoveEnds, TypeOK, Content
  <2>2. present' \subseteq Project /\ intact' \subseteq present'
    BY <1>4 DEF RemoveSbom, RemoveBegins, RemoveEnds, TypeOK, WhereInv
  <2> QED BY <1>4, <2>1, <2>2 DEF RemoveSbom, RemoveBegins, RemoveEnds, TypeOK
<1>5. CASE StartAgain
  BY <1>5 DEF StartAgain, TypeOK, Glob
<1>6. CASE UNCHANGED vars
  BY <1>6 DEF vars, TypeOK
<1> QED BY <1>1, <1>2, <1>3, <1>4, <1>5, <1>6 DEF Next, Step

\* The loop enters a project only if it is there, and leaves it by cd ..
LEMMA WhereStep == TypeOK /\ WhereInv /\ TodoInv /\ [Next]_vars => WhereInv'
<1> SUFFICES ASSUME TypeOK, WhereInv, TodoInv, [Next]_vars PROVE WhereInv'
  OBVIOUS
<1> USE DEF env, hist, WhereInv, InProject
<1>1. CASE NextProject
  BY <1>1, SbomAssumption DEF NextProject, TodoInv
<1>2. CASE Finish \/ Crash \/ StartAgain
  BY <1>2 DEF Finish, Crash, StartAgain
<1>3. CASE CdxgenOpens \/ CdxgenWrites \/ CdxgenFails \/ CdxgenFindsNoFolder
  BY <1>3 DEF CdxgenOpens, CdxgenWrites, CdxgenFails, CdxgenFindsNoFolder
<1>4. CASE Reject \/ RemoveSbom \/ TestFile \/ Leave
  BY <1>4 DEF Reject, RemoveSbom, TestFile, Leave
<1>5. CASE RemoveBegins \/ RemoveEnds
  BY <1>5 DEF RemoveBegins, RemoveEnds
<1>6. CASE UNCHANGED vars
  BY <1>6 DEF vars
<1> QED BY <1>1, <1>2, <1>3, <1>4, <1>5, <1>6 DEF Next, Step

\* What is removed is the project in hand, which is not among those ahead.
LEMMA TodoStep ==
  TypeOK /\ WhereInv /\ TodoInv /\ EndInv /\ [Next]_vars => (TodoInv /\ EndInv)'
<1> SUFFICES ASSUME TypeOK, WhereInv, TodoInv, EndInv, [Next]_vars
             PROVE  (TodoInv /\ EndInv)'
  OBVIOUS
<1> USE DEF env, hist, TodoInv, EndInv, Running
<1>1. CASE NextProject
  BY <1>1 DEF NextProject
<1>2. CASE RemoveEnds
  <2>1. cur \notin todo
    BY <1>2 DEF RemoveEnds, WhereInv
  <2> QED BY <1>2, <2>1 DEF RemoveEnds
<1>3. CASE StartAgain
  BY <1>3, SbomAssumption DEF StartAgain, Glob
<1>4. CASE CdxgenOpens \/ CdxgenWrites \/ CdxgenFails \/ CdxgenFindsNoFolder
  BY <1>4 DEF CdxgenOpens, CdxgenWrites, CdxgenFails, CdxgenFindsNoFolder
<1>5. CASE \/ Finish \/ Reject \/ RemoveSbom \/ TestFile \/ Leave
           \/ RemoveBegins \/ Crash
  BY <1>5 DEF Finish, Reject, RemoveSbom, TestFile, Leave, RemoveBegins, Crash
<1>6. CASE UNCHANGED vars
  BY <1>6 DEF vars
<1> QED BY <1>1, <1>2, <1>3, <1>4, <1>5, <1>6 DEF Next, Step

\* A project is removed only after its file.
LEMMA FileStep == TypeOK /\ WhereInv /\ FileInv /\ [Next]_vars => FileInv'
<1> SUFFICES ASSUME TypeOK, WhereInv, FileInv, [Next]_vars PROVE FileInv'
  OBVIOUS
<1> USE DEF env, hist, FileInv, Deleting
<1>1. CASE NextProject \/ Finish \/ Crash \/ StartAgain
  BY <1>1 DEF NextProject, Finish, Crash, StartAgain
<1>2. CASE CdxgenOpens \/ CdxgenWrites
  <2>1. cur \in present
    BY <1>2 DEF CdxgenOpens, CdxgenWrites, WhereInv, InProject
  <2> QED BY <1>2, <2>1 DEF CdxgenOpens, CdxgenWrites, TypeOK
<1>3. CASE CdxgenFails \/ CdxgenFindsNoFolder \/ Reject \/ TestFile \/ Leave
  BY <1>3 DEF CdxgenFails, CdxgenFindsNoFolder, Reject, TestFile, Leave
<1>4. CASE RemoveSbom
  <2>1. cur \in Project
    BY <1>4, CurInProject DEF RemoveSbom, InProject
  <2> QED BY <1>4, <2>1 DEF RemoveSbom, TypeOK
<1>5. CASE RemoveBegins \/ RemoveEnds
  BY <1>5 DEF RemoveBegins, RemoveEnds, TypeOK
<1>6. CASE UNCHANGED vars
  BY <1>6 DEF vars
<1> QED BY <1>1, <1>2, <1>3, <1>4, <1>5, <1>6 DEF Next, Step

-----------------------------------------------------------------------------
(* What is said of the projects the loop is done with is disturbed only when *)
(* it leaves the one it works on: that one is not among them before.         *)

\* A run starts with no project behind it ...
LEMMA SettlingStarts ==
  ASSUME TypeOK, StartAgain PROVE Settling' = {}
BY DEF StartAgain, Settling

\* ... and adds the one in hand when it leaves it by cd .. or by rm -rf.
LEMMA SettlingGrows ==
  ASSUME TypeOK, WhereInv, TodoInv, [Next]_vars, ~StartAgain, ~Crash
  PROVE  \A p \in Settling' :
           \/ /\ p \in Settling /\ file'[p] = file[p]
              /\ p \in present' <=> p \in present
           \/ p = cur /\ pc = "back" /\ pc' = "next" /\ Leave
           \/ p = cur /\ pc = "rmrest" /\ pc' = "next" /\ RemoveEnds
<1> USE DEF env, hist, Settling
<1>1. CASE NextProject
  <2>1. PICK p \in todo : /\ cur' = p /\ todo' = todo \ {p} /\ pc = "next"
                          /\ p \in present \cap enterable => pc' = "cdxgen"
    BY <1>1 DEF NextProject
  <2>2. p \in enterable => p \in present
    BY <2>1 DEF TypeOK, TodoInv, Running
  <2>3. UNCHANGED <<listed, enterable, file, present>>
    BY <1>1 DEF NextProject
  <2> QED BY <2>1, <2>2, <2>3
<1>2. CASE Finish \/ Reject \/ TestFile \/ RemoveBegins
  BY <1>2 DEF Finish, Reject, TestFile, RemoveBegins
<1>3. CASE CdxgenOpens \/ CdxgenWrites \/ CdxgenFails \/ CdxgenFindsNoFolder
  BY <1>3 DEF CdxgenOpens, CdxgenWrites, CdxgenFails, CdxgenFindsNoFolder,
     TypeOK
<1>4. CASE RemoveSbom
  BY <1>4 DEF RemoveSbom, TypeOK
<1>5. CASE Leave
  BY <1>5 DEF Leave
<1>6. CASE RemoveEnds
  BY <1>6 DEF RemoveEnds, TypeOK
<1>7. CASE UNCHANGED vars
  BY <1>7 DEF vars
<1> QED BY <1>1, <1>2, <1>3, <1>4, <1>5, <1>6, <1>7 DEF Next, Step

\* Only a new start changes the run, its options or what has failed so far.
LEMMA OneRun ==
  ASSUME [Next]_vars, ~StartAgain
  PROVE  /\ UNCHANGED <<env, run>> /\ failed \subseteq failed'
         /\ pc' \in Running \cup {"done"} => pc \in Running \cup {"done"}
BY DEF Next, Step, NextProject, Finish, CdxgenOpens, CdxgenWrites, CdxgenFails,
   CdxgenFindsNoFolder, Reject, RemoveSbom, TestFile, Leave, RemoveBegins,
   RemoveEnds, Crash, vars, env, hist, Running

\* It is left by cd .. if it has a file, and removed if it has none.
LEMMA SettledStep ==
  TypeOK /\ WhereInv /\ TodoInv /\ FileInv /\ SettledInv /\ [Next]_vars
    => SettledInv'
<1> SUFFICES ASSUME TypeOK, WhereInv, TodoInv, FileInv, SettledInv, [Next]_vars
             PROVE  SettledInv'
  OBVIOUS
<1>1. CASE StartAgain
  BY <1>1, SettlingStarts DEF SettledInv
<1>2. CASE Crash
  BY <1>2 DEF Crash, SettledInv, Running
<1>3. CASE ~StartAgain /\ ~Crash
  <2> SUFFICES ASSUME pc' \in Running \cup {"done"}, lang # "c",
                      NEW p \in Settling'
               PROVE  p \in present' <=> file'[p] # None
    BY OneRun, <1>3 DEF SettledInv, env
  <2>1. CASE /\ p \in Settling /\ file'[p] = file[p]
             /\ p \in present' <=> p \in present
    <3>1. pc \in Running \cup {"done"}
      BY <1>3, OneRun
    <3> QED BY <2>1, <3>1 DEF SettledInv
  <2>2. CASE p = cur /\ pc = "back" /\ Leave
    BY <2>2 DEF Leave, WhereInv, FileInv, InProject
  <2>3. CASE p = cur /\ pc = "rmrest" /\ RemoveEnds
    BY <2>3 DEF RemoveEnds, WhereInv, FileInv, Deleting, TypeOK
  <2> QED BY <1>3, <2>1, <2>2, <2>3, SettlingGrows
<1> QED BY <1>1, <1>2, <1>3

\* A project cdxgen could describe has its file of this run until it is left.
LEMMA HealthyStep == Inv /\ [Next]_vars => HealthyInv'
<1> SUFFICES ASSUME Inv, [Next]_vars PROVE HealthyInv' OBVIOUS
<1> USE DEF Inv, InProject, Deleting
<1>1. CASE StartAgain
  BY <1>1, SettlingStarts DEF StartAgain, HealthyInv
<1>2. CASE Crash
  BY <1>2 DEF Crash, HealthyInv, Running
<1>3. CASE ~StartAgain /\ ~Crash
  <2> SUFFICES ASSUME pc' \in Running \cup {"done"}, absolute
               PROVE  /\ \A p \in Settling' \ failed' : /\ p \in present'
                                                        /\ file'[p] = run
                      /\ pc' = "check" /\ cur' \notin failed' =>
                           file'[cur'] = run /\ ~bad'
                      /\ pc' \in Deleting \cup {"rmsbom"} => cur' \in failed'
                      /\ pc' = "back" /\ cur' \notin failed' =>
                           file'[cur'] = run
    BY OneRun, <1>3 DEF HealthyInv, env
  <2>1. pc \in Running \cup {"done"}
    BY <1>3, OneRun
  <2>2. ASSUME NEW p \in Settling' \ failed'
        PROVE  p \in present' /\ file'[p] = run
    <3>1. p \notin failed
      BY <1>3, <2>2, OneRun
    <3>2. CASE /\ p \in Settling /\ file'[p] = file[p]
               /\ p \in present' <=> p \in present
      BY <2>1, <3>1, <3>2 DEF HealthyInv
    <3>3. CASE p = cur /\ pc = "back" /\ Leave
      BY <2>1, <3>1, <3>3 DEF Leave, WhereInv, HealthyInv
    <3>4. ~(p = cur /\ pc = "rmrest")
      BY <2>1, <3>1 DEF HealthyInv
    <3> QED BY <1>3, <2>2, <3>2, <3>3, <3>4, SettlingGrows
  <2>3. /\ pc' = "check" /\ cur' \notin failed' => file'[cur'] = run /\ ~bad'
        /\ pc' \in Deleting \cup {"rmsbom"} => cur' \in failed'
        /\ pc' = "back" /\ cur' \notin failed' => file'[cur'] = run
    <3> USE <2>1 DEF HealthyInv, env, hist
    <3>1. CASE NextProject \/ Finish \/ CdxgenOpens \/ CdxgenFindsNoFolder
      BY <3>1 DEF NextProject, Finish, CdxgenOpens, CdxgenFindsNoFolder
    <3>2. CASE CdxgenWrites \/ CdxgenFails
      BY <3>2, CurInProject DEF CdxgenWrites, CdxgenFails, TypeOK
    <3>3. CASE Reject \/ RemoveSbom
      BY <3>3 DEF Reject, RemoveSbom
    <3>4. CASE TestFile
      BY <3>4, SbomAssumption DEF TestFile, TypeOK
    <3>5. CASE Leave \/ RemoveBegins \/ RemoveEnds
      BY <3>5 DEF Leave, RemoveBegins, RemoveEnds
    <3>6. CASE UNCHANGED vars
      BY <3>6 DEF vars
    <3> QED BY <1>3, <3>1, <3>2, <3>3, <3>4, <3>5, <3>6 DEF Next, Step
  <2> QED BY <2>2, <2>3
<1> QED BY <1>1, <1>2, <1>3

LEMMA Invariance == Spec => []Inv
<1>1. Inv /\ [Next]_vars => Inv'
  BY TypeStep, WhereStep, TodoStep, FileStep, SettledStep, HealthyStep DEF Inv
<1> QED BY <1>1, InitInv, PTL DEF Spec

-----------------------------------------------------------------------------
\* The script's memory, the files and the projects keep their types.
THEOREM TypeCorrect == Spec => []TypeOK
<1>1. Inv => TypeOK BY DEF Inv
<1> QED BY <1>1, Invariance, PTL

\* No SBOM outlives a project the script deleted, killed wherever it may be.
THEOREM NoOrphans == Spec => []NoOrphanSbom
<1>1. Inv => NoOrphanSbom
  BY DEF Inv, FileInv, NoOrphanSbom, Sbom, Deleting
<1> QED BY <1>1, Invariance, PTL

\* A run of the Go or Rust script that ends leaves exactly the projects that
\* have an SBOM, apart from those it could not enter.
THEOREM RunsSettle == Spec => []Settled
<1>1. Inv => Settled
  BY DEF Inv, TypeOK, EndInv, SettledInv, Settling, Settled, Running
<1> QED BY <1>1, Invariance, PTL

\* With an absolute -o, every project cdxgen can describe is kept and has the
\* SBOM of the run just ended.
THEOREM HealthyAreDescribed == Spec => []HealthyDescribed
<1>1. Inv => HealthyDescribed
  BY DEF Inv, TypeOK, EndInv, HealthyInv, Settling, HealthyDescribed, Sbom
<1> QED BY <1>1, Invariance, PTL
=============================================================================
