---------------------------- MODULE RunAllProofs ----------------------------
(* Theorems about RunAll, for every folder, every set of packages and every *)
(* bound.                                                                    *)
EXTENDS RunAll, TLAPS

-----------------------------------------------------------------------------
(* Facts about the operators the steps are built from. *)

\* The glob only yields entries, the literal * included.
LEMMA GlobEntries == ASSUME present \subseteq Project PROVE Glob \subseteq Entry
BY DEF Glob, Entry

\* What a build can open, wherever it stands, are packages.
LEMMA ReadablePkg == ASSUME TypeOK, NEW d PROVE Readable(d) \subseteq Pkg
BY ConstantsAssumption DEF TypeOK, Readable, Dir

\* A traced command keeps the types of the log and of the history.
LEMMA TraceType ==
  ASSUME TypeOK, NEW r \in SUBSET Pkg, Trace(r)
  PROVE  /\ logs' \subseteq Entry /\ log' \in [Entry -> SUBSET Pkg]
         /\ opened' \subseteq Open
<1>1. \A x \in r : [run |-> run, owner |-> cur, in |-> bdir, pkg |-> x] \in Open
  BY DEF TypeOK, Open
<1>2. opened' \subseteq Open
  BY <1>1 DEF Trace, TypeOK
<1>3. log' \in [Entry -> SUBSET Pkg]
  BY DEF Trace, TypeOK
<1>4. QED BY <1>2, <1>3 DEF Trace, TypeOK

\* A traced command extends the log of the current entry and no other.
LEMMA TraceLog ==
  ASSUME TypeOK, NEW r \in SUBSET Pkg, Trace(r)
  PROVE  \A p \in Entry : log'[p] = IF p = cur THEN log[p] \cup r ELSE log[p]
BY DEF Trace, TypeOK

-----------------------------------------------------------------------------
(* Type correctness. *)

LEMMA InitType == Init => TypeOK
<1> SUFFICES ASSUME Init PROVE TypeOK
  OBVIOUS
<1>1. PICK blocked \in SUBSET MayBlock :
        enterable = (UNION {Tree(p) : p \in present \ blocked}) \ blocked
  BY DEF Init
<1>2. enterable \subseteq Dir
  BY <1>1 DEF Init, Tree, Dir
<1>3. todo \subseteq Entry
  BY GlobEntries DEF Init
<1>4. pc \in Running /\ cwd \in Place /\ oldpwd \in Place /\ bdir \in Place
  BY DEF Init, Running, Place
<1>5. cur \in Entry /\ bname \in OutName
  BY DEF Init, Entry, OutName
<1>6. log \in [Entry -> SUBSET Pkg] /\ pkg \in [Entry -> SUBSET Pkg]
  BY DEF Init
<1>7. changes \in 0..MaxChanges /\ run \in Nat
  BY ConstantsAssumption DEF Init
<1>8. QED
  BY <1>2, <1>3, <1>4, <1>5, <1>6, <1>7 DEF Init, TypeOK

LEMMA StepType == TypeOK /\ [Next]_vars => TypeOK'
<1> SUFFICES ASSUME TypeOK, [Next]_vars PROVE TypeOK'
  OBVIOUS
<1> USE ConstantsAssumption DEF vars, shell, files, env, hist
<1>1. CASE NextProject
  BY <1>1 DEF NextProject, TypeOK, Running
<1>2. CASE Finish
  BY <1>2 DEF Finish, TypeOK
<1>3. CASE CdRoot
  BY <1>3 DEF CdRoot, NoteEntry, TypeOK, Running, Place, Dir, OutName
<1>4. CASE Tidy
  <2>1. PICK r \in SUBSET Readable(bdir) : Trace(r)
    BY <1>4 DEF Tidy
  <2>2. r \in SUBSET Pkg
    BY ReadablePkg
  <2>3. QED
    BY <1>4, <2>1, <2>2, TraceType DEF Tidy, TypeOK, Running
<1>5. CASE Build
  <2>1. /\ logs' \subseteq Entry /\ log' \in [Entry -> SUBSET Pkg]
        /\ opened' \subseteq Open /\ bins' \subseteq Binary
    <3>1. CASE bdir \in enterable /\ Trace(deps[bdir]) /\ PutBinary
      <4>1. deps[bdir] \in SUBSET Pkg
        BY <3>1 DEF TypeOK
      <4>2. [owner |-> cur, name |-> bname, from |-> bdir, uses |-> deps[bdir]]
              \in Binary
        BY <4>1 DEF Binary, TypeOK
      <4>3. QED BY <3>1, <4>1, <4>2, TraceType DEF PutBinary, TypeOK
    <3>2. CASE \E r \in SUBSET Readable(bdir) : Trace(r) /\ UNCHANGED bins
      <4>1. PICK r \in SUBSET Readable(bdir) : Trace(r) /\ UNCHANGED bins
        BY <3>2
      <4>2. r \in SUBSET Pkg
        BY ReadablePkg
      <4>3. QED BY <4>1, <4>2, TraceType DEF TypeOK
    <3>3. QED BY <1>5, <3>1, <3>2 DEF Build
  <2>2. QED BY <1>5, <2>1 DEF Build, TypeOK, Running
<1>6. CASE CdBack
  BY <1>6 DEF CdBack, TypeOK, Running
<1>7. CASE FindSubs
  <2>1. subs' \subseteq SubDir
    BY <1>7 DEF FindSubs, Tree
  <2>2. pc' = "subs" /\ UNCHANGED <<cwd, oldpwd, todo, cur, path, bdir, bname,
                                    tmp, files, env, hist>>
    BY <1>7 DEF FindSubs
  <2>3. QED BY <2>1, <2>2 DEF TypeOK, Running
<1>8. CASE EnterSub
  BY <1>8 DEF EnterSub, TypeOK, Running, Place, Dir, OutName
<1>9. CASE SubsDone
  BY <1>9 DEF SubsDone, TypeOK, Running
<1>10. CASE Filter
  BY <1>10 DEF Filter, TypeOK, Running
<1>11. CASE AppendLine
  BY <1>11 DEF AppendLine, TypeOK, Running
<1>12. CASE AppendDone
  BY <1>12 DEF AppendDone, TypeOK, Running
<1>13. CASE RemoveLog
  BY <1>13 DEF RemoveLog, TypeOK, Running
<1>14. CASE Crash
  BY <1>14 DEF Crash, TypeOK
<1>15. CASE StartAgain
  <2>1. todo' \subseteq Entry
    BY <1>15, GlobEntries DEF StartAgain, TypeOK
  <2>2. run' \in Nat /\ pc' \in Running /\ cwd' \in Place /\ oldpwd' \in Place
    BY <1>15 DEF StartAgain, TypeOK, Running, Place
  <2>3. subs' = {} /\ tmp' = {} /\ handled' = {} /\ lastBad' = FALSE
    BY <1>15 DEF StartAgain
  <2>4. UNCHANGED <<cur, path, bdir, bname, files, env, excused, opened>>
    BY <1>15 DEF StartAgain
  <2>5. QED
    BY <2>1, <2>2, <2>3, <2>4 DEF TypeOK
<1>16. CASE Edit
  BY <1>16 DEF Edit, TypeOK
<1>17. CASE Vanish
  BY <1>17 DEF Vanish, TypeOK
<1>18. CASE UNCHANGED vars
  BY <1>18 DEF TypeOK
<1>19. QED
  BY <1>1, <1>2, <1>3, <1>4, <1>5, <1>6, <1>7, <1>8, <1>9, <1>10, <1>11,
     <1>12, <1>13, <1>14, <1>15, <1>16, <1>17, <1>18 DEF Next, Step

\* The state of the script, of its files and of the folder keeps its type.
THEOREM TypeCorrect == Spec => []TypeOK
<1>1. QED BY InitType, StepType, PTL DEF Spec

-----------------------------------------------------------------------------
(* Crash safety.  NothingLost and BinaryExplained are not inductive: when    *)
(* the log is removed they need that the append loop has been through all    *)
(* of it, which LogCovered says of the loop's progress.                      *)

LogCovered ==
  /\ pc = "append" => log[cur] \subseteq tmp \cup pkg[cur]
  /\ pc = "rmlog"  => log[cur] \subseteq pkg[cur]

Evidence == TypeOK /\ NothingLost /\ BinaryExplained /\ LogCovered

\* Steps that leave log, pkg, opened and bins alone and do not enter the
\* append loop keep the evidence.
LEMMA QuietStep ==
  ASSUME Evidence, UNCHANGED <<log, pkg, opened, bins>>,
         pc' \notin {"append", "rmlog"}
  PROVE  (NothingLost /\ BinaryExplained /\ LogCovered)'
BY DEF Evidence, NothingLost, BinaryExplained, LogCovered

\* A traced command adds to the current log whatever it adds to the history.
LEMMA TraceEvidence ==
  ASSUME Evidence, NEW r \in SUBSET Pkg, Trace(r), UNCHANGED pkg
  PROVE  /\ NothingLost'
         /\ \A b \in bins : b.uses \subseteq log'[b.owner] \cup pkg'[b.owner]
<1>1. \A p \in Entry : log[p] \subseteq log'[p]
  <2>1. TypeOK
    BY DEF Evidence
  <2>2. \A p \in Entry : log'[p] = IF p = cur THEN log[p] \cup r ELSE log[p]
    BY <2>1, TraceLog
  <2>3. QED BY <2>2
<1>2. r \subseteq log'[cur]
  <2>1. log'[cur] = log[cur] \cup r
    BY TraceLog DEF Evidence, TypeOK
  <2>2. QED BY <2>1
<1>3. ASSUME NEW o \in opened' PROVE o.pkg \in log'[o.owner] \cup pkg'[o.owner]
  <2>1. CASE o \in opened
    BY <1>1, <2>1 DEF Evidence, NothingLost, TypeOK, Open
  <2>2. CASE o \notin opened
    <3>1. PICK x \in r :
            o = [run |-> run, owner |-> cur, in |-> bdir, pkg |-> x]
      BY <1>3, <2>2 DEF Trace
    <3>2. QED BY <3>1, <1>2
  <2>3. QED BY <2>1, <2>2
<1>4. ASSUME NEW b \in bins
      PROVE b.uses \subseteq log'[b.owner] \cup pkg'[b.owner]
  <2>1. b.owner \in Entry
    BY DEF Evidence, TypeOK, Binary
  <2>2. b.uses \subseteq log[b.owner] \cup pkg[b.owner]
    BY DEF Evidence, BinaryExplained
  <2>3. QED BY <1>1, <2>1, <2>2
<1>5. QED BY <1>3, <1>4 DEF NothingLost

LEMMA InitEvidence == Init => Evidence
BY InitType DEF Init, Evidence, NothingLost, BinaryExplained, LogCovered

LEMMA StepEvidence == Evidence /\ [Next]_vars => Evidence'
<1> SUFFICES ASSUME Evidence, [Next]_vars
             PROVE  (NothingLost /\ BinaryExplained /\ LogCovered)'
  BY StepType DEF Evidence
<1>0. TypeOK
  BY DEF Evidence
<1> USE DEF vars, shell, files, env, hist
<1>1. CASE NextProject
  BY <1>1, QuietStep DEF NextProject
<1>2. CASE Finish
  BY <1>2, QuietStep DEF Finish
<1>3. CASE CdRoot
  <2>1. UNCHANGED <<log, pkg, opened, bins>> /\ pc' \in {"tidyRoot", "buildRoot"}
    BY <1>3 DEF CdRoot
  <2>2. QED BY <2>1, QuietStep
<1>4. CASE Tidy
  <2>1. PICK r \in SUBSET Readable(bdir) : Trace(r)
    BY <1>4 DEF Tidy
  <2>2. r \in SUBSET Pkg
    BY <1>0, ReadablePkg
  <2>3. UNCHANGED <<pkg, bins>> /\ pc' \in {"buildRoot", "buildSub"}
    BY <1>4 DEF Tidy
  <2>4. QED BY <2>1, <2>2, <2>3, TraceEvidence DEF BinaryExplained, LogCovered
<1>5. CASE Build
  <2>1. UNCHANGED pkg /\ pc' \in {"cdback", "subs"}
    BY <1>5 DEF Build
  <2>2. CASE bdir \in enterable /\ Trace(deps[bdir]) /\ PutBinary
    <3>1. deps[bdir] \in SUBSET Pkg
      BY <1>0, <2>2, ConstantsAssumption DEF TypeOK
    <3>2. deps[bdir] \subseteq log'[cur]
      BY <1>0, <2>2, <3>1, TraceLog DEF TypeOK
    <3>3. ASSUME NEW b \in bins'
          PROVE b.uses \subseteq log'[b.owner] \cup pkg'[b.owner]
      <4>1. b \in bins \/ b = [owner |-> cur, name |-> bname, from |-> bdir,
                               uses |-> deps[bdir]]
        BY <2>2, <3>3 DEF PutBinary
      <4>2. QED BY <4>1, <2>1, <2>2, <3>1, <3>2, TraceEvidence
    <3>4. QED
      BY <2>1, <2>2, <3>1, <3>3, TraceEvidence DEF BinaryExplained, LogCovered
  <2>3. CASE \E r \in SUBSET Readable(bdir) : Trace(r) /\ UNCHANGED bins
    <3>1. PICK r \in SUBSET Readable(bdir) : Trace(r) /\ UNCHANGED bins
      BY <2>3
    <3>2. r \in SUBSET Pkg
      BY <1>0, ReadablePkg
    <3>3. QED
      BY <2>1, <3>1, <3>2, TraceEvidence DEF BinaryExplained, LogCovered
  <2>4. QED BY <1>5, <2>2, <2>3 DEF Build
<1>6. CASE CdBack
  BY <1>6, QuietStep DEF CdBack
<1>7. CASE FindSubs
  <2>1. UNCHANGED <<log, pkg, opened, bins>> /\ pc' = "subs"
    BY <1>7 DEF FindSubs
  <2>2. QED BY <2>1, QuietStep
<1>8. CASE EnterSub
  <2>1. UNCHANGED <<log, pkg, opened, bins>> /\ pc' \in {"tidySub", "buildSub"}
    BY <1>8 DEF EnterSub
  <2>2. QED BY <2>1, QuietStep
<1>9. CASE SubsDone
  BY <1>9, QuietStep DEF SubsDone
<1>10. CASE Filter
  BY <1>10 DEF Filter, Evidence, NothingLost, BinaryExplained, LogCovered
<1>11. CASE AppendLine
  <2>1. PICK x \in tmp : tmp' = tmp \ {x}
                         /\ pkg' = [pkg EXCEPT ![cur] = @ \cup {x}]
    BY <1>11 DEF AppendLine
  <2>2. UNCHANGED <<pc, cur, log, opened, bins>> /\ pc = "append"
    BY <1>11 DEF AppendLine
  <2>3. \A p \in Entry : pkg[p] \subseteq pkg'[p]
    BY <1>0, <2>1 DEF TypeOK
  <2>4. pkg'[cur] = pkg[cur] \cup {x}
    BY <1>0, <2>1 DEF TypeOK
  <2>5. LogCovered'
    BY <2>1, <2>2, <2>4 DEF Evidence, LogCovered
  <2>6. NothingLost'
    BY <2>2, <2>3 DEF Evidence, NothingLost, TypeOK, Open
  <2>7. BinaryExplained'
    <3>1. ASSUME NEW b \in bins
          PROVE b.uses \subseteq log[b.owner] \cup pkg'[b.owner]
      <4>1. b.owner \in Entry
        BY <1>0 DEF TypeOK, Binary
      <4>2. QED BY <2>3, <4>1 DEF Evidence, BinaryExplained
    <3>2. QED BY <2>2, <3>1 DEF BinaryExplained
  <2>8. QED BY <2>5, <2>6, <2>7
<1>12. CASE AppendDone
  BY <1>12 DEF AppendDone, Evidence, NothingLost, BinaryExplained, LogCovered
<1>13. CASE RemoveLog
  <2>1. \A p \in Entry : log[p] \cup pkg[p] \subseteq log'[p] \cup pkg'[p]
    BY <1>0, <1>13 DEF RemoveLog, TypeOK, Evidence, LogCovered
  <2>2. UNCHANGED <<opened, bins>> /\ pc' = "next"
    BY <1>13 DEF RemoveLog
  <2>3. NothingLost'
    BY <2>1, <2>2 DEF Evidence, NothingLost, TypeOK, Open
  <2>4. BinaryExplained'
    <3>1. ASSUME NEW b \in bins
          PROVE b.uses \subseteq log'[b.owner] \cup pkg'[b.owner]
      <4>1. b.owner \in Entry
        BY <1>0 DEF TypeOK, Binary
      <4>2. QED BY <2>1, <4>1 DEF Evidence, BinaryExplained
    <3>2. QED BY <2>2, <3>1 DEF BinaryExplained
  <2>5. QED BY <2>2, <2>3, <2>4 DEF LogCovered
<1>14. CASE Crash
  BY <1>14, QuietStep DEF Crash
<1>15. CASE StartAgain
  BY <1>15, QuietStep DEF StartAgain
<1>16. CASE Edit
  BY <1>16 DEF Edit, Evidence, NothingLost, BinaryExplained, LogCovered
<1>17. CASE Vanish
  BY <1>17 DEF Vanish, Evidence, NothingLost, BinaryExplained, LogCovered
<1>18. CASE UNCHANGED vars
  BY <1>18 DEF Evidence, NothingLost, BinaryExplained, LogCovered
<1>19. QED
  BY <1>1, <1>2, <1>3, <1>4, <1>5, <1>6, <1>7, <1>8, <1>9, <1>10, <1>11,
     <1>12, <1>13, <1>14, <1>15, <1>16, <1>17, <1>18 DEF Next, Step

\* Killing the script at any point, and any number of times, loses no opened
\* module file: log and package file together hold it.
THEOREM NothingIsLost == Spec => []NothingLost
<1>1. Evidence => NothingLost
  BY DEF Evidence
<1>2. QED BY <1>1, InitEvidence, StepEvidence, PTL DEF Spec

\* Every binary in bins/ is explained by the evidence kept for its project.
THEOREM BinariesAreExplained == Spec => []BinaryExplained
<1>1. Evidence => BinaryExplained
  BY DEF Evidence
<1>2. QED BY <1>1, InitEvidence, StepEvidence, PTL DEF Spec

-----------------------------------------------------------------------------
(* Attribution.  Where the shell stands at each command, and why an entry    *)
(* that is not excused is built in its own tree.                             *)

AtHead == {"next", "cdroot"}
AtRoot == {"tidyRoot", "buildRoot", "cdback"}
AtSubs == {"find", "subs", "tidySub", "buildSub", "filter", "append", "rmlog"}

\* After an entry that could be entered the shell is in the projects folder,
\* or has it in $OLDPWD while it is inside the project; after one that could
\* not, it is still at most one `cd -` away from it.
Whereabouts ==
  /\ pc \in Running => Home \in {cwd, oldpwd}
  /\ pc \in AtHead \cup AtSubs => (~lastBad => cwd = Home)
  /\ pc \in AtRoot => (~lastBad => oldpwd = Home)
  /\ pc = "cdroot" => path = IF cwd = Home /\ cur \in Project THEN cur
                                                             ELSE Nowhere
  /\ pc \in AtRoot \cup AtSubs /\ cur \notin excused => ~lastBad /\ path = cur

\* The directory the next build command runs in belongs to the current entry.
BuildsAtHome ==
  /\ pc \in {"tidyRoot", "buildRoot"} /\ cur \notin excused => bdir = cur
  /\ pc \in {"subs", "tidySub", "buildSub"} /\ cur \notin excused =>
       subs \subseteq Tree(cur)
  /\ pc \in {"tidySub", "buildSub"} /\ cur \notin excused =>
       bdir \in Tree(cur) \cup {Home}

WhereInv == TypeOK /\ Whereabouts /\ BuildsAtHome

LEMMA InitWhere == Init => WhereInv
<1> SUFFICES ASSUME Init PROVE Whereabouts /\ BuildsAtHome
  BY InitType DEF WhereInv
<1>1. QED
  BY DEF Init, Whereabouts, BuildsAtHome, AtHead, AtRoot, AtSubs

\* Nothing is entered but real directories, and those are not the projects
\* folder: a path that can be entered is a project's own.
LEMMA EnteredPath ==
  ASSUME TypeOK, path \in enterable PROVE path \in Project /\ path # Nowhere
BY ConstantsAssumption DEF TypeOK

LEMMA StepWhere == WhereInv /\ [Next]_vars => WhereInv'
<1> SUFFICES ASSUME WhereInv, [Next]_vars PROVE (Whereabouts /\ BuildsAtHome)'
  BY StepType DEF WhereInv
<1>0. TypeOK
  BY DEF WhereInv
<1> USE DEF vars, shell, files, env, hist, AtHead, AtRoot, AtSubs, Running
<1>1. CASE NextProject
  <2>1. PICK p \in todo : /\ cur' = p
                          /\ path' = IF cwd = Home /\ p \in Project THEN p
                                                                ELSE Nowhere
    BY <1>1 DEF NextProject
  <2>2. pc = "next" /\ pc' = "cdroot" /\ UNCHANGED <<cwd, oldpwd, hist>>
    BY <1>1 DEF NextProject
  <2>3. QED
    BY <2>1, <2>2 DEF WhereInv, Whereabouts, BuildsAtHome
<1>2. CASE Finish
  BY <1>2 DEF Finish, WhereInv, Whereabouts, BuildsAtHome
<1>3. CASE CdRoot
  <2>1. /\ pc = "cdroot" /\ NoteEntry /\ UNCHANGED <<cur, path, enterable>>
        /\ Home \in {cwd, oldpwd} /\ (~lastBad => cwd = Home)
        /\ path = IF cwd = Home /\ cur \in Project THEN cur ELSE Nowhere
    BY <1>3 DEF CdRoot, WhereInv, Whereabouts
  <2>2. lastBad' = (cur \notin enterable)
        /\ (cur \notin excused' => ~lastBad /\ cur \in enterable)
    BY <1>0, <2>1 DEF NoteEntry, TypeOK
  <2>3. CASE path \in enterable
    <3>1. path = cur /\ cwd = Home
      BY <1>0, <2>1, <2>3, EnteredPath
    <3>2. cwd' = path /\ oldpwd' = cwd /\ bdir' = path /\ pc' = "tidyRoot"
      BY <1>3, <2>3 DEF CdRoot
    <3>3. QED
      BY <2>1, <2>2, <2>3, <3>1, <3>2 DEF Whereabouts, BuildsAtHome
  <2>4. CASE path \notin enterable
    <3>1. bdir' = cwd /\ pc' = "buildRoot" /\ UNCHANGED <<cwd, oldpwd>>
      BY <1>3, <2>4 DEF CdRoot
    <3>2. cwd = Home => cur \notin enterable
      <4>1. SUFFICES ASSUME cwd = Home, cur \in enterable PROVE FALSE
        OBVIOUS
      <4>2. cur \in Project
        BY <1>0, <4>1, ConstantsAssumption DEF TypeOK, Entry
      <4>3. QED BY <2>1, <2>4, <4>1, <4>2
    <3>3. cur \in excused'
      BY <2>1, <2>2, <3>2
    <3>4. ~lastBad' => oldpwd' = Home
      BY <2>1, <2>2, <3>1, <3>2
    <3>5. QED
      BY <2>1, <3>1, <3>3, <3>4 DEF Whereabouts, BuildsAtHome
  <2>5. QED BY <2>3, <2>4
<1>4. CASE Tidy
  <2>1. /\ pc \in {"tidyRoot", "tidySub"}
        /\ pc' = IF pc = "tidyRoot" THEN "buildRoot" ELSE "buildSub"
        /\ UNCHANGED <<cwd, oldpwd, cur, path, subs, bdir, lastBad, excused>>
    BY <1>4 DEF Tidy
  <2>2. QED BY <2>1 DEF WhereInv, Whereabouts, BuildsAtHome, Tree
<1>5. CASE Build
  <2>1. /\ pc \in {"buildRoot", "buildSub"}
        /\ pc' = IF pc = "buildRoot" THEN "cdback" ELSE "subs"
        /\ UNCHANGED <<cwd, oldpwd, cur, path, subs, bdir, lastBad, excused>>
    BY <1>5 DEF Build
  <2>2. QED BY <2>1 DEF WhereInv, Whereabouts, BuildsAtHome, Tree
<1>6. CASE CdBack
  <2>1. /\ pc = "cdback" /\ pc' = "find"
        /\ UNCHANGED <<cur, path, lastBad, excused>>
        /\ IF oldpwd \in enterable \cup {Home, Start}
             THEN cwd' = oldpwd /\ oldpwd' = cwd
             ELSE UNCHANGED <<cwd, oldpwd>>
    BY <1>6 DEF CdBack
  <2>2. QED BY <2>1 DEF WhereInv, Whereabouts, BuildsAtHome
<1>7. CASE FindSubs
  <2>1. /\ pc = "find" /\ pc' = "subs"
        /\ UNCHANGED <<cwd, oldpwd, cur, path, lastBad, excused>>
    BY <1>7 DEF FindSubs
  <2>2. subs' \subseteq Tree(path)
    BY <1>7 DEF FindSubs
  <2>3. QED BY <2>1, <2>2 DEF WhereInv, Whereabouts, BuildsAtHome, Tree
<1>8. CASE EnterSub
  <2>1. PICK s \in subs :
          /\ subs' = subs \ {s}
          /\ bdir' = IF s \in enterable THEN s ELSE cwd
    BY <1>8 DEF EnterSub
  <2>2. /\ pc = "subs" /\ pc' \in {"tidySub", "buildSub"}
        /\ UNCHANGED <<cwd, oldpwd, cur, path, lastBad, excused>>
    BY <1>8 DEF EnterSub
  <2>3. cur \notin excused => cwd = Home /\ s \in Tree(cur)
                              /\ subs' \subseteq Tree(cur)
    BY <2>1, <2>2 DEF WhereInv, Whereabouts, BuildsAtHome
  <2>4. Whereabouts'
    BY <2>2 DEF WhereInv, Whereabouts
  <2>5. BuildsAtHome'
    BY <2>1, <2>2, <2>3 DEF BuildsAtHome, Tree
  <2>6. QED BY <2>4, <2>5
<1>9. CASE SubsDone
  BY <1>9 DEF SubsDone, WhereInv, Whereabouts, BuildsAtHome
<1>10. CASE Filter
  BY <1>10 DEF Filter, WhereInv, Whereabouts, BuildsAtHome
<1>11. CASE AppendLine
  BY <1>11 DEF AppendLine, WhereInv, Whereabouts, BuildsAtHome
<1>12. CASE AppendDone
  BY <1>12 DEF AppendDone, WhereInv, Whereabouts, BuildsAtHome
<1>13. CASE RemoveLog
  BY <1>13 DEF RemoveLog, WhereInv, Whereabouts, BuildsAtHome
<1>14. CASE Crash
  BY <1>14 DEF Crash, Whereabouts, BuildsAtHome
<1>15. CASE StartAgain
  BY <1>15 DEF StartAgain, Whereabouts, BuildsAtHome
<1>16. CASE Edit
  BY <1>16 DEF Edit, WhereInv, Whereabouts, BuildsAtHome, Tree
<1>17. CASE Vanish
  BY <1>17 DEF Vanish, WhereInv, Whereabouts, BuildsAtHome, Tree
<1>18. CASE UNCHANGED vars
  BY <1>18 DEF WhereInv, Whereabouts, BuildsAtHome, Tree
<1>19. QED
  BY <1>1, <1>2, <1>3, <1>4, <1>5, <1>6, <1>7, <1>8, <1>9, <1>10, <1>11,
     <1>12, <1>13, <1>14, <1>15, <1>16, <1>17, <1>18 DEF Next, Step

\* At the head of the loop the projects folder is $PWD or $OLDPWD, whichever
\* directories could not be entered so far.
THEOREM DriftIsBounded == Spec => []DriftBounded
<1>1. WhereInv => DriftBounded
  BY DEF WhereInv, Whereabouts, DriftBounded, Running
<1>2. QED BY <1>1, InitWhere, StepWhere, PTL DEF Spec

-----------------------------------------------------------------------------
(* What the files hold, traced to who opened it and where. *)

\* Nothing is in a file that no build for the entry opened; what builds of an
\* entry that is not excused opened, they opened in its own tree.
Provenance ==
  /\ \A p \in Entry : log[p] \cup pkg[p] \subseteq Opened(p)
  /\ pc = "append" => tmp \subseteq Opened(cur)
  /\ \A o \in opened : o.owner \notin excused => o.in \in Tree(o.owner)
  /\ \A b \in bins : b.owner \notin excused => b.from \in Tree(b.owner)

OwnInv == WhereInv /\ Provenance

LEMMA InitOwn == Init => OwnInv
<1> SUFFICES ASSUME Init PROVE Provenance
  BY InitWhere DEF OwnInv
<1>1. QED
  BY DEF Init, Provenance

\* Steps that open nothing and write no file keep provenance; the excuses of
\* the history only grow.
LEMMA ProvenanceKept ==
  ASSUME OwnInv, UNCHANGED <<log, pkg, opened, bins>>,
         excused \subseteq excused', pc' # "append"
  PROVE  Provenance'
<1>1. Opened(cur)' = Opened(cur) \/ cur' # cur
  BY DEF Opened
<1>2. \A p : Opened(p)' = Opened(p)
  BY DEF Opened
<1>3. QED
  BY <1>2 DEF OwnInv, Provenance

\* Where a build command of an entry that is not excused finds something to
\* open, it stands in the entry's tree.
LEMMA BuildPlace ==
  ASSUME OwnInv, pc \in {"tidyRoot", "buildRoot", "tidySub", "buildSub"},
         cur \notin excused, Readable(bdir) # {} \/ bdir \in enterable
  PROVE  bdir \in Tree(cur)
<1>1. bdir \in enterable
  BY DEF Readable
<1>2. bdir # Home
  BY <1>1, ConstantsAssumption DEF OwnInv, WhereInv, TypeOK
<1>3. QED
  BY <1>2 DEF OwnInv, WhereInv, BuildsAtHome, Tree

\* A traced command in the right place keeps provenance.
LEMMA TraceProvenance ==
  ASSUME OwnInv, pc \in {"tidyRoot", "buildRoot", "tidySub", "buildSub"},
         NEW r \in SUBSET Pkg, Trace(r), r \subseteq Readable(bdir),
         UNCHANGED <<pkg, cur, excused>>, pc' # "append",
         \A b \in bins' : b.owner \notin excused => b.from \in Tree(b.owner)
  PROVE  Provenance'
<1>0. TypeOK
  BY DEF OwnInv, WhereInv
<1>1. \A p : Opened(p) \subseteq Opened(p)'
  BY DEF Opened, Trace
<1>2. r \subseteq Opened(cur)'
  <2>1. ASSUME NEW x \in r PROVE x \in Opened(cur)'
    <3>1. [run |-> run, owner |-> cur, in |-> bdir, pkg |-> x] \in opened'
      BY DEF Trace
    <3>2. QED BY <3>1 DEF Opened
  <2>2. QED BY <2>1
<1>3. \A p \in Entry : log'[p] \cup pkg'[p] \subseteq Opened(p)'
  <2>1. ASSUME NEW p \in Entry PROVE log'[p] \cup pkg'[p] \subseteq Opened(p)'
    <3>1. log'[p] = IF p = cur THEN log[p] \cup r ELSE log[p]
      BY <1>0, TraceLog
    <3>2. log[p] \cup pkg[p] \subseteq Opened(p)
      BY DEF OwnInv, Provenance
    <3>3. QED BY <1>1, <1>2, <3>1, <3>2
  <2>2. QED BY <2>1
<1>4. ASSUME NEW o \in opened', o.owner \notin excused
      PROVE  o.in \in Tree(o.owner)
  <2>1. CASE o \in opened
    BY <1>4, <2>1 DEF OwnInv, Provenance
  <2>2. CASE o \notin opened
    <3>1. PICK x \in r :
            o = [run |-> run, owner |-> cur, in |-> bdir, pkg |-> x]
      BY <1>4, <2>2 DEF Trace
    <3>2. o.owner = cur /\ o.in = bdir
      BY <3>1
    <3>3. Readable(bdir) # {}
      BY <3>1
    <3>4. QED BY <1>4, <3>2, <3>3, BuildPlace
  <2>3. QED BY <2>1, <2>2
<1>5. QED BY <1>3, <1>4 DEF Provenance

LEMMA StepOwn == OwnInv /\ [Next]_vars => OwnInv'
<1> SUFFICES ASSUME OwnInv, [Next]_vars PROVE Provenance'
  BY StepWhere DEF OwnInv
<1>0. TypeOK
  BY DEF OwnInv, WhereInv
<1>a. \A p : UNCHANGED opened => Opened(p)' = Opened(p)
  BY DEF Opened
<1> USE DEF vars, shell, files, env, hist
<1>1. CASE NextProject
  BY <1>1, ProvenanceKept DEF NextProject
<1>2. CASE Finish
  BY <1>2, ProvenanceKept DEF Finish
<1>3. CASE CdRoot
  <2>1. UNCHANGED <<log, pkg, opened, bins>> /\ pc' \in {"tidyRoot", "buildRoot"}
    BY <1>3 DEF CdRoot
  <2>2. excused \subseteq excused'
    BY <1>3 DEF CdRoot, NoteEntry
  <2>3. QED BY <2>1, <2>2, ProvenanceKept
<1>4. CASE Tidy
  <2>1. PICK r \in SUBSET Readable(bdir) : Trace(r)
    BY <1>4 DEF Tidy
  <2>2. r \in SUBSET Pkg
    BY <1>0, ReadablePkg
  <2>3. /\ UNCHANGED <<pkg, bins, cur, excused>>
        /\ pc \in {"tidyRoot", "tidySub"} /\ pc' # "append"
    BY <1>4 DEF Tidy
  <2>4. \A b \in bins' : b.owner \notin excused => b.from \in Tree(b.owner)
    BY <2>3 DEF OwnInv, Provenance
  <2>5. QED BY <2>1, <2>2, <2>3, <2>4, TraceProvenance
<1>5. CASE Build
  <2>1. /\ UNCHANGED <<pkg, cur, excused>>
        /\ pc \in {"buildRoot", "buildSub"} /\ pc' # "append"
    BY <1>5 DEF Build
  <2>2. CASE bdir \in enterable /\ Trace(deps[bdir]) /\ PutBinary
    <3>1. deps[bdir] \in SUBSET Pkg /\ deps[bdir] \subseteq Readable(bdir)
      BY <1>0, <2>2, ConstantsAssumption DEF TypeOK, Readable
    <3>2. ASSUME NEW b \in bins', b.owner \notin excused
          PROVE  b.from \in Tree(b.owner)
      <4>1. CASE b \in bins
        BY <3>2, <4>1 DEF OwnInv, Provenance
      <4>2. CASE b = [owner |-> cur, name |-> bname, from |-> bdir,
                      uses |-> deps[bdir]]
        <5>1. b.owner = cur /\ b.from = bdir
          BY <4>2
        <5>2. QED BY <2>1, <2>2, <3>2, <5>1, BuildPlace
      <4>3. QED BY <2>2, <3>2, <4>1, <4>2 DEF PutBinary
    <3>3. QED BY <2>1, <2>2, <3>1, <3>2, TraceProvenance
  <2>3. CASE \E r \in SUBSET Readable(bdir) : Trace(r) /\ UNCHANGED bins
    <3>1. PICK r \in SUBSET Readable(bdir) : Trace(r) /\ UNCHANGED bins
      BY <2>3
    <3>2. r \in SUBSET Pkg
      BY <1>0, ReadablePkg
    <3>3. \A b \in bins' : b.owner \notin excused => b.from \in Tree(b.owner)
      BY <3>1 DEF OwnInv, Provenance
    <3>4. QED BY <2>1, <3>1, <3>2, <3>3, TraceProvenance
  <2>4. QED BY <1>5, <2>2, <2>3 DEF Build
<1>6. CASE CdBack
  BY <1>6, ProvenanceKept DEF CdBack
<1>7. CASE FindSubs
  <2>1. UNCHANGED <<log, pkg, opened, bins, excused>> /\ pc' = "subs"
    BY <1>7 DEF FindSubs
  <2>2. QED BY <2>1, ProvenanceKept
<1>8. CASE EnterSub
  <2>1. UNCHANGED <<log, pkg, opened, bins, excused>> /\ pc' # "append"
    BY <1>8 DEF EnterSub
  <2>2. QED BY <2>1, ProvenanceKept
<1>9. CASE SubsDone
  BY <1>9, ProvenanceKept DEF SubsDone
<1>10. CASE Filter
  BY <1>0, <1>10, <1>a DEF Filter, OwnInv, Provenance, TypeOK
<1>11. CASE AppendLine
  <2>1. PICK x \in tmp : tmp' = tmp \ {x}
                         /\ pkg' = [pkg EXCEPT ![cur] = @ \cup {x}]
    BY <1>11 DEF AppendLine
  <2>2. UNCHANGED <<pc, cur, log, opened, bins, excused>> /\ pc = "append"
    BY <1>11 DEF AppendLine
  <2>3. \A p \in Entry : pkg'[p] = IF p = cur THEN pkg[p] \cup {x} ELSE pkg[p]
    BY <1>0, <2>1 DEF TypeOK
  <2>4. x \in Opened(cur)
    BY <2>1, <2>2 DEF OwnInv, Provenance
  <2>5. \A p \in Entry : log'[p] \cup pkg'[p] \subseteq Opened(p)'
    BY <1>a, <2>2, <2>3, <2>4 DEF OwnInv, Provenance
  <2>6. tmp' \subseteq Opened(cur)'
    BY <1>a, <2>1, <2>2 DEF OwnInv, Provenance
  <2>7. QED BY <2>2, <2>5, <2>6 DEF OwnInv, Provenance
<1>12. CASE AppendDone
  BY <1>12, ProvenanceKept DEF AppendDone
<1>13. CASE RemoveLog
  <2>1. UNCHANGED <<pkg, opened, bins, excused>> /\ pc' = "next"
    BY <1>13 DEF RemoveLog
  <2>2. \A p \in Entry : log'[p] \subseteq log[p]
    BY <1>0, <1>13 DEF RemoveLog, TypeOK
  <2>3. QED BY <1>a, <2>1, <2>2 DEF OwnInv, Provenance
<1>14. CASE Crash
  BY <1>14, ProvenanceKept DEF Crash
<1>15. CASE StartAgain
  BY <1>15, ProvenanceKept DEF StartAgain
<1>16. CASE Edit
  BY <1>16, <1>a DEF Edit, OwnInv, Provenance
<1>17. CASE Vanish
  BY <1>17, <1>a DEF Vanish, OwnInv, Provenance
<1>18. CASE UNCHANGED vars
  BY <1>18, <1>a DEF OwnInv, Provenance
<1>19. QED
  BY <1>1, <1>2, <1>3, <1>4, <1>5, <1>6, <1>7, <1>8, <1>9, <1>10, <1>11,
     <1>12, <1>13, <1>14, <1>15, <1>16, <1>17, <1>18 DEF Next, Step

\* A project that could be entered, visited after one that could be, holds
\* evidence and binaries of builds in its own tree only.
THEOREM EvidenceIsOwn == Spec => []OwnEvidence
<1>1. OwnInv => OwnEvidence
  <2> SUFFICES ASSUME OwnInv, NEW p \in Project \ excused
               PROVE  /\ log[p] \cup pkg[p] \subseteq
                           {o.pkg : o \in {x \in opened : x.owner = p
                                                    /\ x.in \in Tree(p)}}
                      /\ \A b \in bins : b.owner = p => b.from \in Tree(p)
    BY DEF OwnEvidence
  <2>1. p \in Entry
    BY DEF Entry
  <2>2. \A o \in opened : o.owner = p => o.in \in Tree(p)
    BY DEF OwnInv, Provenance
  <2>3. log[p] \cup pkg[p] \subseteq Opened(p)
    BY <2>1 DEF OwnInv, Provenance
  <2>4. Opened(p) \subseteq {o.pkg : o \in {x \in opened : x.owner = p
                                                    /\ x.in \in Tree(p)}}
    BY <2>2 DEF Opened
  <2>5. \A b \in bins : b.owner = p => b.from \in Tree(p)
    BY DEF OwnInv, Provenance
  <2>6. QED BY <2>3, <2>4, <2>5
<1>2. QED BY <1>1, InitOwn, StepOwn, PTL DEF Spec

-----------------------------------------------------------------------------
(* What an iteration leaves when it is finished: no later one comes back to *)
(* its entry, and its log is gone only when its file holds all of it.       *)

InIteration == Running \ {"next"}

Finished ==
  /\ todo \cap handled = {}
  /\ pc \in InIteration => cur \notin todo \cup handled /\ cur \in binDirs
  /\ pc = "append" => tmp # {} \/ cur \in pkgFiles
  /\ pc = "rmlog" => cur \in pkgFiles
  /\ \A p \in handled : p \in (pkgFiles \cap binDirs) \ logs /\ log[p] = {}

FinishInv == Evidence /\ Finished

\* A traced command touches the log of the entry in hand only.
LEMMA TraceFinished ==
  ASSUME FinishInv, pc \in InIteration, NEW r \in SUBSET Pkg, Trace(r),
         UNCHANGED <<todo, handled, cur, pkgFiles, binDirs>>,
         pc' \in InIteration \ {"append", "rmlog"}
  PROVE  Finished'
<1>1. TypeOK
  BY DEF FinishInv, Evidence
<1>2. logs' = logs \cup {cur}
  BY DEF Trace
<1>3. \A p \in Entry : p # cur => log'[p] = log[p]
  BY <1>1, TraceLog
<1>4. handled \subseteq Entry
  BY <1>1 DEF TypeOK
<1>5. QED BY <1>2, <1>3, <1>4 DEF FinishInv, Finished

LEMMA StepFinished == FinishInv /\ [Next]_vars => FinishInv'
<1> SUFFICES ASSUME FinishInv, [Next]_vars PROVE Finished'
  BY StepEvidence DEF FinishInv
<1>0. TypeOK /\ Finished
  BY DEF FinishInv, Evidence
<1> USE <1>0 DEF vars, shell, files, env, hist, InIteration, Running
<1>1. CASE NextProject
  BY <1>1 DEF NextProject, Finished
<1>2. CASE Finish
  BY <1>2 DEF Finish, Finished
<1>3. CASE CdRoot
  <2>1. /\ UNCHANGED <<todo, handled, cur, files>> /\ pc = "cdroot"
        /\ pc' \in {"tidyRoot", "buildRoot"}
    BY <1>3 DEF CdRoot
  <2>2. QED BY <2>1 DEF Finished
<1>4. CASE Tidy
  <2>1. PICK r \in SUBSET Readable(bdir) : Trace(r)
    BY <1>4 DEF Tidy
  <2>2. r \in SUBSET Pkg
    BY ReadablePkg
  <2>3. /\ UNCHANGED <<todo, handled, cur, pkgFiles, binDirs>>
        /\ pc \in {"tidyRoot", "tidySub"} /\ pc' \in {"buildRoot", "buildSub"}
    BY <1>4 DEF Tidy
  <2>4. QED BY <2>1, <2>2, <2>3, TraceFinished
<1>5. CASE Build
  <2>1. PICK r : /\ Trace(r)
                 /\ \/ r = deps[bdir] /\ bdir \in enterable
                    \/ r \in SUBSET Readable(bdir)
    BY <1>5 DEF Build
  <2>2. r \in SUBSET Pkg
    BY <2>1, ReadablePkg, ConstantsAssumption DEF TypeOK
  <2>3. /\ UNCHANGED <<todo, handled, cur, pkgFiles, binDirs>>
        /\ pc \in {"buildRoot", "buildSub"} /\ pc' \in {"cdback", "subs"}
    BY <1>5 DEF Build
  <2>4. QED BY <2>1, <2>2, <2>3, TraceFinished
<1>6. CASE CdBack \/ FindSubs \/ SubsDone
  <2>1. /\ UNCHANGED <<todo, handled, cur, files>> /\ pc \in InIteration
        /\ pc' \in {"find", "subs", "filter"}
    BY <1>6 DEF CdBack, FindSubs, SubsDone
  <2>2. QED BY <2>1 DEF Finished
<1>7. CASE EnterSub
  <2>1. /\ UNCHANGED <<todo, handled, cur, files>> /\ pc = "subs"
        /\ pc' \in {"tidySub", "buildSub"}
    BY <1>7 DEF EnterSub
  <2>2. QED BY <2>1 DEF Finished
<1>8. CASE Filter
  <2>1. /\ UNCHANGED <<todo, handled, cur, logs, log, binDirs>> /\ pc = "filter"
        /\ tmp' = log[cur] /\ pc' = "append"
        /\ pkgFiles' = IF log[cur] = {} THEN pkgFiles \cup {cur} ELSE pkgFiles
    BY <1>8 DEF Filter
  <2>2. QED BY <2>1 DEF Finished
<1>9. CASE AppendLine
  <2>1. /\ UNCHANGED <<pc, todo, handled, cur, logs, log, binDirs>>
        /\ pc = "append" /\ pkgFiles' = pkgFiles \cup {cur}
    BY <1>9 DEF AppendLine
  <2>2. QED BY <2>1 DEF Finished
<1>10. CASE AppendDone
  BY <1>10 DEF AppendDone, Finished
<1>11. CASE RemoveLog
  <2>1. /\ UNCHANGED <<todo, cur, pkgFiles, binDirs>> /\ pc = "rmlog"
        /\ logs' = logs \ {cur} /\ log' = [log EXCEPT ![cur] = {}]
        /\ handled' = handled \cup {cur} /\ pc' = "next"
    BY <1>11 DEF RemoveLog
  <2>2. \A p \in Entry : log'[p] = IF p = cur THEN {} ELSE log[p]
    BY <2>1 DEF TypeOK
  <2>3. handled' \subseteq Entry
    BY <2>1 DEF TypeOK
  <2>4. QED BY <2>1, <2>2, <2>3 DEF Finished
<1>12. CASE Crash
  BY <1>12 DEF Crash, Finished
<1>13. CASE StartAgain
  BY <1>13 DEF StartAgain, Finished
<1>14. CASE Edit \/ Vanish \/ UNCHANGED vars
  BY <1>14 DEF Edit, Vanish, Finished
<1>15. QED
  BY <1>1, <1>2, <1>3, <1>4, <1>5, <1>6, <1>7, <1>8, <1>9, <1>10, <1>11,
     <1>12, <1>13, <1>14 DEF Next, Step

\* An entry the run has finished has no log left, and its package file names
\* all that any build of it opened in this run or before.
THEOREM HandledAreComplete == Spec => []HandledComplete
<1>1. Init => FinishInv
  BY InitEvidence DEF Init, FinishInv, Finished, InIteration
<1>2. FinishInv => HandledComplete
  <2> SUFFICES ASSUME FinishInv, NEW p \in handled
               PROVE  /\ p \notin logs /\ p \in pkgFiles \cap binDirs
                      /\ Opened(p) \subseteq pkg[p]
    BY DEF HandledComplete
  <2>1. p \in (pkgFiles \cap binDirs) \ logs /\ log[p] = {}
    BY DEF FinishInv, Finished
  <2>2. \A o \in opened : o.owner = p => o.pkg \in pkg[p]
    BY <2>1 DEF FinishInv, Evidence, NothingLost
  <2>3. QED BY <2>1, <2>2 DEF Opened
<1>3. QED BY <1>1, <1>2, StepFinished, PTL DEF Spec
=============================================================================
