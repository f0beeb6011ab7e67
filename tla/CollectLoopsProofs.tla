------------------------- MODULE CollectLoopsProofs -------------------------
(* Theorems about CollectLoops, for every folder and every bound.          *)
EXTENDS CollectLoops, TLAPS

-----------------------------------------------------------------------------
(* Facts about the operators the steps are built from. *)

LEMMA GlobEntries == ASSUME present \subseteq Project PROVE Glob \subseteq Entry
BY DEF Glob, Entry

LEMMA ReadablePkg == ASSUME TypeOK, NEW d PROVE Readable(d) \subseteq Pkg
BY LoopsAssumption DEF TypeOK, Readable

LEMMA LinesOpen ==
  ASSUME TypeOK, NEW d \in Place, NEW r \in SUBSET Pkg
  PROVE  /\ Lines(d, r) \in SUBSET Open
         /\ \A o \in Lines(d, r) : o.run = run /\ o.in = d
         /\ Named(Lines(d, r)) = r
<1>1. \A x \in r : [run |-> run, in |-> d, pkg |-> x] \in Open
  BY DEF TypeOK, Open
<1>2. Lines(d, r) \in SUBSET Open
  BY <1>1 DEF Lines
<1>3. \A o \in Lines(d, r) : o.run = run /\ o.in = d /\ o.pkg \in r
  BY DEF Lines
<1>4. ASSUME NEW x \in r PROVE \E o \in Lines(d, r) : o.pkg = x
  <2>1. [run |-> run, in |-> d, pkg |-> x] \in Lines(d, r)
    BY DEF Lines
  <2>2. QED BY <2>1
<1>5. Named(Lines(d, r)) = r
  <2>1. \A y \in Named(Lines(d, r)) : y \in r
    BY <1>3 DEF Named
  <2>2. \A y \in r : y \in Named(Lines(d, r))
    BY <1>4 DEF Named
  <2>3. QED BY <2>1, <2>2
<1>6. QED BY <1>2, <1>3, <1>5

\* A traced command changes the log and the history of the entry in hand.
LEMMA TraceOverFacts ==
  ASSUME TypeOK, NEW d \in Place, NEW r \in SUBSET Pkg, TraceOver(d, r)
  PROVE  /\ log' \in [Entry -> SUBSET Open] /\ seen' \in [Entry -> SUBSET Open]
         /\ \A p \in Entry : p # cur => log'[p] = log[p] /\ seen'[p] = seen[p]
         /\ log'[cur] = Lines(d, r) /\ seen'[cur] = seen[cur] \cup Lines(d, r)
<1> DEFINE L == Lines(d, r)
<1>1. L \in SUBSET Open
  BY LinesOpen
<1>2. log' = [log EXCEPT ![cur] = L] /\ seen' = [seen EXCEPT ![cur] = @ \cup L]
  BY DEF TraceOver
<1> HIDE DEF L
<1>3. cur \in Entry /\ log \in [Entry -> SUBSET Open]
      /\ seen \in [Entry -> SUBSET Open]
  BY DEF TypeOK
<1>4. /\ log' \in [Entry -> SUBSET Open] /\ seen' \in [Entry -> SUBSET Open]
      /\ \A p \in Entry : p # cur => log'[p] = log[p] /\ seen'[p] = seen[p]
      /\ log'[cur] = L /\ seen'[cur] = seen[cur] \cup L
  BY ONLY <1>1, <1>2, <1>3
<1>5. QED BY <1>4 DEF L

LEMMA TraceOnFacts ==
  ASSUME TypeOK, NEW d \in Place, NEW r \in SUBSET Pkg, TraceOn(d, r)
  PROVE  /\ log' \in [Entry -> SUBSET Open] /\ seen' \in [Entry -> SUBSET Open]
         /\ \A p \in Entry : p # cur => log'[p] = log[p] /\ seen'[p] = seen[p]
         /\ log'[cur] = log[cur] \cup Lines(d, r)
         /\ seen'[cur] = seen[cur] \cup Lines(d, r)
<1> DEFINE L == Lines(d, r)
<1>1. L \in SUBSET Open
  BY LinesOpen
<1>2. log' = [log EXCEPT ![cur] = @ \cup L]
      /\ seen' = [seen EXCEPT ![cur] = @ \cup L]
  BY DEF TraceOn
<1> HIDE DEF L
<1>3. cur \in Entry /\ log \in [Entry -> SUBSET Open]
      /\ seen \in [Entry -> SUBSET Open]
  BY DEF TypeOK
<1>4. /\ log' \in [Entry -> SUBSET Open] /\ seen' \in [Entry -> SUBSET Open]
      /\ \A p \in Entry : p # cur => log'[p] = log[p] /\ seen'[p] = seen[p]
      /\ log'[cur] = log[cur] \cup L /\ seen'[cur] = seen[cur] \cup L
  BY ONLY <1>1, <1>2, <1>3
<1>5. QED BY <1>4 DEF L

-----------------------------------------------------------------------------
(* Type correctness, with the fact about the environment that an entry that *)
(* can be entered is there, and which commands belong to which script.      *)

Scripts ==
  /\ enterable \cap Project \subseteq present
  /\ pc \in {"cmake", "make", "makedir"} => variant = "c"
  /\ pc = "build" => variant # "c"
  /\ pc = "back" => variant # "c"
  /\ pc \in {"find", "subs"} => variant = "syscall"
  /\ pc \in {"filter", "distil"} => variant # "syscall"
  /\ pc = "rmlog" => variant = "rust"

\* Where the build in hand takes place.
InHand ==
  /\ pc = "enter" => path \in {cur, Nowhere}
  /\ pc = "build" => cwd = cur /\ path = cur /\ cur \in Project
  /\ pc \in {"cmake", "make", "makedir"} => path = cur /\ cur \in Project
  /\ pc \in {"back", "find"} => path \in {cur, Nowhere}
  /\ pc = "subs" => subs \subseteq Tree(cur)

Typed == TypeOK /\ Scripts /\ InHand

LEMMA InitTyped == Init => Typed
<1> SUFFICES ASSUME Init PROVE Typed
  OBVIOUS
<1> USE LoopsAssumption
<1>1. PICK blocked \in SUBSET MayBlock :
        enterable = (UNION {Tree(p) : p \in present \ blocked}) \ blocked
  BY DEF Init
<1>2. enterable \subseteq Dir /\ enterable \cap Project \subseteq present
  BY <1>1 DEF Init, Tree, Dir
<1>3. todo \subseteq Entry
  BY GlobEntries DEF Init
<1>4. /\ pc = "next" /\ cwd \in Place /\ oldpwd \in Place
      /\ cur \in Entry /\ path = Nowhere /\ subs = {}
  BY DEF Init, Place, Entry
<1>5. /\ log \in [Entry -> SUBSET Open] /\ list \in [Entry -> SUBSET Open]
      /\ seen \in [Entry -> SUBSET Open] /\ objects \in [Entry -> SUBSET Pkg]
  BY DEF Init
<1>6. changes \in 0..MaxChanges /\ run \in Nat
  BY DEF Init
<1>7. TypeOK
  BY <1>2, <1>3, <1>4, <1>5, <1>6 DEF Init, TypeOK, Running
<1>8. QED BY <1>2, <1>4, <1>7 DEF Typed, Scripts, InHand

LEMMA StepType == Typed /\ [Next]_vars => TypeOK'
<1> SUFFICES ASSUME Typed, [Next]_vars PROVE TypeOK'
  OBVIOUS
<1>0. TypeOK /\ InHand
  BY DEF Typed
<1> USE LoopsAssumption DEF vars, shell, files, env, hist
<1>1. CASE NextProject
  BY <1>0, <1>1 DEF NextProject, TypeOK, Running
<1>2. CASE Finish
  BY <1>0, <1>2 DEF Finish, TypeOK
<1>3. CASE CdRoot
  BY <1>0, <1>3 DEF CdRoot, NoteEntry, TypeOK, Running, Place, Dir
<1>4. CASE ChooseTool
  BY <1>0, <1>4 DEF ChooseTool, NoteEntry, TypeOK, Running
<1>5. CASE Build
  <2>1. PICK r \in SUBSET Readable(cwd) :
          /\ IF variant = "rust" THEN TraceOver(cwd, r) ELSE TraceOn(cwd, r)
          /\ \/ /\ objects' = [objects EXCEPT ![cur] = r]
                /\ complete' = complete \cup {cur}
             \/ UNCHANGED <<objects, complete>>
    BY <1>5 DEF Build
  <2>2. r \in SUBSET Pkg /\ cwd \in Place
    BY <1>0, ReadablePkg DEF TypeOK
  <2>3. log' \in [Entry -> SUBSET Open] /\ seen' \in [Entry -> SUBSET Open]
    BY <1>0, <2>1, <2>2, TraceOverFacts, TraceOnFacts
  <2>4. objects' \in [Entry -> SUBSET Pkg] /\ complete' \subseteq Entry
    BY <1>0, <2>1, <2>2 DEF TypeOK
  <2>5. tried' \subseteq Entry /\ pc' \in Running
    BY <1>0, <1>5 DEF Build, TypeOK, Running
  <2>6. UNCHANGED <<variant, cwd, oldpwd, todo, cur, path, subs, list, env,
                    run, handled, lastBad, excused>>
    BY <1>5 DEF Build
  <2>7. QED BY <1>0, <2>3, <2>4, <2>5, <2>6 DEF TypeOK
<1>6. CASE Configure
  <2>0. path = cur /\ cur \in Project /\ path \in Place
    BY <1>0, <1>6 DEF Configure, InHand, Place, Dir
  <2>1. PICK r \in SUBSET (Tools \cup deps[path]) : TraceOver(path, r)
    BY <1>6 DEF Configure
  <2>2. r \in SUBSET Pkg
    BY <1>0, <2>0 DEF TypeOK, Dir
  <2>3. log' \in [Entry -> SUBSET Open] /\ seen' \in [Entry -> SUBSET Open]
    BY <1>0, <2>0, <2>1, <2>2, TraceOverFacts
  <2>4. tried' \subseteq Entry /\ pc' \in Running
    BY <1>0, <1>6 DEF Configure, TypeOK, Running
  <2>5. UNCHANGED <<variant, cwd, oldpwd, todo, cur, path, subs, list, objects,
                    env, run, handled, lastBad, excused, complete>>
    BY <1>6 DEF Configure
  <2>6. QED BY <1>0, <2>3, <2>4, <2>5 DEF TypeOK
<1>7. CASE Make
  <2>0. path = cur /\ cur \in Project /\ path \in Place
    BY <1>0, <1>7 DEF Make, InHand, Place, Dir
  <2>1. PICK r \in SUBSET Missing, t \in SUBSET Tools :
          /\ TraceOn(path, r \cup t)
          /\ \/ /\ objects' = [objects EXCEPT ![cur] = deps[path]]
                /\ complete' = IF objects[cur] = {} THEN complete \cup {cur}
                                                    ELSE complete
             \/ /\ \E o \in SUBSET r :
                     objects' = [objects EXCEPT ![cur] = @ \cup o]
                /\ UNCHANGED complete
    BY <1>7 DEF Make
  <2>2. r \in SUBSET Pkg /\ r \cup t \in SUBSET Pkg /\ deps[path] \in SUBSET Pkg
    BY <1>0, <2>0 DEF TypeOK, Dir, Missing
  <2>3. log' \in [Entry -> SUBSET Open] /\ seen' \in [Entry -> SUBSET Open]
    BY <1>0, <2>0, <2>1, <2>2, TraceOnFacts
  <2>4. objects' \in [Entry -> SUBSET Pkg] /\ complete' \subseteq Entry
    <3>1. cur \in Entry /\ objects \in [Entry -> SUBSET Pkg]
          /\ complete \subseteq Entry
      BY <1>0 DEF TypeOK
    <3>2. QED BY <2>1, <2>2, <3>1
  <2>5. pc' \in Running
    BY <1>7 DEF Make, Running
  <2>6. UNCHANGED <<variant, cwd, oldpwd, todo, cur, path, subs, list, env,
                    run, handled, tried, lastBad, excused>>
    BY <1>7 DEF Make
  <2>7. QED BY <1>0, <2>3, <2>4, <2>5, <2>6 DEF TypeOK
<1>8. CASE MakeDir
  <2>0. path \in Place
    BY <1>0, <1>8 DEF MakeDir, InHand, Place, Dir
  <2>1. PICK t \in SUBSET Tools : TraceOver(path, t)
    BY <1>8 DEF MakeDir
  <2>2. log' \in [Entry -> SUBSET Open] /\ seen' \in [Entry -> SUBSET Open]
    BY <1>0, <2>0, <2>1, TraceOverFacts
  <2>3. tried' \subseteq Entry /\ pc' \in Running
    BY <1>0, <1>8 DEF MakeDir, TypeOK, Running
  <2>4. UNCHANGED <<variant, cwd, oldpwd, todo, cur, path, subs, list, objects,
                    env, run, handled, lastBad, excused, complete>>
    BY <1>8 DEF MakeDir
  <2>5. QED BY <1>0, <2>2, <2>3, <2>4 DEF TypeOK
<1>9. CASE CdBack
  BY <1>0, <1>9 DEF CdBack, TypeOK, Running
<1>10. CASE FindSubs
  <2>1. subs' \subseteq SubDir
    BY <1>10 DEF FindSubs, Tree
  <2>2. pc' \in Running /\ UNCHANGED <<variant, cwd, oldpwd, todo, cur, path,
                                       files, env, hist>>
    BY <1>10 DEF FindSubs, Running
  <2>3. QED BY <1>0, <2>1, <2>2 DEF TypeOK
<1>11. CASE BuildSub
  <2>1. PICK s \in subs :
          /\ subs' = subs \ {s}
          /\ IF s \in enterable THEN \E r \in SUBSET deps[s] : TraceOn(s, r)
                                ELSE UNCHANGED <<log, seen>>
    BY <1>11 DEF BuildSub
  <2>2. s \in Place /\ s \in Dir
    BY <1>0, <2>1 DEF TypeOK, Place, Dir
  <2>3. log' \in [Entry -> SUBSET Open] /\ seen' \in [Entry -> SUBSET Open]
    <3>1. CASE s \in enterable
      <4>1. PICK r \in SUBSET deps[s] : TraceOn(s, r)
        BY <2>1, <3>1
      <4>2. r \in SUBSET Pkg
        BY <1>0, <2>2 DEF TypeOK
      <4>3. QED BY <1>0, <2>2, <4>1, <4>2, TraceOnFacts
    <3>2. CASE s \notin enterable
      BY <1>0, <2>1, <3>2 DEF TypeOK
    <3>3. QED BY <3>1, <3>2
  <2>4. subs' \subseteq SubDir
    BY <1>0, <2>1 DEF TypeOK
  <2>5. UNCHANGED <<variant, pc, cwd, oldpwd, todo, cur, path, list, objects,
                    env, run, handled, tried, lastBad, excused, complete>>
    BY <1>11 DEF BuildSub
  <2>6. QED BY <1>0, <2>3, <2>4, <2>5 DEF TypeOK
<1>12. CASE SubsDone
  BY <1>0, <1>12 DEF SubsDone, TypeOK, Running
<1>13. CASE Filter
  BY <1>0, <1>13 DEF Filter, TypeOK, Running
<1>14. CASE Distil
  BY <1>0, <1>14 DEF Distil, TypeOK, Running
<1>15. CASE RemoveLog
  BY <1>0, <1>15 DEF RemoveLog, TypeOK, Running
<1>16. CASE CollectPkg
  <2>1. PICK p \in Entry : list' = [list EXCEPT ![p] = log[p]]
    BY <1>16 DEF CollectPkg
  <2>2. list' \in [Entry -> SUBSET Open]
    BY <1>0, <2>1 DEF TypeOK
  <2>3. UNCHANGED <<shell, log, objects, env, hist>>
    BY <1>16 DEF CollectPkg
  <2>4. QED BY <1>0, <2>2, <2>3 DEF TypeOK
<1>17. CASE Crash
  BY <1>0, <1>17 DEF Crash, TypeOK
<1>18. CASE StartAgain
  <2>1. todo' \subseteq Entry
    BY <1>0, <1>18, GlobEntries DEF StartAgain, TypeOK
  <2>2. run' \in Nat /\ pc' \in Running /\ cwd' \in Place /\ oldpwd' \in Place
    BY <1>0, <1>18 DEF StartAgain, TypeOK, Running, Place
  <2>3. /\ subs' = {} /\ handled' = {} /\ tried' = {} /\ lastBad' = FALSE
        /\ excused' = {} /\ complete' = {}
        /\ seen' \in [Entry -> SUBSET Open]
    BY <1>18 DEF StartAgain
  <2>4. UNCHANGED <<variant, cur, path, files, env>>
    BY <1>18 DEF StartAgain
  <2>5. QED BY <1>0, <2>1, <2>2, <2>3, <2>4 DEF TypeOK
<1>19. CASE Edit
  BY <1>0, <1>19 DEF Edit, TypeOK
<1>20. CASE Vanish
  BY <1>0, <1>20 DEF Vanish, TypeOK
<1>21. CASE UNCHANGED vars
  BY <1>0, <1>21 DEF TypeOK
<1>22. QED
  BY <1>1, <1>2, <1>3, <1>4, <1>5, <1>6, <1>7, <1>8, <1>9, <1>10, <1>11,
     <1>12, <1>13, <1>14, <1>15, <1>16, <1>17, <1>18, <1>19, <1>20, <1>21
  DEF Next, Step

\* The commands of one script never run in another, and the build in hand is
\* one of the entry in hand.
LEMMA StepScripts == Typed /\ [Next]_vars => (Scripts /\ InHand)'
<1> SUFFICES ASSUME Typed, [Next]_vars PROVE (Scripts /\ InHand)'
  OBVIOUS
<1>0. TypeOK /\ Scripts /\ InHand
  BY DEF Typed
<1> USE LoopsAssumption, <1>0 DEF vars, shell, files, env, hist, TypeOK, Scripts,
        InHand
<1>1. CASE NextProject
  BY <1>1 DEF NextProject
<1>2. CASE CdRoot
  BY <1>2 DEF CdRoot, Dir
<1>3. CASE ChooseTool
  BY <1>3 DEF ChooseTool, Dir
<1>4. CASE FindSubs
  <2>1. subs' \subseteq Tree(cur)
    BY <1>4 DEF FindSubs, Tree
  <2>2. QED BY <1>4, <2>1 DEF FindSubs, Tree
<1>5. CASE BuildSub
  BY <1>5 DEF BuildSub, Tree
<1>6. CASE Vanish
  <2>1. PICK p \in present : present' = present \ {p}
                             /\ enterable' = enterable \ Tree(p)
    BY <1>6 DEF Vanish
  <2>2. enterable' \cap Project \subseteq present'
    BY <2>1 DEF Tree
  <2>3. QED BY <1>6, <2>2 DEF Vanish
<1>7. CASE Finish \/ Build \/ CdBack
  <2>1. UNCHANGED <<variant, present, enterable, path, cur, subs>>
    BY <1>7 DEF Finish, Build, CdBack
  <2>4. CASE Build
    BY <2>4, <2>1 DEF Build
  <2>5. CASE Finish
    BY <2>5, <2>1 DEF Finish
  <2>6. CASE CdBack
    BY <2>6, <2>1 DEF CdBack
  <2>7. QED BY <1>7, <2>4, <2>5, <2>6
<1>11. CASE Configure \/ Make \/ MakeDir
  <2>1. /\ pc \in {"cmake", "make", "makedir"} /\ pc' \in {"make", "filter"}
        /\ UNCHANGED <<variant, present, enterable, path, cur, subs, cwd>>
    BY <1>11 DEF Configure, Make, MakeDir
  <2>2. QED BY <2>1
<1>8. CASE \/ SubsDone \/ Filter \/ Distil \/ RemoveLog \/ CollectPkg
  BY <1>8 DEF SubsDone, Filter, Distil, RemoveLog, CollectPkg
<1>9. CASE \/ Crash \/ StartAgain \/ Edit \/ UNCHANGED vars
  BY <1>9 DEF Crash, StartAgain, Edit
<1>10. QED
  BY <1>1, <1>2, <1>3, <1>4, <1>5, <1>6, <1>7, <1>8, <1>9,
     <1>11 DEF Next, Step

LEMMA StepTyped == Typed /\ [Next]_vars => Typed'
BY StepType, StepScripts DEF Typed

\* The loop's memory, the logs, lists and build folders keep their types.
THEOREM TypeCorrect == Spec => []TypeOK
<1>1. Typed => TypeOK
  BY DEF Typed
<1>2. QED BY <1>1, InitTyped, StepTyped, PTL DEF Spec

-----------------------------------------------------------------------------
(* Attribution.  OwnBuildOnly is inductive but for one command: make appends *)
(* to a log, and the property needs that cmake has emptied it in this run.   *)

Own ==
  /\ Typed /\ OwnBuildOnly
  /\ pc = "make" => \A o \in log[cur] : o.run = run

LEMMA TreeRoot == \A p \in Entry : p \in Tree(p)
BY DEF Tree

\* Steps that leave logs and lists alone, or empty one, keep the property.
LEMMA OwnShrinks ==
  ASSUME Own, Typed', variant' = variant,
         \A p \in Entry : log'[p] \subseteq log[p],
         \A p \in Entry : list'[p] \subseteq list[p] \cup log[p],
         \A p \in Entry : list'[p] \subseteq list[p] \/ list'[p] \subseteq log[p]
  PROVE  OwnBuildOnly'
BY DEF Own, OwnBuildOnly

\* A command in the project's tree that empties the log it writes.
LEMMA OwnOver ==
  ASSUME Own, NEW d \in Tree(cur), d \in Place, NEW r \in SUBSET Pkg,
         TraceOver(d, r), UNCHANGED <<variant, list>>
  PROVE  OwnBuildOnly' /\ \A o \in log'[cur] : o.run = run
<1>1. TypeOK
  BY DEF Own, Typed
<1>2. \A o \in Lines(d, r) : o.run = run /\ o.in = d
  BY <1>1, LinesOpen
<1>3. log'[cur] = Lines(d, r) /\ \A p \in Entry : p # cur => log'[p] = log[p]
  BY <1>1, TraceOverFacts
<1>4. QED BY <1>1, <1>2, <1>3 DEF Own, OwnBuildOnly

\* One that appends, where the log may be of several runs or is of this one.
LEMMA OwnOn ==
  ASSUME Own, NEW d \in Tree(cur), d \in Place, NEW r \in SUBSET Pkg,
         TraceOn(d, r), UNCHANGED <<variant, list>>,
         variant = "syscall" \/ \A o \in log[cur] : o.run = run
  PROVE  OwnBuildOnly'
<1>1. TypeOK
  BY DEF Own, Typed
<1>2. \A o \in Lines(d, r) : o.run = run /\ o.in = d
  BY <1>1, LinesOpen
<1>3. /\ log'[cur] = log[cur] \cup Lines(d, r)
      /\ \A p \in Entry : p # cur => log'[p] = log[p]
  BY <1>1, TraceOnFacts
<1>4. QED BY <1>1, <1>2, <1>3 DEF Own, OwnBuildOnly

LEMMA InitOwn == Init => Own
BY InitTyped DEF Init, Own, OwnBuildOnly, TypeOK, Entry

LEMMA StepOwn == Own /\ [Next]_vars => Own'
<1> SUFFICES ASSUME Own, [Next]_vars
             PROVE  /\ OwnBuildOnly'
                    /\ pc' = "make" => \A o \in log'[cur'] : o.run = run'
  BY StepTyped DEF Own
<1>0. Typed /\ TypeOK /\ Scripts /\ InHand /\ Typed'
  BY StepTyped DEF Own, Typed
<1> USE DEF vars, shell, files, env, hist
<1>1. CASE Build
  <2>1. PICK r \in SUBSET Readable(cwd) :
          IF variant = "rust" THEN TraceOver(cwd, r) ELSE TraceOn(cwd, r)
    BY <1>1 DEF Build
  <2>2. r \in SUBSET Pkg /\ cwd \in Tree(cur) /\ cwd \in Place
    BY <1>0, <1>1, ReadablePkg, TreeRoot DEF TypeOK, InHand, Build
  <2>3. UNCHANGED <<variant, list>> /\ pc' = "back" /\ pc = "build"
    BY <1>1 DEF Build
  <2>4. variant \in {"rust", "syscall"}
    BY <1>0, <2>3 DEF TypeOK, Scripts
  <2>5. QED BY <2>1, <2>2, <2>3, <2>4, OwnOver, OwnOn
<1>2. CASE Configure
  <2>1. PICK r \in SUBSET (Tools \cup deps[path]) : TraceOver(path, r)
    BY <1>2 DEF Configure
  <2>2. path \in Tree(cur) /\ path \in Place /\ path \in Dir
    BY <1>0, <1>2, TreeRoot DEF TypeOK, InHand, Configure, Place, Dir
  <2>3. r \in SUBSET Pkg
    BY <1>0, <2>2, LoopsAssumption DEF TypeOK
  <2>4. UNCHANGED <<variant, list, cur, run>>
    BY <1>2 DEF Configure
  <2>5. QED BY <2>1, <2>2, <2>3, <2>4, OwnOver
<1>3. CASE Make
  <2>1. PICK r \in SUBSET Missing, t \in SUBSET Tools : TraceOn(path, r \cup t)
    BY <1>3 DEF Make
  <2>2. path \in Tree(cur) /\ path \in Place /\ path \in Dir
    BY <1>0, <1>3, TreeRoot DEF TypeOK, InHand, Make, Place, Dir
  <2>3. r \cup t \in SUBSET Pkg
    BY <1>0, <2>2, LoopsAssumption DEF TypeOK, Missing
  <2>4. /\ UNCHANGED <<variant, list>> /\ pc' = "filter"
        /\ \A o \in log[cur] : o.run = run
    BY <1>3 DEF Make, Own
  <2>5. QED BY <2>1, <2>2, <2>3, <2>4, OwnOn
<1>4. CASE MakeDir
  <2>1. PICK t \in SUBSET Tools : TraceOver(path, t)
    BY <1>4 DEF MakeDir
  <2>2. path \in Tree(cur) /\ path \in Place
    BY <1>0, <1>4, TreeRoot DEF TypeOK, InHand, MakeDir, Place, Dir
  <2>3. t \in SUBSET Pkg
    BY LoopsAssumption
  <2>4. UNCHANGED <<variant, list>> /\ pc' = "filter"
    BY <1>4 DEF MakeDir
  <2>5. QED BY <2>1, <2>2, <2>3, <2>4, OwnOver
<1>5. CASE BuildSub
  <2>1. PICK s \in subs :
          IF s \in enterable THEN \E r \in SUBSET deps[s] : TraceOn(s, r)
                             ELSE UNCHANGED <<log, seen>>
    BY <1>5 DEF BuildSub
  <2>2. s \in Tree(cur) /\ s \in Place /\ s \in Dir
    BY <1>0, <1>5 DEF TypeOK, InHand, BuildSub, Place, Dir
  <2>3. UNCHANGED <<variant, list>> /\ pc' = "subs" /\ variant = "syscall"
    BY <1>0, <1>5 DEF BuildSub, Scripts
  <2>4. CASE s \in enterable
    <3>1. PICK r \in SUBSET deps[s] : TraceOn(s, r)
      BY <2>1, <2>4
    <3>2. r \in SUBSET Pkg
      BY <1>0, <2>2, LoopsAssumption DEF TypeOK
    <3>3. QED BY <2>2, <2>3, <3>1, <3>2, OwnOn
  <2>5. CASE s \notin enterable
    BY <1>0, <2>1, <2>3, <2>5, OwnShrinks
  <2>6. QED BY <2>4, <2>5
<1>6. CASE Filter
  <2>1. list' = [list EXCEPT ![cur] = {}] /\ UNCHANGED <<variant, log>>
        /\ pc' = "distil"
    BY <1>6 DEF Filter
  <2>2. \A p \in Entry : list'[p] \subseteq list[p]
    BY <1>0, <2>1 DEF TypeOK
  <2>3. QED BY <1>0, <2>1, <2>2, OwnShrinks
<1>7. CASE Distil
  <2>1. list' = [list EXCEPT ![cur] = log[cur]] /\ UNCHANGED <<variant, log>>
        /\ pc' \in {"next", "rmlog"}
    BY <1>7 DEF Distil
  <2>2. \A p \in Entry : list'[p] = list[p] \/ list'[p] = log[p]
    BY <1>0, <2>1 DEF TypeOK
  <2>3. QED BY <1>0, <2>1, <2>2, OwnShrinks
<1>8. CASE RemoveLog
  <2>1. log' = [log EXCEPT ![cur] = {}] /\ UNCHANGED <<variant, list>>
        /\ pc' = "next"
    BY <1>8 DEF RemoveLog
  <2>2. \A p \in Entry : log'[p] \subseteq log[p]
    BY <1>0, <2>1 DEF TypeOK
  <2>3. QED BY <1>0, <2>1, <2>2, OwnShrinks
<1>9. CASE CollectPkg
  <2>1. PICK q \in Entry : list' = [list EXCEPT ![q] = log[q]]
    BY <1>9 DEF CollectPkg
  <2>2. UNCHANGED <<variant, log>> /\ pc' = "done"
    BY <1>9 DEF CollectPkg
  <2>3. \A p \in Entry : list'[p] = list[p] \/ list'[p] = log[p]
    BY <1>0, <2>1 DEF TypeOK
  <2>4. QED BY <1>0, <2>2, <2>3, OwnShrinks
<1>10. CASE \/ NextProject \/ Finish \/ CdRoot \/ CdBack \/ FindSubs
            \/ SubsDone \/ Crash \/ StartAgain
  <2>1. UNCHANGED <<variant, log, list>> /\ pc' # "make"
    BY <1>10 DEF NextProject, Finish, CdRoot, CdBack, FindSubs, SubsDone,
                 Crash, StartAgain
  <2>2. QED BY <1>0, <2>1, OwnShrinks
<1>11. CASE ChooseTool
  <2>1. UNCHANGED <<variant, log, list>> /\ pc' # "make"
    BY <1>11 DEF ChooseTool
  <2>2. QED BY <1>0, <2>1, OwnShrinks
<1>12. CASE Edit \/ Vanish \/ UNCHANGED vars
  <2>1. UNCHANGED <<variant, log, list, pc, cur, run>>
    BY <1>12 DEF Edit, Vanish
  <2>2. QED BY <1>0, <2>1, OwnShrinks DEF Own
<1>13. QED
  BY <1>1, <1>2, <1>3, <1>4, <1>5, <1>6, <1>7, <1>8, <1>9, <1>10, <1>11,
     <1>12 DEF Next, Step

\* No log or list of these loops names what another project's build opened,
\* and a Rust or C log or list is of a single run.
THEOREM EvidenceIsOfOneBuild == Spec => []OwnBuildOnly
<1>1. Own => OwnBuildOnly
  BY DEF Own
<1>2. QED BY <1>1, InitOwn, StepOwn, PTL DEF Spec

-----------------------------------------------------------------------------
(* Completeness.  Where the evidence of the entry in hand is at each         *)
(* command; entries not yet visited have seen nothing; what was built from   *)
(* scratch is made of what was seen.                                         *)

Fresh == /\ pc \in {"enter", "build", "cmake", "makedir"} => seen[cur] = {}
         /\ pc \in {"enter", "build", "cmake", "makedir", "make"} => cur \notin complete
         /\ \A p \in todo : seen[p] = {} /\ p \notin complete /\ p \notin handled

InLog  == pc \in {"enter", "build", "cmake", "makedir", "make", "back", "find",
                  "subs", "filter", "distil"}

Progress ==
  /\ Typed /\ Fresh
  /\ InLog \/ pc = "rmlog" => cur \notin todo /\ cur \notin handled
  /\ InLog => seen[cur] \subseteq log[cur]
  /\ pc = "rmlog" => seen[cur] \subseteq list[cur]
  /\ SeenIsListed
  /\ \A p \in complete : objects[p] \subseteq Named(seen[p])

Proven == Fresh /\ SeenIsListed
          /\ (InLog \/ pc = "rmlog" => cur \notin todo /\ cur \notin handled)
          /\ (InLog => seen[cur] \subseteq log[cur])
          /\ (pc = "rmlog" => seen[cur] \subseteq list[cur])
          /\ (\A p \in complete : objects[p] \subseteq Named(seen[p]))

LEMMA NamedMonotone ==
  ASSUME NEW A, NEW B, A \subseteq B PROVE Named(A) \subseteq Named(B)
BY DEF Named

LEMMA InitProgress == Init => Progress
<1> SUFFICES ASSUME Init PROVE Progress
  OBVIOUS
<1>1. Typed
  BY InitTyped
<1>2. \A p \in Entry : seen[p] = {}
  BY DEF Init
<1>3. complete = {} /\ handled = {} /\ pc = "next"
  BY DEF Init
<1>4. todo \subseteq Entry
  BY <1>1 DEF Typed, TypeOK
<1>5. QED BY <1>1, <1>2, <1>3, <1>4 DEF Progress, Fresh, InLog, SeenIsListed

\* A traced command of the entry in hand: nothing of any other entry changes.
LEMMA TracedProgress ==
  ASSUME Progress, NEW L,
         InLog, InLog', cur' = cur, variant' = variant,
         UNCHANGED <<list, todo, handled>>,
         \A p \in Entry : p # cur => /\ log'[p] = log[p] /\ seen'[p] = seen[p]
                                     /\ objects'[p] = objects[p],
         seen'[cur] = seen[cur] \cup L, L \subseteq log'[cur],
         seen[cur] \subseteq log'[cur],
         complete' \subseteq complete \cup {cur},
         cur \in complete' => objects'[cur] \subseteq Named(seen'[cur]),
         pc' \in {"make", "back", "subs", "filter"},
         pc' = "make" => cur \notin complete'
  PROVE  Proven'
<1>1. TypeOK /\ Fresh /\ SeenIsListed
  BY DEF Progress, Typed
<1>2. Fresh'
  BY <1>1 DEF Fresh, TypeOK, Progress
<1>3. SeenIsListed'
  BY <1>1 DEF SeenIsListed, Evidence, Progress, TypeOK
<1>4. \A p \in complete' : objects'[p] \subseteq Named(seen'[p])
  BY <1>1 DEF Progress, TypeOK
<1>5. QED BY <1>2, <1>3, <1>4 DEF Proven, Progress, InLog

\* Commands that touch none of it, for the entry in hand.
LEMMA QuietProgress ==
  ASSUME Progress, UNCHANGED <<log, list, objects, seen, complete, variant,
                               cur, handled, todo>>,
         pc \notin {"next", "rmlog"} => \/ ~InLog'
                     \/ pc' \notin {"enter", "build", "cmake", "makedir", "make"}
                     \/ pc = "enter",
         InLog' => InLog, pc' # "rmlog"
  PROVE  Proven'
BY DEF Progress, Proven, Fresh, InLog, SeenIsListed, Evidence

LEMMA StepProgress == Progress /\ [Next]_vars => Progress'
<1> SUFFICES ASSUME Progress, [Next]_vars PROVE Proven'
  BY StepTyped DEF Progress, Proven
<1>0. Typed /\ TypeOK /\ Scripts /\ InHand /\ Typed'
  BY StepTyped DEF Progress, Typed
<1> USE DEF vars, shell, files, env, hist
<1>1. CASE NextProject
  <2>1. PICK p \in todo : cur' = p /\ todo' = todo \ {p}
    BY <1>1 DEF NextProject
  <2>2. /\ UNCHANGED <<variant, log, list, objects, handled, seen, complete>>
        /\ pc' = "enter"
    BY <1>1 DEF NextProject
  <2>3. QED
    BY <2>1, <2>2 DEF Progress, Proven, Fresh, InLog, SeenIsListed, Evidence
<1>2. CASE CdRoot
  <2>1. /\ UNCHANGED <<log, list, objects, seen, complete, variant, cur,
                       handled, todo>>
        /\ pc = "enter" /\ pc' \in {"build", "back"}
    BY <1>2 DEF CdRoot
  <2>2. QED BY <2>1, QuietProgress DEF InLog
<1>3. CASE ChooseTool
  <2>1. /\ UNCHANGED <<log, list, objects, seen, complete, variant, cur, todo>>
        /\ pc = "enter"
        /\ \/ pc' = "next" /\ handled' = handled \cup {cur}
           \/ pc' \in {"cmake", "makedir"} /\ UNCHANGED handled
    BY <1>3 DEF ChooseTool
  <2>2. CASE pc' \in {"cmake", "makedir"} /\ UNCHANGED handled
    BY <2>1, <2>2, QuietProgress DEF InLog
  <2>3. CASE pc' = "next" /\ handled' = handled \cup {cur}
    BY <2>1, <2>3 DEF Progress, Proven, Fresh, InLog, SeenIsListed, Evidence
  <2>4. QED BY <2>1, <2>2, <2>3
<1>4. CASE Build
  <2>1. PICK r \in SUBSET Readable(cwd) :
          /\ IF variant = "rust" THEN TraceOver(cwd, r) ELSE TraceOn(cwd, r)
          /\ \/ /\ objects' = [objects EXCEPT ![cur] = r]
                /\ complete' = complete \cup {cur}
             \/ UNCHANGED <<objects, complete>>
    BY <1>4 DEF Build
  <2>2. r \in SUBSET Pkg /\ cwd \in Place
    BY <1>0, ReadablePkg DEF TypeOK
  <2>3. /\ UNCHANGED <<variant, list, todo, cur, handled>>
        /\ pc = "build" /\ pc' = "back"
    BY <1>4 DEF Build
  <2>4. /\ \A p \in Entry : p # cur => log'[p] = log[p] /\ seen'[p] = seen[p]
        /\ seen'[cur] = seen[cur] \cup Lines(cwd, r)
        /\ Lines(cwd, r) \subseteq log'[cur]
    BY <1>0, <2>1, <2>2, TraceOverFacts, TraceOnFacts
  <2>5. seen[cur] = {} /\ cur \notin complete
    BY <2>3 DEF Progress, Fresh
  <2>6. Named(seen'[cur]) = r
    BY <1>0, <2>2, <2>4, <2>5, LinesOpen
  <2>7. /\ \A p \in Entry : p # cur => objects'[p] = objects[p]
        /\ complete' \subseteq complete \cup {cur}
        /\ cur \in complete' => objects'[cur] = r
    BY <1>0, <2>1, <2>5 DEF TypeOK
  <2>8. QED BY <2>3, <2>4, <2>5, <2>6, <2>7, TracedProgress DEF InLog
<1>5. CASE Configure \/ MakeDir
  <2>1. PICK r \in SUBSET (Tools \cup deps[path]) : TraceOver(path, r)
    BY <1>5 DEF Configure, MakeDir
  <2>2. path \in Place /\ path \in Dir
    BY <1>0, <1>5 DEF InHand, Configure, MakeDir, Place, Dir
  <2>3. r \in SUBSET Pkg
    BY <1>0, <2>2, LoopsAssumption DEF TypeOK
  <2>4. /\ UNCHANGED <<variant, list, todo, cur, handled, objects, complete>>
        /\ pc \in {"cmake", "makedir"} /\ pc' \in {"make", "filter"}
    BY <1>5 DEF Configure, MakeDir
  <2>5. /\ \A p \in Entry : p # cur => log'[p] = log[p] /\ seen'[p] = seen[p]
        /\ seen'[cur] = seen[cur] \cup Lines(path, r)
        /\ log'[cur] = Lines(path, r)
    BY <1>0, <2>1, <2>2, <2>3, TraceOverFacts
  <2>6. seen[cur] = {} /\ cur \notin complete
    BY <2>4 DEF Progress, Fresh
  <2>7. QED BY <2>4, <2>5, <2>6, TracedProgress DEF InLog
<1>6. CASE Make
  <2>1. PICK r \in SUBSET Missing, t \in SUBSET Tools :
          /\ TraceOn(path, r \cup t)
          /\ \/ /\ r = Missing
                /\ objects' = [objects EXCEPT ![cur] = deps[path]]
                /\ complete' = IF objects[cur] = {} THEN complete \cup {cur}
                                                    ELSE complete
             \/ /\ \E o \in SUBSET r :
                     objects' = [objects EXCEPT ![cur] = @ \cup o]
                /\ UNCHANGED complete
    BY <1>6 DEF Make
  <2>2. path \in Place /\ path \in Dir
    BY <1>0, <1>6 DEF InHand, Make, Place, Dir
  <2>3. r \cup t \in SUBSET Pkg
    BY <1>0, <2>2, LoopsAssumption DEF TypeOK, Missing
  <2>4. /\ UNCHANGED <<variant, list, todo, cur, handled>>
        /\ pc = "make" /\ pc' = "filter"
    BY <1>6 DEF Make
  <2>5. /\ \A p \in Entry : p # cur => log'[p] = log[p] /\ seen'[p] = seen[p]
        /\ seen'[cur] = seen[cur] \cup Lines(path, r \cup t)
        /\ log'[cur] = log[cur] \cup Lines(path, r \cup t)
    BY <1>0, <2>1, <2>2, <2>3, TraceOnFacts
  <2>6. cur \notin complete /\ seen[cur] \subseteq log[cur]
    BY <2>4 DEF Progress, Fresh, InLog
  <2>7. /\ \A p \in Entry : p # cur => objects'[p] = objects[p]
        /\ complete' \subseteq complete \cup {cur}
        /\ cur \in complete' => objects'[cur] = Missing \cup objects[cur]
                                /\ objects[cur] = {} /\ r = Missing
    <3>1. cur \in Entry /\ objects \in [Entry -> SUBSET Pkg]
      BY <1>0 DEF TypeOK
    <3>2. QED BY <2>1, <2>6, <3>1 DEF Missing
  <2>8. r \subseteq Named(seen'[cur])
    <3>1. Named(Lines(path, r \cup t)) = r \cup t
      BY <1>0, <2>2, <2>3, LinesOpen
    <3>2. Named(Lines(path, r \cup t)) \subseteq Named(seen'[cur])
      BY <2>5, NamedMonotone
    <3>3. QED BY <3>1, <3>2
  <2>9. cur \in complete' => objects'[cur] \subseteq Named(seen'[cur])
    BY <2>7, <2>8
  <2>10. pc' \in {"make", "back", "subs", "filter"} /\ pc' # "make"
         /\ InLog /\ InLog'
    BY <2>4 DEF InLog
  <2>11. QED BY <2>4, <2>5, <2>6, <2>7, <2>9, <2>10, TracedProgress
<1>7. CASE BuildSub
  <2>1. PICK s \in subs :
          IF s \in enterable THEN \E r \in SUBSET deps[s] : TraceOn(s, r)
                             ELSE UNCHANGED <<log, seen>>
    BY <1>7 DEF BuildSub
  <2>2. s \in Place /\ s \in Dir
    BY <1>0 DEF TypeOK, Place, Dir
  <2>3. /\ UNCHANGED <<variant, list, todo, cur, handled, objects, complete>>
        /\ pc = "subs" /\ pc' = "subs"
    BY <1>7 DEF BuildSub
  <2>4. CASE s \in enterable
    <3>1. PICK r \in SUBSET deps[s] : TraceOn(s, r)
      BY <2>1, <2>4
    <3>2. r \in SUBSET Pkg
      BY <1>0, <2>2, LoopsAssumption DEF TypeOK
    <3>3. /\ \A p \in Entry : p # cur => log'[p] = log[p] /\ seen'[p] = seen[p]
          /\ seen'[cur] = seen[cur] \cup Lines(s, r)
          /\ log'[cur] = log[cur] \cup Lines(s, r)
      BY <1>0, <2>2, <3>1, <3>2, TraceOnFacts
    <3>4. seen[cur] \subseteq log[cur]
      BY <2>3 DEF Progress, InLog
    <3>5. cur \in complete => objects[cur] \subseteq Named(seen'[cur])
      <4>1. Named(seen[cur]) \subseteq Named(seen'[cur])
        BY <3>3, NamedMonotone
      <4>2. QED BY <4>1 DEF Progress
    <3>6. QED BY <2>3, <3>3, <3>4, <3>5, TracedProgress DEF InLog
  <2>5. CASE s \notin enterable
    BY <2>1, <2>3, <2>5, QuietProgress DEF InLog
  <2>6. QED BY <2>4, <2>5
<1>8. CASE Filter
  <2>1. /\ list' = [list EXCEPT ![cur] = {}] /\ pc = "filter" /\ pc' = "distil"
        /\ UNCHANGED <<log, objects, seen, complete, variant, cur, handled, todo>>
    BY <1>8 DEF Filter
  <2>2. \A p \in Entry : p # cur => list'[p] = list[p]
    BY <1>0, <2>1 DEF TypeOK
  <2>3. cur \notin handled /\ handled \subseteq Entry
    BY <1>0, <2>1 DEF Progress, InLog, TypeOK
  <2>4. SeenIsListed'
    BY <2>1, <2>2, <2>3 DEF Progress, SeenIsListed, Evidence
  <2>5. QED BY <2>1, <2>4 DEF Progress, Proven, Fresh, InLog
<1>9. CASE Distil
  <2>1. /\ list' = [list EXCEPT ![cur] = log[cur]] /\ pc = "distil"
        /\ UNCHANGED <<log, objects, seen, complete, variant, cur, todo>>
        /\ \/ pc' = "rmlog" /\ UNCHANGED handled
           \/ pc' = "next" /\ handled' = handled \cup {cur}
    BY <1>9 DEF Distil
  <2>2. /\ \A p \in Entry : p # cur => list'[p] = list[p]
        /\ list'[cur] = log[cur]
    BY <1>0, <2>1 DEF TypeOK
  <2>3. /\ cur \notin handled /\ handled \subseteq Entry /\ cur \notin todo
        /\ seen[cur] \subseteq log[cur] /\ variant # "syscall"
    BY <1>0, <2>1 DEF Progress, InLog, TypeOK, Scripts
  <2>4. SeenIsListed'
    BY <2>1, <2>2, <2>3 DEF Progress, SeenIsListed, Evidence
  <2>5. QED BY <2>1, <2>2, <2>3, <2>4 DEF Progress, Proven, Fresh, InLog
<1>10. CASE RemoveLog
  <2>1. /\ log' = [log EXCEPT ![cur] = {}] /\ pc = "rmlog" /\ pc' = "next"
        /\ UNCHANGED <<list, objects, seen, complete, variant, cur, todo>>
        /\ handled' = handled \cup {cur}
    BY <1>10 DEF RemoveLog
  <2>2. /\ cur \notin todo /\ seen[cur] \subseteq list[cur]
        /\ variant # "syscall"
    BY <1>0, <2>1 DEF Progress, Scripts
  <2>3. SeenIsListed'
    BY <2>1, <2>2 DEF Progress, SeenIsListed, Evidence
  <2>4. QED BY <2>1, <2>2, <2>3 DEF Progress, Proven, Fresh, InLog
<1>11. CASE SubsDone
  <2>1. /\ UNCHANGED <<log, list, objects, seen, complete, variant, cur, todo>>
        /\ pc = "subs" /\ pc' = "next" /\ handled' = handled \cup {cur}
    BY <1>11 DEF SubsDone
  <2>2. variant = "syscall" /\ cur \notin todo /\ seen[cur] \subseteq log[cur]
    BY <1>0, <2>1 DEF Scripts, Progress, InLog
  <2>3. QED
    BY <2>1, <2>2 DEF Progress, Proven, Fresh, InLog, SeenIsListed, Evidence
<1>12. CASE CollectPkg
  <2>1. /\ UNCHANGED <<log, objects, seen, complete, variant, cur, todo, pc,
                       handled>>
        /\ variant = "syscall" /\ pc = "done"
    BY <1>12 DEF CollectPkg
  <2>2. QED
    BY <2>1 DEF Progress, Proven, Fresh, InLog, SeenIsListed, Evidence
<1>13. CASE Finish \/ CdBack \/ FindSubs \/ Crash
  <2>1. /\ UNCHANGED <<log, list, objects, seen, complete, variant, cur,
                       handled, todo>>
        /\ \/ pc' \in {"done", "crashed"}
           \/ pc = "back" /\ pc' \in {"filter", "find"}
           \/ pc = "find" /\ pc' = "subs"
    BY <1>13 DEF Finish, CdBack, FindSubs, Crash
  <2>2. QED BY <2>1, QuietProgress DEF InLog
<1>14. CASE StartAgain
  <2>1. /\ pc' = "next" /\ handled' = {} /\ complete' = {}
        /\ \A p \in Entry : seen'[p] = {}
    BY <1>14 DEF StartAgain
  <2>2. todo' \subseteq Entry
    BY <1>0 DEF Typed, TypeOK
  <2>3. QED BY <2>1, <2>2 DEF Proven, Fresh, InLog, SeenIsListed
<1>15. CASE Edit \/ Vanish \/ UNCHANGED vars
  <2>1. UNCHANGED <<log, list, objects, seen, complete, variant, cur, handled,
                    todo, pc>>
    BY <1>15 DEF Edit, Vanish
  <2>2. QED
    BY <2>1 DEF Progress, Proven, Fresh, InLog, SeenIsListed, Evidence
<1>16. QED
  BY <1>1, <1>2, <1>3, <1>4, <1>5, <1>6, <1>7, <1>8, <1>9, <1>10, <1>11,
     <1>12, <1>13, <1>14, <1>15 DEF Next, Step

\* Whatever was left behind by earlier runs and kills, when the loop is past
\* an entry the evidence holds all its builds opened in this run.
THEOREM SeenIsKept == Spec => []SeenIsListed
<1>1. Progress => SeenIsListed
  BY DEF Progress
<1>2. QED BY <1>1, InitProgress, StepProgress, PTL DEF Spec

\* What was built from scratch, and to the end, is explained by the list.
THEOREM ProductsAreExplained == Spec => []ProductExplained
<1>1. Progress => ProductExplained
  <2> SUFFICES ASSUME Progress, NEW p \in handled \cap complete
               PROVE  objects[p] \subseteq Named(Evidence(p))
    BY DEF ProductExplained
  <2>1. Named(seen[p]) \subseteq Named(Evidence(p))
    BY NamedMonotone DEF Progress, SeenIsListed
  <2>2. QED BY <2>1 DEF Progress
<1>2. QED BY <1>1, InitProgress, StepProgress, PTL DEF Spec

-----------------------------------------------------------------------------
(* Movement.  In the loops that use cd - the projects folder is one of the  *)
(* two directories the shell remembers, and the right one unless the entry  *)
(* before could not be entered.                                             *)

Steady ==
  /\ variant # "c" /\ pc \in Running =>
       /\ Home \in {cwd, oldpwd}
       /\ ~lastBad => Home = IF pc \in {"build", "back"} THEN oldpwd ELSE cwd
  /\ pc = "enter" => path = IF cur \in Project /\ (variant = "c" \/ cwd = Home)
                              THEN cur ELSE Nowhere

Reached ==
  /\ ReachableBuilt
  /\ pc \in {"make", "back", "find", "subs", "filter", "distil", "rmlog"} =>
       cur \in tried \cup excused

LEMMA InitSteady == Init => Typed /\ Steady /\ Reached
<1> SUFFICES ASSUME Init PROVE Typed /\ Steady /\ Reached
  OBVIOUS
<1>1. Steady /\ Reached
  BY DEF Init, Steady, Reached, ReachableBuilt
<1>2. QED BY <1>1, InitTyped

LEMMA StepSteady == Typed /\ Steady /\ [Next]_vars => Steady'
<1> SUFFICES ASSUME Typed, Steady, [Next]_vars PROVE Steady'
  OBVIOUS
<1>0. TypeOK /\ Scripts /\ InHand
  BY DEF Typed
<1> USE LoopsAssumption, <1>0 DEF vars, shell, files, env, hist, Steady, Running
<1>1. CASE NextProject
  BY <1>1 DEF NextProject, Scripts
<1>2. CASE CdRoot
  <2>1. path \in enterable => cwd = Home
    BY <1>2 DEF CdRoot, TypeOK
  <2>2. path \notin enterable /\ cur \in enterable => cwd # Home
    BY <1>2 DEF CdRoot, TypeOK, Entry, Dir
  <2>3. QED BY <1>2, <2>1, <2>2 DEF CdRoot, NoteEntry
<1>3. CASE ChooseTool
  BY <1>3 DEF ChooseTool
<1>4. CASE CdBack
  BY <1>4 DEF CdBack
<1>5. CASE Build
  BY <1>5 DEF Build, Scripts
<1>6. CASE Configure \/ Make \/ MakeDir
  BY <1>6 DEF Configure, Make, MakeDir, Scripts
<1>7. CASE FindSubs \/ BuildSub \/ SubsDone
  BY <1>7 DEF FindSubs, BuildSub, SubsDone
<1>8. CASE Filter \/ Distil \/ RemoveLog \/ CollectPkg
  BY <1>8 DEF Filter, Distil, RemoveLog, CollectPkg
<1>9. CASE StartAgain
  BY <1>9 DEF StartAgain
<1>10. CASE Finish \/ Crash \/ Edit \/ Vanish \/ UNCHANGED vars
  BY <1>10 DEF Finish, Crash, Edit, Vanish
<1>11. QED
  BY <1>1, <1>2, <1>3, <1>4, <1>5, <1>6, <1>7, <1>8, <1>9, <1>10 DEF Next, Step

LEMMA StepReached ==
  Typed /\ Steady /\ Reached /\ [Next]_vars => Reached'
<1> SUFFICES ASSUME Typed, Steady, Reached, [Next]_vars PROVE Reached'
  OBVIOUS
<1>0. TypeOK /\ Scripts /\ InHand
  BY DEF Typed
<1> USE LoopsAssumption, <1>0
    DEF vars, shell, files, env, hist, Reached, ReachableBuilt
<1>1. CASE NextProject
  BY <1>1 DEF NextProject
<1>2. CASE CdRoot
  <2>1. path \notin enterable => cur \notin enterable \/ lastBad
    BY <1>2 DEF CdRoot, Steady, Running, TypeOK, Entry, Dir
  <2>2. QED BY <1>2, <2>1 DEF CdRoot, NoteEntry
<1>3. CASE ChooseTool
  <2>1. path \notin present => cur \notin enterable
    BY <1>3 DEF ChooseTool, Steady, Scripts, TypeOK, Entry, Dir
  <2>2. QED BY <1>3, <2>1 DEF ChooseTool, NoteEntry
<1>4. CASE CdBack
  BY <1>4 DEF CdBack
<1>5. CASE Build \/ Configure \/ Make \/ MakeDir
  BY <1>5 DEF Build, Configure, Make, MakeDir
<1>6. CASE FindSubs \/ BuildSub \/ SubsDone
  BY <1>6 DEF FindSubs, BuildSub, SubsDone
<1>7. CASE Filter \/ Distil \/ RemoveLog \/ CollectPkg
  BY <1>7 DEF Filter, Distil, RemoveLog, CollectPkg
<1>8. CASE StartAgain
  BY <1>8 DEF StartAgain
<1>9. CASE Finish \/ Crash \/ Edit \/ Vanish \/ UNCHANGED vars
  BY <1>9 DEF Finish, Crash, Edit, Vanish
<1>10. QED
  BY <1>1, <1>2, <1>3, <1>4, <1>5, <1>6, <1>7, <1>8, <1>9 DEF Next, Step

\* A project that can be entered is built, unless its loop uses cd - and the
\* entry before could not be entered.
THEOREM ReachableIsBuilt == Spec => []ReachableBuilt
<1>1. Typed /\ Steady /\ Reached /\ [Next]_vars => (Typed /\ Steady /\ Reached)'
  BY StepTyped, StepSteady, StepReached
<1>2. Reached => ReachableBuilt
  BY DEF Reached
<1>3. QED BY <1>1, <1>2, InitSteady, PTL DEF Spec
=============================================================================
