---------------------------- MODULE CollectLoops ----------------------------
(***************************************************************************)
(* The other collection loops: Rust/run_all.sh, C-C++/run_all.sh and the   *)
(* two-step Golang/collect_syscall.sh with collect_pkg.sh.  They differ    *)
(* from RunAll in what their && guards, in how they open the log, and in   *)
(* what a failing step leaves behind:                                      *)
(*   rust     cd && strace > log; cd -; filter > list; rm log              *)
(*   c        strace cmake > log && strace make >> log; filter > list      *)
(*   syscall  cd && strace >> log; cd -; the same in every subdirectory;   *)
(*            a second script filters all logs                             *)
(*                                                                         *)
(* A line of a log or of a list carries, as a ghost, the run and the place *)
(* of the build that opened the file.  An empty file and a missing one are *)
(* not told apart: grep makes nothing of either.                           *)
(***************************************************************************)
EXTENDS Naturals

CONSTANTS
  Project,     \* names of the directories a projects folder may hold
  SubDir,      \* the directories below them (.git and .github pruned)
  Root,        \* Root[s]: the project below which subdirectory s lies
  Rank,        \* the order in which the shell expands * and */
  Pkg,         \* crates, libraries or modules
  Tools,       \* libraries cmake and make are themselves linked with
  Deps,        \* what the sources may be built from: functions on Dir
  CMake,       \* projects with a CMakeLists.txt
  MayBlock,    \* directories whose permissions may forbid `cd`
  Home,        \* the projects folder
  Start,       \* the directory the script was started from
  Star,        \* the literal an unmatched glob leaves behind
  Nowhere,     \* a path that does not exist
  MaxRuns,     \* bound: starts of the script
  MaxChanges   \* bound: changes of the projects folder

Entry   == Project \cup {Star}
Dir     == Project \cup SubDir
Place   == Dir \cup {Home, Start}
Tree(p) == {p} \cup {s \in SubDir : Root[s] = p}

ASSUME LoopsAssumption ==
  /\ Root \in [SubDir -> Project]
  /\ Rank \in [Entry -> Nat]
  /\ \A p, q \in Entry : Rank[p] = Rank[q] => p = q
  /\ Tools \subseteq Pkg /\ Deps \subseteq [Dir -> SUBSET Pkg]
  /\ CMake \subseteq Project /\ MayBlock \subseteq Dir
  /\ Project \cap SubDir = {}
  /\ {Home, Start, Star, Nowhere} \cap Dir = {}
  /\ Home # Start /\ Nowhere \notin {Home, Start}
  /\ MaxRuns \in Nat /\ MaxChanges \in Nat

VARIABLES
  variant,     \* which of the three scripts
  pc,          \* the command the script is about to execute
  cwd, oldpwd, \* $PWD and $OLDPWD of the loop's shell
  todo,        \* glob words the loop has still to visit
  cur, path,   \* the project in hand, and its path as resolved
  subs,        \* subdirectories still to be built (syscall)
  log,         \* log[p]: lines of p's strace log the filter takes
  list,        \* list[p]: lines of p's package list
  objects,     \* objects[p]: packages compiled into p's build folder
  present,     \* project directories in the projects folder
  enterable,   \* directories `cd` can change into
  deps,        \* deps[d]: packages the sources in d are built from
  changes,     \* changes of the folder so far (bounded)
  run,         \* number of the current run
  handled,     \* history: entries this run has finished
  tried,       \* history: entries this run has started a build of
  lastBad,     \* history: the entry visited last could not be entered
  excused,     \* history: entries that, or whose predecessor, could not be
  seen,        \* history: seen[p]: what this run's builds of p opened
  complete     \* history: entries this run built from scratch to the end

shell == <<variant, pc, cwd, oldpwd, todo, cur, path, subs>>
files == <<log, list, objects>>
env   == <<present, enterable, deps, changes>>
hist  == <<run, handled, tried, lastBad, excused, seen, complete>>
vars  == <<shell, files, env, hist>>

Running == {"next", "enter", "build", "cmake", "make", "makedir", "back",
            "find", "subs", "filter", "distil", "rmlog"}

Open == [run : Nat, in : Place, pkg : Pkg]

TypeOK ==
  /\ variant \in {"rust", "c", "syscall"}
  /\ pc \in Running \cup {"done", "crashed"}
  /\ cwd \in Place /\ oldpwd \in Place
  /\ todo \subseteq Entry /\ cur \in Entry
  /\ path \in Project \cup {Nowhere}
  /\ subs \subseteq SubDir
  /\ log \in [Entry -> SUBSET Open] /\ list \in [Entry -> SUBSET Open]
  /\ objects \in [Entry -> SUBSET Pkg]
  /\ present \subseteq Project /\ enterable \subseteq Dir
  /\ deps \in Deps
  /\ changes \in 0..MaxChanges
  /\ run \in Nat
  /\ handled \subseteq Entry /\ tried \subseteq Entry
  /\ lastBad \in BOOLEAN /\ excused \subseteq Entry
  /\ seen \in [Entry -> SUBSET Open] /\ complete \subseteq Entry

-----------------------------------------------------------------------------
\* What the glob expands to; the word itself when nothing matches.
Glob == IF present = {} THEN {Star} ELSE present

\* The lines a traced command in d adds when it opens the files r.
Lines(d, r) == {[run |-> run, in |-> d, pkg |-> x] : x \in r}

\* What a build standing in d can come to open: nothing outside a project.
Readable(d) == IF d \in Dir THEN deps[d] ELSE {}

\* Seeded fault: >> in place of >.
TraceOverAppends(d, r) ==
  /\ log'  = [log  EXCEPT ![cur] = @ \cup Lines(d, r)]
  /\ seen' = [seen EXCEPT ![cur] = @ \cup Lines(d, r)]

\* strace ... > log: what was in the log is gone.
TraceOver(d, r) ==
  /\ log'  = [log  EXCEPT ![cur] = Lines(d, r)]
  /\ seen' = [seen EXCEPT ![cur] = @ \cup Lines(d, r)]

\* strace ... >> log
TraceOn(d, r) ==
  /\ log'  = [log  EXCEPT ![cur] = @ \cup Lines(d, r)]
  /\ seen' = [seen EXCEPT ![cur] = @ \cup Lines(d, r)]

-----------------------------------------------------------------------------
Init ==
  /\ variant \in {"rust", "c", "syscall"}
  /\ present \in SUBSET Project
  /\ \E blocked \in SUBSET MayBlock :
       enterable = (UNION {Tree(p) : p \in present \ blocked}) \ blocked
  /\ deps \in Deps
  /\ pc = "next"
  /\ cwd = (IF variant = "c" THEN Start ELSE Home) /\ oldpwd = Start
  /\ todo = Glob /\ cur = Star /\ path = Nowhere /\ subs = {}
  /\ log = [p \in Entry |-> {}] /\ list = log /\ objects = log
  /\ changes = 0 /\ run = 1
  /\ handled = {} /\ tried = {} /\ lastBad = FALSE /\ excused = {}
  /\ seen = log /\ complete = {}

\* for ... in */ and realpath, which depends on where the shell stands; the
\* words of the C loop are absolute.
NextProject ==
  /\ pc = "next" /\ todo # {}
  /\ \E p \in todo :
       /\ \A q \in todo : Rank[p] <= Rank[q]
       /\ cur' = p /\ todo' = todo \ {p}
       /\ path' = IF p \in Project /\ (variant = "c" \/ cwd = Home)
                    THEN p ELSE Nowhere
  /\ pc' = "enter"
  /\ UNCHANGED <<variant, cwd, oldpwd, subs, files, env, hist>>

Finish ==
  /\ pc = "next" /\ todo = {}
  /\ pc' = "done"
  /\ UNCHANGED <<variant, cwd, oldpwd, todo, cur, path, subs, files, env,
                 hist>>

\* What the history remembers when an entry is entered.  In the C loop one
\* project's fate does not depend on another's.
NoteEntry ==
  /\ lastBad' = (cur \notin enterable)
  /\ excused' = IF cur \notin enterable \/ (lastBad /\ variant # "c")
                  THEN excused \cup {cur} ELSE excused

\* Seeded fault: cd; strace in place of cd && strace.
CdRootUnguarded ==
  /\ pc = "enter" /\ variant \in {"rust", "syscall"}
  /\ NoteEntry
  /\ IF path \in enterable THEN cwd' = path /\ oldpwd' = cwd
                           ELSE UNCHANGED <<cwd, oldpwd>>
  /\ pc' = "build"
  /\ UNCHANGED <<variant, todo, cur, path, subs, files, env, run, handled,
                 tried, seen, complete>>

\* cd "$projectPath" && strace: when cd fails the build and the redirection
\* are both skipped, and the log stays as it was.
CdRoot ==
  /\ pc = "enter" /\ variant \in {"rust", "syscall"}
  /\ NoteEntry
  /\ \/ /\ path \in enterable
        /\ cwd' = path /\ oldpwd' = cwd
        /\ pc' = "build"
     \/ /\ path \notin enterable
        /\ pc' = "back"
        /\ UNCHANGED <<cwd, oldpwd>>
  /\ UNCHANGED <<variant, todo, cur, path, subs, files, env, run, handled,
                 tried, seen, complete>>

\* [ -d ], mkdir -p of the build folder, [ -f CMakeLists.txt ].
ChooseTool ==
  /\ pc = "enter" /\ variant = "c"
  /\ NoteEntry
  /\ \/ /\ path \notin present
        /\ pc' = "next" /\ handled' = handled \cup {cur}
     \/ /\ path \in present /\ UNCHANGED handled
        /\ pc' = IF path \in CMake \cap enterable THEN "cmake" ELSE "makedir"
  /\ UNCHANGED <<variant, cwd, oldpwd, todo, cur, path, subs, files, env, run,
                 tried, seen, complete>>

\* strace cargo build > log, or strace go build >> log: a build that succeeds
\* has opened all it is made of and replaces the product; one that fails, or
\* is killed, stops anywhere and leaves the product of an earlier build.
Build ==
  /\ pc = "build"
  /\ \E r \in SUBSET Readable(cwd) :
       /\ IF variant = "rust" THEN TraceOver(cwd, r) ELSE TraceOn(cwd, r)
       /\ \/ /\ r = Readable(cwd)
             /\ objects' = [objects EXCEPT ![cur] = r]
             /\ complete' = complete \cup {cur}
          \/ UNCHANGED <<objects, complete>>
  /\ tried' = tried \cup {cur}
  /\ pc' = "back"
  /\ UNCHANGED <<variant, cwd, oldpwd, todo, cur, path, subs, list, env, run,
                 handled, lastBad, excused>>

\* strace cmake > log, in the build folder; make follows if it succeeds.
Configure ==
  /\ pc = "cmake"
  /\ \E r \in SUBSET (Tools \cup deps[path]) : TraceOver(path, r)
  /\ tried' = tried \cup {cur}
  /\ pc' \in {"make", "filter"}
  /\ UNCHANGED <<variant, cwd, oldpwd, todo, cur, path, subs, list, objects,
                 env, run, handled, lastBad, excused, complete>>

\* What make opens: it compiles only what the build folder lacks.
Missing == deps[path] \ objects[cur]

\* Seeded fault: only cmake is traced.
MakeUntraced ==
  /\ pc = "make"
  /\ objects' = [objects EXCEPT ![cur] = deps[path]]
  /\ complete' = IF objects[cur] = {} THEN complete \cup {cur} ELSE complete
  /\ pc' = "filter"
  /\ UNCHANGED <<variant, cwd, oldpwd, todo, cur, path, subs, log, list, env,
                 run, handled, tried, lastBad, excused, seen>>

\* strace make -j4 >> log: compiles what is missing, or stops half way.
Make ==
  /\ pc = "make"
  /\ \E r \in SUBSET Missing, t \in SUBSET Tools :
       /\ TraceOn(path, r \cup t)
       /\ \/ /\ r = Missing
             /\ objects' = [objects EXCEPT ![cur] = deps[path]]
             /\ complete' = IF objects[cur] = {} THEN complete \cup {cur}
                                                 ELSE complete
          \/ /\ \E o \in SUBSET r : objects' = [objects EXCEPT ![cur] = @ \cup o]
             /\ UNCHANGED complete
  /\ pc' = "filter"
  /\ UNCHANGED <<variant, cwd, oldpwd, todo, cur, path, subs, list, env, run,
                 handled, tried, lastBad, excused>>

\* strace make "$project_path" > log in a folder without a Makefile: the
\* directory exists and there is no rule for it, so nothing is built.
MakeDir ==
  /\ pc = "makedir"
  /\ \E t \in SUBSET Tools : TraceOver(path, t)
  /\ tried' = tried \cup {cur}
  /\ pc' = "filter"
  /\ UNCHANGED <<variant, cwd, oldpwd, todo, cur, path, subs, list, objects,
                 env, run, handled, lastBad, excused, complete>>

\* Seeded fault: the cd - is missing.
CdBackForgotten ==
  /\ pc = "back"
  /\ pc' = IF variant = "rust" THEN "filter" ELSE "find"
  /\ UNCHANGED <<variant, cwd, oldpwd, todo, cur, path, subs, files, env,
                 hist>>

\* cd - > /dev/null
CdBack ==
  /\ pc = "back"
  /\ IF oldpwd \in enterable \cup {Home, Start}
       THEN cwd' = oldpwd /\ oldpwd' = cwd
       ELSE UNCHANGED <<cwd, oldpwd>>
  /\ pc' = IF variant = "rust" THEN "filter" ELSE "find"
  /\ UNCHANGED <<variant, todo, cur, path, subs, files, env, hist>>

\* Seeded fault: find without -mindepth 1 lists the root as well.
FindSubsWithRoot ==
  /\ pc = "find"
  /\ subs' = IF path \in enterable THEN Tree(path) ELSE {}
  /\ pc' = "subs"
  /\ UNCHANGED <<variant, cwd, oldpwd, todo, cur, path, files, env, hist>>

\* find "$projectPath" -mindepth 1 -type d
FindSubs ==
  /\ pc = "find"
  /\ subs' = IF path \in enterable THEN Tree(path) \ {path} ELSE {}
  /\ pc' = "subs"
  /\ UNCHANGED <<variant, cwd, oldpwd, todo, cur, path, files, env, hist>>

\* cd "$subDir" && strace go build >> log; cd -.  The loop is a subshell and
\* its paths are absolute, so where a failing cd leaves it has no effect.
BuildSub ==
  /\ pc = "subs"
  /\ \E s \in subs :
       /\ subs' = subs \ {s}
       /\ IF s \in enterable
            THEN \E r \in SUBSET deps[s] : TraceOn(s, r)
            ELSE UNCHANGED <<log, seen>>
  /\ UNCHANGED <<variant, pc, cwd, oldpwd, todo, cur, path, list, objects,
                 env, run, handled, tried, lastBad, excused, complete>>

SubsDone ==
  /\ pc = "subs" /\ subs = {}
  /\ pc' = "next" /\ handled' = handled \cup {cur}
  /\ UNCHANGED <<variant, cwd, oldpwd, todo, cur, path, subs, files, env, run,
                 tried, lastBad, excused, seen, complete>>

\* Seeded fault: the log is removed before it is read.
FilterDropsLog ==
  /\ pc = "filter"
  /\ list' = [list EXCEPT ![cur] = {}]
  /\ log' = [log EXCEPT ![cur] = {}]
  /\ pc' = "distil"
  /\ UNCHANGED <<variant, cwd, oldpwd, todo, cur, path, subs, objects, env,
                 hist>>

\* > list: the shell empties the list before the pipeline reads the log.
Filter ==
  /\ pc = "filter"
  /\ list' = [list EXCEPT ![cur] = {}]
  /\ pc' = "distil"
  /\ UNCHANGED <<variant, cwd, oldpwd, todo, cur, path, subs, log, objects,
                 env, hist>>

\* The pipeline writes when it is through; the C log is kept.
Distil ==
  /\ pc = "distil"
  /\ list' = [list EXCEPT ![cur] = log[cur]]
  /\ \/ variant = "rust" /\ pc' = "rmlog" /\ UNCHANGED handled
     \/ variant # "rust" /\ pc' = "next" /\ handled' = handled \cup {cur}
  /\ UNCHANGED <<variant, cwd, oldpwd, todo, cur, path, subs, log, objects,
                 env, run, tried, lastBad, excused, seen, complete>>

\* rm -f log
RemoveLog ==
  /\ pc = "rmlog"
  /\ log' = [log EXCEPT ![cur] = {}]
  /\ pc' = "next" /\ handled' = handled \cup {cur}
  /\ UNCHANGED <<variant, cwd, oldpwd, todo, cur, path, subs, list, objects,
                 env, run, tried, lastBad, excused, seen, complete>>

\* collect_pkg.sh, run when the loop is done: each log in turn is filtered
\* over its list.
CollectPkg ==
  /\ pc = "done" /\ variant = "syscall"
  /\ \E p \in Entry : list' = [list EXCEPT ![p] = log[p]]
  /\ UNCHANGED <<shell, log, objects, env, hist>>

Step ==
  \/ NextProject \/ Finish \/ CdRoot \/ ChooseTool \/ Build \/ Configure
  \/ Make \/ MakeDir \/ CdBack \/ FindSubs \/ BuildSub \/ SubsDone \/ Filter
  \/ Distil \/ RemoveLog \/ CollectPkg

-----------------------------------------------------------------------------
(* The environment, as in RunAll. *)

Crash ==
  /\ pc \in Running
  /\ pc' = "crashed"
  /\ UNCHANGED <<variant, cwd, oldpwd, todo, cur, path, subs, files, env,
                 hist>>

StartAgain ==
  /\ pc \in {"done", "crashed"} /\ run < MaxRuns
  /\ run' = run + 1 /\ pc' = "next"
  /\ cwd' = (IF variant = "c" THEN Start ELSE Home) /\ oldpwd' = Start
  /\ todo' = Glob /\ subs' = {}
  /\ handled' = {} /\ tried' = {} /\ lastBad' = FALSE /\ excused' = {}
  /\ seen' = [p \in Entry |-> {}] /\ complete' = {}
  /\ UNCHANGED <<variant, cur, path, files, env>>

Edit ==
  /\ changes < MaxChanges
  /\ deps' \in Deps \ {deps}
  /\ changes' = changes + 1
  /\ UNCHANGED <<shell, files, present, enterable, hist>>

\* A project directory disappears, but not from under the shell.
Vanish ==
  /\ changes < MaxChanges
  /\ \E p \in present :
       /\ pc \in Running => {cwd, oldpwd} \cap Tree(p) = {}
       /\ present' = present \ {p}
       /\ enterable' = enterable \ Tree(p)
  /\ changes' = changes + 1
  /\ UNCHANGED <<shell, files, deps, hist>>

Next == Step \/ Crash \/ StartAgain \/ Edit \/ Vanish

Spec == Init /\ [][Next]_vars

-----------------------------------------------------------------------------
(* Properties. *)

Named(lines) == {o.pkg : o \in lines}

\* Unlike the loop of RunAll, these never attribute a build to a project it
\* does not belong to, whatever cannot be entered; and what a Rust or C log or
\* list names is of one build, whatever earlier runs and kills have left.
OwnBuildOnly ==
  \A p \in Entry : \A lines \in {log[p], list[p]} : \A a, b \in lines :
    a.in \in Tree(p) /\ (variant # "syscall" => a.run = b.run)

\* What a project's list is to be found in: collect_syscall.sh keeps the log.
Evidence(p) == IF variant = "syscall" THEN log[p] ELSE list[p]

\* When the loop is past an entry, all that its builds opened in this run is
\* in the evidence, whatever was left behind by earlier runs.
SeenIsListed == \A p \in handled : seen[p] \subseteq Evidence(p)

\* A build folder filled from scratch is explained by the list beside it.
\* (A second run of the C loop compiles, and so lists, only what changed; a
\* Rust build that fails overwrites the list and leaves the product.)
ProductExplained ==
  \A p \in handled \cap complete : objects[p] \subseteq Named(Evidence(p))

\* A build is started for every entry that can be entered, unless, in the two
\* loops that use cd -, the entry before it could not.
ReachableBuilt == handled \subseteq tried \cup excused
=============================================================================
