------------------------------- MODULE RunAll -------------------------------
(***************************************************************************)
(* The collection loop of Golang/run_all.sh.  For every directory of the   *)
(* projects folder the script changes into it, runs `go mod tidy` and      *)
(* `go build` under strace, returns with `cd -`, builds every              *)
(* subdirectory in a subshell, distils the strace log into <project>-      *)
(* pkg.txt and removes the log.                                            *)
(*                                                                         *)
(* A strace log is abstracted to the set of packages whose module file was *)
(* opened (what the filter of lines 74-87 keeps of it), a package file to  *)
(* the set of its lines.  Names are kept where they decide control: which  *)
(* directory the shell stands in, what `cd -` returns to, which file a     *)
(* command appends to.  The script can be killed between any two steps and *)
(* started again over the files it left, and the folder can change         *)
(* meanwhile.                                                              *)
(***************************************************************************)
EXTENDS Naturals, FiniteSets

CONSTANTS
  Project,     \* names of the directories a projects folder may hold
  SubDir,      \* the directories below them (.git and .github pruned)
  Root,        \* Root[s]: the project below which subdirectory s lies
  Base,        \* Base[s]: the basename of s
  SkippedName, \* basenames that match example|test|examples|tests
  Rank,        \* the order in which the shell expands */
  Pkg,         \* packages
  Deps,        \* what the modules may be built from: functions on Dir
  MayBlock,    \* directories whose permissions may forbid `cd`
  Home,        \* the projects folder
  Start,       \* the directory the script was started from
  Star,        \* the literal word * an unmatched glob leaves behind
  Nowhere,     \* a path that does not exist
  MaxRuns,     \* bound: starts of the script
  MaxChanges   \* bound: changes of the projects folder

Entry   == Project \cup {Star}            \* what the loop variable ranges over
Dir     == Project \cup SubDir            \* a project's root is named by it
Place   == Dir \cup {Home, Start}         \* where a shell may stand
OutName == Entry \cup {Base[s] : s \in SubDir}
Tree(p) == {p} \cup {s \in SubDir : Root[s] = p}

ASSUME ConstantsAssumption ==
  /\ Root \in [SubDir -> Project]
  /\ Rank \in [Entry -> Nat]
  /\ \A p, q \in Entry : Rank[p] = Rank[q] => p = q
  /\ DOMAIN Base = SubDir
  /\ Deps \subseteq [Dir -> SUBSET Pkg] /\ MayBlock \subseteq Dir
  /\ Project \cap SubDir = {}
  /\ {Home, Start, Star, Nowhere} \cap Dir = {}
  /\ Home # Start /\ Nowhere \notin {Home, Start}
  /\ MaxRuns \in Nat /\ MaxChanges \in Nat

VARIABLES
  pc,          \* the command the script is about to execute
  cwd, oldpwd, \* $PWD and $OLDPWD of the loop's shell
  todo,        \* glob words the loop has still to visit
  cur,         \* projectName of this iteration
  path,        \* projectPath of this iteration
  subs,        \* directories find has still to hand to the inner loop
  bdir, bname, \* where the current build commands run, and for which output
  tmp,         \* lines of tmp_file not yet appended
  logs, log,   \* which <entry>-strace.txt exist, and what they hold
  pkgFiles,    \* which <entry>-pkg.txt exist ...
  pkg,         \* ... and the lines they hold
  binDirs,     \* which bins/<entry> directories exist ...
  bins,        \* ... and the -OutBinary files in them
  present,     \* project directories in the projects folder
  enterable,   \* directories `cd` can change into
  deps,        \* deps[d]: packages the module in d is built from
  changes,     \* changes of the folder so far (bounded)
  run,         \* number of the current run
  handled,     \* history: entries this run has finished
  lastBad,     \* history: the entry visited last could not be entered
  excused,     \* history: entries that, or whose predecessor, could not be
  opened       \* history: which build opened which module file

shell == <<pc, cwd, oldpwd, todo, cur, path, subs, bdir, bname, tmp>>
files == <<logs, log, pkgFiles, pkg, binDirs, bins>>
env   == <<present, enterable, deps, changes>>
hist  == <<run, handled, lastBad, excused, opened>>
vars  == <<shell, files, env, hist>>

Running == {"next", "cdroot", "tidyRoot", "buildRoot", "cdback", "find",
            "subs", "tidySub", "buildSub", "filter", "append", "rmlog"}

Binary == [owner : Entry, name : OutName, from : Place, uses : SUBSET Pkg]
Open   == [run : Nat, owner : Entry, in : Place, pkg : Pkg]

TypeOK ==
  /\ pc \in Running \cup {"done", "crashed"}
  /\ cwd \in Place /\ oldpwd \in Place
  /\ todo \subseteq Entry
  /\ cur \in Entry
  /\ path \in Project \cup {Nowhere}
  /\ subs \subseteq SubDir
  /\ bdir \in Place /\ bname \in OutName
  /\ tmp \subseteq Pkg
  /\ logs \subseteq Entry /\ log \in [Entry -> SUBSET Pkg]
  /\ pkgFiles \subseteq Entry /\ pkg \in [Entry -> SUBSET Pkg]
  /\ binDirs \subseteq Entry /\ bins \subseteq Binary
  /\ present \subseteq Project /\ enterable \subseteq Dir
  /\ deps \in Deps
  /\ changes \in 0..MaxChanges
  /\ run \in Nat
  /\ handled \subseteq Entry
  /\ lastBad \in BOOLEAN /\ excused \subseteq Entry
  /\ opened \subseteq Open

-----------------------------------------------------------------------------
(* The shell's globbing and the tools it calls. *)

\* The words */ expands to; the word itself when there is no directory.
Glob == IF present = {} THEN {Star} ELSE present

\* The packages a build standing in d can come to open.  Outside a project
\* there is no module, so nothing is opened and nothing is built.
Readable(d) == IF d \in enterable THEN deps[d] ELSE {}

\* Seeded fault: > in place of >> when a traced command is logged.
TraceTruncates(r) ==
  /\ logs' = logs \cup {cur}
  /\ log' = [log EXCEPT ![cur] = r]
  /\ opened' = opened \cup
       {[run |-> run, owner |-> cur, in |-> bdir, pkg |-> x] : x \in r}

\* `strace ... >> <cur>-strace.txt`: the log exists from here on and has
\* gained the module files in r that the traced command opened.
Trace(r) ==
  /\ logs' = logs \cup {cur}
  /\ log' = [log EXCEPT ![cur] = @ \cup r]
  /\ opened' = opened \cup
       {[run |-> run, owner |-> cur, in |-> bdir, pkg |-> x] : x \in r}

\* `go build -o <bins>/<cur>/<bname>-OutBinary` replaces what is there.
PutBinary ==
  bins' = {b \in bins : ~(b.owner = cur /\ b.name = bname)} \cup
            {[owner |-> cur, name |-> bname, from |-> bdir,
              uses |-> deps[bdir]]}

-----------------------------------------------------------------------------
Init ==
  /\ present \in SUBSET Project
  /\ \E blocked \in SUBSET MayBlock :
       enterable = (UNION {Tree(p) : p \in present \ blocked}) \ blocked
  /\ deps \in Deps
  /\ pc = "next" /\ cwd = Home /\ oldpwd = Start
  /\ todo = Glob
  /\ cur = Star /\ path = Nowhere /\ bdir = Home /\ bname = Star
  /\ subs = {} /\ tmp = {}
  /\ logs = {} /\ log = [p \in Entry |-> {}]
  /\ pkgFiles = {} /\ pkg = [p \in Entry |-> {}]
  /\ binDirs = {} /\ bins = {}
  /\ changes = 0 /\ run = 1
  /\ handled = {} /\ lastBad = FALSE /\ excused = {} /\ opened = {}

\* for projectDir in */ : basename, realpath (relative to where the shell
\* stands now), mkdir -p of the binary folder.
NextProject ==
  /\ pc = "next" /\ todo # {}
  /\ \E p \in todo :
       /\ \A q \in todo : Rank[p] <= Rank[q]
       /\ cur' = p /\ todo' = todo \ {p}
       /\ path' = IF cwd = Home /\ p \in Project THEN p ELSE Nowhere
       /\ binDirs' = binDirs \cup {p}
  /\ pc' = "cdroot"
  /\ UNCHANGED <<cwd, oldpwd, subs, bdir, bname, tmp, logs, log, pkgFiles,
                 pkg, bins, env, hist>>

Finish ==
  /\ pc = "next" /\ todo = {}
  /\ pc' = "done"
  /\ UNCHANGED <<cwd, oldpwd, todo, cur, path, subs, bdir, bname, tmp, files,
                 env, hist>>

\* What the history remembers of the environment when an entry is entered.
NoteEntry ==
  /\ lastBad' = (cur \notin enterable)
  /\ excused' = IF lastBad \/ cur \notin enterable
                  THEN excused \cup {cur} ELSE excused

\* Seeded fault: a failing cd ends the script (|| exit 1).
CdRootExits ==
  /\ pc = "cdroot"
  /\ NoteEntry
  /\ bname' = cur
  /\ IF path \in enterable
       THEN cwd' = path /\ oldpwd' = cwd /\ bdir' = path /\ pc' = "tidyRoot"
       ELSE pc' = "done" /\ UNCHANGED <<cwd, oldpwd, bdir>>
  /\ UNCHANGED <<todo, cur, path, subs, tmp, files, env, run, handled, opened>>

\* cd "$projectPath" && tidy ; build : when cd fails only tidy is skipped.
CdRoot ==
  /\ pc = "cdroot"
  /\ NoteEntry
  /\ bname' = cur
  /\ \/ /\ path \in enterable
        /\ cwd' = path /\ oldpwd' = cwd /\ bdir' = path
        /\ pc' = "tidyRoot"
     \/ /\ path \notin enterable
        /\ bdir' = cwd
        /\ pc' = "buildRoot"
        /\ UNCHANGED <<cwd, oldpwd>>
  /\ UNCHANGED <<todo, cur, path, subs, tmp, files, env, run, handled, opened>>

\* strace go mod tidy: opens some module files, fails or succeeds unnoticed.
Tidy ==
  /\ pc \in {"tidyRoot", "tidySub"}
  /\ \E r \in SUBSET Readable(bdir) : Trace(r)
  /\ pc' = IF pc = "tidyRoot" THEN "buildRoot" ELSE "buildSub"
  /\ UNCHANGED <<cwd, oldpwd, todo, cur, path, subs, bdir, bname, tmp,
                 pkgFiles, pkg, binDirs, bins, env, run, handled, lastBad, excused>>

\* strace go build: a build that succeeds has opened the module file of every
\* package it compiled and leaves a binary; one that fails stops anywhere.
Build ==
  /\ pc \in {"buildRoot", "buildSub"}
  /\ \/ bdir \in enterable /\ Trace(deps[bdir]) /\ PutBinary
     \/ \E r \in SUBSET Readable(bdir) : Trace(r) /\ UNCHANGED bins
  /\ pc' = IF pc = "buildRoot" THEN "cdback" ELSE "subs"
  /\ UNCHANGED <<cwd, oldpwd, todo, cur, path, subs, bdir, bname, tmp,
                 pkgFiles, pkg, binDirs, env, run, handled, lastBad, excused>>

\* Seeded fault: the cd - of line 45 is missing.
CdBackForgotten ==
  /\ pc = "cdback"
  /\ pc' = "find"
  /\ UNCHANGED <<cwd, oldpwd, todo, cur, path, subs, bdir, bname, tmp, files,
                 env, hist>>

\* cd - > /dev/null : swaps $PWD and $OLDPWD, unless the latter cannot be
\* entered.
CdBack ==
  /\ pc = "cdback"
  /\ IF oldpwd \in enterable \cup {Home, Start}
       THEN cwd' = oldpwd /\ oldpwd' = cwd
       ELSE UNCHANGED <<cwd, oldpwd>>
  /\ pc' = "find"
  /\ UNCHANGED <<todo, cur, path, subs, bdir, bname, tmp, files, env, hist>>

\* Seeded fault: find without -mindepth 1 lists the root as well.
FindSubsWithRoot ==
  /\ pc = "find"
  /\ subs' = IF path \in enterable
               THEN {s \in Tree(path) \ {path} : Base[s] \notin SkippedName}
                      \cup {path}
               ELSE {}
  /\ pc' = "subs"
  /\ UNCHANGED <<cwd, oldpwd, todo, cur, path, bdir, bname, tmp, files, env,
                 hist>>

\* find "$projectPath" -mindepth 1 -type d lists what can be reached from an
\* existing root; the inner loop drops the basenames of line 52.
FindSubs ==
  /\ pc = "find"
  /\ subs' = IF path \in enterable
               THEN {s \in Tree(path) \ {path} : Base[s] \notin SkippedName}
               ELSE {}
  /\ pc' = "subs"
  /\ UNCHANGED <<cwd, oldpwd, todo, cur, path, bdir, bname, tmp, files, env,
                 hist>>

\* Seeded fault: the inner loop without its subshell.
EnterSubLeaks ==
  /\ pc = "subs"
  /\ \E s \in subs :
       /\ subs' = subs \ {s}
       /\ bname' = Base[s]
       /\ bdir' = IF s \in enterable THEN s ELSE cwd
       /\ pc' = IF s \in enterable THEN "tidySub" ELSE "buildSub"
  /\ cwd' = bdir' /\ oldpwd' = cwd
  /\ UNCHANGED <<todo, cur, path, tmp, files, env, hist>>

\* One pass of the inner loop: ( cd "$subDir" && tidy ; build ) in a subshell,
\* so the cwd of the loop's shell is left alone.
EnterSub ==
  /\ pc = "subs"
  /\ \E s \in subs :
       /\ subs' = subs \ {s}
       /\ bname' = Base[s]
       /\ bdir' = IF s \in enterable THEN s ELSE cwd
       /\ pc' = IF s \in enterable THEN "tidySub" ELSE "buildSub"
  /\ UNCHANGED <<cwd, oldpwd, todo, cur, path, tmp, files, env, hist>>

SubsDone ==
  /\ pc = "subs" /\ subs = {}
  /\ pc' = "filter"
  /\ UNCHANGED <<cwd, oldpwd, todo, cur, path, subs, bdir, bname, tmp, files,
                 env, hist>>

\* Seeded fault: the log is removed as soon as it is filtered.
FilterDropsLog ==
  /\ pc = "filter"
  /\ tmp' = log[cur]
  /\ pkgFiles' = IF log[cur] = {} THEN pkgFiles \cup {cur} ELSE pkgFiles
  /\ log' = [log EXCEPT ![cur] = {}] /\ logs' = logs \ {cur}
  /\ pc' = "append"
  /\ UNCHANGED <<cwd, oldpwd, todo, cur, path, subs, bdir, bname, pkg,
                 binDirs, bins, env, hist>>

\* The filter pipeline into tmp_file; an empty result only touches the output.
Filter ==
  /\ pc = "filter"
  /\ tmp' = log[cur]
  /\ pkgFiles' = IF log[cur] = {} THEN pkgFiles \cup {cur} ELSE pkgFiles
  /\ pc' = "append"
  /\ UNCHANGED <<cwd, oldpwd, todo, cur, path, subs, bdir, bname, logs, log,
                 pkg, binDirs, bins, env, hist>>

\* echo "$modifiedLine" >> <cur>-pkg.txt, one line at a time.
AppendLine ==
  /\ pc = "append"
  /\ \E x \in tmp :
       /\ tmp' = tmp \ {x}
       /\ pkg' = [pkg EXCEPT ![cur] = @ \cup {x}]
  /\ pkgFiles' = pkgFiles \cup {cur}
  /\ UNCHANGED <<pc, cwd, oldpwd, todo, cur, path, subs, bdir, bname, logs,
                 log, binDirs, bins, env, hist>>

\* Seeded fault: the append loop ends before its last line.
AppendDoneEarly ==
  /\ pc = "append" /\ Cardinality(tmp) <= 1
  /\ pc' = "rmlog"
  /\ UNCHANGED <<cwd, oldpwd, todo, cur, path, subs, bdir, bname, tmp, files,
                 env, hist>>

AppendDone ==
  /\ pc = "append" /\ tmp = {}
  /\ pc' = "rmlog"
  /\ UNCHANGED <<cwd, oldpwd, todo, cur, path, subs, bdir, bname, tmp, files,
                 env, hist>>

\* rm -f <cur>-strace.txt, end of the iteration.
RemoveLog ==
  /\ pc = "rmlog"
  /\ logs' = logs \ {cur}
  /\ log' = [log EXCEPT ![cur] = {}]
  /\ handled' = handled \cup {cur}
  /\ pc' = "next"
  /\ UNCHANGED <<cwd, oldpwd, todo, cur, path, subs, bdir, bname, tmp,
                 pkgFiles, pkg, binDirs, bins, env, run, lastBad,
                 excused, opened>>

Step ==
  \/ NextProject \/ Finish \/ CdRoot \/ Tidy \/ Build \/ CdBack \/ FindSubs
  \/ EnterSub \/ SubsDone \/ Filter \/ AppendLine \/ AppendDone \/ RemoveLog

-----------------------------------------------------------------------------
(* The environment: kills, restarts, and changes of the projects folder. *)

Crash ==
  /\ pc \in Running
  /\ pc' = "crashed"
  /\ UNCHANGED <<cwd, oldpwd, todo, cur, path, subs, bdir, bname, tmp, files,
                 env, hist>>

\* The script is started again, in a new shell, over the files it left.
StartAgain ==
  /\ pc \in {"done", "crashed"} /\ run < MaxRuns
  /\ run' = run + 1
  /\ pc' = "next" /\ cwd' = Home /\ oldpwd' = Start /\ todo' = Glob
  /\ subs' = {} /\ tmp' = {} /\ handled' = {} /\ lastBad' = FALSE
  /\ UNCHANGED <<cur, path, bdir, bname, files, env, excused, opened>>

\* A developer edits a module: it is built from other packages from now on.
Edit ==
  /\ changes < MaxChanges
  /\ deps' \in Deps \ {deps}
  /\ changes' = changes + 1
  /\ UNCHANGED <<shell, files, present, enterable, hist>>

\* A project directory disappears.  The directories $PWD and $OLDPWD of a
\* running script name are not removed under it.
Vanish ==
  /\ changes < MaxChanges
  /\ \E p \in present :
       /\ pc \in Running => {cwd, oldpwd, bdir} \cap Tree(p) = {}
       /\ present' = present \ {p}
       /\ enterable' = enterable \ Tree(p)
  /\ changes' = changes + 1
  /\ UNCHANGED <<shell, files, deps, hist>>

Next == Step \/ Crash \/ StartAgain \/ Edit \/ Vanish

Spec == Init /\ [][Next]_vars

\* Every command of the script returns: strace'd builds terminate, and the
\* shell then goes on.  Nobody has to restart it or edit anything.
FairSpec == Spec /\ WF_vars(Step)

-----------------------------------------------------------------------------
(* Properties. *)

Opened(p) == {o.pkg : o \in {x \in opened : x.owner = p}}

\* No observation is ever lost: whatever the script is killed in the middle
\* of, a module file some build of p opened is in p's strace log or already in
\* p's package file (the log is removed only after the last line is appended).
NothingLost == \A o \in opened : o.pkg \in log[o.owner] \cup pkg[o.owner]

\* A binary left in bins/ is explained by the evidence beside it: the packages
\* it was compiled from are in its project's log or package file, across
\* crashes, reruns and later builds that append to the same log.
BinaryExplained ==
  \A b \in bins : b.uses \subseteq log[b.owner] \cup pkg[b.owner]

\* Evidence is attributed to the project it came from: if neither p nor the
\* entry visited before it was ever impossible to enter, then all that p's log
\* and package file hold was opened by builds standing in p's own tree, and
\* so were its binaries built.
OwnEvidence ==
  \A p \in Project \ excused :
    /\ log[p] \cup pkg[p] \subseteq
         {o.pkg : o \in {x \in opened : x.owner = p /\ x.in \in Tree(p)}}
    /\ \A b \in bins : b.owner = p => b.from \in Tree(p)

\* However many directories cannot be entered, the loop never strays further
\* than one `cd -` from the projects folder.
DriftBounded == pc = "next" => Home \in {cwd, oldpwd}

\* An entry this run has finished has no strace log left (a log beside the
\* package files would be paired as one by run_combine_pkgs.sh), has its
\* package file and binary folder, and the file names everything any run saw.
HandledComplete ==
  \A p \in handled :
    /\ p \notin logs /\ p \in pkgFiles \cap binDirs
    /\ Opened(p) \subseteq pkg[p]

\* Every entry the glob listed is eventually finished, whatever fails to build
\* or to be entered, unless the script is killed.
EveryEntryHandled ==
  \A p \in Entry : p \in todo /\ pc \in Running ~> p \in handled \/ pc = "crashed"

\* run_all.sh:45 says that after `cd -` the loop is back in the projects
\* folder.
BackInProjectsFolder == pc = "find" => cwd = Home
=============================================================================
