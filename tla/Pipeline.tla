------------------------------ MODULE Pipeline ------------------------------
(***************************************************************************)
(* The stages together, as the README chains them: sbom_generation.sh,     *)
(* run_all.sh, run_bin_pkgs.sh, run_combine_pkgs.sh, new_sbom_gen.sh, over *)
(* a projects folder that collect_project.py adds to.  A stage may be run  *)
(* at any time, in any order, and be killed.  Nothing tells a stage what   *)
(* the others have done but the names of the files it finds, and the       *)
(* combine stage pairs those by position.                                  *)
(*                                                                         *)
(* One project's iteration is two steps here, so that a kill can fall in   *)
(* between; the modules of the stages have every command.  All directories *)
(* can be entered and SBOMs parse: what happens otherwise is in RunAll,    *)
(* SbomGeneration and CombinePkgs.                                         *)
(* Files hold up to three kinds of evidence: what an SBOM declares, what a *)
(* build opened, and what is linked into a binary.                         *)
(***************************************************************************)
EXTENDS Naturals, Sequences, FiniteSets

CONSTANTS
  Project,    \* names of projects
  MayLack,    \* those that may be cloned without a go.mod
  Star,       \* the literal an unmatched glob leaves behind
  Rank,       \* the order of sort and of the shell (bytewise), over both
  MaxStarts   \* bound: stages started

Name == Project \cup {Star}

ASSUME PipelineAssumption ==
  /\ MayLack \subseteq Project /\ Star \notin Project
  /\ Rank \in [Name -> Nat]
  /\ \A p, q \in Name : Rank[p] = Rank[q] => p = q
  /\ MaxStarts \in Nat

VARIABLES
  lang,       \* "go" or "rust"
  absolute,   \* FALSE while sbom_generation.sh runs with a relative -o
  stage,      \* the script that runs, or "idle"
  todo,       \* what its loop has still to visit
  half,       \* whether it is half way through the first of these
  present,    \* project directories
  modules,    \* those that have a go.mod
  inner,      \* those with an SBOM inside, where a relative -o leads to
  sboms,      \* names that have a *-sbom.json in the folder for them
  logs,       \* names that have a *-strace.txt in the folder of the lists
  lists,      \* names that have a *-pkg.txt ...
  opened,     \* ... and those whose list has all their last build opened
  bins,       \* names that have a folder of binaries ...
  built,      \* ... and those with a binary in it
  binLists,   \* names that have a *-bins-pkg.txt ...
  linked,     \* ... and those whose list has what the binary links
  dirs,       \* names that have a directory in the combine folder ...
  outs,       \* ... those with a combined list in it ...
  holds,      \* ... and the evidence that is in it
  described,  \* history: projects the last stage has made a new SBOM for
  passed,     \* history: stages done in the README's order, none killed, the
              \* first with an absolute -o
  starts      \* history: stages started (bounded)

env    == <<lang, absolute>>
loop   == <<env, stage, todo, half>>
sfiles == <<present, modules, inner, sboms>>
cfiles == <<logs, lists, opened, bins, built>>
bfiles == <<binLists, linked>>
ofiles == <<dirs, outs, holds>>
vars   == <<loop, sfiles, cfiles, bfiles, ofiles, described, passed, starts>>

Order == <<"sbom", "collect", "bins", "combine", "newsboms">>
Stage == {Order[i] : i \in 1..5}
Kind  == {"declared", "opened", "linked"}

TypeOK ==
  /\ lang \in {"go", "rust"} /\ absolute \in BOOLEAN
  /\ stage \in Stage \cup {"idle"}
  /\ todo \subseteq Name /\ half \in BOOLEAN
  /\ present \subseteq Project /\ sboms \subseteq Project
  /\ modules \subseteq present /\ inner \subseteq present
  /\ logs \subseteq Name /\ lists \subseteq Name /\ opened \subseteq lists
  /\ bins \subseteq Name /\ built \subseteq bins \cap Project
  /\ binLists \subseteq Name /\ linked \subseteq binLists
  /\ outs \subseteq dirs /\ dirs \subseteq Project
  /\ holds \in [Project -> SUBSET Kind]
  /\ described \subseteq Project /\ passed \in 0..5 /\ starts \in 0..MaxStarts

-----------------------------------------------------------------------------
\* What a loop over */ visits first.
Glob(S) == IF S = {} THEN {Star} ELSE S

\* Seeded fault: the last loops use */ as well, without [ -d ].
VisitsGlobs(s) ==
  CASE s = "sbom"     -> present
    [] s = "collect"  -> Glob(present)
    [] s = "bins"     -> Glob(bins)
    [] s = "combine"  -> Glob(sboms)
    [] s = "newsboms" -> Glob(dirs)

\* What the loop of each stage goes through.  sbom_generation.sh cannot enter
\* the literal */ and continues; new_sbom_gen.sh tests that it is a directory.
Visits(s) ==
  CASE s = "sbom"     -> present
    [] s = "collect"  -> Glob(present)
    [] s = "bins"     -> Glob(bins)
    [] s = "combine"  -> sboms
    [] s = "newsboms" -> dirs

Cur == CHOOSE p \in todo : \A q \in todo : Rank[p] <= Rank[q]

\* The folder of the lists: a log that was left there is a *.txt as well, and
\* sorts behind the list of the same name.
ListFiles ==
  {[name |-> p, key |-> 2 * Rank[p]] : p \in lists} \cup
  {[name |-> p \o "-strace.txt", key |-> 2 * Rank[p] + 1] : p \in logs}

BinFiles == {[name |-> p, key |-> Rank[p]] : p \in binLists}

\* The names at position i of the sorted array: one, or none beyond its end.
At(files, i) ==
  {f.name : f \in {g \in files :
                      Cardinality({h \in files : h.key < g.key}) = i}}

\* The files the array index pairs with an SBOM.
Index(p)    == Cardinality({q \in sboms : Rank[q] < Rank[p]})
PkgFile(p)  == At(ListFiles, Index(p))
BinFile(p)  == At(BinFiles, Index(p))

\* The file that sbom_generation.sh calls "$sbom_file" in its project.
Tested == IF absolute THEN sboms ELSE inner

InOrder(s) == passed < 5 /\ Order[passed + 1] = s

-----------------------------------------------------------------------------
Init ==
  /\ lang \in {"go", "rust"} /\ absolute = TRUE
  /\ stage = "idle" /\ todo = {} /\ half = FALSE
  /\ present \in SUBSET Project /\ inner = {} /\ sboms = {}
  /\ \E lack \in SUBSET MayLack :
       modules = IF lang = "go" THEN present \ lack ELSE {}
  /\ logs = {} /\ lists = {} /\ opened = {} /\ bins = {} /\ built = {}
  /\ binLists = {} /\ linked = {} /\ dirs = {} /\ outs = {}
  /\ holds = [p \in Project |-> {}]
  /\ described = {} /\ passed = 0 /\ starts = 0

\* A user runs a stage; there is a batch for Go only.  The -o that the first
\* stage is given is absolute or, as in Golang/README.md:22, relative.  The
\* bound leaves out starts after which a whole pass would go beyond it.
Start ==
  /\ stage = "idle" /\ starts < MaxStarts
  /\ stage' \in IF lang = "go" THEN Stage ELSE Stage \ {"newsboms"}
  /\ absolute' \in IF stage' = "sbom" THEN BOOLEAN ELSE {TRUE}
  /\ todo' = Visits(stage')
  /\ described' = {}
  /\ passed' = IF InOrder(stage') THEN passed ELSE 0
  /\ starts + 5 <= MaxStarts + passed'
  /\ starts' = starts + 1
  /\ UNCHANGED <<lang, half, sfiles, cfiles, bfiles, ofiles>>

\* The script is over, having visited all or with exit 1.
Exit ==
  /\ stage' = "idle" /\ todo' = {} /\ half' = FALSE /\ absolute' = TRUE
  /\ passed' = IF InOrder(stage) /\ absolute THEN passed + 1 ELSE 0
  /\ UNCHANGED <<lang, starts>>

Finish ==
  /\ stage # "idle" /\ todo = {}
  /\ Exit
  /\ UNCHANGED <<sfiles, cfiles, bfiles, ofiles, described>>

\* The first and the second half of an iteration.
Begin(s) ==
  /\ stage = s /\ todo # {} /\ ~half /\ half' = TRUE
  /\ UNCHANGED <<env, stage, todo, passed, starts>>

End(s) ==
  /\ stage = s /\ todo # {} /\ half
  /\ half' = FALSE /\ todo' = todo \ {Cur}
  /\ UNCHANGED <<env, stage, passed, starts>>

\* cdxgen, and the removal of an SBOM that it says is incomplete.  Rust only
\* looks whether there is a file.
Describe ==
  /\ Begin("sbom")
  /\ \E now \in {Tested, Tested \cup {Cur}} \cup
               IF lang = "go" THEN {Tested \ {Cur}} ELSE {} :
       IF absolute THEN sboms' = now /\ UNCHANGED inner
                   ELSE inner' = now /\ UNCHANGED sboms
  /\ UNCHANGED <<present, modules, cfiles, bfiles, ofiles, described>>

\* rm -rf of a project without an SBOM.
Decide ==
  /\ End("sbom")
  /\ IF Cur \in Tested
       THEN UNCHANGED <<present, modules, inner>>
       ELSE /\ present' = present \ {Cur}
            /\ modules' = modules \ {Cur} /\ inner' = inner \ {Cur}
  /\ UNCHANGED <<sboms, cfiles, bfiles, ofiles, described>>

\* mkdir -p of the folder for the binaries, and strace's log.
Collect ==
  /\ Begin("collect")
  /\ bins' = bins \cup {Cur} /\ logs' = logs \cup {Cur}
  /\ UNCHANGED <<sfiles, lists, opened, built, bfiles, ofiles, described>>

\* The build, which may fail; its log goes into the list, and is removed.
Distil ==
  /\ End("collect")
  /\ \/ built' = built \cup (Project \cap {Cur})
     \/ UNCHANGED built
  /\ lists' = lists \cup {Cur} /\ opened' = opened \cup {Cur}
  /\ logs' = logs \ {Cur}
  /\ UNCHANGED <<sfiles, bins, bfiles, ofiles, described>>

\* Seeded fault: no touch, so a folder without binaries gets no list.
TouchMissing ==
  /\ Begin("bins")
  /\ binLists' = binLists \cup (built \cap {Cur})
  /\ UNCHANGED <<sfiles, cfiles, linked, ofiles, described>>

\* touch: there is a list, whatever the folder holds.
Touch ==
  /\ Begin("bins")
  /\ binLists' = binLists \cup {Cur}
  /\ UNCHANGED <<sfiles, cfiles, linked, ofiles, described>>

\* What the binary names is appended.
AppendLinked ==
  /\ End("bins")
  /\ linked' = linked \cup (built \cap {Cur})
  /\ UNCHANGED <<sfiles, cfiles, binLists, ofiles, described>>

\* mkdir -p comes before the names are compared; a name that is not there is
\* empty, and passes.  Then the shell empties the output.
Pair ==
  /\ stage = "combine" /\ todo # {} /\ ~half
  /\ dirs' = dirs \cup {Cur}
  /\ \/ /\ PkgFile(Cur) \cup BinFile(Cur) \subseteq {Cur}
        /\ outs' = outs \cup {Cur} /\ holds' = [holds EXCEPT ![Cur] = {}]
        /\ half' = TRUE
        /\ UNCHANGED <<env, stage, todo, passed, starts>>
     \/ /\ ~(PkgFile(Cur) \cup BinFile(Cur) \subseteq {Cur})
        /\ Exit
        /\ UNCHANGED <<outs, holds>>
  /\ UNCHANGED <<sfiles, cfiles, bfiles, described>>

\* combine_pkgs.py, which raises when one of its arguments is empty.
Unite ==
  /\ End("combine")
  /\ holds' = IF PkgFile(Cur) = {} \/ BinFile(Cur) = {} THEN holds
              ELSE [holds EXCEPT ![Cur] =
                      {"declared"}
                        \cup (IF Cur \in opened THEN {"opened"} ELSE {})
                        \cup (IF Cur \in linked THEN {"linked"} ELSE {})]
  /\ UNCHANGED <<sfiles, cfiles, bfiles, dirs, outs, described>>

\* new_sbom_gen.sh: exit 1 at a directory without its list, or whose project
\* is gone or has no go.mod.
NewSbom ==
  /\ stage = "newsboms" /\ todo # {}
  /\ \/ /\ Cur \in outs \cap modules
        /\ described' = described \cup {Cur} /\ todo' = todo \ {Cur}
        /\ UNCHANGED <<env, stage, half, passed, starts>>
     \/ /\ Cur \notin outs \cap modules
        /\ Exit
        /\ UNCHANGED described
  /\ UNCHANGED <<sfiles, cfiles, bfiles, ofiles>>

\* A signal.  Half way through a collection the list may have come into being,
\* and Rust's may have been emptied.  An rm -rf that has begun may have taken
\* the go.mod, or the SBOM inside, and leave the rest.
Kill ==
  /\ stage # "idle"
  /\ stage' = "idle" /\ todo' = {} /\ half' = FALSE /\ absolute' = TRUE
  /\ passed' = 0
  /\ \/ UNCHANGED <<lists, opened>>
     \/ /\ stage = "collect" /\ half
        /\ lists' = lists \cup {Cur}
        /\ opened' = IF lang = "rust" THEN opened \ {Cur} ELSE opened
  /\ \/ UNCHANGED <<modules, inner>>
     \/ /\ stage = "sbom" /\ half /\ Cur \notin Tested
        /\ modules' \in {modules, modules \ {Cur}}
        /\ inner' \in {inner, inner \ {Cur}}
  /\ UNCHANGED <<lang, present, sboms, logs, bins, built, bfiles, ofiles,
                 described, starts>>

\* collect_project.py: git clone into the projects folder.  If a directory of
\* that name is there, git does nothing.
Clone ==
  /\ stage = "idle"
  /\ \E p \in Project \ present :
       /\ present' = present \cup {p}
       /\ \/ modules' = modules \cup {p} /\ lang = "go"
          \/ modules' = modules /\ (lang = "go" => p \in MayLack)
  /\ passed' = 0
  /\ UNCHANGED <<loop, inner, sboms, cfiles, bfiles, ofiles, described, starts>>

Next ==
  \/ Start \/ Finish \/ Describe \/ Decide \/ Collect \/ Distil \/ Touch
  \/ AppendLinked \/ Pair \/ Unite \/ NewSbom \/ Kill \/ Clone

Spec == Init /\ [][Next]_vars

-----------------------------------------------------------------------------
(* Properties. *)

Evidence(p) ==
  {"declared", "opened"} \cup (IF p \in built THEN {"linked"} ELSE {})

\* Names of files that were left for projects that are gone.
Orphans ==
  (sboms \cup lists \cup logs \cup bins \cup binLists \cup dirs) \ present

\* Whatever was run before, in whatever order, and wherever it was killed: the
\* stages run once more in the README's order, the first with an absolute -o,
\* pair every file with its own, so that every project left has a combined list
\* with all its evidence, and the batch a new SBOM for each, provided each has
\* a go.mod, which a killed rm -rf may have taken.  It needs that no earlier
\* stage has left files of projects since deleted, which no stage removes.  A
\* first pass leaves none.
PassIsWhole ==
  /\ passed >= 4
  /\ Orphans = {} \/ (starts = passed /\ present # {})
  => /\ sboms = present /\ outs = present
     /\ \A p \in present : holds[p] = Evidence(p)
     /\ passed = 5 /\ modules = present => described = present
=============================================================================
