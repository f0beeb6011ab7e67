------------------------------ MODULE NewSboms ------------------------------
(***************************************************************************)
(* Golang/evaluation/new_sbom_gen.sh and the golang-ir-sbom-gen.sh it runs *)
(* for every project of the combine folder: copy the project's go.mod, add *)
(* the lines of its combined list to it, and have cdxgen describe the      *)
(* result.  The batch stops at the first directory that lacks its list or  *)
(* its project, and run_combine_pkgs.sh makes the directory of a project   *)
(* before it knows that it will write the list.  Rust/rust-ir-sbom-gen.sh  *)
(* does the same to a Cargo.toml, but is called by hand, for one project   *)
(* at a time and in any order; it skips no line.                           *)
(*                                                                         *)
(* go.mod files, Cargo.toml files and SBOMs are abstracted to sets of      *)
(* packages.  Between batches the earlier stages may be run again: any     *)
(* list may become blank, partial or whole, and any project be deleted.    *)
(***************************************************************************)
EXTENDS Names

CONSTANTS
  Project,   \* names of projects
  Rank,      \* the order in which the shell expands *
  Package,   \* packages: their names and versions, some without a version
  Uses,      \* Uses[p]: packages the evidence for p is about
  Orig,      \* Orig[p]: the requirements of p's own go.mod
  Hidden,    \* Hidden[p]: lines whose package is a substring of a replacement
  MaxRuns    \* bound: batches

\* The lines a list can have, and what the IR scripts can write for them.
Line  == {FromCrate(x) : x \in Package} \cup {FromPurl(x) : x \in Package}
Entry == Package \cup {Written(l) : l \in Line}

ASSUME NewSbomsAssumption ==
  /\ Rank \in [Project -> Nat]
  /\ \A p, q \in Project : Rank[p] = Rank[q] => p = q
  /\ Package \subseteq Crate
  /\ Uses \in [Project -> SUBSET Package]
  /\ Orig \in [Project -> SUBSET Package] /\ Hidden \in [Project -> SUBSET Line]
  /\ MaxRuns \in Nat

VARIABLES
  lang,      \* "go" or "rust"
  dirs,      \* project directories in the combine folder
  has,       \* those that have their combined list ...
  list,      \* ... and its lines
  modules,   \* projects that have a go.mod or Cargo.toml
  pc,        \* the command about to be executed
  todo, cur, \* directories still to visit, and the one in hand
  rest,      \* lines of its list still to be read
  ir,        \* ir[p]: packages the generated go.mod or Cargo.toml requires
  open,      \* its block is still called sbomit_require, SBOMit_dependencies
  sbom,      \* sbom[p]: packages of p's new SBOM
  runs,      \* batches so far (bounded)
  fresh,     \* history: projects this batch has described
  basis,     \* history: basis[p], the list p was last described from
  before     \* history: sbom when this batch started

inputs == <<lang, dirs, has, list, modules>>
vars   == <<inputs, pc, todo, cur, rest, ir, open, sbom, runs, fresh, basis,
            before>>

Running == {"next", "copy", "add", "cdxgen"}
Lists   == [Project -> SUBSET Line]
Results == [Project -> SUBSET Entry]

TypeOK ==
  /\ lang \in {"go", "rust"}
  /\ dirs \subseteq Project /\ modules \subseteq Project
  /\ has \subseteq Project /\ list \in Lists
  /\ pc \in Running \cup {"done", "aborted", "crashed"}
  /\ todo \subseteq Project /\ cur \in Project
  /\ pc \in {"copy", "add", "cdxgen"} => cur \in has \cap modules
  /\ rest \subseteq Line
  /\ ir \in Results /\ open \subseteq Project
  /\ sbom \in Results /\ before \in Results /\ basis \in Lists
  /\ runs \in Nat
  /\ fresh \subseteq Project

\* The lines of p's whole combined list: of SBOMs, and of crate files; the Go
\* lists of module files have the form of bom-refs.
Evidence(p) ==
  {FromPurl(x) : x \in Uses[p]} \cup
    IF lang = "rust" THEN {FromCrate(x) : x \in Uses[p]} ELSE {}

\* What the earlier stages may leave (EvidenceUnion, for any kills).
Left ==
  {l \in [Project -> SUBSET UNION {Evidence(p) : p \in Project}] :
     \A p \in Project : l[p] \subseteq Evidence(p)}

-----------------------------------------------------------------------------
Init ==
  /\ dirs \in SUBSET Project /\ has \in SUBSET dirs
  /\ lang \in {"go", "rust"}
  /\ modules \in SUBSET Project /\ list = [p \in Project |-> Evidence(p)]
  /\ pc = "next" /\ todo = dirs
  /\ cur \in Project /\ rest = {}
  /\ ir = [p \in Project |-> {}] /\ open = {}
  /\ sbom = ir
  /\ runs = 1 /\ fresh = {} /\ basis = ir /\ before = sbom

\* Seeded fault: a project without its files is passed over.
NextProjectSkips ==
  /\ lang = "go" /\ pc = "next"
  /\ \E p \in todo :
       /\ \A q \in todo : Rank[p] <= Rank[q]
       /\ cur' = p /\ todo' = todo \ {p}
       /\ pc' = IF p \in has \cap modules THEN "copy" ELSE "next"
  /\ UNCHANGED <<inputs, rest, ir, open, sbom, runs, fresh, basis, before>>

\* Seeded fault: the directories come as find lists them, unsorted.
NextProjectUnsorted ==
  /\ lang = "go" /\ pc = "next"
  /\ \E p \in todo :
       /\ cur' = p /\ todo' = todo \ {p}
       /\ pc' = IF p \in has \cap modules THEN "copy" ELSE "aborted"
  /\ UNCHANGED <<inputs, rest, ir, open, sbom, runs, fresh, basis, before>>

\* Seeded fault: only the list is looked for.
NextProjectNoModule ==
  /\ lang = "go" /\ pc = "next"
  /\ \E p \in todo :
       /\ \A q \in todo : Rank[p] <= Rank[q]
       /\ cur' = p /\ todo' = todo \ {p}
       /\ pc' = IF p \in has THEN "copy" ELSE "aborted"
  /\ UNCHANGED <<inputs, rest, ir, open, sbom, runs, fresh, basis, before>>

\* for PROJECT_DIR in .../* : both files must exist, else exit 1.
NextProject ==
  /\ lang = "go" /\ pc = "next"
  /\ \E p \in todo :
       /\ \A q \in todo : Rank[p] <= Rank[q]
       /\ cur' = p /\ todo' = todo \ {p}
       /\ pc' = IF p \in has \cap modules THEN "copy" ELSE "aborted"
  /\ UNCHANGED <<inputs, rest, ir, open, sbom, runs, fresh, basis, before>>

\* rust-ir-sbom-gen.sh -d <list> -m <Cargo.toml> -o <folder>, for a project of
\* the user's choice: exit 1 if a file is missing.
CallByHand ==
  /\ lang = "rust" /\ pc = "next"
  /\ \E p \in todo :
       /\ cur' = p /\ todo' = todo \ {p}
       /\ pc' = IF p \in has \cap modules THEN "copy" ELSE "next"
  /\ UNCHANGED <<inputs, rest, ir, open, sbom, runs, fresh, basis, before>>

Finish ==
  /\ pc = "next" /\ todo = {}
  /\ pc' = "done"
  /\ UNCHANGED <<inputs, todo, cur, rest, ir, open, sbom, runs, fresh, basis,
                 before>>

\* Seeded fault: an existing go.mod in the output folder is built upon.
CopyKeeps ==
  /\ pc = "copy"
  /\ ir' = [ir EXCEPT ![cur] = IF @ = {} THEN Orig[cur] ELSE @]
  /\ open' = open \cup {cur}
  /\ rest' = list[cur] /\ basis' = [basis EXCEPT ![cur] = list[cur]]
  /\ pc' = "add"
  /\ UNCHANGED <<inputs, todo, cur, sbom, runs, fresh, before>>

\* cp, and the empty sbomit_require block.
Copy ==
  /\ pc = "copy"
  /\ ir' = [ir EXCEPT ![cur] = Orig[cur]]
  /\ open' = open \cup {cur}
  /\ rest' = list[cur] /\ basis' = [basis EXCEPT ![cur] = list[cur]]
  /\ pc' = "add"
  /\ UNCHANGED <<inputs, todo, cur, sbom, runs, fresh, before>>

\* The Go script skips lines without a version, and those grep -F finds among
\* the replacements.
Kept(p) == IF lang = "go" THEN {l \in Line : l.ats # {}} \ Hidden[p] ELSE Line

AddLine ==
  /\ pc = "add"
  /\ \E l \in rest :
       /\ rest' = rest \ {l}
       /\ ir' = IF l \in Kept(cur) THEN [ir EXCEPT ![cur] = @ \cup {Written(l)}]
                                  ELSE ir
  /\ UNCHANGED <<inputs, pc, todo, cur, open, sbom, runs, fresh, basis, before>>

\* sed -i 's/sbomit_require/require/g', or [SBOMit_dependencies] to [dependencies]
Rename ==
  /\ pc = "add" /\ rest = {}
  /\ open' = open \ {cur}
  /\ pc' = "cdxgen"
  /\ UNCHANGED <<inputs, todo, cur, rest, ir, sbom, runs, fresh, basis, before>>

\* go mod download, cdxgen: a new SBOM, or the old one is left.  A block still
\* called sbomit_require would not be read.
Cdxgen ==
  /\ pc = "cdxgen"
  /\ \/ /\ sbom' = [sbom EXCEPT ![cur] =
                      IF cur \in open THEN Orig[cur] ELSE ir[cur]]
        /\ fresh' = fresh \cup {cur}
     \/ UNCHANGED <<sbom, fresh>>
  /\ pc' = "next"
  /\ UNCHANGED <<inputs, todo, cur, rest, ir, open, runs, basis, before>>

Step == NextProject \/ CallByHand \/ Finish \/ Copy \/ AddLine \/ Rename \/ Cdxgen

-----------------------------------------------------------------------------
Crash ==
  /\ pc \in Running
  /\ pc' = "crashed"
  /\ UNCHANGED <<inputs, todo, cur, rest, ir, open, sbom, runs, fresh, basis,
                 before>>

\* Another batch, after the earlier stages may have been run again.
StartAgain ==
  /\ pc \notin Running /\ runs < MaxRuns
  /\ lang' = lang
  /\ dirs' \in SUBSET Project /\ has' \in SUBSET dirs'
  /\ modules' \in SUBSET Project /\ list' \in Left
  /\ todo' = dirs' /\ pc' = "next" /\ rest' = {}
  /\ runs' = runs + 1
  /\ fresh' = {} /\ before' = sbom
  /\ UNCHANGED <<cur, ir, open, sbom, basis>>

Next == Step \/ Crash \/ StartAgain

Spec == Init /\ [][Next]_vars

\* cdxgen and go return, and the shell goes on.
FairSpec == Spec /\ WF_vars(Step)

-----------------------------------------------------------------------------
(* Properties. *)

\* A new SBOM describes exactly the project's own requirements and the kept
\* lines of the list it was made from: nothing of an earlier batch, of a batch
\* that was killed half way through a go.mod, or of another project.
NewSbomExact ==
  \A p \in fresh :
    sbom[p] = Orig[p] \cup {Written(l) : l \in basis[p] \cap Kept(p)}

\* The packages a new SBOM names are the project's own requirements or ones the
\* evidence is about: the two conversions a line goes through give back the
\* name and version they were made of.  (A Rust package with a number behind a
\* dash, sha-1, comes out as another: sha, version 1.)
NamesSurvive ==
  \A p \in fresh :
    (\A x \in Uses[p] : Plain(x)) => sbom[p] \subseteq Orig[p] \cup Uses[p]

\* A batch that stops has finished every directory before the one it stopped
\* at, and has touched the SBOM of none behind it.
AbortKeepsLater ==
  pc = "aborted" =>
    \A p \in dirs :
      /\ Rank[p] >= Rank[cur] => sbom[p] = before[p]
      /\ Rank[p] < Rank[cur] => basis[p] = list[p] /\ p \notin open

\* A batch over complete inputs comes to the end of the folder, and one over
\* incomplete ones stops, unless it is killed; calls by hand go on.
BatchEnds ==
  pc = "next" /\ todo = dirs ~>
    \/ pc = "crashed"
    \/ pc = "done" /\ (lang = "rust" \/ dirs \subseteq has \cap modules)
    \/ pc = "aborted" /\ ~(dirs \subseteq has \cap modules)
=============================================================================
