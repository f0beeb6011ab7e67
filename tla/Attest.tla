------------------------------- MODULE Attest -------------------------------
(***************************************************************************)
(* attest-gen.sh, for Go and for Rust: turn the lines of a combined list   *)
(* into paths below the module cache or the crate registry, and have       *)
(* in-toto-run record them as materials, run the build once more, record   *)
(* the products and sign.  in-toto passes over a material that does not    *)
(* exist, and signs whatever the build returns (the link file under        *)
(* demo/golang/decouple-demo has return-value 1).                          *)
(*                                                                         *)
(* The product was built, and the list combined, before the script runs,   *)
(* and may have been since: the two are different steps, either of which   *)
(* may be killed or left out, so the list may be cut short, or be that of  *)
(* an older product.  What a product was compiled from is known by package *)
(* and version of its source.  Hashing is what gives a material its value: *)
(* a source changed before the attestation is another version.             *)
(***************************************************************************)
EXTENDS Naturals

CONSTANTS
  Pkg,        \* packages
  Mixed,      \* those with a capital in their name, escaped on disk by Go
  GoMod,      \* $HOME/go/pkg/mod
  Index,      \* names an index.crates.io-* directory may have
  Slash,      \* the root directory, "/"
  None,       \* nothing
  MaxRuns,    \* bound: starts of the script
  MaxChanges  \* bound: steps of others

Root == Index \cup {GoMod, Slash}

ASSUME AttestAssumption ==
  /\ Mixed \subseteq Pkg
  /\ GoMod \notin Index /\ Slash \notin Index /\ GoMod # Slash
  /\ None \notin Root
  /\ None \notin [root : Root,
                  materials : SUBSET [pkg : Pkg, ver : Nat],
                  product : SUBSET [pkg : Pkg, ver : Nat],
                  listed : SUBSET Pkg, whole : BOOLEAN]
  /\ MaxRuns \in Nat /\ MaxChanges \in Nat

VARIABLES
  lang,       \* which of the two scripts
  at,         \* at[p]: the cache or index directory p is unpacked in, or None
  ver,        \* ver[p]: version of the source there, 0 as downloaded
  deps,       \* packages the project is built from now
  list,       \* lines of the combined list, whole or not
  product,    \* what the file named by -p was compiled from
  pc, root,   \* the next command, and CRATE_PATH_SEGMENT
  paths,      \* materials in-toto-run has still to record
  materials,  \* those it has recorded
  link,       \* the signed link file, or None
  runs, changes,  \* how many so far (bounded)
  touched,    \* history: packages whose source or use was changed by others
  gathered,   \* history: the collection that built the product came to its
              \* end, and so did run_bin_pkgs.sh after it
  whole       \* history: so did the combine after them, which wrote the list

world  == <<at, ver, deps, list, product>>
script == <<pc, root, paths, materials>>
past   == <<touched, gathered, whole>>
vars   == <<lang, world, script, link, runs, changes, past>>

Running == {"start", "read", "record", "sign"}
Piece   == [pkg : Pkg, ver : Nat]
Link    == [root : Root, materials : SUBSET Piece, product : SUBSET Piece,
            listed : SUBSET Pkg, whole : BOOLEAN]

TypeOK ==
  /\ lang \in {"go", "rust"}
  /\ at \in [Pkg -> Index \cup {GoMod, None}] /\ ver \in [Pkg -> Nat]
  /\ deps \subseteq Pkg /\ list \subseteq Pkg
  /\ product \subseteq Piece
  /\ pc \in Running \cup {"usage", "done", "crashed"}
  /\ root \in Root
  /\ paths \subseteq Pkg
  /\ materials \subseteq Piece
  /\ link \in Link \cup {None}
  /\ runs \in Nat /\ changes \in 0..MaxChanges
  /\ touched \subseteq Pkg /\ gathered \in BOOLEAN /\ whole \in BOOLEAN

Homes == IF lang = "go" THEN {GoMod} ELSE Index

\* What a build now would compile in.
Compiled(d) == {[pkg |-> p, ver |-> ver'[p]] : p \in d}

\* The list names everything the product was compiled from.
Covers(l) == \A u \in product : u.pkg \in l

-----------------------------------------------------------------------------
\* A collection has just built the product, and any list may lie there: that
\* of a combine after it, cut short or not, or that of an older product.
Init ==
  /\ lang \in {"go", "rust"}
  /\ at \in [Pkg -> Homes] /\ ver = [p \in Pkg |-> 0]
  /\ deps \in SUBSET Pkg
  /\ product = {[pkg |-> p, ver |-> 0] : p \in deps}
  /\ list \in SUBSET Pkg
  /\ pc = "start" /\ root = Slash /\ paths = {} /\ materials = {}
  /\ link = None
  /\ runs = 1 /\ changes = 0 /\ touched = {}
  /\ gathered \in BOOLEAN /\ whole \in BOOLEAN
  /\ whole => gathered /\ Covers(list)

\* Seeded fault: nothing in place of "/" when there is no index directory.
FindRootEmpty ==
  /\ pc = "start"
  /\ \/ lang = "go" /\ root' = GoMod
     \/ lang = "rust" /\ root' \in {at[p] : p \in Pkg} \ {None}
     \/ lang = "rust" /\ \A p \in Pkg : at[p] = None /\ root' = None
  /\ pc' = "read"
  /\ UNCHANGED <<lang, world, paths, materials, link, runs, changes, past>>

\* Go: a fixed prefix.  Rust: find ... | head -n 1 followed by "/", any of the
\* index directories, and "/" itself when there is none: never empty.
FindRoot ==
  /\ pc = "start"
  /\ \/ lang = "go" /\ root' = GoMod
     \/ lang = "rust" /\ root' \in {at[p] : p \in Pkg} \ {None}
     \/ lang = "rust" /\ (\A p \in Pkg : at[p] = None) /\ root' = Slash
  /\ pc' = "read"
  /\ UNCHANGED <<lang, world, paths, materials, link, runs, changes, past>>

\* Seeded fault: = in place of += keeps one path of the list.
ReadListLast ==
  /\ pc = "read"
  /\ IF list = {} THEN paths' = {} ELSE \E p \in list : paths' = {p}
  /\ pc' = IF list = {} THEN "usage" ELSE "record"
  /\ UNCHANGED <<lang, world, root, materials, link, runs, changes, past>>

\* One path per line.  in-toto-run refuses a -m without an argument.
ReadList ==
  /\ pc = "read"
  /\ paths' = list
  /\ pc' = IF list = {} THEN "usage" ELSE "record"
  /\ UNCHANGED <<lang, world, root, materials, link, runs, changes, past>>

\* Does the path made from the line p exist?  Go lines have their capitals
\* back, Rust lines get the "-" of the directory's name back for the "@".
Found(p) == at[p] = root /\ (lang = "go" => p \notin Mixed)

\* in-toto hashes the materials one after the other and skips missing ones.
RecordMaterial ==
  /\ pc = "record"
  /\ \E p \in paths :
       /\ paths' = paths \ {p}
       /\ materials' = IF Found(p)
                         THEN materials \cup {[pkg |-> p, ver |-> ver[p]]}
                         ELSE materials
  /\ UNCHANGED <<lang, world, pc, root, link, runs, changes, past>>

\* go build, cargo build: downloads what is missing, and replaces the product
\* only if that is where it is run to write to.  It may fail, and the
\* documented call runs it outside the project.
Build ==
  /\ pc = "record" /\ paths = {}
  /\ \/ UNCHANGED <<at, ver, product>>
     \/ \E r \in Homes :
          /\ at' = [p \in Pkg |-> IF p \in deps /\ at[p] = None
                                    THEN r ELSE at[p]]
          /\ ver' = [p \in Pkg |-> IF p \in deps /\ at[p] = None
                                     THEN 0 ELSE ver[p]]
          /\ product' \in {product, Compiled(deps)}
  /\ pc' = "sign"
  /\ UNCHANGED <<lang, deps, list, root, paths, materials, link, runs, changes,
                 past>>

\* Products are recorded and the link is signed, whatever the build returned.
Sign ==
  /\ pc = "sign"
  /\ link' = [root |-> root, materials |-> materials, product |-> product,
              listed |-> list, whole |-> whole]
  /\ pc' = "done"
  /\ UNCHANGED <<lang, world, root, paths, materials, runs, changes, past>>

Step == FindRoot \/ ReadList \/ RecordMaterial \/ Build \/ Sign

-----------------------------------------------------------------------------
Crash ==
  /\ pc \in Running
  /\ pc' = "crashed"
  /\ UNCHANGED <<lang, world, root, paths, materials, link, runs, changes,
                 past>>

StartAgain ==
  /\ pc \in {"usage", "done", "crashed"} /\ runs < MaxRuns
  /\ pc' = "start" /\ paths' = {} /\ materials' = {}
  /\ runs' = runs + 1
  /\ UNCHANGED <<lang, world, root, link, changes, past>>

\* A package is edited where it lies, or cleaned away.
Change(p) ==
  /\ at[p] # None /\ changes < MaxChanges
  /\ \/ ver' = [ver EXCEPT ![p] = @ + 1] /\ UNCHANGED at
     \/ at' = [at EXCEPT ![p] = None] /\ UNCHANGED ver
  /\ touched' = touched \cup {p}
  /\ changes' = changes + 1
  /\ UNCHANGED <<lang, deps, list, product, script, link, runs, gathered,
                 whole>>

\* The project is changed to be built from other packages.
Edit ==
  /\ changes < MaxChanges
  /\ deps' \in SUBSET Pkg
  /\ touched' = touched \cup deps'
  /\ changes' = changes + 1
  /\ UNCHANGED <<lang, at, ver, list, product, script, link, runs, gathered,
                 whole>>

\* run_all.sh is run again: it builds a new product, and may be killed before
\* the project's own list is whole.  The combined list is still the old one.
CollectAgain ==
  /\ pc \notin Running /\ changes < MaxChanges
  /\ \E r \in Homes :
       /\ at' = [p \in Pkg |-> IF p \in deps /\ at[p] = None THEN r ELSE at[p]]
       /\ ver' = [p \in Pkg |-> IF p \in deps /\ at[p] = None
                                  THEN 0 ELSE ver[p]]
  /\ product' = Compiled(deps)
  /\ gathered' \in BOOLEAN /\ whole' = FALSE
  /\ changes' = changes + 1
  /\ UNCHANGED <<lang, deps, list, script, link, runs, touched>>

\* run_combine_pkgs.sh is run again, on what the collection, whole or not, has
\* left.  Killed, it leaves any part of the list or nothing.  At its end the
\* packages of a gathered product are on it (RunAll, CombinePkgs).
CombineAgain ==
  /\ pc \notin Running /\ changes < MaxChanges
  /\ list' \in SUBSET Pkg
  /\ whole' \in BOOLEAN /\ (whole' => gathered /\ Covers(list' \cup touched))
  /\ changes' = changes + 1
  /\ UNCHANGED <<lang, at, ver, deps, product, script, link, runs, touched,
                 gathered>>

Next == Step \/ Crash \/ StartAgain \/ (\E p \in Pkg : Change(p)) \/ Edit
        \/ CollectAgain \/ CombineAgain

Spec == Init /\ [][Next]_vars

-----------------------------------------------------------------------------
(* Properties. *)

\* What a signed product was compiled from is among the materials signed with
\* it, in the very version compiled, although the two were recorded before and
\* after a build and the product may stem from an earlier one.  This holds of
\* the packages on the list the script has read, whatever list that is, and of
\* all packages if the list was that of the product and whole; for packages
\* nobody touched, in the directory the script looked in, and (Go) without
\* capitals in their names.
ProductExplained ==
  link # None =>
    \A u \in link.product :
      \/ u \in link.materials
      \/ u.pkg \notin link.listed /\ ~link.whole
      \/ u.pkg \in touched
      \/ at[u.pkg] # link.root
      \/ lang = "go" /\ u.pkg \in Mixed

\* README.md:7 says the attestation details the materials used and the output
\* products: those used are named, with a list that is whole.
MaterialsUsedNamed ==
  link # None /\ link.whole =>
    \A u \in link.product :
      u.pkg \in {m.pkg : m \in link.materials} \cup touched
=============================================================================
