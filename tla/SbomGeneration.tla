--------------------------- MODULE SbomGeneration ---------------------------
(***************************************************************************)
(* sbom_generation.sh, in its Go, Rust and C variants: for every directory *)
(* of the projects folder run cdxgen in it, and delete the project (Go and *)
(* Rust) when no SBOM, or (Go) a bad one, comes out.  The later stages     *)
(* pair files by position, so which projects and SBOMs survive matters.    *)
(*                                                                         *)
(* An SBOM is known by the run that wrote it, or Partial when it does not  *)
(* describe the whole project.  The script can be killed at any step and   *)
(* started again; rm -rf that was killed leaves a damaged project behind.  *)
(***************************************************************************)
EXTENDS Naturals

CONSTANTS
  Project,    \* names of the directories a projects folder may hold
  MayBlock,   \* directories whose permissions may forbid `cd`
  Home,       \* the projects folder
  Star,       \* the literal word * an unmatched glob leaves behind
  None,       \* no file
  Partial,    \* a file that does not describe the whole project
  MaxRuns     \* bound: starts of the script

ASSUME SbomAssumption ==
  /\ MayBlock \subseteq Project
  /\ Home \notin Project /\ Star \notin Project
  /\ None # Partial /\ None \notin Nat /\ Partial \notin Nat
  /\ MaxRuns \in Nat

VARIABLES
  lang,       \* which of the three scripts
  absolute,   \* is the -o option an absolute path?
  pc,         \* the command the script is about to execute
  here,       \* $PWD
  todo,       \* glob words the loop has still to visit
  cur,        \* the project of this iteration
  bad,        \* $output has one of the two messages the Go script looks for
  file,       \* file[p]: what "$sbom_file" names, seen from p's directory
  present,    \* project directories in the projects folder
  intact,     \* those no rm -rf has begun to empty
  enterable,  \* those `cd` can change into
  run,        \* number of the current run (bounded)
  listed,     \* history: the words the glob of this run expanded to
  failed      \* history: projects cdxgen could not describe in this run

env  == <<lang, absolute, enterable>>
hist == <<run, listed, failed>>
vars == <<pc, here, todo, cur, bad, file, present, intact, env, hist>>

Running == {"next", "cdxgen", "writing", "check", "rmsbom", "leave", "rm",
            "rmrest", "back"}
Content == Nat \cup {None, Partial}

TypeOK ==
  /\ lang \in {"go", "rust", "c"} /\ absolute \in BOOLEAN
  /\ pc \in Running \cup {"done", "crashed"}
  /\ here \in Project \cup {Home}
  /\ todo \subseteq Project \cup {Star} /\ listed \subseteq Project \cup {Star}
  /\ cur \in Project \cup {Star}
  /\ bad \in BOOLEAN
  /\ file \in [Project -> Content]
  /\ present \subseteq Project /\ intact \subseteq present
  /\ enterable \subseteq Project
  /\ run \in Nat
  /\ failed \subseteq Project

\* The SBOM the output folder has for p.  A relative -o was created where the
\* script started, but is resolved inside the project: the folder stays empty.
Sbom(p) == IF absolute THEN file[p] ELSE None

Glob == IF present = {} THEN {Star} ELSE present

-----------------------------------------------------------------------------
Init ==
  /\ lang \in {"go", "rust", "c"} /\ absolute \in BOOLEAN
  /\ present \in SUBSET Project /\ intact = present
  /\ \E blocked \in SUBSET MayBlock : enterable = Project \ blocked
  /\ pc = "next" /\ here = Home
  /\ todo = Glob /\ listed = Glob /\ cur = Star
  /\ bad = FALSE
  /\ file = [p \in Project |-> None]
  /\ run = 1 /\ failed = {}

\* Seeded fault: cd "$project" without || continue.
NextProjectGoesOn ==
  /\ pc = "next"
  /\ \E p \in todo :
       /\ cur' = p /\ todo' = todo \ {p}
       /\ here' = IF p \in present \cap enterable THEN p ELSE here
       /\ pc' = "cdxgen"
  /\ UNCHANGED <<bad, file, present, intact, env, hist>>

\* for project in */ ; cd "$project" || continue.  (The order in which the
\* words are visited plays no role here.)
NextProject ==
  /\ pc = "next"
  /\ \E p \in todo :
       /\ cur' = p /\ todo' = todo \ {p}
       /\ \/ /\ p \in present \cap enterable
             /\ here' = p /\ pc' = "cdxgen"
          \/ /\ p \notin present \cap enterable
             /\ UNCHANGED <<here, pc>>
  /\ UNCHANGED <<bad, file, present, intact, env, hist>>

Finish ==
  /\ pc = "next" /\ todo = {}
  /\ pc' = "done"
  /\ UNCHANGED <<here, todo, cur, bad, file, present, intact, env, hist>>

-----------------------------------------------------------------------------
(* cdxgen -o "$sbom_file" *)

\* It creates or empties the file ...
CdxgenOpens ==
  /\ pc = "cdxgen"
  /\ file' = [file EXCEPT ![cur] = Partial]
  /\ pc' = "writing"
  /\ UNCHANGED <<here, todo, cur, bad, present, intact, env, hist>>

\* ... and fills it.
CdxgenWrites ==
  /\ pc = "writing"
  /\ IF cur \in intact
       THEN file' = [file EXCEPT ![cur] = run] /\ UNCHANGED failed
       ELSE UNCHANGED file /\ failed' = failed \cup {cur}
  /\ bad' = FALSE
  /\ pc' = "check"
  /\ UNCHANGED <<here, todo, cur, present, intact, env, run, listed>>

\* It cannot describe the project: it has written nothing, or an incomplete
\* SBOM, and may have said so in the words the Go script knows.
CdxgenFails ==
  /\ pc \in {"cdxgen", "writing"}
  /\ failed' = failed \cup {cur}
  /\ bad' \in BOOLEAN
  /\ pc' = "check"
  /\ UNCHANGED <<here, todo, cur, file, present, intact, env, run, listed>>

\* The folder of a relative path need not exist inside the project.
CdxgenFindsNoFolder ==
  /\ pc = "cdxgen" /\ ~absolute /\ file[cur] = None
  /\ bad' = FALSE
  /\ pc' = "check"
  /\ UNCHANGED <<here, todo, cur, file, present, intact, env, hist>>

-----------------------------------------------------------------------------
\* if echo "$output" | grep -q ... elif ... : the Go script only.
Reject ==
  /\ pc = "check" /\ lang = "go" /\ bad
  /\ pc' = "rmsbom"
  /\ UNCHANGED <<here, todo, cur, bad, file, present, intact, env, hist>>

\* Seeded fault: the rejected SBOM is left where it is.
RemoveSbomForgotten ==
  /\ pc = "rmsbom"
  /\ pc' = "leave"
  /\ UNCHANGED <<here, todo, cur, bad, file, present, intact, env, hist>>

\* [ -f "$sbom_file" ] && rm -f "$sbom_file"
RemoveSbom ==
  /\ pc = "rmsbom"
  /\ file' = [file EXCEPT ![cur] = None]
  /\ pc' = "leave"
  /\ UNCHANGED <<here, todo, cur, bad, present, intact, env, hist>>

\* Seeded fault: the test without its !.
TestFileNegated ==
  /\ pc = "check" /\ ~(lang = "go" /\ bad)
  /\ pc' = IF lang # "c" /\ file[cur] # None THEN "leave" ELSE "back"
  /\ UNCHANGED <<here, todo, cur, bad, file, present, intact, env, hist>>

\* if [ ! -f "$sbom_file" ] : Go and Rust.  The C script never looks.
TestFile ==
  /\ pc = "check" /\ ~(lang = "go" /\ bad)
  /\ pc' = IF lang # "c" /\ file[cur] = None THEN "leave" ELSE "back"
  /\ UNCHANGED <<here, todo, cur, bad, file, present, intact, env, hist>>

\* Seeded fault: the cd .. before rm -rf is missing.
LeaveStays ==
  /\ pc \in {"leave", "back"}
  /\ here' = IF pc = "leave" THEN here ELSE Home
  /\ pc' = IF pc = "leave" THEN "rm" ELSE "next"
  /\ UNCHANGED <<todo, cur, bad, file, present, intact, env, hist>>

\* cd ..
Leave ==
  /\ pc \in {"leave", "back"}
  /\ here' = Home
  /\ pc' = IF pc = "leave" THEN "rm" ELSE "next"
  /\ UNCHANGED <<todo, cur, bad, file, present, intact, env, hist>>

\* rm -rf "$project", a relative path, empties the directory ...
RemoveBegins ==
  /\ pc = "rm"
  /\ intact' = IF here = Home THEN intact \ {cur} ELSE intact
  /\ pc' = "rmrest"
  /\ UNCHANGED <<here, todo, cur, bad, file, present, env, hist>>

\* ... and removes it, with the SBOM when that was inside.
RemoveEnds ==
  /\ pc = "rmrest"
  /\ present' = IF here = Home THEN present \ {cur} ELSE present
  /\ file' = IF absolute \/ here # Home THEN file
             ELSE [file EXCEPT ![cur] = None]
  /\ pc' = "next"
  /\ UNCHANGED <<here, todo, cur, bad, intact, env, hist>>

Step == \/ NextProject \/ Finish \/ CdxgenOpens \/ CdxgenWrites \/ CdxgenFails
        \/ CdxgenFindsNoFolder \/ Reject \/ RemoveSbom \/ TestFile \/ Leave
        \/ RemoveBegins \/ RemoveEnds

Crash ==
  /\ pc \in Running
  /\ pc' = "crashed"
  /\ UNCHANGED <<here, todo, cur, bad, file, present, intact, env, hist>>

\* The script is started again over the projects and SBOMs that are left.
StartAgain ==
  /\ pc \in {"done", "crashed"} /\ run < MaxRuns
  /\ run' = run + 1
  /\ pc' = "next" /\ here' = Home /\ todo' = Glob /\ listed' = Glob
  /\ failed' = {}
  /\ UNCHANGED <<cur, bad, file, present, intact, env>>

Next == Step \/ Crash \/ StartAgain

Spec == Init /\ [][Next]_vars

-----------------------------------------------------------------------------
(* Properties. *)

\* The Go and Rust scripts never leave the SBOM of a project they deleted,
\* whenever they are killed: an orphan would shift the positional pairing of
\* run_combine_pkgs.sh by one.
NoOrphanSbom ==
  \A p \in Project :
    p \notin present \/ (pc = "rmrest" /\ p = cur) => Sbom(p) = None

\* A run of the Go or Rust script that ends leaves exactly the projects that
\* have an SBOM, apart from those it could not enter, also over what killed
\* runs left.
Settled ==
  pc = "done" /\ lang # "c" =>
    \A p \in listed \cap enterable : p \in present <=> file[p] # None

\* If -o is absolute, a project cdxgen can describe survives the run, and its
\* SBOM is in the output folder and of this run: no older one masks it, and
\* no failure of another project deletes it.
HealthyDescribed ==
  pc = "done" /\ absolute =>
    \A p \in (listed \cap enterable) \ failed : p \in present /\ Sbom(p) = run

\* Golang/README.md:19 says that the step generates SBOMs for the projects and
\* outputs them to the folder -o names, with a relative -o as its example.
SbomsInOutputFolder ==
  pc = "done" /\ lang = "go" =>
    \A p \in (listed \cap enterable) \ failed : Sbom(p) # None
=============================================================================
