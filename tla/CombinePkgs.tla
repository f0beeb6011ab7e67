---------------------------- MODULE CombinePkgs ----------------------------
(***************************************************************************)
(* Golang/run_combine_pkgs.sh (Rust/run_combine_pkgs.sh is the same        *)
(* script) and the combine_pkgs.py it calls.  The script lists the SBOM,   *)
(* package and binary-package folders, each sorted by file name without    *)
(* its suffix, and then walks the three lists by position: it never looks  *)
(* a project's files up by name, it only compares the names it meets.      *)
(*                                                                         *)
(* A file is known by that name (a stray such as p-strace.txt is one more  *)
(* name), and by the set of lines combine_pkgs.py would take from it.      *)
(***************************************************************************)
EXTENDS Naturals, Sequences

CONSTANTS
  Name,       \* names files in the three folders may have
  Line,       \* bom-refs and package lines
  Refs, PkgLines, BinLines,  \* what the files of a name hold
  Listing,    \* Listing[S]: the names S as `sort -k1,1` orders them
  None,       \* "${array[$i]}" past the end of the array
  Folders,    \* what the three folders may hold when a run starts
  MaxRuns     \* bound: starts of the script

Evidence == [p \in Name |-> Refs[p] \cup PkgLines[p] \cup BinLines[p]]

ASSUME CombineAssumption ==
  /\ Refs \in [Name -> SUBSET Line]
  /\ PkgLines \in [Name -> SUBSET Line]
  /\ BinLines \in [Name -> SUBSET Line]
  /\ Listing \in [SUBSET Name -> Seq(Name)]
  /\ \A S \in SUBSET Name :
       \A p \in S : \E k \in 1..Len(Listing[S]) : Listing[S][k] = p
  /\ \A S \in SUBSET Name : \A j, k \in 1..Len(Listing[S]) :
       Listing[S][j] \in S /\ (Listing[S][j] = Listing[S][k] => j = k)
  /\ None \notin Name
  /\ Folders \subseteq [sboms : SUBSET Name, pkgs : SUBSET Name,
                       bins : SUBSET Name, broken : SUBSET Name]
  /\ MaxRuns \in Nat

VARIABLES
  sboms, pkgs, bins,          \* names of the files in the three folders
  broken,                     \* SBOM files json.load does not accept
  pc, i,                      \* the next command, and the loop's index
  sbomFiles, pkgFiles, binFiles,  \* the three arrays
  outDirs,                    \* project folders in the output folder
  out,                        \* out[p]: lines in p-combine-pkgs.txt
  runs                        \* starts so far (bounded)

folders == <<sboms, pkgs, bins, broken>>
arrays  == <<sbomFiles, pkgFiles, binFiles>>
vars    == <<folders, pc, i, arrays, outDirs, out, runs>>

Running == {"list", "guard", "open", "python", "print", "say"}

TypeOK ==
  /\ sboms \subseteq Name /\ pkgs \subseteq Name /\ bins \subseteq Name
  /\ broken \subseteq Name
  /\ pc \in Running \cup {"ok", "error", "crashed"}
  /\ i \in Nat \ {0}
  /\ sbomFiles \in Seq(Name) /\ pkgFiles \in Seq(Name) /\ binFiles \in Seq(Name)
  /\ outDirs \subseteq Name
  /\ out \in [Name -> SUBSET Line]
  /\ runs \in Nat

-----------------------------------------------------------------------------
\* "${files[$i]}": empty past the end.
At(files, k) == IF k <= Len(files) THEN files[k] ELSE None

Cur     == At(sbomFiles, i)
CurPkg  == At(pkgFiles, i)
CurBin  == At(binFiles, i)

\* Seeded fault: only the binary-package file is compared.
MatchesBinOnly == CurBin # None => CurBin = Cur

\* The guard of lines 51-52: an empty name is let through.
Matches ==
  /\ CurPkg # None => CurPkg = Cur
  /\ CurBin # None => CurBin = Cur

\* combine_pkgs.py raises on a malformed SBOM and on the empty path.
Raises == Cur \in broken \/ CurPkg = None \/ CurBin = None

\* What it prints otherwise, taken from the files it was given.
Union == Refs[Cur] \cup PkgLines[CurPkg] \cup BinLines[CurBin]

-----------------------------------------------------------------------------
Init ==
  /\ \E f \in Folders : /\ sboms = f.sboms /\ pkgs = f.pkgs
                        /\ bins = f.bins /\ broken = f.broken
  /\ pc = "list" /\ i = 1
  /\ sbomFiles = <<>> /\ pkgFiles = <<>> /\ binFiles = <<>>
  /\ outDirs = {} /\ out = [p \in Name |-> {}]
  /\ runs = 1

\* Lines 26-32: the arrays are filled once and for all.
List ==
  /\ pc = "list"
  /\ sbomFiles' = Listing[sboms]
  /\ pkgFiles' = Listing[pkgs]
  /\ binFiles' = Listing[bins]
  /\ pc' = "guard"
  /\ UNCHANGED <<folders, i, outDirs, out, runs>>

\* Seeded fault: the loop runs once too often.
GuardOffByOne ==
  /\ pc = "guard" /\ i <= Len(sbomFiles) + 1
  /\ outDirs' = outDirs \cup {Cur}
  /\ pc' = IF Matches THEN "open" ELSE "error"
  /\ UNCHANGED <<folders, i, arrays, out, runs>>

\* The output folder of the SBOM's project is made before the guard.
Guard ==
  /\ pc = "guard" /\ i <= Len(sbomFiles)
  /\ outDirs' = outDirs \cup {Cur}
  /\ pc' = IF Matches THEN "open" ELSE "error"
  /\ UNCHANGED <<folders, i, arrays, out, runs>>

\* Seeded fault: the last SBOM is not visited.
LoopDoneEarly ==
  /\ pc = "guard" /\ i >= Len(sbomFiles)
  /\ pc' = "ok"
  /\ UNCHANGED <<folders, i, arrays, outDirs, out, runs>>

LoopDone ==
  /\ pc = "guard" /\ i > Len(sbomFiles)
  /\ pc' = "ok"
  /\ UNCHANGED <<folders, i, arrays, outDirs, out, runs>>

\* > "$output_file": the shell empties it before python3 starts.
Open ==
  /\ pc = "open"
  /\ out' = [out EXCEPT ![Cur] = {}]
  /\ pc' = "python"
  /\ UNCHANGED <<folders, i, arrays, outDirs, runs>>

\* Seeded fault: the bom-refs are printed before the other files are read.
PythonPrintsEarly ==
  /\ pc = "python"
  /\ pc' = IF Raises THEN "say" ELSE "print"
  /\ out' = IF Cur \in broken THEN out
            ELSE [out EXCEPT ![Cur] = Refs[Cur]]
  /\ UNCHANGED <<folders, i, arrays, outDirs, runs>>

\* python3 reads the three files; if one cannot be read it prints nothing.
Python ==
  /\ pc = "python"
  /\ pc' = IF Raises THEN "say" ELSE "print"
  /\ UNCHANGED <<folders, i, arrays, outDirs, out, runs>>

PrintItem ==
  /\ pc = "print"
  /\ \E x \in Union \ out[Cur] : out' = [out EXCEPT ![Cur] = @ \cup {x}]
  /\ UNCHANGED <<folders, pc, i, arrays, outDirs, runs>>

PrintDone ==
  /\ pc = "print" /\ Union \subseteq out[Cur]
  /\ pc' = "say"
  /\ UNCHANGED <<folders, i, arrays, outDirs, out, runs>>

\* echo "Output saved to ...": python3's exit status is not looked at.
Say ==
  /\ pc = "say"
  /\ i' = i + 1
  /\ pc' = "guard"
  /\ UNCHANGED <<folders, arrays, outDirs, out, runs>>

Step == \/ List \/ Guard \/ LoopDone \/ Open \/ Python \/ PrintItem
        \/ PrintDone \/ Say

Crash ==
  /\ pc \in Running
  /\ pc' = "crashed"
  /\ UNCHANGED <<folders, i, arrays, outDirs, out, runs>>

\* Files come and go while no run is under way, then the script starts again.
StartAgain ==
  /\ pc \notin Running /\ runs < MaxRuns
  /\ \E f \in Folders : /\ sboms' = f.sboms /\ pkgs' = f.pkgs
                        /\ bins' = f.bins /\ broken' = f.broken
  /\ pc' = "list" /\ i' = 1
  /\ sbomFiles' = <<>> /\ pkgFiles' = <<>> /\ binFiles' = <<>>
  /\ runs' = runs + 1
  /\ UNCHANGED <<outDirs, out>>

Next == Step \/ Crash \/ StartAgain

Spec == Init /\ [][Next]_vars

-----------------------------------------------------------------------------
(* Properties. *)

\* Positional pairing never mixes projects: whatever the three folders hold,
\* a project's combined file names nothing that is not in a file of its own.
NoMixing == \A p \in Name : out[p] \subseteq Evidence[p]

\* With the same names in all three folders and well-formed SBOMs, a run that
\* ends leaves every project its whole union, whatever earlier runs, stopped
\* or killed, had left in the output folder.
AlignedComplete ==
  pc = "ok" /\ sboms = pkgs /\ pkgs = bins /\ broken = {} =>
    \A p \in sboms : out[p] = Evidence[p]

\* The outputs follow EvidenceUnion: the one being printed counts as blank.
Result == IF pc = "print" THEN [out EXCEPT ![Cur] = {}] ELSE out
Phase  == CASE pc \in Running -> "working"
            [] pc = "crashed" -> "dead"
            [] OTHER          -> "stopped"

Abs == INSTANCE EvidenceUnion WITH result <- Result, phase <- Phase

\* Each result is blank or whole, and its own, unless the script is killed.
KeepsPromise == Abs!Spec
=============================================================================
