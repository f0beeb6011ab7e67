------------------------------ MODULE BinPkgs ------------------------------
(***************************************************************************)
(* run_bin_pkgs.sh in its Go, Rust and C variants: for every folder of     *)
(* binaries a collection has left, write the packages whose paths          *)
(* `strings` finds in them to <folder>-bins-pkg.txt.  The variants differ  *)
(* in the files they look at, and in that Go and Rust gather a folder's    *)
(* lines in a temporary file while C appends to the output file by file,   *)
(* and sorts it in place at the end.  All of them append: what an earlier  *)
(* run has written stays.                                                  *)
(*                                                                         *)
(* A binary is abstracted to its kind and to the packages named in it,     *)
(* after the sed that turns a path into name and version.  Duplicate lines *)
(* are not told apart.                                                     *)
(***************************************************************************)
EXTENDS Naturals, Sequences

CONSTANTS
  Project,    \* folders of binaries the collection may make
  Star,       \* the name a pattern that matches nothing stands for
  Pkg,        \* packages
  Contents,   \* sets of packages that may be named in a binary
  Listing,    \* Listing[S]: the names S in the order of the shell and of sort
  MaxRuns,    \* bound: runs of this script
  MaxBuilds   \* bound: binaries made, replaced or removed

Name == Project \cup {Star}
Lang == {"Go", "Rust", "C"}

\* A file at the top of the folder; and further down a program, or a .a or .so
\* without the x bit.
File == {"program", "nested", "archive"}

ASSUME BinPkgsAssumption ==
  /\ Star \notin Project
  /\ Contents \subseteq SUBSET Pkg
  /\ Listing \in [SUBSET Name -> Seq(Name)]
  /\ \A S \in SUBSET Name :
       \A p \in S : \E k \in 1..Len(Listing[S]) : Listing[S][k] = p
  /\ \A S \in SUBSET Name : \A j, k \in 1..Len(Listing[S]) :
       Listing[S][j] \in S /\ (Listing[S][j] = Listing[S][k] => j = k)
  /\ MaxRuns \in Nat /\ MaxBuilds \in Nat

VARIABLES
  lang,       \* which of the three scripts this is
  folders,    \* folders in the base directory
  holds,      \* holds[n][f]: packages named in the files of kind f of n
  binFiles,   \* names n with a n-bins-pkg.txt ...
  binLines,   \* ... and its lines
  bpc,        \* the next command
  todo, cur,  \* folders still to visit, and the one in hand
  items,      \* kinds of files still to be read
  temp,       \* lines in the temporary file, or in the memory of C's sort
  runs, builds,  \* runs and changes so far (bounded)
  ever,       \* history: packages the files looked at have ever named
  collected   \* history: names gone through since their binaries last changed,
              \* whose list C has not begun to rewrite since

binaries == <<folders, holds, builds, ever>>
bvars == <<lang, binaries, binFiles, binLines, bpc, todo, cur, items, temp,
           runs, collected>>

BinPkgsTypeOK ==
  /\ lang \in Lang
  /\ folders \subseteq Project
  /\ holds \in [Name -> [File -> SUBSET Pkg]]
  /\ binFiles \subseteq Name
  /\ binLines \in [Name -> SUBSET Pkg]
  /\ bpc \in {"idle", "next", "read", "write"}
  /\ todo \in Seq(Name) /\ cur \in Name
  /\ items \subseteq File /\ temp \subseteq Pkg
  /\ runs \in Nat /\ builds \in Nat
  /\ ever \in [Name -> SUBSET Pkg]
  /\ collected \subseteq binFiles

-----------------------------------------------------------------------------
\* "$folder"/* with [ -f ]; find -type f -executable; find with the suffixes.
Looks == {f \in File : \/ f = "program"
                       \/ f = "nested" /\ lang # "Go"
                       \/ f = "archive" /\ lang = "C"}

\* What the files looked at in n name now.
Current(n) == UNION {holds[n][f] : f \in Looks}

BinPkgsInit ==
  /\ lang \in Lang
  /\ folders = {}
  /\ holds = [n \in Name |-> [f \in File |-> {}]]
  /\ binFiles = {} /\ binLines = [n \in Name |-> {}]
  /\ bpc = "idle" /\ todo = <<>> /\ cur = Star
  /\ items = {} /\ temp = {}
  /\ runs = 0 /\ builds = 0
  /\ ever = binLines /\ collected = {}

\* A collection, or a developer, makes, replaces or removes binaries.
ChangeBinary ==
  /\ bpc = "idle" /\ builds < MaxBuilds
  /\ builds' = builds + 1
  /\ \E p \in Project, f \in File, C \in Contents :
       /\ folders' = folders \cup {p}
       /\ holds' = [holds EXCEPT ![p][f] = C]
       /\ ever' = [ever EXCEPT ![p] = IF f \in Looks THEN @ \cup C ELSE @]
       /\ collected' = collected \ {p}
  /\ UNCHANGED <<lang, binFiles, binLines, bpc, todo, cur, items, temp, runs>>

\* for folder in "$basePath"/*/ : the pattern itself if there is no folder.
StartBins ==
  /\ bpc = "idle" /\ runs < MaxRuns
  /\ runs' = runs + 1
  /\ todo' = IF folders = {} THEN <<Star>> ELSE Listing[folders]
  /\ bpc' = "next"
  /\ UNCHANGED <<lang, binaries, binFiles, binLines, cur, items, temp,
                 collected>>

\* Seeded fault: one temporary file serves all folders.
NextFolderSharesTemp ==
  /\ bpc = "next" /\ todo # <<>>
  /\ cur' = Head(todo) /\ todo' = Tail(todo)
  /\ binFiles' = binFiles \cup {Head(todo)}
  /\ items' = IF Head(todo) \in folders THEN Looks ELSE {}
  /\ bpc' = "read"
  /\ UNCHANGED <<lang, binaries, binLines, temp, runs, collected>>

\* Seeded fault: the output file is left to the append to create.
NextFolderNoTouch ==
  /\ bpc = "next" /\ todo # <<>>
  /\ cur' = Head(todo) /\ todo' = Tail(todo)
  /\ temp' = {}
  /\ items' = IF Head(todo) \in folders THEN Looks ELSE {}
  /\ bpc' = "read"
  /\ UNCHANGED <<lang, binaries, binFiles, binLines, runs, collected>>

\* touch, mktemp, and the list of files to read.
NextFolder ==
  /\ bpc = "next" /\ todo # <<>>
  /\ cur' = Head(todo) /\ todo' = Tail(todo)
  /\ binFiles' = binFiles \cup {Head(todo)}
  /\ temp' = {}
  /\ items' = IF Head(todo) \in folders THEN Looks ELSE {}
  /\ bpc' = "read"
  /\ UNCHANGED <<lang, binaries, binLines, runs, collected>>

\* strings | grep | sed, to the temporary file or to the output itself.
ReadFile ==
  /\ bpc = "read"
  /\ \E f \in items :
       /\ items' = items \ {f}
       /\ IF lang = "C"
          THEN /\ binLines' = [binLines EXCEPT ![cur] = @ \cup holds[cur][f]]
               /\ UNCHANGED temp
          ELSE /\ temp' = temp \cup holds[cur][f]
               /\ UNCHANGED binLines
  /\ UNCHANGED <<lang, binaries, binFiles, bpc, todo, cur, runs, collected>>

\* Seeded fault: the output is written before the last file has been read.
SortFolderEarly ==
  /\ bpc = "read"
  /\ bpc' = "write"
  /\ IF lang = "C"
       THEN /\ temp' = binLines[cur]
            /\ binLines' = [binLines EXCEPT ![cur] = {}]
            /\ collected' = collected \ {cur}
       ELSE UNCHANGED <<temp, binLines, collected>>
  /\ UNCHANGED <<lang, binaries, binFiles, todo, cur, items, runs>>

\* sort of the temporary file.  C sorts the list itself with -o: it is read
\* whole, and opened for writing, which empties it.
SortFolder ==
  /\ bpc = "read" /\ items = {}
  /\ bpc' = "write"
  /\ IF lang = "C"
       THEN /\ temp' = binLines[cur]
            /\ binLines' = [binLines EXCEPT ![cur] = {}]
            /\ collected' = collected \ {cur}
       ELSE UNCHANGED <<temp, binLines, collected>>
  /\ UNCHANGED <<lang, binaries, binFiles, todo, cur, items, runs>>

\* uniq >> "$outputFile", or the output of C's sort.
AppendFolder ==
  /\ bpc = "write"
  /\ binLines' = [binLines EXCEPT ![cur] = @ \cup temp]
  /\ collected' = collected \cup {cur}
  /\ bpc' = "next"
  /\ UNCHANGED <<lang, binaries, binFiles, todo, cur, items, temp, runs>>

\* The script's own memory goes with it.
Gone ==
  bpc' = "idle" /\ todo' = <<>> /\ cur' = Star /\ items' = {} /\ temp' = {}

FinishBins ==
  /\ bpc = "next" /\ todo = <<>>
  /\ Gone
  /\ UNCHANGED <<lang, binaries, binFiles, binLines, runs, collected>>

\* While the output is written any part of it may have got there.
KillBins ==
  /\ bpc # "idle"
  /\ Gone
  /\ \/ UNCHANGED binLines
     \/ /\ bpc = "write"
        /\ \E part \in SUBSET temp :
             binLines' = [binLines EXCEPT ![cur] = @ \cup part]
  /\ UNCHANGED <<lang, binaries, binFiles, runs, collected>>

BinsStep ==
  NextFolder \/ ReadFile \/ SortFolder \/ AppendFolder \/ FinishBins

-----------------------------------------------------------------------------
(* Properties. *)

\* However often the script is run again or killed, a project's list names
\* only packages that a binary of that very project has named.
ListsExplained == \A n \in Name : binLines[n] \subseteq ever[n]

\* A project whose folder has been gone through since its binaries last
\* changed has everything they name in its list.  In Go and Rust this stays so
\* whatever happens to the script later; in C until a later run begins to
\* sort the list in place, and from the end of that sort on.
CollectedComplete == \A n \in collected : Current(n) \subseteq binLines[n]
=============================================================================
