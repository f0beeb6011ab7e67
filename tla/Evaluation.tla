----------------------------- MODULE Evaluation -----------------------------
(***************************************************************************)
(* The two scripts that compare what the tools have found, over the lists  *)
(* BinPkgs makes: run_compare.sh sets the SBOMs against the lists, and     *)
(* run_pkgs_compare.sh the lists of the strace stage.  Both sort the two   *)
(* folders by project name, go through them by position, stop at the first *)
(* pair of different names, and count which of the two sets is larger.     *)
(*                                                                         *)
(* `mode' says which of the scripts is used and what the left folder is.   *)
(* One script runs at a time.                                              *)
(***************************************************************************)
EXTENDS BinPkgs, FiniteSets

CONSTANTS
  Mentions,  \* Mentions[n]: packages whose bom-ref contains the string n
  None,      \* basename of "${array[$i]}" past the end of the array
  Lefts      \* what the left folder may be

ASSUME EvaluationAssumption ==
  /\ Mentions \in [Name -> SUBSET Pkg]
  /\ None \notin Name
  /\ Lefts \subseteq [mode : {"sbom", "pkgs"}, names : SUBSET Name,
                     broken : SUBSET Name, lines : [Name -> SUBSET Pkg]]
  /\ \A l \in Lefts : l.mode = "pkgs" => l.broken = {}

VARIABLES
  mode,              \* "sbom": run_compare.sh, "pkgs": run_pkgs_compare.sh
  left, leftLines,   \* names with a file in the left folder, and its lines
  broken,            \* SBOMs that are not JSON
  cpc,               \* the comparing script's next command
  lefts, rights,     \* its two arrays
  i, total, count,   \* its index, total_projects and condition_0 ... 3
  verdict            \* what the last comparison ended with

lvars == <<mode, left, leftLines, broken>>
cvars == <<cpc, lefts, rights, i, total, count, verdict>>
vars  == <<bvars, lvars, cvars>>

Zero == [k \in 0..3 |-> 0]

TypeOK ==
  /\ BinPkgsTypeOK
  /\ mode \in {"sbom", "pkgs"}
  /\ left \subseteq Name /\ broken \subseteq Name
  /\ leftLines \in [Name -> SUBSET Pkg]
  /\ mode = "pkgs" => broken = {}
  /\ cpc \in {"idle", "loop"}
  /\ cpc = "loop" => bpc = "idle"
  /\ lefts \in Seq(Name) /\ rights \in Seq(Name)
  /\ i \in Nat \ {0} /\ total \in Nat
  /\ count \in [0..3 -> Nat]
  /\ verdict \in {"none", "totals", "aborted", "mismatch"}

-----------------------------------------------------------------------------
\* sbom_files=($(...)): the substitution is not quoted, so the file that is
\* called *-pkg.txt is replaced by every file of its folder.
Array(S) == IF Star \in S THEN Listing[S] \o Listing[S \ {Star}] ELSE Listing[S]

At(files, k) == IF k <= Len(files) THEN files[k] ELSE None

\* Seeded fault: <= in place of ==.
RelationSubset(A, B) ==
  IF A \subseteq B THEN 0 ELSE IF B \subseteq A THEN 1 ELSE 3

\* The condition the python scripts print for their first and second file.
Relation(A, B) ==
  IF A = B THEN 0
  ELSE IF B \subseteq A THEN 1
  ELSE IF A \subseteq B THEN 2
  ELSE 3

\* compare_analysis.py drops the components that mention the project.
Seen(n) == IF mode = "sbom" THEN leftLines[n] \ Mentions[n] ELSE leftLines[n]

\* compare_pkgs_analysis.py is given the binary list first.
Condition(n, m) == IF mode = "sbom" THEN Relation(Seen(n), binLines[m])
                   ELSE Relation(binLines[m], Seen(n))

-----------------------------------------------------------------------------
Init ==
  /\ BinPkgsInit
  /\ \E l \in Lefts : /\ mode = l.mode /\ left = l.names
                      /\ leftLines = l.lines /\ broken = l.broken
  /\ cpc = "idle" /\ verdict = "none"
  /\ lefts = <<>> /\ rights = <<>>
  /\ i = 1 /\ total = 0 /\ count = Zero

\* Only what the script has printed outlives it.
Exit(v) ==
  /\ cpc' = "idle" /\ verdict' = v
  /\ lefts' = <<>> /\ rights' = <<>> /\ i' = 1

Change == ChangeBinary /\ cpc = "idle" /\ UNCHANGED <<lvars, cvars>>

StartBinPkgs ==
  /\ StartBins
  /\ cpc = "idle" /\ verdict' = "none"
  /\ total' = 0 /\ count' = Zero
  /\ UNCHANGED <<lvars, cpc, lefts, rights, i>>

BinPkgsStep == BinsStep /\ UNCHANGED <<lvars, cvars>>
BinPkgsKill == KillBins /\ UNCHANGED <<lvars, cvars>>

\* Seeded fault: the right folder comes in the order of find.
StartCompareUnsorted ==
  /\ bpc = "idle" /\ cpc = "idle"
  /\ total' = 0 /\ count' = Zero
  /\ LET L == Array(left)
         a == Array(binFiles)
     IN \E R \in {a, [k \in 1..Len(a) |-> a[Len(a) + 1 - k]]} :
          IF mode = "pkgs" /\ Len(L) # Len(R)
          THEN Exit("mismatch")
          ELSE /\ cpc' = "loop" /\ verdict' = "none"
               /\ lefts' = L /\ rights' = R /\ i' = 1
  /\ UNCHANGED <<bvars, lvars>>

\* The arrays; run_pkgs_compare.sh compares their lengths first.
StartCompare ==
  /\ bpc = "idle" /\ cpc = "idle"
  /\ total' = 0 /\ count' = Zero
  /\ LET L == Array(left)
         R == Array(binFiles)
     IN IF mode = "pkgs" /\ Len(L) # Len(R)
        THEN Exit("mismatch")
        ELSE /\ cpc' = "loop" /\ verdict' = "none"
             /\ lefts' = L /\ rights' = R /\ i' = 1
  /\ UNCHANGED <<bvars, lvars>>

\* A pair of one name.  If python3 raises there is no condition to count.
CompareOne ==
  /\ cpc = "loop" /\ i <= Len(lefts)
  /\ At(rights, i) = lefts[i]
  /\ total' = total + 1
  /\ count' = IF lefts[i] \in broken THEN count
              ELSE [count EXCEPT ![Condition(lefts[i], rights[i])] = @ + 1]
  /\ i' = i + 1
  /\ UNCHANGED <<bvars, lvars, cpc, lefts, rights, verdict>>

\* exit 1, without the totals.
CompareAborts ==
  /\ cpc = "loop" /\ i <= Len(lefts)
  /\ At(rights, i) # lefts[i]
  /\ Exit("aborted")
  /\ UNCHANGED <<bvars, lvars, total, count>>

\* Seeded fault: the loop stops one project early.
CompareEndsEarly ==
  /\ cpc = "loop" /\ i >= Len(lefts)
  /\ Exit("totals")
  /\ UNCHANGED <<bvars, lvars, total, count>>

\* The totals are printed.
CompareEnds ==
  /\ cpc = "loop" /\ i > Len(lefts)
  /\ Exit("totals")
  /\ UNCHANGED <<bvars, lvars, total, count>>

CompareKilled ==
  /\ cpc = "loop"
  /\ Exit("none")
  /\ total' = 0 /\ count' = Zero
  /\ UNCHANGED <<bvars, lvars>>

CompareStep == CompareOne \/ CompareAborts \/ CompareEnds

Next == \/ Change \/ StartBinPkgs \/ BinPkgsStep \/ BinPkgsKill
        \/ StartCompare \/ CompareStep \/ CompareKilled

Spec == Init /\ [][Next]_vars

-----------------------------------------------------------------------------
(* Properties. *)

\* The totals, once printed, are true of the folders as they are: every left
\* file had its list, each project is counted once, under the condition that
\* holds of its two sets; those python3 could not read are in no condition.
\* (Unless an earlier stage was run over an empty folder and left *-pkg.txt.)
TotalsTrue ==
  verdict = "totals" /\ Star \notin left =>
    /\ left \subseteq binFiles
    /\ total = Cardinality(left)
    /\ \A k \in 0..3 :
         count[k] = Cardinality({n \in left \ broken : Condition(n, n) = k})

\* A comparison only ever refuses folders that do not hold the same projects,
\* although it pairs the files by position.
RefusesOnlyMisaligned == verdict \in {"aborted", "mismatch"} => left # binFiles

\* "Total Condition 0" for all projects means what the evaluation takes it to
\* mean: everything the binaries name is in the SBOM (or the strace list) of
\* their project, for the projects whose binaries did not change since.
AgreementIsEvidence ==
  verdict = "totals" /\ count[0] = total /\ Star \notin left =>
    \A n \in left \cap collected : Current(n) \subseteq Seen(n)
=============================================================================
