------------------------------- MODULE Names -------------------------------
(***************************************************************************)
(* How a package's name and version survive the text they travel in.  A    *)
(* name and a version are the sequences of the parts between their dashes: *)
(* the crate sha-1, version 0.10.0, is <<"sha", "1">>, <<"0.10.0">>.  A    *)
(* line of a list is a sequence of parts and the places where an @ stands  *)
(* in front of a part in place of a dash.                                  *)
(***************************************************************************)
EXTENDS Naturals, Sequences

CONSTANTS
  Part,      \* what stands between two dashes
  Number     \* parts that begin with a digit

Crate == [name : Seq(Part), version : Seq(Part)]

\* Seeded fault: sed 's/-/@/g', whatever follows the dash.
FromCrateAnyDash(x) ==
  [parts |-> x.name \o x.version, ats |-> 2..Len(x.name \o x.version)]

\* Rust/run_all.sh:53-54: the file name <name>-<version>.crate, and then
\* sed 's/-\([0-9]\)/@\1/g': every dash in front of a digit becomes an @.
FromCrate(x) ==
  LET file == x.name \o x.version
  IN  [parts |-> file, ats |-> {k \in 2..Len(file) : file[k] \in Number}]

\* combine_pkgs.py takes <name>@<version> from a bom-ref as it is.
FromPurl(x) ==
  [parts |-> x.name \o x.version,
   ats   |-> IF x.version = <<>> THEN {} ELSE {Len(x.name) + 1}]

\* The first place of a set, or the end of the line.
FirstOf(S, line) ==
  CHOOSE k \in S \cup {Len(line.parts) + 1} :
    \A j \in S \cup {Len(line.parts) + 1} : k <= j

\* awk -F "@" '{print $1}' and '{print $2}': what comes before the first @,
\* and from there to the second; the rest of the line is lost.
Written(line) ==
  LET first  == FirstOf(line.ats, line)
      second == FirstOf(line.ats \ {first}, line)
  IN  [name    |-> SubSeq(line.parts, 1, first - 1),
       version |-> SubSeq(line.parts, first, second - 1)]

\* A package whose only dash in front of a digit is the one before its version.
Plain(x) ==
  /\ x.name # <<>> /\ \A k \in 2..Len(x.name) : x.name[k] \notin Number
  /\ x.version # <<>> /\ x.version[1] \in Number
  /\ \A k \in 2..Len(x.version) : x.version[k] \notin Number
=============================================================================
