--------------------------- MODULE EvidenceUnion ---------------------------
(***************************************************************************)
(* What combining evidence promises, whatever the script that does it:     *)
(* each project has a result of its own that is either blank or the whole  *)
(* union of that project's evidence, never a part of it and never another  *)
(* project's.  Only being killed may tear the one result in the making.    *)
(* run_combine_pkgs.sh is shown to keep this promise in CombinePkgs.       *)
(***************************************************************************)
CONSTANTS Name,     \* projects
          Line,     \* lines of evidence
          Evidence  \* Evidence[p]: the lines that belong to p

VARIABLES result,   \* result[p]: the combined lines of p
          phase     \* "working", "stopped" or "dead"

Type == /\ result \in [Name -> SUBSET Line]
        /\ phase \in {"working", "stopped", "dead"}

Init == /\ result = [p \in Name |-> {}]
        /\ phase = "working"

Publish(p) == /\ phase = "working"
              /\ result' = [result EXCEPT ![p] = Evidence[p]]
              /\ UNCHANGED phase

Blank(p) == /\ phase = "working"
            /\ result' = [result EXCEPT ![p] = {}]
            /\ UNCHANGED phase

Stop == phase = "working" /\ phase' = "stopped" /\ UNCHANGED result

Die == /\ phase = "working" /\ phase' = "dead"
       /\ \/ UNCHANGED result
          \/ \E p \in Name : \E part \in SUBSET Evidence[p] :
               result' = [result EXCEPT ![p] = part]

Restart == phase # "working" /\ phase' = "working" /\ UNCHANGED result

Next == \/ \E p \in Name : Publish(p) \/ Blank(p)
        \/ Stop \/ Die \/ Restart

Spec == Init /\ [][Next]_<<result, phase>>
=============================================================================
