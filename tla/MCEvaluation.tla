---------------------------- MODULE MCEvaluation ----------------------------
(* Instances of Evaluation for TLC. *)
EXTENDS Evaluation, SequencesExt

Order == <<Star, "a", "b">>
Place(n) == CHOOSE k \in DOMAIN Order : Order[k] = n
MCListing ==
  [S \in SUBSET Name |-> SetToSortSeq(S, LAMBDA p, q : Place(p) < Place(q))]

\* x is named in most binaries; y has the name of project a in it.
MCContents == {{}, {"x"}, {"x", "y"}}
MCMentions == [n \in Name |-> IF n = "a" THEN {"y"} ELSE {}]

\* a's file names x and perhaps y; b's names x, or is broken.
\* *-pkg.txt is the first of a complete folder.
MCLefts ==
  {l \in [mode : {"sbom", "pkgs"}, names : SUBSET Name, broken : SUBSET {"b"},
          lines : {[n \in Name |-> CASE n = "a" -> A [] n = "b" -> {"x"}
                                     [] OTHER -> {}] : A \in {{"x"}, Pkg}}] :
     /\ l.mode = "pkgs" => l.broken = {}
     /\ l.mode = "sbom" => Star \notin l.names
     /\ l.broken \subseteq l.names /\ l.names \cap Project # {}
     /\ Star \in l.names => Project \subseteq l.names}
=============================================================================
