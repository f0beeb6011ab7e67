--------------------------- MODULE MCCollectLoops ---------------------------
(* Instances of CollectLoops for TLC: b, in the middle, may be barred. *)
EXTENDS CollectLoops

MCSubDir == {"a/lib"}
MCRoot   == [s \in MCSubDir |-> "a"]
MCRank   == [p \in Entry |-> IF p = "*" THEN 0 ELSE IF p = "a" THEN 1
                             ELSE IF p = "b" THEN 2 ELSE 3]

\* Two versions of the projects: x is dropped from a and replaced in c.
MCDeps ==
  {[d \in Dir |-> IF d = "a" THEN {"x", "y"} ELSE IF d = "c" THEN {"x"} ELSE {}],
   [d \in Dir |-> IF d # "b" THEN {"y"} ELSE {}]}
=============================================================================
