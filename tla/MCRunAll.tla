------------------------------ MODULE MCRunAll ------------------------------
(* Instances of RunAll for TLC. *)
EXTENDS RunAll

MCSubDir == {"a/lib", "a/v2/lib"}
MCRoot   == [s \in MCSubDir |-> "a"]
MCBase   == [s \in MCSubDir |-> "lib"]     \* two subdirectories, one basename
MCRank   == [p \in Entry |-> CASE p = "*" -> 0 [] p = "a" -> 1
                               [] p = "b" -> 2 [] OTHER -> 3]

\* Two versions of the projects: x is dropped from a and appears in b.
MCDeps ==
  {[d \in Dir |-> CASE d = "a" -> {"x"} [] d = "a/lib" -> {"y"}
                    [] d = "b" -> {"y"} [] OTHER -> {}],
   [d \in Dir |-> CASE d = "b" -> {"x"} [] OTHER -> {}]}

\* Three projects to stray along, one with a directory of test data.
CwdSubDir == {"b/testdata"}
CwdRoot   == [s \in CwdSubDir |-> "b"]
CwdBase   == [s \in CwdSubDir |-> "testdata"]
CwdDeps   == {[d \in Dir |-> CASE d = "a" -> {"x"} [] d = "c" -> {"z"}
                               [] OTHER -> {"y"}]}
=============================================================================
