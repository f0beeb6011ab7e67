---------------------------- MODULE MCStraceLog ----------------------------
(* Instances of StraceLog for TLC. *)
EXTENDS StraceLog, TLC

MCSymmetry == Permutations(Proc)

\* Plain output; each mention alone; an error message that quotes a library,
\* one that says a library is not there, and one about a crate.
MCNoise == {{}, {"quoted"}, {"lib"}, {"drop"}, {"cache"}, {"quoted", "lib"},
            {"lib", "drop"}, {"crate", "quoted", "cache"}}
=============================================================================
