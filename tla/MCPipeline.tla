----------------------------- MODULE MCPipeline -----------------------------
(* Instances of Pipeline for TLC. *)
EXTENDS Pipeline

\* * sorts before every letter.
MCRank == [n \in Name |-> CASE n = "*" -> 0 [] n = "a" -> 1 [] n = "b" -> 2]
=============================================================================
