--------------------------- MODULE MCCombinePkgs ---------------------------
(* Instances of CombinePkgs for TLC. *)
EXTENDS CombinePkgs, FiniteSets, SequencesExt

\* "a-strace.txt", a log a killed collection left behind, sorts after "a".
Order == <<"a", "a-strace.txt", "b", "c">>
Place(p) == CHOOSE k \in DOMAIN Order : Order[k] = p
MCListing ==
  [S \in SUBSET Name |-> SetToSortSeq(S, LAMBDA p, q : Place(p) < Place(q))]

\* Every file holds a line of its own; pkg and bin share one per project.
MCLine     == {"sbom", "both"} \X Name
MCRefs     == [p \in Name |-> {<<"sbom", p>>}]
MCPkgLines == [p \in Name |-> {<<"both", p>>}]
MCBinLines == [p \in Name |-> {<<"both", p>>}]

Plain == {"a", "b", "c"} \cap Name

\* Every combination of folders, some SBOMs malformed; strays appear among
\* the package files only.  A later run meets any other combination.
AnyFolders ==
  {f \in [sboms : SUBSET Plain, pkgs : SUBSET Name, bins : SUBSET Plain,
          broken : SUBSET Plain] : f.broken \subseteq f.sboms}
=============================================================================
