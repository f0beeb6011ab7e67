----------------------------- MODULE MCNewSboms -----------------------------
(* Instances of NewSboms for TLC. *)
EXTENDS NewSboms

Named(name, version) == [name |-> name, version |-> version]
MyLib == Named(<<"my", "lib">>, <<"1.0", "rc">>)   \* my-lib-1.0-rc
Dep   == Named(<<"dep">>, <<"2.0">>)
Sha   == Named(<<"sha", "1">>, <<"0.10.0">>)   \* sha-1-0.10.0
Bare  == Named(<<"x">>, <<>>)                  \* no version

\* Of a, nothing is plain; of b, everything.  sha-1 is a substring of a
\* replacement in a's go.mod.
MCPackage == {MyLib, Dep, Sha, Bare}
MCRank    == [p \in Project |-> IF p = "a" THEN 1 ELSE 2]
MCUses    == [p \in Project |-> IF p = "a" THEN {Sha, Bare} ELSE {MyLib}]
MCOrig    == [p \in Project |-> IF p = "a" THEN {Dep} ELSE {}]
MCHidden  == [p \in Project |-> IF p = "a" THEN {FromPurl(Sha)} ELSE {}]
=============================================================================
