---------------------------- MODULE AttestProofs ----------------------------
(***************************************************************************)
(* Proof that the attestation explains its product, for any number of      *)
(* packages, registry directories, runs and changes.                       *)
(***************************************************************************)
EXTENDS Attest, TLAPS

\* A package nobody touched is where it was downloaded, and what the product
\* took from it is still there.
UntouchedInv ==
  /\ \A p \in Pkg : at[p] = None => p \in touched
  /\ \A u \in product : u.pkg \in touched \/ u.ver = ver[u.pkg]

\* A whole list names what the product, and so the next build, is compiled
\* from, but for what was touched since.
ListInv ==
  /\ \A p \in deps : p \in touched \/ \E u \in product : u.pkg = p
  /\ whole => Covers(list \cup touched)

\* p's material has been recorded, or could not be found.
Recorded(p) ==
  \/ [pkg |-> p, ver |-> ver[p]] \in materials
  \/ p \in touched
  \/ at[p] # root
  \/ lang = "go" /\ p \in Mixed

RecordInv ==
  /\ pc \in {"record", "sign"} => \A p \in list \ paths : Recorded(p)
  /\ pc = "sign" => paths = {}

Inv == TypeOK /\ UntouchedInv /\ ListInv /\ RecordInv /\ ProductExplained

-----------------------------------------------------------------------------
LEMMA InitInv == Init => Inv
<1> SUFFICES ASSUME Init PROVE Inv OBVIOUS
<1> USE AttestAssumption DEF Init
<1>1. TypeOK BY DEF TypeOK, Homes, Root, Running, Piece
<1>2. UntouchedInv BY DEF UntouchedInv, Homes, Root
<1>3. ListInv
  <2>1. ASSUME NEW p \in deps PROVE \E u \in product : u.pkg = p
    <3>1. [pkg |-> p, ver |-> 0] \in product OBVIOUS
    <3> QED BY <3>1
  <2>2. whole => Covers(list \cup touched) BY DEF Covers
  <2> QED BY <2>1, <2>2 DEF ListInv
<1>4. RecordInv /\ ProductExplained
  BY DEF RecordInv, ProductExplained
<1> QED BY <1>1, <1>2, <1>3, <1>4 DEF Inv

LEMMA TypeStep == TypeOK /\ [Next]_vars => TypeOK'
<1> SUFFICES ASSUME TypeOK, [Next]_vars PROVE TypeOK' OBVIOUS
<1> USE AttestAssumption DEF TypeOK, world, script, past, Running, Homes
<1>1. CASE FindRoot
  BY <1>1 DEF FindRoot, Root
<1>2. CASE ReadList
  BY <1>2 DEF ReadList
<1>3. CASE RecordMaterial
  BY <1>3 DEF RecordMaterial, Piece
<1>4. CASE Build
  <2>1. /\ at' \in [Pkg -> Index \cup {GoMod, None}] /\ ver' \in [Pkg -> Nat]
        /\ product' \subseteq Piece
    BY <1>4 DEF Build, Compiled, Piece
  <2> QED BY <1>4, <2>1 DEF Build
<1>5. CASE Sign
  BY <1>5 DEF Sign, Link
<1>6. CASE Crash \/ StartAgain
  BY <1>6 DEF Crash, StartAgain
<1>7. ASSUME NEW p \in Pkg, Change(p) PROVE TypeOK'
  <2>1. /\ at' \in [Pkg -> Index \cup {GoMod, None}] /\ ver' \in [Pkg -> Nat]
        /\ changes' \in 0..MaxChanges
    BY <1>7 DEF Change
  <2> QED BY <1>7, <2>1 DEF Change
<1>8. CASE Edit
  BY <1>8 DEF Edit
<1>9. CASE CollectAgain
  <2>1. at' \in [Pkg -> Index \cup {GoMod, None}] /\ ver' \in [Pkg -> Nat]
    BY <1>9 DEF CollectAgain
  <2>2. product' \subseteq Piece
    BY <1>9, <2>1 DEF CollectAgain, Compiled, Piece
  <2>3. changes' \in 0..MaxChanges
    BY <1>9 DEF CollectAgain
  <2> QED BY <1>9, <2>1, <2>2, <2>3 DEF CollectAgain
<1>10. CASE CombineAgain
  BY <1>10 DEF CombineAgain
<1>11. CASE UNCHANGED vars
  BY <1>11 DEF vars
<1> QED BY <1>1, <1>2, <1>3, <1>4, <1>5, <1>6, <1>7, <1>8, <1>9, <1>10,
          <1>11
        DEF Next, Step

\* A download touches no package that is there, and so none of the product.
LEMMA UntouchedStep == TypeOK /\ UntouchedInv /\ [Next]_vars => UntouchedInv'
<1> SUFFICES ASSUME TypeOK, UntouchedInv, [Next]_vars PROVE UntouchedInv'
  OBVIOUS
<1> USE DEF UntouchedInv, world, script, past
<1>1. CASE FindRoot \/ ReadList \/ RecordMaterial \/ Sign \/ Crash \/ StartAgain
  BY <1>1 DEF FindRoot, ReadList, RecordMaterial, Sign, Crash, StartAgain
<1>2. CASE Build \/ CollectAgain
  BY <1>2, AttestAssumption
     DEF Build, CollectAgain, Compiled, TypeOK, Piece, Homes, Root
<1>3. ASSUME NEW p \in Pkg, Change(p) PROVE UntouchedInv'
  BY <1>3 DEF Change, TypeOK, Piece
<1>4. CASE Edit \/ CombineAgain
  BY <1>4 DEF Edit, CombineAgain
<1>5. CASE UNCHANGED vars
  BY <1>5 DEF vars
<1> QED BY <1>1, <1>2, <1>3, <1>4, <1>5 DEF Next, Step

\* What a build adds to the product is on the list, or was touched with deps.
LEMMA ListStep == TypeOK /\ ListInv /\ [Next]_vars => ListInv'
<1> SUFFICES ASSUME TypeOK, ListInv, [Next]_vars PROVE ListInv' OBVIOUS
<1> USE DEF ListInv, Covers, world, script, past
<1>1. CASE FindRoot \/ ReadList \/ RecordMaterial \/ Sign \/ Crash \/ StartAgain
  BY <1>1 DEF FindRoot, ReadList, RecordMaterial, Sign, Crash, StartAgain
<1>2. CASE Build \/ CollectAgain
  <2>1. /\ deps' = deps /\ touched' = touched /\ list' = list
        /\ whole' => whole
        /\ product' = product \/ product' = Compiled(deps)
    BY <1>2 DEF Build, CollectAgain, TypeOK
  <2>2. CASE product' = product BY <2>1, <2>2
  <2>3. CASE product' = Compiled(deps)
    <3>1. \A u \in product' : u.pkg \in deps BY <2>3 DEF Compiled
    <3>2. ASSUME NEW p \in deps PROVE \E u \in product' : u.pkg = p
      <4>1. [pkg |-> p, ver |-> ver'[p]] \in product' BY <2>3 DEF Compiled
      <4> QED BY <4>1
    <3> QED BY <2>1, <3>1, <3>2
  <2> QED BY <2>1, <2>2, <2>3
<1>3. CASE CombineAgain
  BY <1>3 DEF CombineAgain
<1>4. ASSUME NEW p \in Pkg, Change(p) PROVE ListInv'
  BY <1>4 DEF Change
<1>5. CASE Edit
  BY <1>5 DEF Edit
<1>6. CASE UNCHANGED vars
  BY <1>6 DEF vars
<1> QED BY <1>1, <1>2, <1>3, <1>4, <1>5, <1>6 DEF Next, Step

\* What was recorded of a package stays true until somebody touches it.
LEMMA RecordStep ==
  TypeOK /\ UntouchedInv /\ RecordInv /\ [Next]_vars => RecordInv'
<1> SUFFICES ASSUME TypeOK, UntouchedInv, RecordInv, [Next]_vars
             PROVE  RecordInv'
  OBVIOUS
<1> USE DEF RecordInv, world, script, past
<1>1. CASE FindRoot \/ ReadList \/ Crash \/ StartAgain
  BY <1>1 DEF FindRoot, ReadList, Crash, StartAgain
<1>2. CASE RecordMaterial
  BY <1>2 DEF RecordMaterial, Recorded, Found
<1>3. CASE Build
  <2>1. \A p \in Pkg : p \in touched \/ (at'[p] = at[p] /\ ver'[p] = ver[p])
    BY <1>3 DEF Build, UntouchedInv, TypeOK
  <2>2. \A p \in Pkg : Recorded(p) => Recorded(p)'
    BY <1>3, <2>1 DEF Build, Recorded
  <2> QED BY <1>3, <2>2 DEF Build, TypeOK
<1>4. CASE Sign
  BY <1>4 DEF Sign
<1>5. ASSUME NEW q \in Pkg, Change(q) PROVE RecordInv'
  <2>1. \A p \in Pkg : p \in touched' \/ (at'[p] = at[p] /\ ver'[p] = ver[p])
    BY <1>5 DEF Change, TypeOK
  <2>2. \A p \in Pkg : Recorded(p) => Recorded(p)'
    BY <1>5, <2>1 DEF Change, Recorded
  <2> QED BY <1>5, <2>2 DEF Change, TypeOK
<1>6. CASE Edit
  BY <1>6 DEF Edit, Recorded
<1>7. CASE CollectAgain \/ CombineAgain
  BY <1>7 DEF CollectAgain, CombineAgain, Running
<1>8. CASE UNCHANGED vars
  BY <1>8 DEF vars, Recorded
<1> QED BY <1>1, <1>2, <1>3, <1>4, <1>5, <1>6, <1>7, <1>8 DEF Next, Step

\* Signing puts together what the invariant says of product and materials;
\* nothing that happens to the world afterwards makes the link untrue.
LEMMA ExplainedStep == Inv /\ [Next]_vars => ProductExplained'
<1> SUFFICES ASSUME Inv, [Next]_vars PROVE ProductExplained' OBVIOUS
<1> USE DEF Inv, world, script, past
<1>1. CASE Sign
  <2>1. ASSUME NEW u \in product
        PROVE  \/ u.pkg \in touched
               \/ Recorded(u.pkg) /\ u.ver = ver[u.pkg]
               \/ u.pkg \notin list /\ ~whole
    BY <1>1, <2>1 DEF Sign, UntouchedInv, ListInv, Covers, RecordInv
  <2>2. \A u \in product : u = [pkg |-> u.pkg, ver |-> u.ver]
    BY DEF TypeOK, Piece
  <2> QED BY <1>1, <2>1, <2>2 DEF Sign, Recorded, ProductExplained
<1>2. ASSUME link' = link, lang' = lang, touched \subseteq touched',
             \A p \in Pkg : p \in touched' \/ at'[p] = at[p]
      PROVE  ProductExplained'
  <2>1. link # None => \A u \in link.product : u.pkg \in Pkg
    BY DEF TypeOK, Link, Piece
  <2> QED BY <1>2, <2>1 DEF ProductExplained
<1>3. CASE FindRoot \/ ReadList \/ RecordMaterial \/ Crash \/ StartAgain
  BY <1>2, <1>3 DEF FindRoot, ReadList, RecordMaterial, Crash, StartAgain
<1>4. CASE Build \/ CollectAgain
  BY <1>2, <1>4 DEF Build, CollectAgain, UntouchedInv, TypeOK
<1>5. ASSUME NEW p \in Pkg, Change(p) PROVE ProductExplained'
  BY <1>2, <1>5 DEF Change, TypeOK
<1>6. CASE Edit \/ CombineAgain
  BY <1>2, <1>6 DEF Edit, CombineAgain
<1>7. CASE UNCHANGED vars
  BY <1>2, <1>7 DEF vars
<1> QED BY <1>1, <1>3, <1>4, <1>5, <1>6, <1>7 DEF Next, Step

LEMMA Invariance == Spec => []Inv
<1>1. Inv /\ [Next]_vars => Inv'
  BY TypeStep, UntouchedStep, ListStep, RecordStep, ExplainedStep DEF Inv
<1> QED BY <1>1, InitInv, PTL DEF Spec

-----------------------------------------------------------------------------
\* The cache, the list, the script's memory and the link keep their types.
THEOREM TypeCorrect == Spec => []TypeOK
<1>1. Inv => TypeOK BY DEF Inv
<1> QED BY <1>1, Invariance, PTL

\* Every signed product is explained by the materials signed with it, as far
\* as the list the script read names what it was compiled from.
THEOREM ProductsAreExplained == Spec => []ProductExplained
<1>1. Inv => ProductExplained BY DEF Inv
<1> QED BY <1>1, Invariance, PTL
=============================================================================
