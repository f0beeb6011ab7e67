------------------------- MODULE CombinePkgsProofs -------------------------
(* Theorems about CombinePkgs, for every set of names, every contents of the *)
(* files and every order the listings may come in.                           *)
EXTENDS CombinePkgs, TLAPS

-----------------------------------------------------------------------------
(* Indexing the arrays. *)

\* "${files[i]}" inside the array is one of its names.
LEMMA AtName ==
  ASSUME NEW files \in Seq(Name), NEW k \in Nat \ {0}
  PROVE  /\ k <= Len(files) => At(files, k) \in Name
         /\ At(files, k) # None => At(files, k) \in Name
BY DEF At

\* The steps between the guard and the next iteration work on a project.
Visiting == {"open", "python", "print", "say"}

-----------------------------------------------------------------------------
(* Type correctness, with the fact it needs: inside the loop's body the      *)
(* index is within the array of SBOM files.                                  *)

InBody  == pc \in Visiting => i <= Len(sbomFiles)
TypeInv == TypeOK /\ InBody

LEMMA CurName == ASSUME TypeInv, pc \in Visiting PROVE Cur \in Name
BY AtName DEF TypeInv, TypeOK, InBody, Cur

\* What is printed are lines.
LEMMA UnionLines ==
  ASSUME TypeInv, pc \in Visiting, CurPkg # None, CurBin # None
  PROVE  Union \subseteq Line
<1>1. Cur \in Name /\ CurPkg \in Name /\ CurBin \in Name
  BY CurName, AtName DEF TypeInv, TypeOK, CurPkg, CurBin
<1>2. QED
  BY <1>1, CombineAssumption DEF Union

LEMMA InitType == Init => TypeInv
BY CombineAssumption
DEF Init, TypeInv, TypeOK, InBody, Running, Visiting

\* When python3 prints, no file was missing.
Printable == pc = "print" => CurPkg # None /\ CurBin # None /\ Cur \notin broken

LEMMA StepType == TypeInv /\ Printable /\ [Next]_vars => (TypeInv /\ Printable)'
<1> SUFFICES ASSUME TypeInv, Printable, [Next]_vars
             PROVE  (TypeInv /\ Printable)'
  OBVIOUS
<1> USE DEF vars, folders, arrays, Running, Visiting
<1>1. CASE List
  <2>1. /\ sbomFiles' \in Seq(Name) /\ pkgFiles' \in Seq(Name)
        /\ binFiles' \in Seq(Name)
    BY <1>1, CombineAssumption DEF List, TypeInv, TypeOK
  <2>2. QED
    BY <1>1, <2>1 DEF List, TypeInv, TypeOK, InBody, Printable
<1>2. CASE Guard
  <2>1. Cur \in Name
    BY <1>2, AtName DEF Guard, TypeInv, TypeOK, Cur
  <2>2. QED
    BY <1>2, <2>1 DEF Guard, TypeInv, TypeOK, InBody, Printable
<1>3. CASE LoopDone
  BY <1>3 DEF LoopDone, TypeInv, TypeOK, InBody, Printable
<1>4. CASE Open
  BY <1>4 DEF Open, TypeInv, TypeOK, InBody, Printable
<1>5. CASE Python
  BY <1>5 DEF Python, TypeInv, TypeOK, InBody, Printable, Raises, Cur, CurPkg,
              CurBin, At
<1>6. CASE PrintItem
  <2>1. PICK x \in Union : out' = [out EXCEPT ![Cur] = @ \cup {x}]
    BY <1>6 DEF PrintItem
  <2>2. x \in Line
    BY <1>6, <2>1, UnionLines DEF PrintItem, Printable
  <2>3. out' \in [Name -> SUBSET Line]
    BY <2>1, <2>2 DEF TypeInv, TypeOK
  <2>4. QED
    BY <1>6, <2>3 DEF PrintItem, TypeInv, TypeOK, InBody, Printable, Cur,
                      CurPkg, CurBin, At
<1>7. CASE PrintDone
  BY <1>7 DEF PrintDone, TypeInv, TypeOK, InBody, Printable
<1>8. CASE Say
  <2>1. Cur \in Name
    BY <1>8, CurName DEF Say
  <2>2. QED
    BY <1>8, <2>1 DEF Say, TypeInv, TypeOK, InBody, Printable
<1>9. CASE Crash
  BY <1>9 DEF Crash, TypeInv, TypeOK, InBody, Printable
<1>10. CASE StartAgain
  <2>1. /\ sboms' \subseteq Name /\ pkgs' \subseteq Name
        /\ bins' \subseteq Name /\ broken' \subseteq Name
    BY <1>10, CombineAssumption DEF StartAgain
  <2>2. QED
    BY <1>10, <2>1 DEF StartAgain, TypeInv, TypeOK, InBody, Printable
<1>11. CASE UNCHANGED vars
  BY <1>11 DEF TypeInv, TypeOK, InBody, Printable, Cur, CurPkg, CurBin, At
<1>12. QED
  BY <1>1, <1>2, <1>3, <1>4, <1>5, <1>6, <1>7, <1>8, <1>9, <1>10, <1>11
  DEF Next, Step

\* The arrays, the outputs and the index keep their types.
THEOREM TypeCorrect == Spec => []TypeOK
<1>1. Init => TypeInv /\ Printable
  BY InitType DEF Init, Printable
<1>2. TypeInv /\ Printable => TypeOK
  BY DEF TypeInv
<1>3. QED BY <1>1, <1>2, StepType, PTL DEF Spec

-----------------------------------------------------------------------------
(* No mixing, and the shape of the output being made.  Only the guard stands *)
(* between a positional pair and another project's file, so the invariant    *)
(* carries what it found until the print.                                    *)

Paired   == pc \in Visiting => Matches
Emptied  == pc = "python" => out[Cur] = {}
MixInv   == TypeInv /\ Printable /\ Paired /\ Emptied /\ NoMixing

\* A printable pair that passed the guard is made of the project's own files.
LEMMA UnionIsEvidence ==
  ASSUME MixInv, pc \in {"python", "print"},
         CurPkg # None, CurBin # None
  PROVE  Cur \in Name /\ Union = Evidence[Cur]
<1>1. CurPkg = Cur /\ CurBin = Cur
  BY DEF MixInv, Paired, Matches, Visiting
<1>2. Cur \in Name
  BY CurName DEF MixInv, Visiting
<1>3. QED BY <1>1, <1>2 DEF Union, Evidence

\* A step that moves neither the index nor the arrays keeps what they select.
LEMMA SameSelection ==
  ASSUME UNCHANGED <<i, arrays>>
  PROVE  /\ Cur' = Cur /\ CurPkg' = CurPkg /\ CurBin' = CurBin
         /\ Matches' = Matches /\ Union' = Union
BY DEF arrays, Cur, CurPkg, CurBin, At, Matches, Union

LEMMA InitMix == Init => MixInv
BY InitType DEF Init, MixInv, Printable, Paired, Emptied, NoMixing, Visiting

LEMMA StepMix == MixInv /\ [Next]_vars => MixInv'
<1> SUFFICES ASSUME MixInv, [Next]_vars PROVE (Paired /\ Emptied /\ NoMixing)'
  BY StepType DEF MixInv
<1>0. TypeOK /\ TypeInv
  BY DEF MixInv, TypeInv
<1> USE DEF vars, folders, Running, Visiting
<1>1. CASE List
  BY <1>1 DEF List, MixInv, Paired, Emptied, NoMixing
<1>2. CASE Guard
  <2>1. UNCHANGED <<i, arrays, out>> /\ pc' = IF Matches THEN "open" ELSE "error"
    BY <1>2 DEF Guard
  <2>2. QED
    BY <2>1, SameSelection DEF MixInv, Paired, Emptied, NoMixing
<1>3. CASE LoopDone
  BY <1>3 DEF LoopDone, MixInv, Paired, Emptied, NoMixing
<1>4. CASE Open
  <2>1. /\ UNCHANGED <<i, arrays>> /\ pc = "open" /\ pc' = "python"
        /\ out' = [out EXCEPT ![Cur] = {}]
    BY <1>4 DEF Open
  <2>2. Cur \in Name
    BY <1>0, <2>1, CurName
  <2>3. QED
    BY <1>0, <2>1, <2>2, SameSelection
    DEF MixInv, Paired, Emptied, NoMixing, TypeOK
<1>5. CASE Python
  <2>1. /\ UNCHANGED <<i, arrays, out>> /\ pc = "python"
        /\ pc' = IF Raises THEN "say" ELSE "print"
    BY <1>5 DEF Python
  <2>2. QED
    BY <2>1, SameSelection DEF MixInv, Paired, Emptied, NoMixing
<1>6. CASE PrintItem
  <2>1. /\ UNCHANGED <<pc, i, arrays>> /\ pc = "print"
    BY <1>6 DEF PrintItem
  <2>2. PICK x \in Union : out' = [out EXCEPT ![Cur] = @ \cup {x}]
    BY <1>6 DEF PrintItem
  <2>3. Cur \in Name /\ x \in Evidence[Cur]
    BY <2>1, <2>2, UnionIsEvidence DEF MixInv, Printable
  <2>4. QED
    BY <1>0, <2>1, <2>2, <2>3, SameSelection
    DEF MixInv, Paired, Emptied, NoMixing, TypeOK
<1>7. CASE PrintDone
  <2>1. UNCHANGED <<i, arrays, out>> /\ pc = "print" /\ pc' = "say"
    BY <1>7 DEF PrintDone
  <2>2. QED
    BY <2>1, SameSelection DEF MixInv, Paired, Emptied, NoMixing
<1>8. CASE Say
  BY <1>8 DEF Say, MixInv, Paired, Emptied, NoMixing
<1>9. CASE Crash
  BY <1>9 DEF Crash, MixInv, Paired, Emptied, NoMixing
<1>10. CASE StartAgain
  BY <1>10 DEF StartAgain, MixInv, Paired, Emptied, NoMixing
<1>11. CASE UNCHANGED vars
  <2>1. UNCHANGED <<pc, i, arrays, out>>
    BY <1>11
  <2>2. QED
    BY <2>1, SameSelection DEF MixInv, Paired, Emptied, NoMixing
<1>12. QED
  BY <1>1, <1>2, <1>3, <1>4, <1>5, <1>6, <1>7, <1>8, <1>9, <1>10, <1>11
  DEF Next, Step

\* Whatever the folders hold, and however often the script was killed and
\* started again, no project's output names a line of another's files.
THEOREM PairingNeverMixes == Spec => []NoMixing
<1>1. MixInv => NoMixing
  BY DEF MixInv
<1>2. QED BY <1>1, InitMix, StepMix, PTL DEF Spec

-----------------------------------------------------------------------------
(* The script implements EvidenceUnion. *)

LEMMA InitRefines == Init => Abs!Init
BY DEF Init, Abs!Init, Result, Phase, Running

LEMMA StepRefines ==
  MixInv /\ MixInv' /\ [Next]_vars => [Abs!Next]_<<Result, Phase>>
<1> SUFFICES ASSUME MixInv, MixInv', [Next]_vars
             PROVE  [Abs!Next]_<<Result, Phase>>
  OBVIOUS
<1>0. TypeOK /\ TypeInv /\ out \in [Name -> SUBSET Line]
  BY DEF MixInv, TypeInv, TypeOK
<1> USE DEF vars, folders, Running, Visiting
<1>1. CASE List
  BY <1>1 DEF List, Result, Phase
<1>2. CASE Guard
  <2>1. CASE Matches
    BY <1>2, <2>1 DEF Guard, Result, Phase
  <2>2. CASE ~Matches
    <3>1. Result' = Result /\ Phase = "working" /\ Phase' = "stopped"
      BY <1>2, <2>2 DEF Guard, Result, Phase
    <3>2. QED BY <3>1 DEF Abs!Next, Abs!Stop
  <2>3. QED BY <2>1, <2>2
<1>3. CASE LoopDone
  <2>1. Result' = Result /\ Phase = "working" /\ Phase' = "stopped"
    BY <1>3 DEF LoopDone, Result, Phase
  <2>2. QED BY <2>1 DEF Abs!Next, Abs!Stop
<1>4. CASE Open
  <2>1. pc = "open" /\ pc' = "python" /\ out' = [out EXCEPT ![Cur] = {}]
    BY <1>4 DEF Open
  <2>2. Cur \in Name
    BY <1>0, <2>1, CurName
  <2>3. Result' = [Result EXCEPT ![Cur] = {}] /\ Phase = "working"
        /\ Phase' = Phase
    BY <2>1 DEF Result, Phase
  <2>4. QED BY <2>2, <2>3 DEF Abs!Next, Abs!Blank
<1>5. CASE Python
  <2>1. /\ UNCHANGED <<i, arrays, out>> /\ pc = "python"
        /\ pc' \in {"say", "print"}
    BY <1>5 DEF Python
  <2>2. Phase' = Phase
    BY <2>1 DEF Phase
  <2>3. [out EXCEPT ![Cur] = {}] = out
    BY <1>0, <2>1, CurName DEF MixInv, Emptied
  <2>4. Result' = Result
    BY <2>1, <2>3, SameSelection DEF Result
  <2>5. QED BY <2>2, <2>4
<1>6. CASE PrintItem
  <2>1. /\ UNCHANGED <<pc, i, arrays>> /\ pc = "print"
    BY <1>6 DEF PrintItem
  <2>2. PICK x \in Union : out' = [out EXCEPT ![Cur] = @ \cup {x}]
    BY <1>6 DEF PrintItem
  <2>3. [out' EXCEPT ![Cur] = {}] = [out EXCEPT ![Cur] = {}]
    BY <1>0, <2>2
  <2>4. Result' = Result
    BY <2>1, <2>3, SameSelection DEF Result
  <2>5. Phase' = Phase
    BY <2>1 DEF Phase
  <2>6. QED BY <2>4, <2>5
<1>7. CASE PrintDone
  <2>1. /\ UNCHANGED <<i, arrays, out>> /\ pc = "print" /\ pc' = "say"
        /\ Union \subseteq out[Cur]
    BY <1>7 DEF PrintDone
  <2>2. Cur \in Name /\ Union = Evidence[Cur]
    BY <2>1, UnionIsEvidence DEF MixInv, Printable
  <2>3. out[Cur] = Evidence[Cur]
    BY <2>1, <2>2 DEF MixInv, NoMixing
  <2>4. Result = [out EXCEPT ![Cur] = {}] /\ Result' = out
    BY <2>1 DEF Result
  <2>5. Result' = [Result EXCEPT ![Cur] = Evidence[Cur]]
    BY <1>0, <2>2, <2>3, <2>4
  <2>6. Phase = "working" /\ Phase' = Phase
    BY <2>1 DEF Phase
  <2>7. QED BY <2>2, <2>5, <2>6 DEF Abs!Next, Abs!Publish
<1>8. CASE Say
  BY <1>8 DEF Say, Result, Phase
<1>9. CASE Crash
  <2>1. /\ pc \in Running /\ pc' = "crashed" /\ UNCHANGED <<i, arrays, out>>
    BY <1>9 DEF Crash
  <2>2. Phase = "working" /\ Phase' = "dead" /\ Result' = out
    BY <2>1 DEF Phase, Result
  <2>3. CASE pc = "print"
    <3>1. Cur \in Name /\ out[Cur] \in SUBSET Evidence[Cur]
      BY <1>0, <2>3, CurName DEF MixInv, NoMixing
    <3>2. Result' = [Result EXCEPT ![Cur] = out[Cur]]
      BY <1>0, <2>2, <2>3, <3>1 DEF Result
    <3>3. QED BY <2>2, <3>1, <3>2 DEF Abs!Next, Abs!Die
  <2>4. CASE pc # "print"
    BY <2>2, <2>4 DEF Result, Abs!Next, Abs!Die
  <2>5. QED BY <2>3, <2>4
<1>10. CASE StartAgain
  <2>1. pc \notin Running /\ pc' = "list" /\ out' = out
    BY <1>10 DEF StartAgain
  <2>2. Phase # "working" /\ Phase' = "working" /\ Result' = Result
    BY <2>1 DEF Phase, Result
  <2>3. QED BY <2>2 DEF Abs!Next, Abs!Restart
<1>11. CASE UNCHANGED vars
  <2>1. UNCHANGED <<pc, i, arrays, out>>
    BY <1>11
  <2>2. QED BY <2>1, SameSelection DEF Result, Phase
<1>12. QED
  BY <1>1, <1>2, <1>3, <1>4, <1>5, <1>6, <1>7, <1>8, <1>9, <1>10, <1>11
  DEF Next, Step

\* Every run of the script is a run of EvidenceUnion: while it is not killed
\* each project's output is blank or its whole evidence.
THEOREM Refinement == Spec => KeepsPromise
<1>1. QED
  BY InitMix, StepMix, InitRefines, StepRefines, PTL
  DEF Spec, KeepsPromise, Abs!Spec

-----------------------------------------------------------------------------
(* Completeness of a run over folders that agree. *)

Aligned == sboms = pkgs /\ pkgs = bins /\ broken = {}
Walking == Visiting \cup {"guard", "ok"}

\* The three arrays are then one, and the projects before the index are done.
Progress ==
  /\ pc = "list" => i = 1
  /\ pc = "ok" => i > Len(sbomFiles)
  /\ Aligned /\ pc \in Walking =>
       /\ sbomFiles = Listing[sboms]
       /\ pkgFiles = sbomFiles /\ binFiles = sbomFiles
       /\ \A j \in 1..Len(sbomFiles) :
            j < i => out[sbomFiles[j]] = Evidence[sbomFiles[j]]
       /\ pc = "say" => out[Cur] = Evidence[Cur]

DoneInv == MixInv /\ Progress

\* Writing the current project's output leaves those before it alone.
LEMMA OthersKept ==
  ASSUME DoneInv, Aligned, pc \in Visiting, NEW lines \in SUBSET Line,
         NEW j \in 1..Len(sbomFiles), j < i
  PROVE  [out EXCEPT ![Cur] = lines][sbomFiles[j]] = out[sbomFiles[j]]
<1>1. i \in 1..Len(sbomFiles) /\ Cur = sbomFiles[i]
  BY DEF DoneInv, MixInv, TypeInv, TypeOK, InBody, Cur, At
<1>2. sbomFiles = Listing[sboms] /\ sboms \in SUBSET Name
  BY DEF DoneInv, MixInv, TypeInv, TypeOK, Progress, Walking, Visiting
<1>3. sbomFiles[j] # sbomFiles[i]
  BY <1>1, <1>2, CombineAssumption
<1>4. QED BY <1>1, <1>3 DEF DoneInv, MixInv, TypeInv, TypeOK

\* With one array for all three folders nothing makes combine_pkgs.py raise.
LEMMA AlignedReadable ==
  ASSUME DoneInv, Aligned, pc \in Visiting
  PROVE  CurPkg = Cur /\ CurBin = Cur /\ ~Raises
<1>1. CurPkg = Cur /\ CurBin = Cur
  BY DEF DoneInv, Progress, Walking, Visiting, Cur, CurPkg, CurBin
<1>2. Cur \in Name
  BY CurName DEF DoneInv, MixInv
<1>3. QED BY <1>1, <1>2, CombineAssumption DEF Raises, Aligned

LEMMA StepDone == DoneInv /\ [Next]_vars => DoneInv'
<1> SUFFICES ASSUME DoneInv, [Next]_vars PROVE Progress'
  BY StepMix DEF DoneInv
<1>0. TypeOK /\ TypeInv /\ MixInv
  BY DEF DoneInv, MixInv, TypeInv
<1> USE DEF vars, folders, Running, Visiting, Walking
<1>1. CASE List
  <2>1. /\ UNCHANGED <<folders, i, out>> /\ pc = "list" /\ pc' = "guard"
        /\ sbomFiles' = Listing[sboms] /\ pkgFiles' = Listing[pkgs]
        /\ binFiles' = Listing[bins]
    BY <1>1 DEF List
  <2>2. i' = 1
    BY <2>1 DEF DoneInv, Progress
  <2>3. QED
    BY <2>1, <2>2 DEF Progress, Aligned
<1>2. CASE Guard
  <2>1. /\ UNCHANGED <<folders, i, arrays, out>> /\ pc = "guard"
        /\ pc' \in {"open", "error"}
    BY <1>2 DEF Guard
  <2>2. QED
    BY <2>1 DEF DoneInv, Progress, Aligned, arrays
<1>3. CASE LoopDone
  BY <1>0, <1>3 DEF LoopDone, DoneInv, Progress, Aligned, arrays
<1>4. CASE Open
  <2>1. /\ UNCHANGED <<folders, i, arrays>> /\ pc = "open" /\ pc' = "python"
        /\ out' = [out EXCEPT ![Cur] = {}]
    BY <1>4 DEF Open
  <2>2. Aligned => \A j \in 1..Len(sbomFiles) :
          j < i => out'[sbomFiles[j]] = out[sbomFiles[j]]
    BY <2>1, OthersKept
  <2>3. QED
    BY <2>1, <2>2 DEF DoneInv, Progress, Aligned, arrays
<1>5. CASE Python
  <2>1. /\ UNCHANGED <<folders, i, arrays, out>> /\ pc = "python"
        /\ pc' = IF Raises THEN "say" ELSE "print"
    BY <1>5 DEF Python
  <2>2. Aligned => pc' = "print"
    BY <2>1, AlignedReadable
  <2>3. pc' # "ok"
    BY <2>1
  <2>4. QED
    BY <2>1, <2>2, <2>3 DEF DoneInv, Progress, Aligned, arrays
<1>6. CASE PrintItem
  <2>1. /\ UNCHANGED <<folders, pc, i, arrays>> /\ pc = "print"
    BY <1>6 DEF PrintItem
  <2>2. PICK x \in Union : out' = [out EXCEPT ![Cur] = @ \cup {x}]
    BY <1>6 DEF PrintItem
  <2>3. Cur \in Name /\ x \in Line
    BY <1>0, <2>1, <2>2, CurName, UnionLines DEF MixInv, Printable
  <2>4. out[Cur] \cup {x} \in SUBSET Line
    BY <1>0, <2>3 DEF TypeOK
  <2>5. Aligned => \A j \in 1..Len(sbomFiles) :
          j < i => out'[sbomFiles[j]] = out[sbomFiles[j]]
    BY <2>1, <2>2, <2>4, OthersKept
  <2>6. QED
    BY <2>1, <2>5 DEF DoneInv, Progress, Aligned, arrays
<1>7. CASE PrintDone
  <2>1. /\ UNCHANGED <<folders, i, arrays, out>> /\ pc = "print" /\ pc' = "say"
        /\ Union \subseteq out[Cur]
    BY <1>7 DEF PrintDone
  <2>2. out[Cur] = Evidence[Cur]
    BY <1>0, <2>1, UnionIsEvidence DEF MixInv, Printable, NoMixing
  <2>3. QED
    BY <2>1, <2>2, SameSelection DEF DoneInv, Progress, Aligned, arrays
<1>8. CASE Say
  <2>1. /\ UNCHANGED <<folders, arrays, out>> /\ pc = "say" /\ pc' = "guard"
        /\ i' = i + 1
    BY <1>8 DEF Say
  <2>2. i \in 1..Len(sbomFiles) /\ Cur = sbomFiles[i]
    BY <1>0, <2>1 DEF TypeInv, TypeOK, InBody, Cur, At
  <2>3. ASSUME Aligned, NEW j \in 1..Len(sbomFiles), j < i + 1
        PROVE  out[sbomFiles[j]] = Evidence[sbomFiles[j]]
    <3>1. CASE j < i
      BY <2>1, <2>3, <3>1 DEF DoneInv, Progress
    <3>2. CASE j = i
      BY <2>1, <2>2, <2>3, <3>2 DEF DoneInv, Progress
    <3>3. QED BY <1>0, <2>3, <3>1, <3>2 DEF TypeOK
  <2>4. QED
    BY <2>1, <2>3 DEF DoneInv, Progress, Aligned, arrays
<1>9. CASE Crash
  BY <1>9 DEF Crash, Progress
<1>10. CASE StartAgain
  BY <1>10 DEF StartAgain, Progress
<1>11. CASE UNCHANGED vars
  <2>1. UNCHANGED <<folders, pc, i, arrays, out>>
    BY <1>11
  <2>2. QED
    BY <2>1, SameSelection DEF DoneInv, Progress, Aligned, arrays
<1>12. QED
  BY <1>1, <1>2, <1>3, <1>4, <1>5, <1>6, <1>7, <1>8, <1>9, <1>10, <1>11
  DEF Next, Step

\* Folders that hold the same names, and SBOMs that parse: a run that ends
\* has left every project its whole evidence, whatever was there before.
THEOREM AlignedRunsComplete == Spec => []AlignedComplete
<1>1. Init => DoneInv
  BY InitMix DEF Init, DoneInv, Progress, Walking, Visiting
<1>2. DoneInv => AlignedComplete
  <2> SUFFICES ASSUME DoneInv, pc = "ok", Aligned, NEW p \in sboms
               PROVE  out[p] = Evidence[p]
    BY DEF AlignedComplete, Aligned
  <2>1. sboms \in SUBSET Name /\ i \in Nat
    BY DEF DoneInv, MixInv, TypeInv, TypeOK
  <2>2. PICK k \in 1..Len(Listing[sboms]) : Listing[sboms][k] = p
    BY <2>1, CombineAssumption
  <2>3. sbomFiles = Listing[sboms] /\ k < i
    BY <2>1, <2>2, CombineAssumption DEF DoneInv, Progress, Walking
  <2>4. QED BY <2>2, <2>3 DEF DoneInv, Progress, Walking
<1>3. QED BY <1>1, <1>2, StepDone, PTL DEF Spec
=============================================================================
