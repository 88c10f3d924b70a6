-------------------------- MODULE CoreInstallProofs --------------------------
(***************************************************************************)
(* With power cuts at any step, a full disk and loads that end with an     *)
(* exception nobody catches, install_core implements CoreStore, for any    *)
(* cores and any number of cuts - where a core is installed at first, what *)
(* was copied lasts through a cut, and a request that left its mark is     *)
(* followed by a recovery before another install.                          *)
(***************************************************************************)
EXTENDS CoreInstall, TLAPS

\* The faults this leaves out, each of which may make .prev what never loaded.
KeepsPrev == {"lost", "again", "bare"} \cap Faults = {}

\* The types of the files and of the program's place.
THEOREM TypeCorrect == KeepsPrev /\ Spec => []TypeOK
<1> SUFFICES ASSUME KeepsPrev PROVE Spec => []TypeOK
  OBVIOUS
<1>1. ASSUME Init PROVE TypeOK
  <2>1. First \in Core /\ 0 \in 0..MaxCuts
    BY CoreAssumption, CutsAssumption
  <2>2. at \in Labels
    BY <1>1 DEF Init, Labels
  <2> QED
    BY <1>1, <2>1, <2>2 DEF Init, TypeOK
<1>2. ASSUME TypeOK, [Next]_vars
      PROVE  TypeOK'
  <2> USE DEF TypeOK, Labels
  <2>1. CASE \E c \in Core : Start(c)
    BY <1>2, <2>1 DEF Start, KeepsPrev, files
  <2>2. CASE Copy \/ CopyMan \/ WritePending \/ WriteMan \/ WriteCore
    BY <1>2, <2>2, CutsAssumption
       DEF Copy, CopyMan, WritePending, WriteMan, WriteCore, Marked
  <2>3. CASE DiskFull \/ Load \/ Reload
    BY <1>2, <2>3 DEF DiskFull, TornCopy, Load, Reload, Uncaught, AfterFailure, files
  <2>4. CASE ClearPending \/ WriteCard
    BY <1>2, <2>4 DEF ClearPending, WriteCard
  <2>5. CASE PutBack \/ PutBackMan
    BY <1>2, <2>5 DEF PutBack, PutBackMan, HasPrev, ManifestBack
  <2>6. CASE Cut
    <3>1. cuts' \in 0..MaxCuts
      BY <1>2, <2>6, CutsAssumption DEF Cut
    <3>2. TornCopy
      BY <1>2, <2>6 DEF Cut, KeepsPrev
    <3> QED
      BY <1>2, <2>6, <3>1, <3>2 DEF Cut, TornCopy
  <2>7. CASE UNCHANGED vars
    BY <1>2, <2>7 DEF vars, files
  <2> QED
    BY <1>2, <2>1, <2>2, <2>3, <2>4, <2>5, <2>6, <2>7 DEF Next
<1> QED
  BY <1>1, <1>2, PTL DEF Spec

\* Pending marks every untested file, and behind it .prev is a core that loads.
THEOREM Invariant == KeepsPrev /\ Spec => []IInv
<1> SUFFICES ASSUME KeepsPrev PROVE Spec => []IInv
  OBVIOUS
<1>1. Init => IInv
  BY CoreAssumption
     DEF Init, IInv, PendingWhen, PrevGood, CoreGood, NewWritten, ManOfOne, CardLoads,
         BeforeMark, Untested, KeepsPrev
<1>2. ASSUME TypeOK, IInv, [Next]_vars
      PROVE  IInv'
  <2> Good \subseteq Core /\ Nil \notin Core
    BY CoreAssumption
  <2> USE DEF IInv, PendingWhen, PrevGood, CoreGood, NewWritten, ManOfOne, CardLoads,
              BeforeMark, Untested
  <2>1. CASE \E c \in Core : Start(c)
    BY <1>2, <2>1 DEF Start, KeepsPrev, files
  <2>2. CASE Copy \/ CopyMan
    BY <1>2, <2>2 DEF Copy, CopyMan
  <2>3. CASE WritePending
    BY <1>2, <2>3 DEF WritePending, Marked
  <2>4. CASE WriteMan \/ WriteCore
    BY <1>2, <2>4 DEF WriteMan, WriteCore, TypeOK
  <2>5. CASE DiskFull \/ Load \/ Reload
    BY <1>2, <2>5 DEF DiskFull, TornCopy, Load, Reload, Uncaught, AfterFailure, files
  <2>6. CASE ClearPending
    BY <1>2, <2>6 DEF ClearPending
  <2>7. CASE WriteCard
    BY <1>2, <2>7 DEF WriteCard
  <2>8. CASE PutBack \/ PutBackMan
    BY <1>2, <2>8 DEF PutBack, PutBackMan, HasPrev
  <2>9. CASE Cut
    BY <1>2, <2>9 DEF Cut, TornCopy, KeepsPrev
  <2>10. CASE UNCHANGED vars
    BY <1>2, <2>10 DEF vars, files
  <2> QED
    BY <1>2, <2>1, <2>2, <2>3, <2>4, <2>5, <2>6, <2>7, <2>8, <2>9, <2>10 DEF Next
<1> QED
  BY <1>1, <1>2, TypeCorrect, PTL DEF Spec

\* The card never gets a core that was not loaded first.
THEOREM CardNeverBad == KeepsPrev /\ Spec => []CardLoads
<1>1. IInv => CardLoads
  BY DEF IInv
<1> QED
  BY <1>1, Invariant, PTL

\* Each step commits a loaded core with its manifest, or changes nothing of what
\* is installed, whatever is half-written then; only a cut between the two renames
\* that put .prev back leaves the core the manifest of the one that was tried.
THEOREM Refinement == KeepsPrev /\ Spec => Implements
<1> SUFFICES ASSUME KeepsPrev PROVE Spec => Implements
  OBVIOUS
<1> DEFINE inst == [core |-> InstalledCore, man |-> InstalledMan]
<1>1. Init => Store!Init
  BY DEF Init, KeepsPrev, Store!Init, InstalledCore, InstalledMan
<1>2. ASSUME TypeOK, IInv, [Next]_vars
      PROVE  [Store!Next]_<<inst, cuts>>
  <2> Good \subseteq Core /\ Nil \notin Core
    BY CoreAssumption
  <2> USE DEF InstalledCore, InstalledMan
  <2>1. CASE \E c \in Core : Start(c)
    BY <1>2, <2>1 DEF Start, KeepsPrev, files, IInv, PendingWhen, BeforeMark
  <2>2. CASE Copy \/ CopyMan
    BY <1>2, <2>2 DEF Copy, CopyMan, IInv, PendingWhen, BeforeMark
  <2>3. CASE WritePending
    BY <1>2, <2>3
       DEF WritePending, Marked, IInv, PendingWhen, BeforeMark, PrevGood, CoreGood
  <2>4. CASE WriteMan \/ WriteCore
    BY <1>2, <2>4
       DEF WriteMan, WriteCore, IInv, PendingWhen, BeforeMark, PrevGood, Untested
  <2>5. CASE DiskFull \/ Load \/ Reload
    <3>1. CASE DiskFull
      BY <1>2, <3>1 DEF DiskFull, TornCopy, IInv, PendingWhen, BeforeMark
    <3>2. CASE Load \/ Reload
      BY <1>2, <3>2 DEF Load, Reload, Uncaught, AfterFailure, files, IInv, PendingWhen
    <3> QED
      BY <2>5, <3>1, <3>2
  <2>6. CASE ClearPending
    <3>1. CASE at = "clear"
      <4>1. new \in Core /\ new \in Good
        BY <1>2, <3>1 DEF IInv, NewWritten, TypeOK
      <4>2. inst' = [core |-> new, man |-> new]
        BY <1>2, <2>6, <3>1 DEF ClearPending, IInv, NewWritten
      <4> QED
        BY <2>6, <4>1, <4>2 DEF ClearPending, Store!Next, Store!Commit
    <3>2. CASE at \in {"clear_failed", "recover_clear"}
      BY <1>2, <2>6, <3>2 DEF ClearPending, IInv, PrevGood
    <3> QED
      BY <2>6, <3>1, <3>2 DEF ClearPending
  <2>7. CASE WriteCard
    BY <1>2, <2>7 DEF WriteCard, IInv, PendingWhen, BeforeMark
  <2>8. CASE PutBack
    BY <1>2, <2>8
       DEF PutBack, HasPrev, IInv, PendingWhen, BeforeMark, PrevGood, Untested
  <2>9. CASE PutBackMan
    BY <1>2, <2>9 DEF PutBackMan, ManifestBack, IInv, PendingWhen, BeforeMark, PrevGood
  <2>10. CASE Cut
    <3>1. InstalledCore' = InstalledCore
      BY <1>2, <2>10 DEF Cut, TornCopy, KeepsPrev, IInv, PendingWhen, BeforeMark
    <3>2. InstalledMan' \in Core \cup {InstalledMan}
      BY <1>2, <2>10 DEF Cut, TornCopy, KeepsPrev, IInv, PendingWhen, BeforeMark, ManOfOne
    <3>3. InstalledMan' = InstalledMan \/ at \in {"swap_man", "recover_man"}
      BY <1>2, <2>10 DEF Cut, TornCopy, KeepsPrev, IInv, PendingWhen, BeforeMark
    <3>4. cuts' = cuts + 1 \/ (at \in {"hung", "left"} /\ UNCHANGED cuts)
      BY <2>10 DEF Cut
    <3>5. inst' = [inst EXCEPT !.man = InstalledMan']
      BY <3>1
    <3>6. CASE cuts' = cuts + 1
      BY <3>2, <3>5, <3>6 DEF Store!Next, Store!PowerCut
    <3>7. CASE at \in {"hung", "left"} /\ UNCHANGED cuts
      BY <3>1, <3>3, <3>7
    <3> QED
      BY <3>4, <3>6, <3>7
  <2>11. CASE UNCHANGED vars
    BY <1>2, <2>11 DEF vars, files
  <2> QED
    BY <1>2, <2>1, <2>2, <2>3, <2>4, <2>5, <2>6, <2>7, <2>8, <2>9, <2>10, <2>11 DEF Next
<1> QED
  BY <1>1, <1>2, TypeCorrect, Invariant, PTL DEF Spec, Implements, Store!Spec

\* Unless its copy is known to be missing, the card has what is installed: the core, or
\* the one before it while that is what a cut would bring back.
CardStands ==
  /\ at = "card" => core = new /\ missed
  /\ ~missed =>
       /\ at \in BeforeMark => card = core
       /\ pending /\ prev # Nil => card = prev
       /\ pending /\ prev = Nil => card = core

\* A power-on runs the installed core, but for a copy that failed or was cut short after
\* the load, whatever was installed, rolled back and cut before.
THEOREM CardIsInstalled == KeepsPrev /\ Spec => []CardInstalled
<1> SUFFICES ASSUME KeepsPrev PROVE Spec => []CardInstalled
  OBVIOUS
<1>1. Init => CardStands
  BY DEF Init, KeepsPrev, CardStands
<1>2. ASSUME TypeOK, IInv, CardStands, [Next]_vars
      PROVE  CardStands'
  <2> Good \subseteq Core /\ Nil \notin Core
    BY CoreAssumption
  <2> USE DEF IInv, PendingWhen, BeforeMark, CardStands
  <2>1. CASE \E c \in Core : Start(c)
    BY <1>2, <2>1 DEF Start, KeepsPrev, files
  <2>2. CASE Copy \/ CopyMan \/ WritePending
    BY <1>2, <2>2 DEF Copy, CopyMan, WritePending, Marked, PrevGood, CoreGood
  <2>3. CASE WriteMan \/ WriteCore
    BY <1>2, <2>3 DEF WriteMan, WriteCore, PrevGood, Untested
  <2>4. CASE DiskFull \/ Load \/ Reload
    BY <1>2, <2>4 DEF DiskFull, TornCopy, Load, Reload, Uncaught, AfterFailure, files
  <2>5. CASE ClearPending
    BY <1>2, <2>5 DEF ClearPending, PrevGood, NewWritten
  <2>6. CASE WriteCard
    BY <1>2, <2>6 DEF WriteCard
  <2>7. CASE PutBack \/ PutBackMan
    BY <1>2, <2>7 DEF PutBack, PutBackMan, HasPrev
  <2>8. CASE Cut
    BY <1>2, <2>8 DEF Cut, TornCopy, KeepsPrev
  <2>9. CASE UNCHANGED vars
    BY <1>2, <2>9 DEF vars, files
  <2> QED
    BY <1>2, <2>1, <2>2, <2>3, <2>4, <2>5, <2>6, <2>7, <2>8, <2>9 DEF Next
<1>3. CardStands => CardInstalled
  BY DEF CardStands, CardInstalled, BeforeMark
<1> QED
  BY <1>1, <1>2, <1>3, TypeCorrect, Invariant, PTL DEF Spec

===============================================================================
