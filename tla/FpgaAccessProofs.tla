--------------------------- MODULE FpgaAccessProofs ---------------------------
(***************************************************************************)
(* Proofs about FpgaAccess, for any set of handler threads, any requests   *)
(* and any speeds: the type invariant, then the inductive invariant IInv   *)
(* and the safety properties that follow from it.                          *)
(*                                                                         *)
(* Next is a client's request, a step of a core load, or a step of the     *)
(* watchdog or of time; each part of an invariant has one lemma for each.  *)
(***************************************************************************)
EXTENDS FpgaAccess, TLAPS

\* The sets of labels, expanded wherever a label is compared.
USE DEF None, Watchdog, CheckedLabels, AccessLabels, LoadLabels, FinishLabels,
        PausedLabels, Holding, Labels

-------------------------------------------------------------------------------
(* Type correctness, one part of TypeOK at a time.                           *)

\* The initial states are well typed.
LEMMA InitType == Init => TypeOK
<1>1. Init => LockTypes /\ ThreadTypes
  BY DEF Init, LockTypes, ThreadTypes
<1>2. Init => StateTypes
  BY DEF Init, StateTypes
<1>3. Init => RegisterTypes
  BY SpeedsAssumption DEF Init, RegisterTypes, Jobs
<1> QED
  BY <1>1, <1>2, <1>3 DEF TypeOK

\* A client's request keeps the types.
LEMMA RequestType ==
  ASSUME TypeOK, NEW c \in Clients, Request(c)
  PROVE  TypeOK'
<1> USE DEF TypeOK, Request, EnterAccess, AdcEnter, Enter, Read, Write, AdcFirst,
            AdcAgain, AdcSecond, PauseCheck, SetPause, Release
<1>1. LockTypes'
  BY DEF LockTypes, Leave
<1>2. ThreadTypes'
  BY DEF ThreadTypes, Leave, Goto
<1>3. StateTypes'
  BY DEF StateTypes, Touch, GuardAfter
<1>4. RegisterTypes'
  BY DEF RegisterTypes, Touch, Written
<1> QED
  BY <1>1, <1>2, <1>3, <1>4

\* A step of a core load keeps the types of the registers, saved ones included.
LEMMA LoadRegisterType ==
  ASSUME TypeOK, NEW c \in Clients, Load(c)
  PROVE  RegisterTypes'
<1> USE SpeedsAssumption DEF TypeOK, RegisterTypes
<1>1. CASE LoadRequest(c)
  BY <1>1 DEF LoadRequest, Jobs
<1>2. CASE LoadBegin(c)
  <2>1. SavedNow \in Speeds
    BY DEF SavedNow, Jobs
  <2> QED
    BY <1>2, <2>1 DEF LoadBegin, Jobs
<1>3. CASE LoadRestore(c)
  BY <1>3 DEF LoadRestore, Written, Jobs
<1>4. CASE LoadDone(c)
  BY <1>4 DEF LoadDone, RollsBack, Jobs
<1> QED
  BY <1>1, <1>2, <1>3, <1>4
  DEF Load, LoadStart, LoadReturn, LoadSettle, LoadVerify, LoadFinish, LoadNext

\* A step of a core load keeps the types.
LEMMA LoadType ==
  ASSUME TypeOK, NEW c \in Clients, Load(c)
  PROVE  TypeOK'
<1> USE DEF TypeOK, Load, LoadRequest, LoadBegin, LoadStart, LoadReturn, LoadSettle,
            LoadVerify, LoadRestore, LoadFinish, LoadNext, LoadDone
<1>1. LockTypes'
  BY DEF LockTypes, Leave
<1>2. ThreadTypes'
  BY DEF ThreadTypes, Leave, Goto
<1>3. StateTypes'
  BY DEF StateTypes, GuardAfter, Extended
<1> QED
  BY <1>1, <1>2, <1>3, LoadRegisterType

\* The watchdog and time keep the types.
LEMMA OtherType ==
  ASSUME TypeOK, Dog \/ Time
  PROVE  TypeOK'
<1> USE DEF TypeOK, Dog, Time, DogSees, DogPop, DogLock, DogRaise, PauseExpires,
            LeaseExpires, GuardAges, PorDone
<1>1. LockTypes' /\ ThreadTypes'
  BY DEF LockTypes, ThreadTypes
<1>2. StateTypes'
  BY DEF StateTypes, GuardAfter, Touch
<1>3. RegisterTypes'
  BY SpeedsAssumption DEF RegisterTypes, Touch, Written, Raised
<1> QED
  BY <1>1, <1>2, <1>3

\* Every variable keeps its type.
THEOREM TypeCorrect == Spec => []TypeOK
<1>1. TypeOK /\ [Next]_vars => TypeOK'
  <2> SUFFICES ASSUME TypeOK, [Next]_vars PROVE TypeOK'
    OBVIOUS
  <2>1. CASE UNCHANGED vars
    BY <2>1 DEF vars, TypeOK, LockTypes, ThreadTypes, StateTypes, RegisterTypes
  <2> QED
    BY <2>1, RequestType, LoadType, OtherType DEF Next
<1> QED
  BY <1>1, InitType, PTL DEF Spec

-------------------------------------------------------------------------------
(* Owners: each lock is held by the thread whose label says so.              *)

\* A request takes the register lock only when it is free.
LEMMA RequestOwners ==
  ASSUME TypeOK, Owners, NEW c \in Clients, Request(c)
  PROVE  Owners'
<1> USE ClientsAssumption DEF Owners, TypeOK, LockTypes, ThreadTypes, Goto, Leave
<1>1. ASSUME NEW label \in CheckedLabels, pc[c] = "idle", Enter(c, label)
      PROVE Owners'
  <2>1. CASE lock' = c /\ pc' = [pc EXCEPT ![c] = label]
    BY <1>1, <2>1 DEF Enter
  <2>2. CASE UNCHANGED <<lock, pc>>
    BY <1>1, <2>2 DEF Enter
  <2> QED
    BY <1>1, <2>1, <2>2 DEF Enter
<1>2. CASE EnterAccess(c) \/ AdcEnter(c)
  BY <1>1, <1>2 DEF EnterAccess, AdcEnter, Asked
<1>3. CASE Read(c) \/ Write(c) \/ AdcFirst(c) \/ AdcSecond(c)
  BY <1>3 DEF Read, Write, AdcFirst, AdcSecond
<1>4. CASE AdcAgain(c)
  BY <1>4 DEF AdcAgain
<1>5. CASE PauseCheck(c) \/ SetPause(c) \/ Release(c)
  BY <1>5 DEF PauseCheck, SetPause, Release, Asked
<1> QED
  BY <1>2, <1>3, <1>4, <1>5 DEF Request

\* A load takes core_lock when it is free and keeps it through its labels.
LEMMA LoadOwners ==
  ASSUME TypeOK, Owners, NEW c \in Clients, Load(c)
  PROVE  Owners'
<1> USE ClientsAssumption DEF Owners, TypeOK, LockTypes, ThreadTypes, Goto, Leave
<1>1. CASE LoadRequest(c)
  BY <1>1 DEF LoadRequest, CoreLockFree, Asked
<1>2. ASSUME pc[c] \in {"begin"} \cup (PausedLabels \ {"finish"}),
             UNCHANGED <<lock, core_lock, dog>>,
             NEW label \in PausedLabels, Goto(c, label)
      PROVE  Owners'
  BY <1>2
<1>3. CASE \/ LoadBegin(c) \/ LoadStart(c) \/ LoadReturn(c)
           \/ LoadSettle(c) \/ LoadVerify(c) \/ LoadRestore(c)
  <2>1. CASE LoadBegin(c) \/ LoadStart(c)
    BY <1>2, <2>1 DEF LoadBegin, LoadStart
  <2>2. CASE LoadReturn(c)
    BY <1>2, <2>2 DEF LoadReturn
  <2>3. CASE LoadSettle(c)
    BY <1>2, <2>3 DEF LoadSettle
  <2>4. CASE LoadVerify(c) \/ LoadRestore(c)
    BY <1>2, <2>4 DEF LoadVerify, LoadRestore
  <2> QED
    BY <1>3, <2>1, <2>2, <2>3, <2>4
<1>4. CASE LoadFinish(c)
  BY <1>4 DEF LoadFinish
<1>5. CASE LoadNext(c)
  BY <1>5 DEF LoadNext
<1>6. CASE LoadDone(c)
  BY <1>6 DEF LoadDone, RollsBack
<1> QED
  BY <1>1, <1>3, <1>4, <1>5, <1>6 DEF Load

\* The watchdog takes the register lock only when it is free.
LEMMA OtherOwners ==
  ASSUME TypeOK, Owners, Dog \/ Time
  PROVE  Owners'
<1> USE ClientsAssumption DEF Owners, TypeOK, LockTypes, ThreadTypes
<1>1. CASE DogSees \/ DogPop
  BY <1>1 DEF DogSees, DogPop
<1>2. CASE DogLock
  BY <1>2 DEF DogLock
<1>3. CASE DogRaise
  BY <1>3 DEF DogRaise
<1>4. CASE Time
  BY <1>4 DEF Time, PauseExpires, LeaseExpires, GuardAges, PorDone
<1> QED
  BY <1>1, <1>2, <1>3, <1>4 DEF Dog

\* So at most one client is in a load.
LEMMA OnlyLoader ==
  ASSUME Owners, NEW c \in Clients, pc[c] \in LoadLabels
  PROVE  \A d \in Clients \ {c} : pc[d] \notin LoadLabels
  BY DEF Owners

-------------------------------------------------------------------------------
(* FabricOf: the fabric reconfigures only in the loader's waiting steps.     *)

\* Requests leave the fabric and the loader alone.
LEMMA RequestFabricOf ==
  ASSUME TypeOK, FabricOf, NEW c \in Clients, Request(c)
  PROVE  FabricOf'
  BY DEF FabricOf, TypeOK, ThreadTypes, Request, EnterAccess, AdcEnter, Enter, Read,
         Write, AdcFirst, AdcSecond, AdcAgain, PauseCheck, SetPause, Release, Leave,
         Goto, Asked

\* The load's steps that wait for the fabric leave only when it is done.
LEMMA LoadFabricOf ==
  ASSUME TypeOK, Owners, FabricOf, NEW c \in Clients, Load(c)
  PROVE  FabricOf'
<1>1. pc[c] \in LoadLabels => \A d \in Clients \ {c} : pc[d] \notin LoadLabels
  BY OnlyLoader
<1> USE <1>1 DEF FabricOf, TypeOK, ThreadTypes, Goto
<1>2. CASE LoadRequest(c)
  BY <1>2 DEF LoadRequest, Asked
<1>3. CASE LoadBegin(c) \/ LoadStart(c) \/ LoadVerify(c) \/ LoadRestore(c)
  BY <1>3 DEF LoadBegin, LoadStart, LoadVerify, LoadRestore
<1>4. CASE LoadReturn(c)
  BY <1>4 DEF LoadReturn
<1>5. CASE LoadSettle(c)
  BY <1>5 DEF LoadSettle, Settled, fabric_ready, BridgeOut, RegisterTypes
<1>6. CASE LoadFinish(c) \/ LoadNext(c) \/ LoadDone(c)
  BY <1>6 DEF LoadFinish, LoadNext, LoadDone, RollsBack, Leave
<1> QED
  BY <1>2, <1>3, <1>4, <1>5, <1>6 DEF Load

\* Of the rest only the end of the power-on reset changes the fabric.
LEMMA OtherFabricOf ==
  ASSUME FabricOf, Dog \/ Time
  PROVE  FabricOf'
  BY DEF FabricOf, Dog, Time, DogSees, DogPop, DogLock, DogRaise, PauseExpires,
         LeaseExpires, GuardAges, PorDone

-------------------------------------------------------------------------------
(* SavedOf: what the load has to put back, and has put back.                 *)

\* A request that writes a register is recorded in kept.touched.
LEMMA RequestSavedOf ==
  ASSUME TypeOK, SavedOf, NEW c \in Clients, Request(c)
  PROVE  SavedOf'
<1> USE DEF SavedOf, TypeOK, ThreadTypes, Goto, Leave
<1>1. CASE Write(c)
  BY <1>1 DEF Write, Touch, RegisterTypes
<1>2. CASE EnterAccess(c) \/ AdcEnter(c)
  <2>1. pc[c] = "idle" /\ UNCHANGED <<job, fan, kept>>
    BY <1>2 DEF EnterAccess, AdcEnter, Enter, Asked
  <2>2. CASE UNCHANGED pc
    BY <2>1, <2>2
  <2>3. ASSUME NEW label \in CheckedLabels, pc' = [pc EXCEPT ![c] = label]
        PROVE  SavedOf'
    BY <2>1, <2>3
  <2> QED
    BY <1>2, <2>2, <2>3 DEF EnterAccess, AdcEnter, Enter
<1>3. CASE Read(c) \/ AdcFirst(c) \/ AdcAgain(c) \/ AdcSecond(c)
  BY <1>3 DEF Read, AdcFirst, AdcAgain, AdcSecond
<1>4. CASE PauseCheck(c) \/ Release(c)
  BY <1>4 DEF PauseCheck, Release, Asked
<1>5. CASE SetPause(c)
  <2>1. /\ pc' = [pc EXCEPT ![c] = "idle"]
        /\ UNCHANGED <<job, fan>>
    BY <1>5 DEF SetPause
  <2>2. kept'.fan = kept.fan /\ kept'.touched = kept.touched
    BY <1>5 DEF SetPause, RegisterTypes
  <2> QED
    BY <2>1, <2>2
<1> QED
  BY <1>1, <1>2, <1>3, <1>4, <1>5 DEF Request

\* The load saves before it starts, restores a core that is up, and a rollback
\* keeps what the first load saved.
LEMMA LoadSavedOf ==
  ASSUME TypeOK, Owners, FabricOf, SavedOf, NEW c \in Clients, Load(c)
  PROVE  SavedOf'
<1>1. pc[c] \in LoadLabels => \A d \in Clients \ {c} : pc[d] \notin LoadLabels
  BY OnlyLoader
<1>2. pc'[c] \in LoadLabels => \A d \in Clients \ {c} : pc'[d] \notin LoadLabels
  BY LoadOwners DEF Owners
<1> USE <1>1, <1>2 DEF SavedOf, TypeOK, ThreadTypes, RegisterTypes, Jobs, Goto
<1>3. CASE LoadRequest(c)
  BY <1>3 DEF LoadRequest, Asked
<1>4. CASE LoadBegin(c)
  BY <1>4 DEF LoadBegin, SavedNow
<1>5. CASE LoadStart(c) \/ LoadReturn(c) \/ LoadSettle(c) \/ LoadVerify(c)
  BY <1>5 DEF LoadStart, LoadReturn, LoadSettle, LoadVerify
<1>6. CASE LoadRestore(c)
  BY <1>6 DEF LoadRestore, Written, FabricOf
<1>7. CASE LoadFinish(c) \/ LoadNext(c)
  BY <1>7 DEF LoadFinish, LoadNext, Leave
<1>8. CASE LoadDone(c)
  BY <1>8 DEF LoadDone, RollsBack, Leave
<1> QED
  BY <1>3, <1>4, <1>5, <1>6, <1>7, <1>8 DEF Load

\* So does a raise by the watchdog.
LEMMA OtherSavedOf ==
  ASSUME TypeOK, SavedOf, Dog \/ Time
  PROVE  SavedOf'
<1> USE DEF SavedOf
<1>1. CASE DogRaise
  BY <1>1 DEF DogRaise, Touch, TypeOK, RegisterTypes
<1>2. CASE DogSees \/ DogPop \/ DogLock \/ Time
  BY <1>2 DEF DogSees, DogPop, DogLock, Time, PauseExpires, LeaseExpires, GuardAges,
              PorDone
<1> QED
  BY <1>1, <1>2 DEF Dog

-------------------------------------------------------------------------------
(* PauseHolds: the load's pause keeps the checked traffic out.               *)

\* While a load pauses the traffic no request passes the checks.
LEMMA RequestPauseHolds ==
  ASSUME TypeOK, PauseHolds, NEW c \in Clients, Request(c)
  PROVE  PauseHolds'
<1> USE DEF PauseHolds, TypeOK, ThreadTypes, Goto, Leave
<1>1. CASE EnterAccess(c) \/ AdcEnter(c)
  <2>1. pc[c] = "idle" /\ UNCHANGED <<paused_until, loading, kept>>
    BY <1>1 DEF EnterAccess, AdcEnter, Enter, Asked
  <2>2. CASE UNCHANGED pc
    BY <2>1, <2>2
  <2>3. ASSUME NEW label \in CheckedLabels, pc' = [pc EXCEPT ![c] = label], ~paused
        PROVE  PauseHolds'
    BY <2>1, <2>3 DEF paused
  <2> QED
    BY <1>1, <2>2, <2>3 DEF EnterAccess, AdcEnter, Enter
<1>2. CASE Read(c) \/ Write(c) \/ AdcFirst(c) \/ AdcAgain(c) \/ AdcSecond(c)
  <2>1. /\ UNCHANGED <<paused_until, loading>>
        /\ kept'.crossed = kept.crossed
    BY <1>2 DEF Read, Write, Touch, AdcFirst, AdcAgain, AdcSecond, RegisterTypes
  <2>2. pc' \in {[pc EXCEPT ![c] = label] : label \in {"idle", "adc_sleep", "adc_again"}}
    BY <1>2 DEF Read, Write, AdcFirst, AdcAgain, AdcSecond
  <2> QED
    BY <2>1, <2>2
<1>3. CASE PauseCheck(c)
  BY <1>3 DEF PauseCheck, Asked
<1>4. CASE SetPause(c)
  <2>1. pc' = [pc EXCEPT ![c] = "idle"] /\ UNCHANGED loading
    BY <1>4 DEF SetPause
  <2>2. loading => kept'.crossed
    BY <1>4 DEF SetPause, RegisterTypes
  <2> QED
    BY <2>1, <2>2
<1>5. CASE Release(c)
  BY <1>5 DEF Release
<1> QED
  BY <1>1, <1>2, <1>3, <1>4, <1>5 DEF Request

\* A load starts with the lock free, so nobody is between checks and access.
LEMMA LoadPauseHolds ==
  ASSUME TypeOK, Owners, PauseHolds, NEW c \in Clients, Load(c)
  PROVE  PauseHolds'
<1>1. pc[c] \in LoadLabels => \A d \in Clients \ {c} : pc[d] \notin LoadLabels
  BY OnlyLoader
<1> USE <1>1 DEF PauseHolds, TypeOK, ThreadTypes, Goto, Leave
<1>2. CASE LoadRequest(c)
  BY <1>2 DEF LoadRequest, Asked
<1>3. CASE LoadBegin(c)
  BY <1>3, ClientsAssumption DEF LoadBegin, Owners
<1>4. CASE LoadStart(c) \/ LoadReturn(c) \/ LoadSettle(c) \/ LoadVerify(c)
  <2>1. CASE LoadStart(c) \/ LoadReturn(c)
    BY <2>1 DEF LoadStart, LoadReturn
  <2>2. CASE LoadSettle(c)
    BY <2>2 DEF LoadSettle
  <2>3. CASE LoadVerify(c)
    BY <2>3 DEF LoadVerify
  <2> QED
    BY <1>4, <2>1, <2>2, <2>3
<1>5. CASE LoadRestore(c) \/ LoadFinish(c)
  BY <1>5 DEF LoadRestore, LoadFinish
<1>6. CASE LoadNext(c) \/ LoadDone(c)
  BY <1>6 DEF LoadNext, LoadDone, RollsBack
<1> QED
  BY <1>2, <1>3, <1>4, <1>5, <1>6 DEF Load

\* Only an operator's pause expires.
LEMMA OtherPauseHolds ==
  ASSUME TypeOK, PauseHolds, Dog \/ Time
  PROVE  PauseHolds'
<1> USE DEF PauseHolds
<1>1. CASE DogRaise
  BY <1>1 DEF DogRaise, Touch, TypeOK, RegisterTypes
<1>2. CASE DogSees \/ DogPop \/ DogLock
  <2>1. UNCHANGED <<pc, paused_until, loading, kept>>
    BY <1>2 DEF DogSees, DogPop, DogLock
  <2> QED
    BY <2>1
<1>3. CASE PauseExpires
  BY <1>3 DEF PauseExpires
<1>4. CASE LeaseExpires \/ GuardAges \/ PorDone
  BY <1>4 DEF LeaseExpires, GuardAges, PorDone
<1> QED
  BY <1>1, <1>2, <1>3, <1>4 DEF Dog, Time

-------------------------------------------------------------------------------
(* LeaseKept: deadlines that passed during a load are moved on at its end.   *)

\* Every step keeps LeaseKept.
LEMMA NextLeaseKept ==
  ASSUME TypeOK, Owners, LeaseKept, Next
  PROVE  LeaseKept'
<1> USE DEF LeaseKept, LoadRuns, TypeOK, ThreadTypes, Goto, Leave
<1>1. ASSUME NEW c \in Clients, Request(c)
      PROVE  LeaseKept'
  BY <1>1 DEF Request, EnterAccess, AdcEnter, Enter, Read, Write, AdcFirst, AdcSecond,
              AdcAgain, PauseCheck, SetPause, Release, Asked
<1>2. ASSUME NEW c \in Clients, Load(c)
      PROVE  LeaseKept'
  <2>1. pc[c] \in LoadLabels => \A d \in Clients \ {c} : pc[d] \notin LoadLabels
    BY OnlyLoader
  <2> QED
    BY <1>2, <2>1
    DEF Load, LoadRequest, LoadBegin, LoadStart, LoadReturn, LoadSettle, LoadVerify,
        LoadRestore, LoadFinish, LoadNext, LoadDone, Extended, Asked
<1>3. CASE Dog \/ Time
  BY <1>3 DEF Dog, Time, DogSees, DogPop, DogLock, DogRaise, PauseExpires,
              LeaseExpires, GuardAges, PorDone
<1> QED
  BY <1>1, <1>2, <1>3 DEF Next

-------------------------------------------------------------------------------
(* The inductive invariant, and what follows from it.                        *)

\* It holds initially.
LEMMA InitIInv == Init => IInv
<1> SUFFICES ASSUME Init PROVE IInv
  OBVIOUS
<1>1. \A c \in Clients : pc[c] = "idle"
  BY DEF Init
<1>2. Owners
  BY <1>1, ClientsAssumption DEF Init, Owners
<1>3. FabricOf /\ SavedOf
  BY <1>1 DEF Init, FabricOf, SavedOf
<1>4. PauseHolds /\ LeaseKept
  BY <1>1 DEF Init, PauseHolds, LeaseKept
<1> QED
  BY <1>2, <1>3, <1>4 DEF IInv

\* Every step keeps it.
LEMMA NextIInv == TypeOK /\ IInv /\ [Next]_vars => IInv'
<1> SUFFICES ASSUME TypeOK, IInv, [Next]_vars PROVE IInv'
  OBVIOUS
<1> USE DEF IInv
<1>1. ASSUME NEW c \in Clients, Request(c)
      PROVE  Owners' /\ FabricOf' /\ SavedOf' /\ PauseHolds'
  BY <1>1, RequestOwners, RequestFabricOf, RequestSavedOf, RequestPauseHolds
<1>2. ASSUME NEW c \in Clients, Load(c)
      PROVE  Owners' /\ FabricOf' /\ SavedOf' /\ PauseHolds'
  BY <1>2, LoadOwners, LoadFabricOf, LoadSavedOf, LoadPauseHolds
<1>3. CASE Dog \/ Time
  BY <1>3, OtherOwners, OtherFabricOf, OtherSavedOf, OtherPauseHolds, NextLeaseKept
  DEF Next
<1>4. CASE UNCHANGED vars
  BY <1>4 DEF vars, Owners, FabricOf, SavedOf, PauseHolds, LeaseKept, LoadRuns
<1> QED
  BY <1>1, <1>2, <1>3, <1>4, NextLeaseKept DEF Next

\* The inductive invariant: who holds the locks, what the fabric and the saved
\* registers are at each step of a load, what its pause keeps out.
THEOREM Invariant == Spec => []IInv
  BY InitIInv, NextIInv, TypeCorrect, PTL DEF Spec

\* core_lock admits one load at a time.
THEOREM OneLoadAtATime == Spec => []OneLoad
<1>1. IInv => OneLoad
  BY DEF IInv, Owners, OneLoad
<1> QED
  BY <1>1, Invariant, PTL

\* An access that checks the pause under the register lock meets a fabric that is being
\* configured only if a pause or resume was carried out during the load.
THEOREM CheckedTrafficExcluded == Spec => []CheckedTraffic
<1>1. IInv => CheckedTraffic
  BY DEF IInv, FabricOf, PauseHolds, CheckedTraffic
<1> QED
  BY <1>1, Invariant, PTL

\* A successful load, the rollback of a failed install too, restores registers.
THEOREM RegistersRestored == Spec => []RegistersKept
<1>1. IInv => RegistersKept
  BY DEF IInv, SavedOf, RegistersKept
<1> QED
  BY <1>1, Invariant, PTL

\* A load never lets a lease's deadline pass.
THEOREM LeasesKept == Spec => []LeaseKept
  BY Invariant, PTL DEF IInv

-------------------------------------------------------------------------------
(* What the two findings about the loads leave: without a second access that *)
(* is not checked, and without a lease.                                      *)

\* Nobody takes the lock again without the checks; the watchdog has nothing to do.
AllChecked ==
  /\ \A c \in Clients : pc[c] \notin {"adc", "adc_sleep", "adc_again"}
  /\ lease = "none" /\ dog = "idle"
  /\ ~kept.crossed /\ \A c \in Clients : pc[c] \notin {"pause", "resume"}

LEMMA AllCheckedNext ==
  ASSUME Ops \cap {"adc", "lease", "pause", "resume"} = {}, TypeOK, AllChecked, [Next]_vars
  PROVE  AllChecked'
<1> USE DEF AllChecked, TypeOK, ThreadTypes, RegisterTypes, Goto, Leave
<1>1. ASSUME NEW c \in Clients, Request(c)
      PROVE  AllChecked'
  <2>1. CASE EnterAccess(c)
    BY <2>1 DEF EnterAccess, Enter
  <2>2. CASE Read(c) \/ Write(c)
    BY <2>2 DEF Read, Write, Touch
  <2>3. CASE AdcEnter(c) \/ AdcFirst(c) \/ AdcAgain(c) \/ AdcSecond(c)
    BY <2>3 DEF AdcEnter, AdcFirst, AdcAgain, AdcSecond, Asked
  <2>4. CASE PauseCheck(c) \/ SetPause(c) \/ Release(c)
    BY <2>4 DEF PauseCheck, SetPause, Release, Asked
  <2> QED
    BY <1>1, <2>1, <2>2, <2>3, <2>4 DEF Request
<1>2. ASSUME NEW c \in Clients, Load(c)
      PROVE  AllChecked'
  <2>1. CASE LoadRequest(c) \/ LoadStart(c) \/ LoadReturn(c) \/ LoadSettle(c)
    BY <2>1 DEF LoadRequest, LoadStart, LoadReturn, LoadSettle
  <2>2. CASE LoadBegin(c)
    BY <2>2 DEF LoadBegin
  <2>3. CASE LoadVerify(c) \/ LoadRestore(c) \/ LoadFinish(c) \/ LoadNext(c) \/ LoadDone(c)
    BY <2>3 DEF LoadVerify, LoadRestore, LoadFinish, LoadNext, LoadDone, Extended
  <2> QED
    BY <1>2, <2>1, <2>2, <2>3 DEF Load
<1>3. CASE Dog \/ Time
  BY <1>3 DEF Dog, Time, DogSees, DogPop, DogLock, DogRaise, PauseExpires, LeaseExpires,
              GuardAges, PorDone
<1>4. CASE UNCHANGED vars
  BY <1>4 DEF vars
<1> QED
  BY <1>1, <1>2, <1>3, <1>4 DEF Next

\* Reads and writes by any number of clients, and any loads, installs and rollbacks
\* among them: no access, the loader's own included, while the fabric reconfigures.
THEOREM NoAccessMeetsLoad ==
  ASSUME Ops \cap {"adc", "lease", "pause", "resume"} = {}
  PROVE  Spec => []NoAccessDuringLoad
<1>1. Init => AllChecked
  BY DEF Init, AllChecked
<1>2. TypeOK /\ AllChecked /\ [Next]_vars => AllChecked'
  BY AllCheckedNext
<1>3. IInv /\ AllChecked => NoAccessDuringLoad
  BY DEF IInv, FabricOf, PauseHolds, AllChecked, NoAccessDuringLoad
<1> QED
  BY <1>1, <1>2, <1>3, TypeCorrect, Invariant, PTL DEF Spec

\* Without loads the fabric stays as it is: a core that is there can be written.
NetInv ==
  /\ \A c \in Clients : pc[c] \notin LoadLabels
  /\ fabric \in {"up", "none"}
  /\ fabric = "none" => /\ guard # "fresh" /\ lease = "none" /\ dog = "idle" /\ net = "ok"
                        /\ \A c \in Clients : pc[c] \notin CheckedLabels
  /\ dog = "pop" => net # "owed"
  /\ net = "owed" => dog \in {"lock", "access"}
  /\ net = "raised" => fan >= Safe

LEMMA NetInvNext ==
  ASSUME Ops \cap {"reload", "install"} = {}, TypeOK, NetInv, [Next]_vars
  PROVE  NetInv'
<1> USE DEF NetInv, TypeOK, ThreadTypes, StateTypes, Goto, Leave
<1>1. ASSUME NEW c \in Clients, Request(c)
      PROVE  NetInv'
  <2>1. CASE EnterAccess(c) \/ AdcEnter(c)
    BY <2>1 DEF EnterAccess, AdcEnter, Enter, fabric_ready, GuardAfter, BridgeOut
  <2>2. CASE Write(c)
    BY <2>2 DEF Write, Touch
  <2>3. CASE Read(c) \/ AdcFirst(c) \/ AdcAgain(c) \/ AdcSecond(c)
    BY <2>3 DEF Read, AdcFirst, AdcAgain, AdcSecond
  <2>4. CASE PauseCheck(c) \/ SetPause(c) \/ Release(c)
    BY <2>4 DEF PauseCheck, SetPause, Release
  <2> QED
    BY <1>1, <2>1, <2>2, <2>3, <2>4 DEF Request
<1>2. ASSUME NEW c \in Clients, Load(c)
      PROVE  FALSE
  <2>1. ~LoadRequest(c)
    BY DEF LoadRequest, Asked
  <2>2. ~LoadBegin(c) /\ ~LoadStart(c) /\ ~LoadReturn(c) /\ ~LoadSettle(c)
    BY DEF LoadBegin, LoadStart, LoadReturn, LoadSettle, LoadLabels
  <2>3. ~LoadVerify(c) /\ ~LoadRestore(c) /\ ~LoadFinish(c) /\ ~LoadNext(c) /\ ~LoadDone(c)
    BY DEF LoadVerify, LoadRestore, LoadFinish, LoadNext, LoadDone, LoadLabels
  <2> QED
    BY <1>2, <2>1, <2>2, <2>3 DEF Load
<1>3. CASE Dog
  <2>1. CASE DogRaise
    <3>1. fan' >= Safe /\ fabric = "up"
      BY <2>1, SpeedsAssumption DEF DogRaise, Touch, Written, Raised, RegisterTypes
    <3> QED
      BY <2>1, <3>1 DEF DogRaise, Touch
  <2>2. CASE DogSees \/ DogPop \/ DogLock
    BY <2>2 DEF DogSees, DogPop, DogLock, fabric_ready, GuardAfter, BridgeOut
  <2> QED
    BY <1>3, <2>1, <2>2 DEF Dog
<1>4. CASE Time \/ UNCHANGED vars
  BY <1>4 DEF Time, PauseExpires, LeaseExpires, GuardAges, PorDone, vars
<1> QED
  BY <1>1, <1>2, <1>3, <1>4 DEF Next

\* The lease's promise, between loads: a lease that runs out is dropped only by a
\* watchdog that goes on to raise the fan, and the fan stays raised until a client
\* writes it or gives the lease up.
THEOREM NetWithoutLoads ==
  ASSUME Ops \cap {"reload", "install"} = {}
  PROVE  Spec => []NetHolds
<1>1. Init => NetInv
  BY DEF Init, NetInv
<1>2. TypeOK /\ NetInv /\ [Next]_vars => NetInv'
  BY NetInvNext
<1>3. NetInv => NetHolds
  BY DEF NetInv, NetHolds
<1> QED
  BY <1>1, <1>2, <1>3, TypeCorrect, PTL DEF Spec

===============================================================================
