------------------------------ MODULE FpgaAccess ------------------------------
(***************************************************************************)
(* The register-access process (linux/webapp/fpga_access.py): the handler  *)
(* threads of its Unix socket, the lease watchdog, and the loading of a    *)
(* new FPGA core, all sharing one register window behind one lock.         *)
(*                                                                         *)
(* A thread is at one of the labels below; a label that holds the register *)
(* lock is in Holding.  What happens with the lock held is split in two    *)
(* (the checks, then the bridge access), because the loader, the fabric,   *)
(* the watchdog's first half and "release" do not take the lock.           *)
(*                                                                         *)
(* One register stands for all the writable ones: the fan target, the one  *)
(* with a lease.  Its values are speeds; a larger one is a faster fan.     *)
(***************************************************************************)
EXTENDS Naturals

CONSTANTS
  Clients,   \* the handler threads (one per connection)
  Ops,       \* the requests clients make, a subset of AllOps
  Speeds,    \* fan speeds, as naturals
  Reset,     \* the speed the fabric resets to (FAN_MIN_RPM)
  Safe       \* SAFE_FAN_RPM

None == "none"
Watchdog == "watchdog"

AllOps == {"read", "write", "lease", "adc", "pause", "resume", "release",
           "reload", "install"}

ASSUME ClientsAssumption == None \notin Clients /\ Watchdog \notin Clients
ASSUME OpsAssumption == Ops \subseteq AllOps
ASSUME SpeedsAssumption == Speeds \subseteq Nat /\ Reset \in Speeds /\ Safe \in Speeds

VARIABLES
  lock,         \* Access.lock: who holds it
  core_lock,    \* Access.core_lock: which client loads a core
  pc,           \* where each client's request is
  dog,          \* where the watchdog is
  paused_until, \* "past", "timed" (an operator's pause) or "never" (math.inf)
  loading,      \* Access.loading
  guard,        \* the cached guard: "fresh" (< GUARD_RECHECK_S), "stale", "no"
  lease,        \* the fan's: "none", "live", "expired", or "lapsed": its
                \* deadline passed while a load was running
  job,          \* the load: [install, saved, rollback, ok]
  fabric,       \* "up", "loading", "por" (its power-on reset), "none"
  fan,          \* the fan target register
  net,          \* history: "ok", "owed" (an expired lease was dropped and the
                \* fan not raised yet), "raised"
  kept          \* history: [fan, touched, crossed]: the register before the load,
                \* whether anyone else wrote it since, and whether a pause or
                \* resume was carried out during the load

vars == <<lock, core_lock, pc, dog, paused_until, loading, guard, lease, job,
          fabric, fan, net, kept>>

\* Labels of a client, by what it holds.
CheckedLabels == {"access", "adc"}               \* the lock, after the checks
AccessLabels == CheckedLabels \cup {"adc_again"} \* the lock, about to access
LoadLabels == {"begin", "start", "load", "settle", "verify", "restore",
               "finish", "next", "resume_traffic"}
FinishLabels == {"next", "resume_traffic"}       \* the lock, the load's end
PausedLabels == LoadLabels \ ({"begin"} \cup FinishLabels)
Holding == AccessLabels \cup FinishLabels
Labels == {"idle", "adc_sleep", "pause", "resume"} \cup AccessLabels \cup LoadLabels

Jobs == [install : BOOLEAN, saved : Speeds, rollback : BOOLEAN, ok : BOOLEAN]

LockTypes ==
  /\ lock \in Clients \cup {None, Watchdog}
  /\ core_lock \in Clients \cup {None}

ThreadTypes ==
  /\ pc \in [Clients -> Labels]
  /\ dog \in {"idle", "pop", "lock", "access"}

StateTypes ==
  /\ paused_until \in {"past", "timed", "never"}
  /\ loading \in BOOLEAN
  /\ guard \in {"fresh", "stale", "no"}
  /\ lease \in {"none", "live", "expired", "lapsed"}
  /\ net \in {"ok", "owed", "raised"}

RegisterTypes ==
  /\ fabric \in {"up", "loading", "por", "none"}
  /\ fan \in Speeds
  /\ job \in Jobs
  /\ kept \in [fan : Speeds, touched : BOOLEAN, crossed : BOOLEAN]

TypeOK == LockTypes /\ ThreadTypes /\ StateTypes /\ RegisterTypes

Init ==
  /\ lock = None
  /\ core_lock = None
  /\ pc = [c \in Clients |-> "idle"]
  /\ dog = "idle"
  /\ paused_until = "past"
  /\ loading = FALSE
  /\ guard = "no"
  /\ lease = "none"
  /\ job = [install |-> FALSE, saved |-> Reset, rollback |-> FALSE, ok |-> FALSE]
  /\ fabric \in {"up", "none"}
  /\ fan = Reset
  /\ net = "ok"
  /\ kept = [fan |-> Reset, touched |-> FALSE, crossed |-> FALSE]

Goto(c, label) == pc' = [pc EXCEPT ![c] = label]

\* A mutant of paused: the load's own pause, math.inf, is not one.
PausedTimedOnly == paused_until = "timed"
paused == paused_until # "past"

\* BRGMODRST's LWH2F bit is clear.  It does not show the power-on reset.
BridgeOut == fabric \in {"por", "up"}

\* Access.fabric_ready: a fresh "yes" is believed, anything else read again.
fabric_ready(recheck) == (guard = "fresh" /\ ~recheck) \/ BridgeOut
GuardAfter(recheck) ==
  IF guard = "fresh" /\ ~recheck THEN guard
  ELSE IF BridgeOut THEN "fresh" ELSE "no"

\* A value written over the bridge lands if a core is there to take it; with
\* none the access hangs or faults the CPU.
Written(v) == IF fabric = "up" THEN v ELSE fan

\* A register write by anyone but the loader.
Touch(v, n) ==
  /\ fan' = Written(v)
  /\ net' = IF fabric = "up" THEN n ELSE net
  /\ kept' = [kept EXCEPT !.touched = TRUE]

-------------------------------------------------------------------------------
(* Requests that use the bridge: read, read_many, write; scope_op, core_info *)
(* and the stream's and the log's guard() have the same shape as a read.     *)

Asked(c, ops) == pc[c] = "idle" /\ Ops \cap ops # {}

Enter(c, label) ==
  /\ lock = None
  /\ IF paused THEN UNCHANGED <<lock, pc, guard>>
     ELSE /\ guard' = GuardAfter(FALSE)
          /\ IF fabric_ready(FALSE)
             THEN lock' = c /\ Goto(c, label)
             ELSE UNCHANGED <<lock, pc>>
  /\ UNCHANGED <<core_lock, dog, paused_until, loading, lease, job, fabric, fan,
                 net, kept>>

EnterAccess(c) == Asked(c, {"read", "write", "lease"}) /\ Enter(c, "access")

Leave(c, label) == lock' = None /\ Goto(c, label)

Read(c) ==
  /\ pc[c] = "access" /\ "read" \in Ops
  /\ Leave(c, "idle")
  /\ UNCHANGED <<core_lock, dog, paused_until, loading, guard, lease, job, fabric,
                 fan, net, kept>>

\* A plain write leaves a lease there is as it is; a leased one renews it.
Write(c) ==
  /\ pc[c] = "access"
  /\ \E v \in Speeds, leased \in BOOLEAN :
       /\ (IF leased THEN "lease" ELSE "write") \in Ops
       /\ Touch(v, "ok")
       /\ lease' = IF leased THEN "live" ELSE lease
  /\ Leave(c, "idle")
  /\ UNCHANGED <<core_lock, dog, paused_until, loading, guard, job, fabric>>

\* adc_op (and log_start with Logger.start): the checks and a first access
\* under the lock, then the lock again, without the checks, for a second.
AdcEnter(c) == Asked(c, {"adc"}) /\ Enter(c, "adc")

AdcFirst(c) ==
  /\ pc[c] = "adc"
  /\ Leave(c, "adc_sleep")
  /\ UNCHANGED <<core_lock, dog, paused_until, loading, guard, lease, job, fabric,
                 fan, net, kept>>

AdcAgain(c) ==
  /\ pc[c] = "adc_sleep"
  /\ lock = None
  /\ lock' = c /\ Goto(c, "adc_again")
  /\ UNCHANGED <<core_lock, dog, paused_until, loading, guard, lease, job, fabric,
                 fan, net, kept>>

AdcSecond(c) ==
  /\ pc[c] = "adc_again"
  /\ Leave(c, "idle")
  /\ UNCHANGED <<core_lock, dog, paused_until, loading, guard, lease, job, fabric,
                 fan, net, kept>>

-------------------------------------------------------------------------------
(* pause, resume: refused while a core loads, but that is looked at before   *)
(* the lock is taken.                                                        *)

PauseCheck(c) ==
  /\ ~loading
  /\ \E op \in {"pause", "resume"} : Asked(c, {op}) /\ Goto(c, op)
  /\ UNCHANGED <<lock, core_lock, dog, paused_until, loading, guard, lease, job,
                 fabric, fan, net, kept>>

SetPause(c) ==
  /\ pc[c] \in {"pause", "resume"}
  /\ lock = None
  /\ paused_until' = IF pc[c] = "pause" THEN "timed" ELSE "past"
  /\ kept' = [kept EXCEPT !.crossed = @ \/ loading]
  /\ Goto(c, "idle")
  /\ UNCHANGED <<lock, core_lock, dog, loading, guard, lease, job, fabric, fan, net>>

PauseExpires ==
  /\ paused_until = "timed"
  /\ paused_until' = "past"
  /\ UNCHANGED <<lock, core_lock, pc, dog, loading, guard, lease, job, fabric, fan,
                 net, kept>>

\* release: the lease is dropped, without the lock.
Release(c) ==
  /\ Asked(c, {"release"})
  /\ lease' = "none"
  /\ net' = "ok"
  /\ UNCHANGED <<lock, core_lock, pc, dog, paused_until, loading, guard, job, fabric,
                 fan, kept>>

-------------------------------------------------------------------------------
(* reload and install_core: _load, and after a failed install a second _load *)
(* of the previous core with the registers saved before the first.  The      *)
(* files are in module CoreInstall.                                          *)

CoreLockFree == core_lock = None

LoadRequest(c) ==
  /\ CoreLockFree
  /\ \E op \in {"reload", "install"} :
       /\ Asked(c, {op})
       /\ job' = [job EXCEPT !.install = (op = "install"), !.rollback = FALSE]
  /\ core_lock' = c
  /\ Goto(c, "begin")
  /\ UNCHANGED <<lock, dog, paused_until, loading, guard, lease, fabric, fan, net,
                 kept>>

\* A mutant of SavedNow: the rollback reads the registers again.
SavedAgain == IF BridgeOut THEN fan ELSE Reset

\* The registers as the load has to put them back.
SavedNow == IF job.rollback THEN job.saved
            ELSE IF BridgeOut THEN fan ELSE Reset

LoadBegin(c) ==
  /\ pc[c] = "begin"
  /\ lock = None
  /\ job' = [job EXCEPT !.saved = SavedNow, !.ok = FALSE]
  /\ guard' = IF job.rollback THEN guard ELSE GuardAfter(TRUE)
  /\ paused_until' = "never"
  /\ loading' = TRUE
  /\ kept' = [fan |-> IF job.rollback THEN kept.fan ELSE SavedNow,
              touched |-> job.rollback /\ kept.touched, crossed |-> FALSE]
  /\ Goto(c, "start")
  /\ UNCHANGED <<lock, core_lock, dog, lease, fabric, fan, net>>

\* loader.load: the overlay is applied and the SDM configures the fabric, or
\* it raises before the fabric is touched.
LoadStart(c) ==
  /\ pc[c] = "start"
  /\ \/ /\ fabric' = "loading"
        /\ Goto(c, "load")
     \/ Goto(c, "finish") /\ UNCHANGED fabric
  /\ UNCHANGED <<lock, core_lock, dog, paused_until, loading, guard, lease, job, fan,
                 net, kept>>

\* It returns with the new core in its power-on reset or with the bridge still
\* in reset, or raises (the SDM refused the core: the fabric is empty).
LoadReturn(c) ==
  /\ pc[c] = "load"
  /\ \/ /\ fabric' = "por" /\ fan' = Reset
        /\ Goto(c, "settle")
     \/ /\ fabric' = "none"
        /\ \E label \in {"settle", "finish"} : Goto(c, label)
        /\ UNCHANGED fan
  /\ UNCHANGED <<lock, core_lock, dog, paused_until, loading, guard, lease, job, net,
                 kept>>

\* The fabric's own power-on reset ends (~100 ms).
PorDone ==
  /\ fabric = "por"
  /\ fabric' = "up"
  /\ UNCHANGED <<lock, core_lock, pc, dog, paused_until, loading, guard, lease, job,
                 fan, net, kept>>

\* Mutants of Settled: no wait; a wait with no bound for the bridge.
NoSettle == TRUE
SettledUp == fabric = "up"
\* POST_LOAD_SETTLE_S: longer than the power-on reset.
Settled == fabric # "por"

LoadSettle(c) ==
  /\ pc[c] = "settle"
  /\ Settled
  /\ guard' = GuardAfter(TRUE)
  /\ Goto(c, IF fabric_ready(TRUE) THEN "verify" ELSE "finish")
  /\ UNCHANGED <<lock, core_lock, dog, paused_until, loading, lease, job, fabric, fan,
                 net, kept>>

\* Board id, variant and build id: as the manifest says, or not.
LoadVerify(c) ==
  /\ pc[c] = "verify"
  /\ \E label \in {"restore", "finish"} : Goto(c, label)
  /\ UNCHANGED <<lock, core_lock, dog, paused_until, loading, guard, lease, job,
                 fabric, fan, net, kept>>

LoadRestore(c) ==
  /\ pc[c] = "restore"
  /\ fan' = Written(job.saved)
  /\ job' = [job EXCEPT !.ok = TRUE]
  /\ Goto(c, "finish")
  /\ UNCHANGED <<lock, core_lock, dog, paused_until, loading, guard, lease, fabric,
                 net, kept>>

\* A mutant of Extended: the leases' deadlines stay.
NotExtended == lease
\* The finally clause: every lease moved by the time the load took, ...
Extended == IF lease = "lapsed" THEN "live" ELSE lease

LoadFinish(c) ==
  /\ pc[c] = "finish"
  /\ lock = None
  /\ lock' = c
  /\ lease' = Extended
  /\ Goto(c, IF lease = "none" THEN "resume_traffic" ELSE "next")
  /\ UNCHANGED <<core_lock, dog, paused_until, loading, guard, job, fabric, fan, net,
                 kept>>

\* ... where the loop over the dict raises if a lease was dropped meanwhile:
\* the request dies, the locks are released, the pause and the flag stay.
LoadNext(c) ==
  /\ pc[c] = "next"
  /\ IF lease = "none"
     THEN Leave(c, "idle") /\ core_lock' = None
     ELSE Goto(c, "resume_traffic") /\ UNCHANGED <<lock, core_lock>>
  /\ UNCHANGED <<dog, paused_until, loading, guard, lease, job, fabric, fan, net,
                 kept>>

\* install_core, after a load that failed: the previous core is loaded.
RollsBack == job.install /\ ~job.ok /\ ~job.rollback

\* Traffic is resumed; the rollback, if there is a previous core, is one more load.
LoadDone(c) ==
  /\ pc[c] = "resume_traffic"
  /\ paused_until' = "past"
  /\ loading' = FALSE
  /\ \/ /\ RollsBack
        /\ job' = [job EXCEPT !.rollback = TRUE]
        /\ Leave(c, "begin")
        /\ UNCHANGED core_lock
     \/ /\ Leave(c, "idle")
        /\ core_lock' = None
        /\ UNCHANGED job
  /\ UNCHANGED <<dog, guard, lease, fabric, fan, net, kept>>

-------------------------------------------------------------------------------
(* The lease watchdog.                                                       *)

DogSees ==
  /\ dog = "idle"
  /\ lease \in {"expired", "lapsed"}
  /\ ~paused
  /\ dog' = "pop"
  /\ UNCHANGED <<lock, core_lock, pc, paused_until, loading, guard, lease, job,
                 fabric, fan, net, kept>>

DogPop ==
  /\ dog = "pop"
  /\ lease' = "none"
  /\ net' = IF lease = "none" THEN net ELSE "owed"
  /\ guard' = GuardAfter(FALSE)
  /\ dog' = IF fabric_ready(FALSE) THEN "lock" ELSE "idle"
  /\ UNCHANGED <<lock, core_lock, pc, paused_until, loading, job, fabric, fan, kept>>

DogLock ==
  /\ dog = "lock"
  /\ lock = None
  /\ lock' = Watchdog
  /\ dog' = "access"
  /\ UNCHANGED <<core_lock, pc, paused_until, loading, guard, lease, job, fabric, fan,
                 net, kept>>

\* Slower than safe: raised.  Never lowered.
Raised == IF fan < Safe THEN Safe ELSE fan

DogRaise ==
  /\ dog = "access"
  /\ Touch(Raised, IF net = "owed" THEN "raised" ELSE net)
  /\ lock' = None
  /\ dog' = "idle"
  /\ UNCHANGED <<core_lock, pc, paused_until, loading, guard, lease, job, fabric>>

\* A load holds the leases' clock: what it takes is added to every deadline.
LoadRuns == \E c \in Clients : pc[c] \in PausedLabels

\* Time: the deadline of the lease passes; the guard's answer grows old.
LeaseExpires ==
  /\ lease = "live"
  /\ lease' = IF LoadRuns THEN "lapsed" ELSE "expired"
  /\ UNCHANGED <<lock, core_lock, pc, dog, paused_until, loading, guard, job, fabric,
                 fan, net, kept>>

GuardAges ==
  /\ guard = "fresh"
  /\ guard' = "stale"
  /\ UNCHANGED <<lock, core_lock, pc, dog, paused_until, loading, lease, job, fabric,
                 fan, net, kept>>

-------------------------------------------------------------------------------
Request(c) ==
  \/ EnterAccess(c) \/ Read(c) \/ Write(c)
  \/ AdcEnter(c) \/ AdcFirst(c) \/ AdcAgain(c) \/ AdcSecond(c)
  \/ PauseCheck(c) \/ SetPause(c) \/ Release(c)

Load(c) ==
  \/ LoadRequest(c) \/ LoadBegin(c) \/ LoadStart(c) \/ LoadReturn(c)
  \/ LoadSettle(c) \/ LoadVerify(c) \/ LoadRestore(c)
  \/ LoadFinish(c) \/ LoadNext(c) \/ LoadDone(c)

Dog == DogSees \/ DogPop \/ DogLock \/ DogRaise

Time == PauseExpires \/ LeaseExpires \/ GuardAges \/ PorDone

Next == (\E c \in Clients : Request(c) \/ Load(c)) \/ Dog \/ Time

Spec == Init /\ [][Next]_vars

(* The threads are scheduled, the SDM answers (a load that never returns     *)
(* keeps the registers paused by design), the power-on reset ends.           *)
ClientSteps(c) ==
  \/ Read(c) \/ Write(c) \/ AdcFirst(c) \/ AdcAgain(c) \/ AdcSecond(c) \/ SetPause(c)
  \/ (pc[c] \in LoadLabels /\ Load(c))

Fairness ==
  /\ \A c \in Clients : WF_vars(ClientSteps(c))
  /\ WF_vars(Dog)
  /\ WF_vars(PorDone)

FairSpec == Spec /\ Fairness

-------------------------------------------------------------------------------
(* Properties.                                                               *)

\* One core load at a time: core_lock admits one reload or install, through
\* all its steps and the rollback's second load.
OneLoad ==
  \A c, d \in Clients :
    pc[c] \in LoadLabels /\ pc[d] \in LoadLabels => c = d

\* An access while the fabric reconfigures, or in its power-on reset, hangs
\* the CPU: no thread is about to make one, the loader's own checks included.
NoAccessDuringLoad ==
  fabric \in {"loading", "por"} =>
    /\ dog # "access"
    /\ \A c \in Clients : pc[c] \notin AccessLabels \cup {"verify", "restore"}

\* Of the accesses that look at the pause under the lock, adc_op's first included,
\* only one thing lets any meet a fabric that reconfigures: a pause or resume that had
\* looked at loading before the load began and was carried out during it.
CheckedTraffic ==
  fabric \in {"loading", "por"} /\ ~kept.crossed =>
    \A c \in Clients : pc[c] \notin CheckedLabels

\* A load that succeeds - the rollback of a failed install too - puts back the
\* registers as they were before the first load, unless they were written
\* meanwhile.
RegistersKept ==
  \A c \in Clients :
    pc[c] \in FinishLabels /\ job.ok /\ ~kept.touched => fan = kept.fan

\* "A pause must not expire a lease": a deadline that passed during a load has
\* been moved on by the time traffic resumes.
LeaseKept == lease = "lapsed" => LoadRuns

\* The lease's promise: a lease that runs out is not dropped without the fan
\* raised to safe, and the fan stays there until a client writes it again.
NetHolds ==
  /\ net = "owed" => dog # "idle"
  /\ (net = "raised" /\ fabric = "up" /\ ~LoadRuns) => fan >= Safe

\* A load that started ends, with register traffic resumed.
LoadEnds == loading ~> ~loading
-------------------------------------------------------------------------------
(* The inductive invariant behind OneLoad, CheckedTraffic, RegistersKept and *)
(* LeaseKept (module FpgaAccessProofs).                                      *)

\* Each lock is held by the thread whose label says so.
Owners ==
  /\ \A c \in Clients : (pc[c] \in Holding) <=> (lock = c)
  /\ (dog = "access") <=> (lock = Watchdog)
  /\ \A c \in Clients : (pc[c] \in LoadLabels) <=> (core_lock = c)

\* The fabric reconfigures, and is in its power-on reset, only while the loader
\* is in the steps that wait for it; the registers are restored to a core.
FabricOf ==
  /\ fabric = "loading" => \E c \in Clients : pc[c] = "load"
  /\ fabric = "por" => \E c \in Clients : pc[c] = "settle"
  /\ \A c \in Clients : pc[c] \in {"verify", "restore"} => fabric = "up"

\* What the load has to put back, and has put back.
SavedOf ==
  \A c \in Clients :
    /\ pc[c] \in PausedLabels \cup FinishLabels => job.saved = kept.fan
    /\ pc[c] = "begin" /\ job.rollback => job.saved = kept.fan
    /\ pc[c] \in PausedLabels \ {"finish"} => ~job.ok
    /\ pc[c] \in {"finish"} \cup FinishLabels /\ job.ok /\ ~kept.touched
         => fan = kept.fan

\* Unless a pause or resume crosses it, the load's own pause holds to its end, and
\* whoever passed the checks has left the bridge before it starts.
PauseHolds ==
  \A c \in Clients : pc[c] \in PausedLabels \cup FinishLabels =>
    /\ loading
    /\ ~kept.crossed => /\ paused_until = "never"
                        /\ \A d \in Clients : pc[d] \notin CheckedLabels

IInv == Owners /\ FabricOf /\ SavedOf /\ PauseHolds /\ LeaseKept

===============================================================================
