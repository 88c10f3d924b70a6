---------------------------- MODULE RsuUpdateProofs ----------------------------
(***************************************************************************)
(* While no update goes to a slot where a core install is pending, the     *)
(* slots in flash hold one build each or nothing that boots, whatever is   *)
(* cut, fails or hangs, for any builds and any number of updates, and the  *)
(* update implements SlotStore; and when no update comes before a          *)
(* confirmation, the image to fall back to is kept.                        *)
(***************************************************************************)
EXTENDS RsuUpdate, FiniteSetTheorems, TLAPS

\* The faults the theorems are about.
NoneStale == "stale" \notin Faults
NoneEarly == "early" \notin Faults

\* The installation works on a slot that does not run and where nothing is pending.
Apart == rauc.pc # "off" => rauc.slot # running /\ pending[rauc.slot] = None

\* A pending core install has kept the core its directory has.
PendingKept == \A s \in Slot : pending[s] # None => pending[s] = store[s]["dir_core"]

\* Only an image of a slot awaits its confirmation.
SlotWaits == confirm \in {"waiting", "failed", "hung"} => running \in Slot

\* The steps from s on that leave the image as it is, to the write of the image.
AfterErase == {"erase_ssbl", "ssbl", "erase_core", "qcore", "uboot", "core", "dir_man",
               "dir_core", "write"}
Written == {"verify", "enable", "clear", "reboot_image", "handler", "ok"}

\* What the installation has put in its slot when it comes to its next step.
Progress ==
  LET part == store[rauc.slot]
      From(S) == rauc.pc \in S \cup Written
      b == rauc.build
  IN
  /\ rauc.pc \in {"rootfs", "hook", "erase"} \cup AfterErase => rauc.slot \notin enabled
  /\ rauc.pc \in AfterErase => part["image"] = None
  /\ From({"hook", "erase"} \cup AfterErase) => part["rootfs"] = b
  /\ From(AfterErase \ {"erase_ssbl", "ssbl"}) => part["ssbl"] = b
  /\ From({"uboot", "core", "dir_man", "dir_core", "write"}) => part["qcore"] \in {b, None}
  /\ From({"core", "dir_man", "dir_core", "write"}) => part["uboot"] = b
  /\ From({"dir_man", "dir_core", "write"}) => part["core"] = b
  /\ From({"dir_core", "write"}) => part["dir_man"] = b
  /\ From({"write"}) => part["dir_core"] = b
  /\ rauc.pc \in Written => rauc.slot \in enabled /\ rauc.slot = top
  /\ rauc.pc \in Written \ {"verify"} => part["image"] = b

IInv == Apart /\ PendingKept /\ SlotWaits /\ Progress /\ Coherent

\* A warm reboot is asked for the slot that does not run, the last one that was written.
AskedFor ==
  reboot_image # None => reboot_image # running /\ (running \in Slot => reboot_image = top)

\* The image confirmed last is the one that runs, unless a better one is on trial.
Fallback ==
  /\ FallbackKept
  /\ rauc.pc # "off" => good \in {running, None}
  /\ confirm \in {"confirmed", "hung"} => good \in {running, None}
  /\ running = Factory => good = None
  /\ confirm = "factory" => running = Factory
  /\ running \in Slot /\ running # top => good \in {running, None}

-------------------------------------------------------------------------------

LEMMA Names ==
  /\ None \notin Slot /\ Factory \notin Slot /\ None # Factory /\ None # Torn
  /\ None \notin Build /\ Torn \notin Build
  /\ First \in Build /\ First \in Healthy /\ FirstSlot \in Slot /\ Healthy \subseteq Build
BY SlotAssumption, BuildAssumption DEF None, Torn, Factory

\* The best image is one of those there are, or the factory's.
LEMMA BestOf ==
  ASSUME NEW S \in SUBSET Slot
  PROVE  /\ S = {} => Best(S) = Factory
         /\ S # {} => Best(S) \in S
         /\ top \in S => Best(S) = top
<1>1. S # {} => (CHOOSE s \in S : TRUE) \in S
  OBVIOUS
<1> QED
  BY <1>1 DEF Best

\* A slot whose parts are what they were holds the build it held.
LEMMA SameParts ==
  ASSUME NEW s \in Slot, store'[s] = store[s]
  PROVE  /\ Configures(s)' = Configures(s)
         /\ \A b : Whole(s, b)' = Whole(s, b)
BY DEF Configures, Whole, UBoot, Core

\* What the start of an image does to its slot's parts.
LEMMA StartKeeps ==
  ASSUME TypeOK, PendingKept, NEW s \in Slot \cup {Factory}, Start(s)
  PROVE  /\ store' \in [Slot -> [Parts -> Build \cup {None, Torn}]]
         /\ pending' \in [Slot -> Build \cup {None, Torn}]
         /\ confirm' \in {"waiting", "factory"} /\ running' = s /\ reboot_image' = None
         /\ enabled' = enabled /\ top' = top
         /\ confirm' = "waiting" => s \in Slot
         /\ \A t \in Slot : Configures(t)' = Configures(t)
         /\ \A t \in Slot, b \in Build :
              Whole(t, b) => Whole(t, b)' /\ store'[t]["image"] = b
         /\ \A t \in Slot : store'[t]["image"] = store[t]["image"]
         /\ PendingKept'
<1> USE Names
<1>1. CASE s = Factory
  BY <1>1 DEF Start, TypeOK, PendingKept, Configures, Whole, UBoot, Core
<1>2. CASE s \in Slot
  <2> DEFINE dirCore == IF pending[s] # None THEN pending[s]
                        ELSE IF store[s]["dir_core"] = None THEN Core(s)
                        ELSE store[s]["dir_core"]
             dirMan == IF pending[s] # None THEN pending[s] ELSE store[s]["dir_man"]
  <2>1. /\ running' = s /\ confirm' = "waiting" /\ reboot_image' = None
        /\ enabled' = enabled /\ top' = top /\ pending' = [pending EXCEPT ![s] = None]
    BY <1>2 DEF Start
  <2>2. store[s] \in [Parts -> Build \cup {None, Torn}]
    BY <1>2 DEF TypeOK
  <2>3. dirCore \in Build \cup {None, Torn} /\ dirMan \in Build \cup {None, Torn}
    BY <1>2, <2>2 DEF TypeOK, Core, Parts
  <2>4. store' = [store EXCEPT ![s] = [store[s] EXCEPT !["dir_core"] = dirCore,
                                                       !["dir_man"] = dirMan]]
    BY <1>2, <2>2 DEF Start, Parts, TypeOK
  <2>5. store' \in [Slot -> [Parts -> Build \cup {None, Torn}]]
    BY <1>2, <2>2, <2>3, <2>4 DEF TypeOK
  <2>6. \A t \in Slot \ {s} : store'[t] = store[t]
    BY <2>4 DEF TypeOK
  <2>7. /\ \A p \in Parts \ {"dir_core", "dir_man"} : store'[s][p] = store[s][p]
        /\ store'[s]["dir_core"] = dirCore /\ store'[s]["dir_man"] = dirMan
    BY <1>2, <2>2, <2>4 DEF TypeOK, Parts
  <2>8. pending[s] # None => pending[s] = store[s]["dir_core"]
    BY <1>2 DEF PendingKept
  <2>9. \A b \in Build : Whole(s, b) => Whole(s, b)'
    BY <2>7, <2>8 DEF Whole, UBoot, Core, Parts
  <2>10. Configures(s)' = Configures(s) /\ store'[s]["image"] = store[s]["image"]
    BY <2>7 DEF Configures, Parts
  <2>11. PendingKept'
    BY <1>2, <2>1, <2>6 DEF PendingKept, TypeOK
  <2>12. pending' \in [Slot -> Build \cup {None, Torn}]
    BY <1>2, <2>1 DEF TypeOK
  <2>13. \A t \in Slot : store'[t]["image"] = store[t]["image"]
    BY <2>6, <2>10
  <2>14. \A t \in Slot, b \in Build : Whole(t, b) => Whole(t, b)'
    BY <2>6, <2>9, SameParts
  <2>15. \A t \in Slot : Configures(t)' = Configures(t)
    BY <2>6, <2>10, SameParts
  <2>16. \A t \in Slot, b \in Build : Whole(t, b) => store'[t]["image"] = b
    BY <2>13 DEF Whole
  <2> QED
    BY <1>2, <2>1, <2>5, <2>11, <2>12, <2>13, <2>14, <2>15, <2>16
<1> QED
  BY <1>1, <1>2

\* Every start of an image - a power-on, a reboot, the watchdog - goes to a slot or the
\* factory image and leaves the installation, if there was one, without its process.
Starts ==
  /\ rauc' = [rauc EXCEPT !.pc = "off"]
  /\ failed' \in Slot \cup {None}
  /\ \E s \in Slot \cup {Factory} : Start(s)

LEMMA BootsStart ==
  ASSUME TypeOK, SlotWaits
  PROVE  RunnerReboots \/ WatchdogFires \/ PowerCut \/ RebootByHand => Starts
<1> USE Names
<1>1. Bootable \subseteq Slot /\ Below \subseteq Slot /\ enabled \subseteq Slot
  BY DEF Bootable, Below, TypeOK
<1>2. /\ Best(Bootable) \in Slot \cup {Factory}
      /\ Best(Below) \in Slot \cup {Factory}
      /\ Best(enabled) \in Slot \cup {Factory}
  BY <1>1, BestOf
<1>3. PowerOn => failed' \in Slot \cup {None} /\ \E s \in Slot \cup {Factory} : Start(s)
  BY <1>2 DEF PowerOn
<1>4. Reboot => failed' \in Slot \cup {None} /\ \E s \in Slot \cup {Factory} : Start(s)
  BY <1>2 DEF Reboot, TypeOK
<1>5. WatchdogFires => failed' \in Slot \cup {None} /\ \E s \in Slot \cup {Factory} : Start(s)
  BY <1>2 DEF WatchdogFires, SlotWaits
<1> QED
  BY <1>3, <1>4, <1>5
     DEF Starts, Goes, RunnerReboots, WatchdogFires, PowerCut, RebootByHand

\* A step that changes a part of the installation's slot leaves the other slots alone; its
\* own has no priority, or holds one build.
LEMMA PartPut ==
  ASSUME TypeOK, IInv, NEW part \in Parts, NEW value \in Build \cup {None, Torn},
         store' = [store EXCEPT ![rauc.slot][part] = value],
         rauc.pc # "off", rauc.slot \notin enabled
  PROVE  /\ store' \in [Slot -> [Parts -> Build \cup {None, Torn}]]
         /\ \A s \in Slot \ {rauc.slot} : store'[s] = store[s]
         /\ \A p \in Parts \ {part} : store'[rauc.slot][p] = store[rauc.slot][p]
         /\ store'[rauc.slot][part] = value
         /\ pending' = pending => PendingKept'
         /\ enabled' = enabled => Coherent'
<1>1. rauc.slot \in Slot /\ store \in [Slot -> [Parts -> Build \cup {None, Torn}]]
  BY DEF TypeOK
<1>2. store' \in [Slot -> [Parts -> Build \cup {None, Torn}]]
  BY <1>1
<1>3. \A s \in Slot \ {rauc.slot} : store'[s] = store[s]
  BY <1>1
<1>4. /\ \A p \in Parts \ {part} : store'[rauc.slot][p] = store[rauc.slot][p]
      /\ store'[rauc.slot][part] = value
  BY <1>1
<1>5. pending' = pending => PendingKept'
  BY <1>3 DEF IInv, PendingKept, Apart
<1>6. ASSUME enabled' = enabled PROVE Coherent'
  <2> SUFFICES ASSUME NEW s \in Slot, s \in enabled, Configures(s)'
               PROVE  Whole(s, store[s]["image"])' /\ store'[s] = store[s]
    BY <1>6 DEF Coherent, Bootable, TypeOK
  <2>1. store'[s] = store[s]
    BY <1>3
  <2> QED
    BY <2>1, SameParts DEF IInv, Coherent, Bootable
<1> QED
  BY <1>2, <1>3, <1>4, <1>5, <1>6

\* What a step of the installation does to its slot.
Lays(here, next, part, value) == Put(here, next, part, value) /\ enabled' = enabled

LEMMA LaysKeeps ==
  ASSUME TypeOK, IInv,
         NEW here \in {"rootfs", "erase"} \cup AfterErase, NEW next \in Steps,
         NEW part \in Parts, NEW value \in Build \cup {None, Torn},
         Lays(here, next, part, value)
  PROVE  /\ TypeOK' /\ Apart' /\ PendingKept' /\ SlotWaits' /\ Coherent'
         /\ rauc.pc = here /\ enabled' = enabled
         /\ rauc' \in {[rauc EXCEPT !.pc = next], [rauc EXCEPT !.pc = "error"]}
         /\ \A p \in Parts \ {part} : store'[rauc.slot][p] = store[rauc.slot][p]
         /\ store'[rauc.slot][part] = value
<1> rauc \in [pc : Steps \cup {"off", "ok", "error"}, slot : Slot, build : Build]
  BY DEF TypeOK
<1>1. rauc' \in {[rauc EXCEPT !.pc = next], [rauc EXCEPT !.pc = "error"]}
  BY DEF Lays, Put, Goes, Reported
<1>2. rauc.pc # "off" /\ rauc.slot \notin enabled
  BY DEF Lays, Put, IInv, Progress, AfterErase
<1>3. /\ store' = [store EXCEPT ![rauc.slot][part] = value]
      /\ UNCHANGED <<enabled, top, pending, failed, reboot_image, running, confirm, cuts,
                     updates, good>>
  BY DEF Lays, Put, sdm
<1>4. /\ store' \in [Slot -> [Parts -> Build \cup {None, Torn}]]
      /\ PendingKept' /\ Coherent'
      /\ \A p \in Parts \ {part} : store'[rauc.slot][p] = store[rauc.slot][p]
      /\ store'[rauc.slot][part] = value
  BY <1>2, <1>3, PartPut
<1>5. TypeOK'
  BY <1>1, <1>3, <1>4 DEF TypeOK
<1>6. Apart' /\ SlotWaits'
  BY <1>1, <1>2, <1>3 DEF IInv, Apart, SlotWaits
<1> QED
  BY <1>1, <1>3, <1>4, <1>5, <1>6 DEF Lays, Put

\* Each step that writes or erases a part keeps the types and the invariant.
LEMMA PutKeeps ==
  ASSUME TypeOK, IInv
  PROVE  /\ WriteRootfs \/ Erase \/ EraseSsbl \/ WriteSsbl \/ EraseCore => TypeOK' /\ IInv'
         /\ WriteCore \/ WriteCardUBoot \/ WriteCardCore => TypeOK' /\ IInv'
         /\ WriteManifest \/ WriteDirCore \/ BeginWrite => TypeOK' /\ IInv'
<1> USE Names
<1>1. /\ rauc \in [pc : Steps \cup {"off", "ok", "error"}, slot : Slot, build : Build]
      /\ rauc.build \in Build \cup {None, Torn} /\ None \in Build \cup {None, Torn}
  BY DEF TypeOK
<1>2. CASE WriteRootfs
  <2>0. /\ "rootfs" \in {"rootfs", "erase"} \cup AfterErase /\ "rootfs" \in Parts
        /\ "hook" \in Steps
    BY DEF AfterErase, Steps, Parts
  <2>1. Lays("rootfs", "hook", "rootfs", rauc.build)
    BY <1>2 DEF WriteRootfs, Lays
  <2>2. /\ TypeOK' /\ Apart' /\ PendingKept' /\ SlotWaits' /\ Coherent'
        /\ rauc.pc = "rootfs" /\ enabled' = enabled
        /\ rauc' \in {[rauc EXCEPT !.pc = "hook"], [rauc EXCEPT !.pc = "error"]}
        /\ \A p \in Parts \ {"rootfs"} : store'[rauc.slot][p] = store[rauc.slot][p]
        /\ store'[rauc.slot]["rootfs"] = rauc.build
    BY <1>1, <2>1, <2>0, LaysKeeps
  <2>3. Progress'
    BY <1>1, <2>2 DEF IInv, Progress, AfterErase, Written, Parts
  <2> QED
    BY <2>2, <2>3 DEF IInv
<1>3. CASE Erase
  <2>0. /\ "erase" \in {"rootfs", "erase"} \cup AfterErase /\ "image" \in Parts
        /\ "erase_ssbl" \in Steps
    BY DEF AfterErase, Steps, Parts
  <2>1. Lays("erase", "erase_ssbl", "image", None)
    BY <1>3 DEF IInv, Progress, Erase, Lays, Put
  <2>2. /\ TypeOK' /\ Apart' /\ PendingKept' /\ SlotWaits' /\ Coherent'
        /\ rauc.pc = "erase" /\ enabled' = enabled
        /\ rauc' \in {[rauc EXCEPT !.pc = "erase_ssbl"], [rauc EXCEPT !.pc = "error"]}
        /\ \A p \in Parts \ {"image"} : store'[rauc.slot][p] = store[rauc.slot][p]
        /\ store'[rauc.slot]["image"] = None
    BY <1>1, <2>1, <2>0, LaysKeeps
  <2>3. Progress'
    BY <1>1, <2>2 DEF IInv, Progress, AfterErase, Written, Parts
  <2> QED
    BY <2>2, <2>3 DEF IInv
<1>4. CASE EraseSsbl
  <2>0. /\ "erase_ssbl" \in {"rootfs", "erase"} \cup AfterErase /\ "ssbl" \in Parts
        /\ "ssbl" \in Steps
    BY DEF AfterErase, Steps, Parts
  <2>1. Lays("erase_ssbl", "ssbl", "ssbl", None)
    BY <1>4 DEF EraseSsbl, Lays
  <2>2. /\ TypeOK' /\ Apart' /\ PendingKept' /\ SlotWaits' /\ Coherent'
        /\ rauc.pc = "erase_ssbl" /\ enabled' = enabled
        /\ rauc' \in {[rauc EXCEPT !.pc = "ssbl"], [rauc EXCEPT !.pc = "error"]}
        /\ \A p \in Parts \ {"ssbl"} : store'[rauc.slot][p] = store[rauc.slot][p]
        /\ store'[rauc.slot]["ssbl"] = None
    BY <1>1, <2>1, <2>0, LaysKeeps
  <2>3. Progress'
    BY <1>1, <2>2 DEF IInv, Progress, AfterErase, Written, Parts
  <2> QED
    BY <2>2, <2>3 DEF IInv
<1>5. CASE WriteSsbl
  <2>0. /\ "ssbl" \in {"rootfs", "erase"} \cup AfterErase /\ "ssbl" \in Parts
        /\ "erase_core" \in Steps
    BY DEF AfterErase, Steps, Parts
  <2>1. Lays("ssbl", "erase_core", "ssbl", rauc.build)
    BY <1>5 DEF WriteSsbl, Lays
  <2>2. /\ TypeOK' /\ Apart' /\ PendingKept' /\ SlotWaits' /\ Coherent'
        /\ rauc.pc = "ssbl" /\ enabled' = enabled
        /\ rauc' \in {[rauc EXCEPT !.pc = "erase_core"], [rauc EXCEPT !.pc = "error"]}
        /\ \A p \in Parts \ {"ssbl"} : store'[rauc.slot][p] = store[rauc.slot][p]
        /\ store'[rauc.slot]["ssbl"] = rauc.build
    BY <1>1, <2>1, <2>0, LaysKeeps
  <2>3. Progress'
    BY <1>1, <2>2 DEF IInv, Progress, AfterErase, Written, Parts
  <2> QED
    BY <2>2, <2>3 DEF IInv
<1>6. CASE EraseCore
  <2>0. /\ "erase_core" \in {"rootfs", "erase"} \cup AfterErase /\ "qcore" \in Parts
        /\ {"uboot", "qcore"} \subseteq Steps
    BY DEF AfterErase, Steps, Parts
  <2>1. PICK next \in {"uboot", "qcore"} : Lays("erase_core", next, "qcore", None)
    BY <1>6 DEF EraseCore, Lays
  <2>2. /\ TypeOK' /\ Apart' /\ PendingKept' /\ SlotWaits' /\ Coherent'
        /\ rauc.pc = "erase_core" /\ enabled' = enabled
        /\ rauc' \in {[rauc EXCEPT !.pc = next], [rauc EXCEPT !.pc = "error"]}
        /\ \A p \in Parts \ {"qcore"} : store'[rauc.slot][p] = store[rauc.slot][p]
        /\ store'[rauc.slot]["qcore"] = None
    BY <1>1, <2>1, <2>0, LaysKeeps
  <2>3. Progress'
    BY <1>1, <2>2 DEF IInv, Progress, AfterErase, Written, Parts
  <2> QED
    BY <2>2, <2>3 DEF IInv
<1>7. CASE WriteCore
  <2>0. /\ "qcore" \in {"rootfs", "erase"} \cup AfterErase /\ "qcore" \in Parts
        /\ "uboot" \in Steps
    BY DEF AfterErase, Steps, Parts
  <2>1. Lays("qcore", "uboot", "qcore", rauc.build)
    BY <1>7 DEF WriteCore, Lays
  <2>2. /\ TypeOK' /\ Apart' /\ PendingKept' /\ SlotWaits' /\ Coherent'
        /\ rauc.pc = "qcore" /\ enabled' = enabled
        /\ rauc' \in {[rauc EXCEPT !.pc = "uboot"], [rauc EXCEPT !.pc = "error"]}
        /\ \A p \in Parts \ {"qcore"} : store'[rauc.slot][p] = store[rauc.slot][p]
        /\ store'[rauc.slot]["qcore"] = rauc.build
    BY <1>1, <2>1, <2>0, LaysKeeps
  <2>3. Progress'
    BY <1>1, <2>2 DEF IInv, Progress, AfterErase, Written, Parts
  <2> QED
    BY <2>2, <2>3 DEF IInv
<1>8. CASE WriteCardUBoot
  <2>0. /\ "uboot" \in {"rootfs", "erase"} \cup AfterErase /\ "uboot" \in Parts
        /\ "core" \in Steps
    BY DEF AfterErase, Steps, Parts
  <2>1. Lays("uboot", "core", "uboot", rauc.build)
    BY <1>8 DEF WriteCardUBoot, Lays
  <2>2. /\ TypeOK' /\ Apart' /\ PendingKept' /\ SlotWaits' /\ Coherent'
        /\ rauc.pc = "uboot" /\ enabled' = enabled
        /\ rauc' \in {[rauc EXCEPT !.pc = "core"], [rauc EXCEPT !.pc = "error"]}
        /\ \A p \in Parts \ {"uboot"} : store'[rauc.slot][p] = store[rauc.slot][p]
        /\ store'[rauc.slot]["uboot"] = rauc.build
    BY <1>1, <2>1, <2>0, LaysKeeps
  <2>3. Progress'
    BY <1>1, <2>2 DEF IInv, Progress, AfterErase, Written, Parts
  <2> QED
    BY <2>2, <2>3 DEF IInv
<1>9. CASE WriteCardCore
  <2>0. /\ "core" \in {"rootfs", "erase"} \cup AfterErase /\ "core" \in Parts
        /\ "dir_man" \in Steps
    BY DEF AfterErase, Steps, Parts
  <2>1. Lays("core", "dir_man", "core", rauc.build)
    BY <1>9 DEF WriteCardCore, Lays
  <2>2. /\ TypeOK' /\ Apart' /\ PendingKept' /\ SlotWaits' /\ Coherent'
        /\ rauc.pc = "core" /\ enabled' = enabled
        /\ rauc' \in {[rauc EXCEPT !.pc = "dir_man"], [rauc EXCEPT !.pc = "error"]}
        /\ \A p \in Parts \ {"core"} : store'[rauc.slot][p] = store[rauc.slot][p]
        /\ store'[rauc.slot]["core"] = rauc.build
    BY <1>1, <2>1, <2>0, LaysKeeps
  <2>3. Progress'
    BY <1>1, <2>2 DEF IInv, Progress, AfterErase, Written, Parts
  <2> QED
    BY <2>2, <2>3 DEF IInv
<1>10. CASE WriteManifest
  <2>0. /\ "dir_man" \in {"rootfs", "erase"} \cup AfterErase /\ "dir_man" \in Parts
        /\ "dir_core" \in Steps
    BY DEF AfterErase, Steps, Parts
  <2>1. Lays("dir_man", "dir_core", "dir_man", rauc.build)
    BY <1>10 DEF WriteManifest, Lays
  <2>2. /\ TypeOK' /\ Apart' /\ PendingKept' /\ SlotWaits' /\ Coherent'
        /\ rauc.pc = "dir_man" /\ enabled' = enabled
        /\ rauc' \in {[rauc EXCEPT !.pc = "dir_core"], [rauc EXCEPT !.pc = "error"]}
        /\ \A p \in Parts \ {"dir_man"} : store'[rauc.slot][p] = store[rauc.slot][p]
        /\ store'[rauc.slot]["dir_man"] = rauc.build
    BY <1>1, <2>1, <2>0, LaysKeeps
  <2>3. Progress'
    BY <1>1, <2>2 DEF IInv, Progress, AfterErase, Written, Parts
  <2> QED
    BY <2>2, <2>3 DEF IInv
<1>11. CASE WriteDirCore
  <2>0. /\ "dir_core" \in {"rootfs", "erase"} \cup AfterErase /\ "dir_core" \in Parts
        /\ "write" \in Steps
    BY DEF AfterErase, Steps, Parts
  <2>1. Lays("dir_core", "write", "dir_core", rauc.build)
    BY <1>11 DEF WriteDirCore, Lays
  <2>2. /\ TypeOK' /\ Apart' /\ PendingKept' /\ SlotWaits' /\ Coherent'
        /\ rauc.pc = "dir_core" /\ enabled' = enabled
        /\ rauc' \in {[rauc EXCEPT !.pc = "write"], [rauc EXCEPT !.pc = "error"]}
        /\ \A p \in Parts \ {"dir_core"} : store'[rauc.slot][p] = store[rauc.slot][p]
        /\ store'[rauc.slot]["dir_core"] = rauc.build
    BY <1>1, <2>1, <2>0, LaysKeeps
  <2>3. Progress'
    BY <1>1, <2>2 DEF IInv, Progress, AfterErase, Written, Parts
  <2> QED
    BY <2>2, <2>3 DEF IInv
<1>12. CASE BeginWrite
  <2>1. /\ rauc.pc \in {"rootfs", "ssbl", "qcore"} /\ rauc.slot \notin enabled
        /\ rauc.pc \in Parts
        /\ store' = [store EXCEPT ![rauc.slot][rauc.pc] = Torn]
        /\ UNCHANGED <<enabled, top, pending, failed, reboot_image, running, confirm, rauc,
                       cuts, updates, good>>
    BY <1>12 DEF BeginWrite, IInv, Progress, AfterErase, Parts, sdm
  <2>2. /\ store' \in [Slot -> [Parts -> Build \cup {None, Torn}]]
        /\ \A p \in Parts \ {rauc.pc} : store'[rauc.slot][p] = store[rauc.slot][p]
        /\ PendingKept' /\ Coherent'
    BY <2>1, PartPut
  <2>3. TypeOK' /\ Apart' /\ SlotWaits'
    BY <2>1, <2>2 DEF TypeOK, IInv, Apart, SlotWaits
  <2>4. Progress'
    BY <2>1, <2>2 DEF IInv, Progress, AfterErase, Written, Parts
  <2> QED
    BY <2>2, <2>3, <2>4 DEF IInv
<1> QED
  BY <1>2, <1>3, <1>4, <1>5, <1>6, <1>7, <1>8, <1>9, <1>10, <1>11, <1>12

\* The image is the last part: with it the slot holds one whole build, or does not boot.
LEMMA ImageKeeps ==
  ASSUME TypeOK, IInv, WriteImage
  PROVE  TypeOK' /\ IInv'
<1> USE Names
<1> rauc \in [pc : Steps \cup {"off", "ok", "error"}, slot : Slot, build : Build]
  BY DEF TypeOK
<1> "verify" \in Steps
  BY DEF Steps
<1>1. PICK v \in {rauc.build, Torn} : store' = [store EXCEPT ![rauc.slot]["image"] = v]
  BY DEF WriteImage
<1>2. /\ rauc.pc = "write" /\ rauc.slot \notin enabled
      /\ enabled' = enabled \cup {rauc.slot} /\ top' = rauc.slot
      /\ rauc' \in {[rauc EXCEPT !.pc = "verify"], [rauc EXCEPT !.pc = "error"]}
      /\ UNCHANGED <<pending, failed, reboot_image, running, confirm, cuts, updates, good>>
  BY DEF WriteImage, Adds, Goes, Reported, sdm, IInv, Progress, AfterErase
<1>3. /\ store' \in [Slot -> [Parts -> Build \cup {None, Torn}]]
      /\ \A s \in Slot \ {rauc.slot} : store'[s] = store[s]
      /\ \A p \in Parts \ {"image"} : store'[rauc.slot][p] = store[rauc.slot][p]
      /\ store'[rauc.slot]["image"] = v
      /\ PendingKept'
  BY <1>1, <1>2, PartPut DEF Parts
<1>4. TypeOK'
  BY <1>2, <1>3 DEF TypeOK
<1>5. Apart' /\ SlotWaits'
  BY <1>2 DEF IInv, Apart, SlotWaits
<1>6. Progress'
  BY <1>2, <1>3 DEF IInv, Progress, AfterErase, Written, Parts
<1>7. v = rauc.build => Whole(rauc.slot, store[rauc.slot]["image"])'
  BY <1>2, <1>3 DEF IInv, Progress, AfterErase, Written, Parts, Whole, UBoot, Core
<1>8. v # rauc.build => ~Configures(rauc.slot)'
  BY <1>1, <1>2, <1>3 DEF Configures
<1>9. \A s \in Slot \ {rauc.slot} :
        s \in Bootable' => Whole(s, store[s]["image"])'
  BY <1>2, <1>3, SameParts DEF IInv, Coherent, Bootable, Configures
<1>10. Coherent'
  BY <1>2, <1>4, <1>7, <1>8, <1>9 DEF Coherent, Bootable, TypeOK
<1> QED
  BY <1>3, <1>4, <1>5, <1>6, <1>10 DEF IInv

LEMMA StartsKeep ==
  ASSUME TypeOK, IInv, Starts,
         cuts' \in 0..MaxCuts, updates' = updates, good' \in {good, None}
  PROVE  TypeOK' /\ IInv'
<1> USE Names
<1>1. PICK s \in Slot \cup {Factory} : Start(s)
  BY DEF Starts
<1>2. /\ store' \in [Slot -> [Parts -> Build \cup {None, Torn}]]
      /\ pending' \in [Slot -> Build \cup {None, Torn}]
      /\ confirm' \in {"waiting", "factory"} /\ running' = s /\ reboot_image' = None
      /\ enabled' = enabled /\ top' = top
      /\ confirm' = "waiting" => s \in Slot
      /\ \A t \in Slot : Configures(t)' = Configures(t)
      /\ \A t \in Slot, b \in Build :
           Whole(t, b) => Whole(t, b)' /\ store'[t]["image"] = b
      /\ PendingKept'
  BY <1>1, StartKeeps DEF IInv
<1>3. rauc' = [rauc EXCEPT !.pc = "off"] /\ failed' \in Slot \cup {None}
  BY DEF Starts
<1>4. TypeOK'
  BY <1>2, <1>3 DEF TypeOK
<1>5. Apart' /\ SlotWaits'
  BY <1>2, <1>3 DEF Apart, SlotWaits, TypeOK
<1>6. Progress'
  BY <1>3 DEF Progress, AfterErase, Written, TypeOK
<1>7. Coherent'
  <2>1. ASSUME NEW t \in Bootable'
        PROVE  Whole(t, store[t]["image"])'
    <3>1. t \in Bootable /\ t \in Slot /\ store[t]["image"] \in Build
      BY <1>2, <2>1 DEF Bootable, Configures, TypeOK
    <3>2. Whole(t, store[t]["image"])
      BY <3>1 DEF IInv, Coherent
    <3> DEFINE b == store[t]["image"]
    <3>3. Whole(t, b)' /\ store'[t]["image"] = store[t]["image"]
      BY <1>2, <3>1, <3>2
    <3> QED
      BY <1>2, <3>1, <3>2 DEF Whole, UBoot, Core
  <2> QED
    BY <2>1 DEF Coherent
<1> QED
  BY <1>2, <1>4, <1>5, <1>6, <1>7 DEF IInv

\* Every other step leaves the parts alone.
LEMMA StepKeeps ==
  ASSUME NoneStale, TypeOK, IInv, [Next]_vars
  PROVE  TypeOK' /\ IInv'
<1> USE Names
<1>0. /\ rauc \in [pc : Steps \cup {"off", "ok", "error"}, slot : Slot, build : Build]
      /\ {"rootfs", "erase", "enable", "clear", "reboot_image", "handler"} \subseteq Steps
      /\ cuts + 1 \in Nat /\ updates + 1 \in Nat
  BY BoundsAssumption DEF TypeOK, Steps
<1>1. ASSUME NEW b \in Build, Begin(b)
      PROVE  TypeOK' /\ IInv'
  <2>1. PICK s \in Slot \ {running} :
          pending[s] = None /\ rauc' = [pc |-> "mark", slot |-> s, build |-> b]
    BY <1>1 DEF Begin, NoneStale
  <2>2. UNCHANGED <<store, enabled, top, pending, failed, reboot_image, running, confirm,
                    cuts, good>>
    BY <1>1 DEF Begin, flash, sdm
  <2>3. updates' \in 0..MaxUpdates /\ "mark" \in Steps
    BY <1>1, BoundsAssumption DEF Begin, TypeOK, Steps
  <2>4. TypeOK'
    BY <2>1, <2>2, <2>3 DEF TypeOK
  <2>5. Apart' /\ PendingKept' /\ SlotWaits'
    BY <2>1, <2>2 DEF IInv, Apart, PendingKept, SlotWaits
  <2>6. Progress'
    BY <2>1 DEF Progress, AfterErase, Written
  <2>7. Coherent'
    BY <2>2 DEF IInv, Coherent, Bootable, Configures, Whole, UBoot, Core
  <2> QED
    BY <2>4, <2>5, <2>6, <2>7 DEF IInv
<1>2. CASE Mark
  <2>1. /\ enabled' = enabled \ {rauc.slot} /\ rauc' = [rauc EXCEPT !.pc = "rootfs"]
        /\ rauc.pc = "mark"
        /\ UNCHANGED <<store, top, pending, failed, reboot_image, running, confirm, cuts,
                       updates, good>>
    BY <1>2 DEF Mark, Goes, sdm
  <2>2. TypeOK'
    BY <1>0, <2>1 DEF TypeOK
  <2>3. Apart' /\ PendingKept' /\ SlotWaits'
    BY <1>0, <2>1 DEF IInv, Apart, PendingKept, SlotWaits
  <2>4. Progress'
    BY <1>0, <2>1 DEF Progress, AfterErase, Written
  <2>5. Coherent'
    BY <2>1 DEF IInv, Coherent, Bootable, Configures, Whole, UBoot, Core
  <2> QED
    BY <2>2, <2>3, <2>4, <2>5 DEF IInv
<1>3. CASE WriteRootfs \/ Erase \/ EraseSsbl \/ WriteSsbl \/ EraseCore
  BY <1>3, PutKeeps
<1>4. CASE \/ WriteCore \/ WriteCardUBoot \/ WriteCardCore
           \/ WriteManifest \/ WriteDirCore \/ BeginWrite
  BY <1>4, PutKeeps
<1>5. CASE WriteImage
  BY <1>5, ImageKeeps
<1>6. CASE Enable
  <2>1. /\ rauc.pc = "enable" /\ enabled' = enabled \cup {rauc.slot} /\ top' = rauc.slot
        /\ rauc' = [rauc EXCEPT !.pc = "clear"]
        /\ UNCHANGED <<store, pending, failed, reboot_image, running, confirm, cuts,
                       updates, good>>
    BY <1>6 DEF Enable, Adds, Goes, sdm
  <2>2. enabled' = enabled
    BY <2>1 DEF IInv, Progress, Written
  <2>3. TypeOK'
    BY <1>0, <2>1, <2>2 DEF TypeOK
  <2>4. Apart' /\ PendingKept' /\ SlotWaits'
    BY <1>0, <2>1 DEF IInv, Apart, PendingKept, SlotWaits
  <2>5. Progress'
    BY <1>0, <2>1, <2>2 DEF IInv, Progress, AfterErase, Written
  <2>6. Coherent'
    BY <2>1, <2>2 DEF IInv, Coherent, Bootable, Configures, Whole, UBoot, Core
  <2> QED
    BY <2>3, <2>4, <2>5, <2>6 DEF IInv
<1>7. CASE Hook \/ Verify \/ Handler \/ ToolFails \/ RaucEnds
  <2>1. /\ UNCHANGED <<store, enabled, top, pending, failed, reboot_image, running, confirm,
                       cuts, updates, good>>
        /\ rauc.pc # "off"
        /\ \/ rauc' = [rauc EXCEPT !.pc = "error"] \/ rauc' = [rauc EXCEPT !.pc = "off"]
           \/ rauc.pc = "hook" /\ rauc' = [rauc EXCEPT !.pc = "erase"]
           \/ /\ rauc.pc = "verify" /\ store[rauc.slot]["image"] = rauc.build
              /\ rauc' = [rauc EXCEPT !.pc = "enable"]
           \/ rauc.pc = "handler" /\ rauc' = [rauc EXCEPT !.pc = "ok"]
    BY <1>7 DEF Hook, Verify, Handler, ToolFails, RaucEnds, Goes, flash, sdm, Steps
  <2>2. TypeOK'
    BY <1>0, <2>1 DEF TypeOK
  <2>3. Apart' /\ PendingKept' /\ SlotWaits'
    BY <1>0, <2>1 DEF IInv, Apart, PendingKept, SlotWaits
  <2>4. Progress'
    BY <1>0, <2>1 DEF IInv, Progress, AfterErase, Written
  <2>5. Coherent'
    BY <2>1 DEF IInv, Coherent, Bootable, Configures, Whole, UBoot, Core
  <2> QED
    BY <2>2, <2>3, <2>4, <2>5 DEF IInv
<1>8. CASE ClearError \/ SetReboot
  <2>1. /\ UNCHANGED <<store, enabled, top, pending, running, confirm, cuts, updates, good>>
        /\ failed' \in Slot \cup {None} /\ reboot_image' \in Slot \cup {None}
        /\ \/ rauc.pc = "clear" /\ rauc' = [rauc EXCEPT !.pc = "reboot_image"]
           \/ rauc.pc = "reboot_image" /\ rauc' = [rauc EXCEPT !.pc = "handler"]
    BY <1>0, <1>8 DEF ClearError, SetReboot, Goes, flash, TypeOK
  <2>2. TypeOK'
    BY <1>0, <2>1 DEF TypeOK
  <2>3. Apart' /\ PendingKept' /\ SlotWaits'
    BY <1>0, <2>1 DEF IInv, Apart, PendingKept, SlotWaits
  <2>4. Progress'
    BY <1>0, <2>1 DEF IInv, Progress, AfterErase, Written
  <2>5. Coherent'
    BY <2>1 DEF IInv, Coherent, Bootable, Configures, Whole, UBoot, Core
  <2> QED
    BY <2>2, <2>3, <2>4, <2>5 DEF IInv
<1>9. CASE Confirm \/ Deadline \/ CoreHangs
  <2>1. /\ UNCHANGED <<store, enabled, top, failed, reboot_image, running, rauc, updates>>
        /\ confirm' \in {"confirmed", "failed", "hung"}
        /\ confirm' \in {"failed", "hung"} => running \in Slot
        /\ good' \in Slot \cup {None} /\ cuts' \in 0..MaxCuts
    BY <1>0, <1>9, BoundsAssumption
       DEF Confirm, Deadline, CoreHangs, flash, sdm, TypeOK, IInv, SlotWaits
  <2>2. \/ pending' = pending
        \/ /\ running \in Slot /\ rauc.pc = "off"
           /\ pending' = [pending EXCEPT ![running] = store[running]["dir_core"]]
    BY <1>9 DEF Confirm, Deadline, CoreHangs
  <2>3. pending' \in [Slot -> Build \cup {None, Torn}]
    BY <2>2 DEF TypeOK, Parts
  <2>4. TypeOK'
    BY <1>0, <2>1, <2>3 DEF TypeOK
  <2>5. Apart' /\ SlotWaits'
    BY <2>1, <2>2 DEF IInv, Apart, SlotWaits, TypeOK
  <2>6. PendingKept'
    BY <2>1, <2>2 DEF IInv, PendingKept, TypeOK
  <2>7. Progress'
    BY <2>1 DEF IInv, Progress
  <2>8. Coherent'
    BY <2>1 DEF IInv, Coherent, Bootable, Configures, Whole, UBoot, Core
  <2> QED
    BY <2>4, <2>5, <2>6, <2>7, <2>8 DEF IInv
<1>10. CASE RunnerReboots \/ WatchdogFires \/ PowerCut \/ RebootByHand
  <2>1. Starts
    BY <1>10, BootsStart DEF IInv
  <2>2. cuts' \in 0..MaxCuts /\ updates' = updates /\ good' \in {good, None}
    BY <1>0, <1>10, BoundsAssumption
       DEF RunnerReboots, WatchdogFires, PowerCut, RebootByHand, TypeOK
  <2> QED
    BY <2>1, <2>2, StartsKeep
<1>11. CASE UNCHANGED vars
  <2>1. UNCHANGED <<store, enabled, top, pending, failed, reboot_image, running, confirm,
                    rauc, cuts, updates, good>>
    BY <1>11 DEF vars, flash, sdm
  <2>2. TypeOK' /\ Apart' /\ PendingKept' /\ SlotWaits' /\ Progress'
    BY <2>1 DEF TypeOK, IInv, Apart, PendingKept, SlotWaits, Progress
  <2>3. Coherent'
    BY <2>1 DEF IInv, Coherent, Bootable, Configures, Whole, UBoot, Core
  <2> QED
    BY <2>2, <2>3 DEF IInv
<1> QED
  BY <1>1, <1>2, <1>3, <1>4, <1>5, <1>6, <1>7, <1>8, <1>9, <1>10, <1>11
     DEF Next, Update, Board

\* The types, and that an update leaves the slot that runs and those with a pending core
\* install alone and has put in its slot what its steps say.
THEOREM Invariant == NoneStale /\ Spec => [](TypeOK /\ IInv)
<1> SUFFICES ASSUME NoneStale PROVE Spec => [](TypeOK /\ IInv)
  OBVIOUS
<1>1. Init => TypeOK /\ IInv
  <2> USE Names
  <2> SUFFICES ASSUME Init PROVE TypeOK /\ IInv
    OBVIOUS
  <2>1. TypeOK
    BY BoundsAssumption DEF Init, TypeOK
  <2>2. Apart /\ PendingKept /\ SlotWaits /\ Progress
    BY DEF Init, Apart, PendingKept, SlotWaits, Progress, AfterErase, Written
  <2>3. \A p \in Parts : store[FirstSlot][p] = IF p # "dir_man" THEN First ELSE None
    BY DEF Init
  <2>4. Whole(FirstSlot, store[FirstSlot]["image"])
    BY <2>3 DEF Whole, UBoot, Core, Parts
  <2>5. Coherent
    BY <2>4 DEF Init, Coherent, Bootable
  <2> QED
    BY <2>1, <2>2, <2>5 DEF IInv
<1>2. TypeOK /\ IInv /\ [Next]_vars => (TypeOK /\ IInv)'
  BY StepKeeps
<1> QED
  BY <1>1, <1>2, PTL DEF Spec

\* The types of the flash, the device manager and the update.
THEOREM TypeCorrect == NoneStale /\ Spec => []TypeOK
BY Invariant, PTL

\* A slot the device manager would boot holds one build, whatever step of whatever update
\* was cut, failed or reported as failed.
THEOREM SlotsCoherent == NoneStale /\ Spec => []Coherent
<1>1. IInv => Coherent
  BY DEF IInv
<1> QED
  BY <1>1, Invariant, PTL

-------------------------------------------------------------------------------
(* Where a reboot goes to.                                                    *)

\* A start goes to an image that boots, to the factory's, or where the reboot was told to.
LEMMA BootsKnown ==
  ASSUME TypeOK, RunnerReboots \/ WatchdogFires \/ PowerCut \/ RebootByHand
  PROVE  \E s \in Bootable \cup {Factory, running} \cup ({reboot_image} \ {None}) : Start(s)
<1>1. Bootable \subseteq Slot /\ Below \subseteq Bootable
  BY DEF Bootable, Below, TypeOK
<1>2. Best(Bootable) \in Bootable \cup {Factory} /\ Best(Below) \in Bootable \cup {Factory}
  BY <1>1, BestOf
<1>3. CASE PowerCut
  BY <1>2, <1>3 DEF PowerCut, PowerOn
<1>4. CASE WatchdogFires
  BY <1>2, <1>4 DEF WatchdogFires
<1>5. CASE Reboot
  BY <1>2, <1>5 DEF Reboot
<1> QED
  BY <1>3, <1>4, <1>5 DEF RunnerReboots, RebootByHand

LEMMA SameBootable ==
  ASSUME TypeOK, \A s \in Slot : store'[s]["image"] = store[s]["image"], enabled' = enabled
  PROVE  Bootable' = Bootable
BY DEF Bootable, Configures, TypeOK

\* The steps of an installation change nothing that boots outside its slot.
LEMMA OthersBootable ==
  ASSUME TypeOK, IInv, Update \/ ToolFails,
         ~RunnerReboots
  PROVE  /\ running' = running /\ good' = good /\ rauc'.slot = rauc.slot
         /\ rauc.pc # "off" /\ rauc.slot # running
         /\ \A s \in Slot \ {rauc.slot} :
              /\ store'[s] = store[s]
              /\ s \in enabled' <=> s \in enabled
<1> rauc \in [pc : Steps \cup {"off", "ok", "error"}, slot : Slot, build : Build]
  BY DEF TypeOK
<1>1. rauc.pc # "off"
  BY DEF Update, Mark, BeginWrite, WriteRootfs, Hook, Erase, EraseSsbl, WriteSsbl, EraseCore,
         WriteCore, WriteCardUBoot, WriteCardCore, WriteManifest, WriteDirCore, WriteImage,
         Verify, Enable, ClearError, SetReboot, Handler, RaucEnds, Put, ToolFails, Steps
<1>2. rauc.slot # running
  BY <1>1 DEF IInv, Apart
<1>3. running' = running /\ good' = good /\ rauc'.slot = rauc.slot
  BY DEF Update, Mark, BeginWrite, WriteRootfs, Hook, Erase, EraseSsbl, WriteSsbl, EraseCore,
         WriteCore, WriteCardUBoot, WriteCardCore, WriteManifest, WriteDirCore, WriteImage,
         Verify, Enable, ClearError, SetReboot, Handler, RaucEnds, Put, ToolFails, Goes, sdm
<1>4. \/ store' = store
      \/ \E p \in Parts, v \in Build \cup {None, Torn} :
           store' = [store EXCEPT ![rauc.slot][p] = v]
  BY DEF Update, Mark, BeginWrite, WriteRootfs, Hook, Erase, EraseSsbl, WriteSsbl, EraseCore,
         WriteCore, WriteCardUBoot, WriteCardCore, WriteManifest, WriteDirCore, WriteImage,
         Verify, Enable, ClearError, SetReboot, Handler, RaucEnds, Put, ToolFails, flash, Parts
<1>5. enabled' \in {enabled, enabled \cup {rauc.slot}, enabled \ {rauc.slot}}
  BY DEF Update, Mark, BeginWrite, WriteRootfs, Hook, Erase, EraseSsbl, WriteSsbl, EraseCore,
         WriteCore, WriteCardUBoot, WriteCardCore, WriteManifest, WriteDirCore, WriteImage,
         Verify, Enable, ClearError, SetReboot, Handler, RaucEnds, Put, ToolFails, flash, Adds
<1>6. \A s \in Slot \ {rauc.slot} : store'[s] = store[s]
  BY <1>4 DEF TypeOK
<1> QED
  BY <1>1, <1>2, <1>3, <1>5, <1>6

\* There are but two slots.
LEMMA TwoSlots ==
  ASSUME NEW a \in Slot, NEW b \in Slot, NEW c \in Slot
  PROVE  a = b \/ b = c \/ a = c
<1> SUFFICES ASSUME a # b, b # c, a # c PROVE FALSE
  OBVIOUS
<1>1. Cardinality({a, b}) = 2 /\ IsFiniteSet({a, b})
  <2>1. Cardinality({a}) = 1 /\ IsFiniteSet({a})
    BY FS_Singleton
  <2>2. Cardinality({a} \cup {b}) = Cardinality({a}) + 1 /\ IsFiniteSet({a} \cup {b})
    BY <2>1, FS_AddElement
  <2>3. {a} \cup {b} = {a, b}
    OBVIOUS
  <2> QED
    BY <2>1, <2>2, <2>3
<1>2. Cardinality({a, b} \cup {c}) = 3
  BY <1>1, FS_AddElement
<1>3. Cardinality({a, b} \cup {c}) <= Cardinality(Slot) /\ Cardinality(Slot) \in Nat
  BY SlotAssumption, FS_Subset, FS_CardinalityType
<1> QED
  BY <1>2, <1>3, SlotAssumption

\* A set-primary asks for the installation's slot, and nothing else asks for a slot or
\* takes the request back but a start.
LEMMA AskedKept ==
  ASSUME TypeOK, IInv, TypeOK', AskedFor, [Next]_vars
  PROVE  AskedFor'
<1> USE Names
<1>1. CASE RunnerReboots \/ WatchdogFires \/ PowerCut \/ RebootByHand
  <2>1. PICK s : Start(s)
    BY <1>1, BootsKnown
  <2> QED
    BY <2>1 DEF Start, AskedFor
<1>2. CASE (Update \/ ToolFails) /\ ~RunnerReboots
  <2>1. running' = running /\ rauc.slot # running /\ rauc.slot \in Slot
    BY <1>2, OthersBootable DEF TypeOK
  <2>2. \/ SetReboot
        \/ reboot_image' = reboot_image /\ top' \in {top, rauc.slot}
    BY <1>2 DEF Update, Mark, BeginWrite, WriteRootfs, Hook, Erase, EraseSsbl, WriteSsbl,
                EraseCore, WriteCore, WriteCardUBoot, WriteCardCore, WriteManifest,
                WriteDirCore, WriteImage, Verify, Enable, ClearError, Handler, RaucEnds,
                Put, Adds, ToolFails, flash, sdm
  <2>3. CASE SetReboot
    BY <2>1, <2>3 DEF SetReboot, flash, IInv, Progress, Written, AskedFor
  <2>4. CASE reboot_image' = reboot_image /\ top' \in {top, rauc.slot}
    <3>1. ASSUME reboot_image # None, running \in Slot, top' = rauc.slot
          PROVE  reboot_image = rauc.slot
      BY <2>1, <3>1, TwoSlots DEF AskedFor, TypeOK
    <3> QED
      BY <2>1, <2>4, <3>1 DEF AskedFor
  <2> QED
    BY <2>2, <2>3, <2>4
<1>3. CASE (\E b \in Build : Begin(b)) \/ Confirm \/ Deadline \/ CoreHangs \/ UNCHANGED vars
  <2>1. UNCHANGED <<top, reboot_image, running>>
    BY <1>3 DEF Begin, Confirm, Deadline, CoreHangs, flash, sdm, vars
  <2> QED
    BY <2>1 DEF AskedFor
<1> QED
  BY <1>1, <1>2, <1>3 DEF Next, Update, Board

\* A warm reboot is asked for the slot that was written last, and never for the one that
\* runs, through failed handlers and further updates.
THEOREM AskedOfOther == NoneStale /\ Spec => []AskedFor
<1> SUFFICES ASSUME NoneStale PROVE Spec => []AskedFor
  OBVIOUS
<1>1. Init => AskedFor
  BY DEF Init, AskedFor
<1>2. TypeOK /\ IInv /\ (TypeOK /\ IInv)' /\ AskedFor /\ [Next]_vars => AskedFor'
  BY AskedKept
<1> QED
  BY <1>1, <1>2, Invariant, PTL DEF Spec

\* The update implements the abstract store: a slot is taken out and filled in one step
\* each, never while its image runs, and a reboot goes to a slot that holds a build, or to
\* the one it was asked for, which a later update may have taken out: a handler may fail.
THEOREM Refinement == NoneStale /\ Spec => Implements
<1> SUFFICES ASSUME NoneStale PROVE Spec => Implements
  OBVIOUS
<1> USE Names
<1>0. ASSUME IInv, TypeOK
      PROVE  Holds = [s \in Slot |-> IF s \in Bootable THEN store[s]["image"] ELSE None]
  BY <1>0 DEF Holds, IInv, Coherent
<1>1. Init => Store!Init
  BY DEF Init, Store!Init, Holds, Bootable, Configures, Parts
<1>2. ASSUME TypeOK, IInv, TypeOK', IInv', [Next]_vars
      PROVE  [Store!Next]_<<Holds, running, reboot_image>>
  <2>1. Holds = [s \in Slot |-> IF s \in Bootable THEN store[s]["image"] ELSE None]
    BY <1>0, <1>2
  <2>2. Holds' = [s \in Slot |-> IF s \in Bootable' THEN store'[s]["image"] ELSE None]
    BY <1>2 DEF Holds, IInv, Coherent
  <2>3. \A s \in Bootable : s \in Slot /\ Holds[s] \in Build
    BY <1>2, <2>1 DEF Bootable, Configures, TypeOK
  <2>4. \A s \in Bootable' : Holds'[s] \in Build
    BY <1>2, <2>2 DEF Bootable, Configures, TypeOK
  <2>5. CASE RunnerReboots \/ WatchdogFires \/ PowerCut \/ RebootByHand
    <3>1. PICK s \in Bootable \cup {Factory, running} \cup ({reboot_image} \ {None}) : Start(s)
      BY <1>2, <2>5, BootsKnown
    <3>2. s \in Slot \cup {Factory}
      BY <1>2, <2>3, <3>1 DEF TypeOK
    <3>3. /\ running' = s /\ enabled' = enabled /\ reboot_image' = None
          /\ \A t \in Slot : store'[t]["image"] = store[t]["image"]
      BY <1>2, <3>1, <3>2, StartKeeps DEF IInv
    <3>4. Bootable' = Bootable
      BY <1>2, <3>3, SameBootable
    <3>5. Holds' = Holds
      BY <2>1, <2>2, <3>3, <3>4
    <3>6. running' \in Slot => Holds[running'] # None \/ running' \in {running, reboot_image}
      BY <2>3, <3>1, <3>3
    <3> QED
      BY <3>3, <3>5, <3>6 DEF Store!Next, Store!Boot
  <2>6. CASE (Update \/ ToolFails) /\ ~RunnerReboots /\ ~SetReboot
    <3>0. reboot_image' = reboot_image
      BY <2>6 DEF Update, Mark, BeginWrite, WriteRootfs, Hook, Erase, EraseSsbl, WriteSsbl,
                  EraseCore, WriteCore, WriteCardUBoot, WriteCardCore, WriteManifest,
                  WriteDirCore, WriteImage, Verify, Enable, ClearError, Handler, RaucEnds,
                  Put, ToolFails, sdm
    <3>1. /\ running' = running /\ rauc.slot \in Slot /\ rauc.slot # running
          /\ \A s \in Slot \ {rauc.slot} :
               store'[s] = store[s] /\ (s \in enabled' <=> s \in enabled)
      BY <1>2, <2>6, OthersBootable DEF TypeOK
    <3>2. \A s \in Slot \ {rauc.slot} : s \in Bootable' <=> s \in Bootable
      BY <3>1, SameParts DEF Bootable
    <3>3. \A s \in Slot \ {rauc.slot} : Holds'[s] = Holds[s]
      BY <2>1, <2>2, <3>1, <3>2
    <3>4. Holds' = [Holds EXCEPT ![rauc.slot] = Holds'[rauc.slot]]
      BY <2>1, <2>2, <3>3
    <3>5. CASE Holds'[rauc.slot] = Holds[rauc.slot]
      BY <2>1, <3>0, <3>1, <3>4, <3>5
    <3>6. CASE Holds'[rauc.slot] = None
      BY <3>0, <3>1, <3>4, <3>6 DEF Store!Next, Store!TakeOut
    <3>7. CASE Holds[rauc.slot] = None /\ Holds'[rauc.slot] \in Build
      BY <3>0, <3>1, <3>4, <3>7 DEF Store!Next, Store!Fill
    <3>8. \/ Holds'[rauc.slot] = Holds[rauc.slot]
          \/ Holds'[rauc.slot] = None
          \/ Holds[rauc.slot] = None /\ Holds'[rauc.slot] \in Build
      <4> SUFFICES ASSUME rauc.slot \in Bootable, rauc.slot \in Bootable'
                   PROVE  Holds'[rauc.slot] = Holds[rauc.slot]
        BY <2>1, <2>2, <2>4, <3>1
      <4>1. rauc.pc \notin {"rootfs", "hook", "erase"} \cup AfterErase
        BY <1>2 DEF IInv, Progress, Bootable
      <4>2. store' = store
        BY <2>6, <4>1
           DEF Update, Mark, BeginWrite, WriteRootfs, Hook, Erase, EraseSsbl, WriteSsbl,
               EraseCore, WriteCore, WriteCardUBoot, WriteCardCore, WriteManifest,
               WriteDirCore, WriteImage, Verify, Enable, ClearError, SetReboot, Handler,
               RaucEnds, Put, ToolFails, flash, AfterErase
      <4> QED
        BY <2>1, <2>2, <3>1, <4>2
    <3> QED
      BY <3>5, <3>6, <3>7, <3>8
  <2>7. CASE (\E b \in Build : Begin(b)) \/ Confirm \/ Deadline \/ CoreHangs \/ UNCHANGED vars
    <3>1. UNCHANGED <<store, enabled, running, reboot_image>>
      BY <2>7 DEF Begin, Confirm, Deadline, CoreHangs, flash, sdm, vars
    <3>2. Bootable' = Bootable
      BY <1>2, <3>1, SameBootable
    <3> QED
      BY <2>1, <2>2, <3>1, <3>2
  <2>8. CASE SetReboot
    <3>1. /\ rauc.pc = "reboot_image" /\ reboot_image' = rauc.slot
          /\ UNCHANGED <<store, enabled, running>>
      BY <2>8 DEF SetReboot, flash
    <3>2. rauc.slot \in Slot /\ rauc.slot # running
      BY <1>2, <3>1 DEF IInv, Apart, TypeOK
    <3>3. rauc.slot \in enabled /\ store[rauc.slot]["image"] \in Build
      BY <1>2, <3>1 DEF IInv, Progress, Written, TypeOK
    <3>4. Holds[rauc.slot] # None
      BY <2>1, <3>2, <3>3 DEF Bootable, Configures
    <3>5. Holds' = Holds
      BY <1>2, <2>1, <2>2, <3>1, SameBootable
    <3> QED
      BY <3>1, <3>2, <3>4, <3>5 DEF Store!Next, Store!Ask
  <2> QED
    BY <1>2, <2>5, <2>6, <2>7, <2>8 DEF Next, Update, Board
<1> QED
  BY <1>1, <1>2, Invariant, PTL DEF Spec, Implements, Store!Spec

-------------------------------------------------------------------------------
(* The image to fall back to.                                                 *)

\* The image confirmed last boots.
LEMMA FallbackBoots ==
  ASSUME TypeOK, FallbackKept, good # None
  PROVE  good \in Bootable /\ good \in Slot
BY Names DEF FallbackKept, Bootable, Whole, Configures, TypeOK

\* A start that is not told where to go takes the image confirmed last or a better one.
LEMMA StartFallsBack ==
  ASSUME TypeOK, PendingKept, FallbackKept,
         NEW g \in {good, None}, NEW S \in SUBSET Bootable,
         g # None => g \in S, NEW s, s = Best(S), Start(s), top \in Bootable => top \in S
  PROVE  /\ s = Factory => g = None
         /\ s \in Slot /\ s # top => g \in {s, None}
<1> USE Names
<1>1. S \subseteq Slot
  BY DEF Bootable, TypeOK
<1>2. S = {} \/ s \in S
  BY <1>1, BestOf
<1>3. s = Factory => g = None
  BY <1>1, <1>2
<1>4. ASSUME s \in Slot, s # top, g # None
      PROVE  g = s
  <2>1. s \in S
    BY <1>1, <1>2, <1>4, BestOf
  <2>2. top \notin S
    BY <1>1, <1>4, BestOf
  <2> QED
    BY <1>1, <1>4, <2>1, <2>2, TwoSlots DEF TypeOK
<1> QED
  BY <1>3, <1>4

LEMMA FallbackStarts ==
  ASSUME TypeOK, IInv, AskedFor, Fallback,
         RunnerReboots \/ WatchdogFires \/ PowerCut \/ RebootByHand
  PROVE  Fallback'
<1> USE Names
<1>1. PICK s \in Bootable \cup {Factory, running} \cup ({reboot_image} \ {None}) : Start(s)
  BY BootsKnown
<1>2. s \in Slot \cup {Factory} /\ Bootable \subseteq Slot
  BY <1>1 DEF Bootable, TypeOK
<1>3. /\ confirm' = (IF s = Factory THEN "factory" ELSE "waiting") /\ running' = s
      /\ enabled' = enabled /\ top' = top
      /\ \A t \in Slot, b \in Build : Whole(t, b) => Whole(t, b)'
  BY <1>1, <1>2, StartKeeps DEF IInv, Start
<1>4. good' \in {good, None} /\ rauc'.pc = "off"
  BY DEF RunnerReboots, WatchdogFires, PowerCut, RebootByHand, Goes, TypeOK
<1>5. good # None => good \in Bootable /\ good \in Slot
  BY FallbackBoots DEF Fallback
<1>6. FallbackKept'
  <2>1. ASSUME good' # None
        PROVE  good' \in enabled' /\ \E b \in Healthy : Whole(good, b)'
    <3>1. good' = good /\ good \in Slot /\ good \in enabled
      BY <1>4, <1>5, <2>1 DEF Bootable
    <3>2. PICK b \in Healthy : Whole(good, b)
      BY <2>1, <3>1 DEF Fallback, FallbackKept
    <3>3. Whole(good, b)'
      <4> DEFINE W(t) == Whole(t, b)
      <4>1. Whole(good, b)' <=> \A t \in Slot : t = good => Whole(t, b)'
        BY <3>1 DEF Whole, UBoot, Core
      <4> QED
        BY <1>3, <3>1, <3>2, <4>1
    <3> QED
      BY <1>3, <3>1, <3>2, <3>3
  <2> QED
    BY <2>1 DEF FallbackKept
<1>7. /\ running' = Factory => good' = None
      /\ running' \in Slot /\ running' # top => good' \in {running', None}
  <2>1. CASE PowerCut
    <3>1. Start(Best(Bootable))
      BY <2>1 DEF PowerCut, PowerOn
    <3>2. Best(Bootable) = running'
      BY <3>1 DEF Start
    <3> QED
      BY <1>4, <1>5, <3>1, <3>2, StartFallsBack DEF IInv, Fallback
  <2>2. CASE WatchdogFires
    <3>1. Start(Best(Below)) /\ good' = IF good = running THEN None ELSE good
      BY <2>2 DEF WatchdogFires
    <3>2. Best(Below) = running'
      BY <3>1 DEF Start
    <3>3. running \in Slot
      BY <2>2 DEF WatchdogFires, IInv, SlotWaits
    <3>4. CASE running = top
      <4>1. Below = Bootable \ {running}
        BY <3>4 DEF Below
      <4>2. good' # None => good' \in Below /\ good' \in Slot
        BY <1>5, <3>1, <4>1
      <4>3. Below = {} \/ Best(Below) \in Below
        BY <1>2, <4>1, BestOf
      <4>4. Below = {} => running' = Factory
        BY <3>2, BestOf
      <4> QED
        BY <1>2, <3>2, <3>3, <4>1, <4>2, <4>3, <4>4, TwoSlots
    <3>5. CASE running # top
      BY <3>1, <3>3, <3>5 DEF Fallback
    <3> QED
      BY <3>4, <3>5
  <2>3. CASE Reboot /\ good' = good
    <3>1. CASE Start(Best(Bootable))
      <4>1. Best(Bootable) = running'
        BY <3>1 DEF Start
      <4> QED
        BY <1>4, <1>5, <3>1, <4>1, StartFallsBack DEF IInv, Fallback
    <3>2. CASE Start(running)
      BY <2>3, <3>2 DEF Start, Fallback
    <3>3. CASE reboot_image # None /\ Start(reboot_image)
      BY <1>4, <2>3, <3>3 DEF Start, AskedFor, TypeOK, Fallback
    <3> QED
      BY <2>3, <3>1, <3>2, <3>3 DEF Reboot
  <2> QED
    BY <2>1, <2>2, <2>3 DEF RunnerReboots, RebootByHand
<1> QED
  BY <1>3, <1>4, <1>6, <1>7 DEF Fallback

\* Without an update on top of one that is not confirmed, the image confirmed last is never
\* the one an update writes to.
LEMMA FallbackStep ==
  ASSUME NoneEarly, TypeOK, IInv, AskedFor, Fallback, [Next]_vars
  PROVE  Fallback'
<1> USE Names
<1>1. CASE RunnerReboots \/ WatchdogFires \/ PowerCut \/ RebootByHand
  BY <1>1, FallbackStarts
<1>2. CASE (Update \/ ToolFails) /\ ~RunnerReboots
  <2>1. /\ running' = running /\ good' = good /\ rauc.slot # running /\ rauc.pc # "off"
        /\ \A s \in Slot \ {rauc.slot} :
             store'[s] = store[s] /\ (s \in enabled' <=> s \in enabled)
    BY <1>2, OthersBootable
  <2>2. confirm' = confirm
    BY <1>2 DEF Update, Mark, BeginWrite, WriteRootfs, Hook, Erase, EraseSsbl, WriteSsbl,
                EraseCore, WriteCore, WriteCardUBoot, WriteCardCore, WriteManifest,
                WriteDirCore, WriteImage, Verify, Enable, ClearError, SetReboot, Handler,
                RaucEnds, Put, ToolFails
  <2>3. good \in {running, None} /\ good # rauc.slot
    BY <2>1 DEF Fallback, TypeOK
  <2>4. FallbackKept'
    <3>1. ASSUME good # None
          PROVE  good \in enabled' /\ \E b \in Healthy : Whole(good, b)'
      <4>1. good \in Slot \ {rauc.slot}
        BY <2>3, <3>1 DEF TypeOK
      <4>2. store'[good] = store[good] /\ good \in enabled'
        BY <2>1, <3>1, <4>1 DEF Fallback, FallbackKept
      <4>3. PICK b \in Healthy : Whole(good, b)
        BY <3>1 DEF Fallback, FallbackKept
      <4>4. Whole(good, b)'
        BY <2>1, <4>2, <4>3 DEF Whole, UBoot, Core
      <4> QED
        BY <4>2, <4>4
    <3> QED
      BY <2>1, <3>1 DEF FallbackKept
  <2> QED
    BY <2>1, <2>2, <2>3, <2>4 DEF Fallback
<1>3. CASE \E b \in Build : Begin(b)
  <2>1. /\ UNCHANGED <<store, enabled, top, running, confirm, good>>
        /\ confirm \in {"confirmed", "factory"}
    BY <1>3 DEF Begin, NoneEarly, flash, sdm
  <2>2. FallbackKept'
    BY <2>1 DEF Fallback, FallbackKept, Whole, UBoot, Core
  <2>3. good \in {running, None}
    BY <2>1 DEF Fallback
  <2> QED
    BY <2>1, <2>2, <2>3 DEF Fallback
<1>4. CASE Confirm
  <2>1. /\ UNCHANGED <<store, enabled, top, running, rauc>>
        /\ good' = IF running \in enabled THEN running ELSE None
        /\ confirm' = "confirmed" /\ confirm = "waiting" /\ IsHealthy
    BY <1>4 DEF Confirm, flash, sdm
  <2>2. running \in Slot
    BY <2>1 DEF IInv, SlotWaits
  <2>3. PICK b \in Healthy : Whole(running, b)
    BY <2>1, <2>2 DEF IsHealthy
  <2>4. FallbackKept'
    BY <2>1, <2>2, <2>3 DEF FallbackKept, Whole, UBoot, Core
  <2> QED
    BY <2>1, <2>2, <2>4 DEF Fallback
<1>5. CASE Deadline \/ CoreHangs \/ UNCHANGED vars
  <2>1. /\ UNCHANGED <<store, enabled, top, running, rauc, good>>
        /\ \/ confirm' = confirm \/ confirm' = "failed"
           \/ confirm' = "hung" /\ confirm = "confirmed"
    BY <1>5 DEF Deadline, CoreHangs, flash, sdm, vars
  <2>2. FallbackKept'
    BY <2>1 DEF Fallback, FallbackKept, Whole, UBoot, Core
  <2> QED
    BY <2>1, <2>2 DEF Fallback
<1> QED
  BY <1>1, <1>2, <1>3, <1>4, <1>5 DEF Next, Update, Board

\* The image confirmed last is there, enabled and whole, until the board has fallen back
\* from it: through every update of the other slot, every cut of it and failing handlers.
THEOREM SomethingHealthy ==
  NoneStale /\ NoneEarly /\ Spec => []FallbackKept
<1> SUFFICES ASSUME NoneStale, NoneEarly PROVE Spec => []FallbackKept
  OBVIOUS
<1>1. Init => Fallback
  <2> USE Names
  <2> SUFFICES ASSUME Init PROVE Fallback
    OBVIOUS
  <2>1. \A p \in Parts : store[FirstSlot][p] = IF p # "dir_man" THEN First ELSE None
    BY DEF Init
  <2>2. Whole(FirstSlot, First)
    BY <2>1 DEF Whole, UBoot, Core, Parts
  <2> QED
    BY <2>2 DEF Init, Fallback, FallbackKept
<1>2. TypeOK /\ IInv /\ AskedFor /\ Fallback /\ [Next]_vars => Fallback'
  BY FallbackStep
<1>3. Fallback => FallbackKept
  BY DEF Fallback
<1> QED
  BY <1>1, <1>2, <1>3, Invariant, AskedOfOther, PTL DEF Spec

===============================================================================
