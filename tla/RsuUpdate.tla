------------------------------ MODULE RsuUpdate ------------------------------
(***************************************************************************)
(* The update of an application image, P1 or P2, in its A/B layout: RAUC   *)
(* with its boot backend (board/rauc/bootloader), the image hook that has  *)
(* fpga_access.py write the flash (Access.install_rsu), the board's device *)
(* manager (SDM), which chooses the image to boot, and the confirmation of *)
(* a booted image (rsu-confirm.sh).  The power may go, or somebody reboot, *)
(* between any two steps and in the middle of a write.                     *)
(***************************************************************************)
EXTENDS Naturals, FiniteSets

CONSTANTS
  Slot,        \* the application slots with their SSBL and CORE partitions
  Build,       \* the builds there are
  First,       \* the one the board comes with, in FirstSlot
  FirstSlot,
  Sound,       \* builds whose QSPI image passes check_rsu_bundle
  Healthy,     \* those whose system comes up healthy when all parts are there
  Big,         \* those whose core is larger than its CORE partition
  Faults,      \* what else may happen, of "flash": a write that leaves
               \* something else; "slow": a healthy image misses its deadline;
               \* "late": a tool fails after it did its work; "hang": a core
               \* load hangs the board; "early": an update before the running
               \* image is confirmed; "stale": one of a slot where a core
               \* install is pending; "handler": the post-install handler fails
  MaxCuts,     \* bound: power cuts, reboots by hand and slow starts
  MaxUpdates   \* bound: updates

None == "none"
Torn == "torn"
Factory == "factory"

ASSUME SlotAssumption ==
  /\ IsFiniteSet(Slot) /\ Cardinality(Slot) <= 2
  /\ FirstSlot \in Slot /\ {None, Factory} \cap Slot = {}
ASSUME BuildAssumption ==
  /\ First \in Sound \cap Healthy /\ {None, Torn} \cap Build = {}
  /\ Sound \subseteq Build /\ Healthy \subseteq Build /\ Big \subseteq Build
ASSUME FaultsAssumption == Faults \subseteq {"flash", "slow", "late", "hang", "early", "stale", "handler"}
ASSUME BoundsAssumption == MaxCuts \in Nat /\ MaxUpdates \in Nat

VARIABLES
  store,         \* [Slot -> parts], see Parts
  pending,       \* [Slot -> the core behind a pending core install, or None]
  enabled, top,  \* slots with a priority; the one that has the best
  failed,        \* the image the SDM recorded as failed, or None
  reboot_image,  \* what a warm reboot loads, or None for the running image
  running,       \* the image the SDM booted
  confirm,       \* what /run/rsu-confirm says, or "hung"
  rauc,          \* [pc, slot, build]: `rauc install`
  cuts, updates, \* counted against the bounds
  good           \* history: the slot last confirmed, None once it fell back
                 \* or when it had lost its priority before it was confirmed

flash == <<store, enabled, top>>
sdm == <<failed, reboot_image, running>>
vars == <<flash, pending, sdm, confirm, rauc, cuts, updates, good>>

\* The QSPI partitions P1, SSBL.P1 and CORE.P1, the card's u-boot_P1.itb and
\* de25_std_P1.core.rbf, its rootfs, and in rsu/P1 the core and its manifest.
Parts == {"image", "ssbl", "qcore", "uboot", "core", "rootfs", "dir_core", "dir_man"}

Steps == {"mark", "rootfs", "hook", "erase", "erase_ssbl", "ssbl", "erase_core", "qcore",
          "uboot", "core", "dir_man", "dir_core", "write", "verify", "enable", "clear",
          "reboot_image", "handler"}

TypeOK ==
  /\ store \in [Slot -> [Parts -> Build \cup {None, Torn}]]
  /\ pending \in [Slot -> Build \cup {None, Torn}]
  /\ enabled \subseteq Slot /\ top \in Slot
  /\ failed \in Slot \cup {None} /\ reboot_image \in Slot \cup {None}
  /\ running \in Slot \cup {Factory}
  /\ confirm \in {"waiting", "confirmed", "failed", "factory", "hung"}
  /\ rauc \in [pc : Steps \cup {"off", "ok", "error"}, slot : Slot, build : Build]
  /\ cuts \in 0..MaxCuts /\ updates \in 0..MaxUpdates
  /\ good \in Slot \cup {None}

Init ==
  /\ store = [s \in Slot |-> [p \in Parts |->
       IF s = FirstSlot /\ p # "dir_man" THEN First ELSE None]]
  /\ pending = [s \in Slot |-> None]
  /\ enabled = {FirstSlot} /\ top = FirstSlot
  /\ failed = None /\ reboot_image = None
  /\ running = FirstSlot /\ confirm = "confirmed"
  /\ rauc = [pc |-> "off", slot |-> FirstSlot, build |-> First]
  /\ cuts = 0 /\ updates = 0
  /\ good = FirstSlot

-------------------------------------------------------------------------------
(* What a slot boots with.  SPL and U-Boot look on the card first.            *)

UBoot(s) == IF store[s]["uboot"] # None THEN store[s]["uboot"] ELSE store[s]["ssbl"]
Core(s) == IF store[s]["core"] # None THEN store[s]["core"] ELSE store[s]["qcore"]

\* All of the slot's parts are of build b; its core's directory may have no
\* manifest, and its CORE partition nothing.
Whole(s, b) ==
  /\ store[s]["image"] = b /\ UBoot(s) = b /\ Core(s) = b /\ store[s]["rootfs"] = b
  /\ store[s]["ssbl"] = b /\ store[s]["qcore"] \in {b, None}
  /\ store[s]["dir_core"] = b /\ store[s]["dir_man"] \in {b, None}

Configures(s) == store[s]["image"] \in Build
Bootable == {s \in enabled : Configures(s)}

Best(S) == IF top \in S THEN top ELSE IF S = {} THEN Factory ELSE CHOOSE s \in S : TRUE

\* The images below the running one.
Below == IF running = top \/ running \notin enabled THEN Bootable \ {running} ELSE {}

\* The SDM and U-Boot start image s.  fpga_access.py then gives its directory a
\* core if it has none (setup_slot_firmware) and puts the previous core back
\* when a core install is pending there (_recover_install).
Start(s) ==
  /\ running' = s
  /\ confirm' = IF s = Factory THEN "factory" ELSE "waiting"
  /\ reboot_image' = None
  /\ IF s = Factory THEN UNCHANGED <<store, pending>>
     ELSE /\ pending' = [pending EXCEPT ![s] = None]
          /\ store' = [store EXCEPT
               ![s]["dir_core"] = IF pending[s] # None THEN pending[s]
                                  ELSE IF @ = None THEN Core(s) ELSE @,
               ![s]["dir_man"] = IF pending[s] # None THEN pending[s] ELSE @]
  /\ UNCHANGED <<enabled, top>>

\* A power-on goes by priority and forgets the failed image.
PowerOn ==
  /\ failed' = IF Best(enabled) \in Bootable \cup {Factory} THEN None ELSE Best(enabled)
  /\ Start(Best(Bootable))

\* A warm reboot loads reboot_image, else the running image again.
Reboot ==
  LET want == IF reboot_image # None THEN reboot_image ELSE running IN
  IF want = Factory \/ Configures(want)
  THEN failed' = failed /\ Start(want)
  ELSE failed' = want /\ Start(Best(Bootable))

-------------------------------------------------------------------------------
(* rauc install.  RAUC picks the group that is not booted, marks it bad,      *)
(* writes the images in the bundle's order (rootfs, then qspi through the     *)
(* hook) and makes it primary.                                                *)

Goes(next) == rauc' = [rauc EXCEPT !.pc = next]

Begin(b) ==
  /\ rauc.pc = "off" /\ updates < MaxUpdates
  /\ confirm \in {"confirmed", "factory"} \cup (IF "early" \in Faults THEN {"waiting"} ELSE {})
  /\ \E s \in Slot \ {running} :
       /\ pending[s] = None \/ "stale" \in Faults
       /\ rauc' = [pc |-> "mark", slot |-> s, build |-> b]
  /\ updates' = updates + 1
  /\ UNCHANGED <<flash, pending, sdm, confirm, cuts, good>>

\* (mutant: set-state bad does not reach the SDM)
NotMarked ==
  /\ rauc.pc = "mark"
  /\ Goes("rootfs")
  /\ UNCHANGED <<flash, pending, sdm, confirm, cuts, updates, good>>

\* set-state bad: RAUC does this before it writes anything.
Mark ==
  /\ rauc.pc = "mark"
  /\ enabled' = enabled \ {rauc.slot}
  /\ Goes("rootfs")
  /\ UNCHANGED <<store, top, pending, sdm, confirm, cuts, updates, good>>

\* One step of the installation gives a part its value.  With a timeout it is
\* reported as failed although it was done.
Reported == IF "late" \in Faults THEN {"error"} ELSE {}
Put(here, next, part, value) ==
  /\ rauc.pc = here
  /\ store' = [store EXCEPT ![rauc.slot][part] = value]
  /\ \E n \in {next} \cup Reported : Goes(n)
  /\ UNCHANGED <<top, pending, sdm, confirm, cuts, updates, good>>

\* A write of flash or card that is under way has destroyed what was there.
BeginWrite ==
  /\ rauc.pc \in {"rootfs", "ssbl", "qcore"}
  /\ store[rauc.slot][rauc.pc] # Torn
  /\ store' = [store EXCEPT ![rauc.slot][rauc.pc] = Torn]
  /\ UNCHANGED <<enabled, top, pending, sdm, confirm, rauc, cuts, updates, good>>

WriteRootfs == Put("rootfs", "hook", "rootfs", rauc.build) /\ UNCHANGED enabled

\* The hook asks fpga_access.py, which refuses its own slot and bad bundles.
Hook ==
  /\ rauc.pc = "hook"
  /\ Goes(IF rauc.slot # running /\ rauc.build \in Sound THEN "erase" ELSE "error")
  /\ UNCHANGED <<flash, pending, sdm, confirm, cuts, updates, good>>

\* Erasing an image takes away its priority first.
Erase == Put("erase", "erase_ssbl", "image", None) /\ enabled' = enabled \ {rauc.slot}
EraseSsbl == Put("erase_ssbl", "ssbl", "ssbl", None) /\ UNCHANGED enabled
WriteSsbl == Put("ssbl", "erase_core", "ssbl", rauc.build) /\ UNCHANGED enabled
\* (mutant: a core that does not fit leaves the old one in the flash)
EraseCoreThatFits ==
  /\ Put("erase_core", IF rauc.build \in Big THEN "uboot" ELSE "qcore", "qcore",
         IF rauc.build \in Big THEN store[rauc.slot]["qcore"] ELSE None)
  /\ UNCHANGED enabled
EraseCore ==
  /\ Put("erase_core", IF rauc.build \in Big THEN "uboot" ELSE "qcore", "qcore", None)
  /\ UNCHANGED enabled
WriteCore == Put("qcore", "uboot", "qcore", rauc.build) /\ UNCHANGED enabled
WriteCardUBoot == Put("uboot", "core", "uboot", rauc.build) /\ UNCHANGED enabled
WriteCardCore == Put("core", "dir_man", "core", rauc.build) /\ UNCHANGED enabled
WriteManifest == Put("dir_man", "dir_core", "dir_man", rauc.build) /\ UNCHANGED enabled
WriteDirCore == Put("dir_core", "write", "dir_core", rauc.build) /\ UNCHANGED enabled

\* The image last: it gets the best priority with it.
Adds(s) == enabled' = enabled \cup {s} /\ top' = s
WriteImage ==
  /\ rauc.pc = "write"
  /\ \E v \in {rauc.build} \cup (IF "flash" \in Faults THEN {Torn} ELSE {}) :
       store' = [store EXCEPT ![rauc.slot]["image"] = v]
  /\ Adds(rauc.slot)
  /\ \E n \in {"verify"} \cup Reported : Goes(n)
  /\ UNCHANGED <<pending, sdm, confirm, cuts, updates, good>>

Verify ==
  /\ rauc.pc = "verify"
  /\ Goes(IF store[rauc.slot]["image"] = rauc.build THEN "enable" ELSE "error")
  /\ UNCHANGED <<flash, pending, sdm, confirm, cuts, updates, good>>

\* set-primary, in three steps.
Enable ==
  /\ rauc.pc = "enable"
  /\ Adds(rauc.slot)
  /\ Goes("clear")
  /\ UNCHANGED <<store, pending, sdm, confirm, cuts, updates, good>>

ClearError ==
  /\ rauc.pc = "clear"
  /\ failed' = IF failed = rauc.slot THEN None ELSE failed
  /\ Goes("reboot_image")
  /\ UNCHANGED <<flash, pending, reboot_image, running, confirm, cuts, updates, good>>

\* (mutant: the running image's address)
SetRebootRunning ==
  /\ rauc.pc = "reboot_image"
  /\ reboot_image' = running
  /\ Goes("handler")
  /\ UNCHANGED <<flash, pending, failed, running, confirm, cuts, updates, good>>

SetReboot ==
  /\ rauc.pc = "reboot_image"
  /\ reboot_image' = rauc.slot
  /\ Goes("handler")
  /\ UNCHANGED <<flash, pending, failed, running, confirm, cuts, updates, good>>

\* The handler also gives the bundle's GUI and core, if any, to their programs.  When it
\* fails the slot stays primary and reboot_image stays, through the next update of the slot.
Handler ==
  /\ rauc.pc = "handler"
  /\ \E n \in {"ok"} \cup (IF "handler" \in Faults THEN {"error"} ELSE {}) : Goes(n)
  /\ UNCHANGED <<flash, pending, sdm, confirm, cuts, updates, good>>

\* Any tool may fail before it does anything; rauc install ends with an error.
ToolFails ==
  /\ rauc.pc \in Steps \ {"handler"}
  /\ Goes("error")
  /\ UNCHANGED <<flash, pending, sdm, confirm, cuts, updates, good>>

RaucEnds ==
  /\ rauc.pc = "error"
  /\ Goes("off")
  /\ UNCHANGED <<flash, pending, sdm, confirm, cuts, updates, good>>

\* The runner in fpga_web.py reboots after exit 0 and the handler's marker.
RunnerReboots ==
  /\ rauc.pc = "ok"
  /\ Reboot /\ Goes("off")
  /\ UNCHANGED <<cuts, updates, good>>

-------------------------------------------------------------------------------
(* rsu-confirm and the watchdog.                                              *)

\* (mutant: any answer counts)
Answers == TRUE
IsHealthy == running = Factory \/ \E b \in Healthy : Whole(running, b)

Confirm ==
  /\ confirm = "waiting" /\ IsHealthy
  /\ confirm' = "confirmed"
  /\ good' = IF running \in enabled THEN running ELSE None
  /\ UNCHANGED <<flash, pending, sdm, rauc, cuts, updates>>

\* (mutant: the petting goes on)
DeadlinePets ==
  /\ confirm = "waiting"
  /\ IsHealthy => "slow" \in Faults /\ cuts < MaxCuts
  /\ cuts' = IF IsHealthy THEN cuts + 1 ELSE cuts
  /\ UNCHANGED <<flash, pending, sdm, confirm, rauc, updates, good>>

\* Not healthy by the deadline: no more petting.
Deadline ==
  /\ confirm = "waiting"
  /\ IsHealthy => "slow" \in Faults /\ cuts < MaxCuts
  /\ confirm' = "failed"
  /\ cuts' = IF IsHealthy THEN cuts + 1 ELSE cuts
  /\ UNCHANGED <<flash, pending, sdm, rauc, updates, good>>

\* The core load of an installation on the running image hangs the board.
CoreHangs ==
  /\ "hang" \in Faults /\ cuts < MaxCuts
  /\ confirm = "confirmed" /\ rauc.pc = "off" /\ running \in Slot
  /\ confirm' = "hung" /\ cuts' = cuts + 1
  /\ pending' = [pending EXCEPT ![running] = store[running]["dir_core"]]
  /\ UNCHANGED <<flash, sdm, rauc, updates, good>>

WatchdogFires ==
  /\ confirm \in {"failed", "hung"}
  /\ failed' = running
  /\ Start(Best(Below)) /\ Goes("off")
  /\ good' = IF good = running THEN None ELSE good
  /\ UNCHANGED <<cuts, updates>>

-------------------------------------------------------------------------------
(* The power goes, or somebody reboots.                                       *)

PowerCut ==
  /\ cuts < MaxCuts /\ cuts' = cuts + 1
  /\ PowerOn /\ Goes("off")
  /\ UNCHANGED <<updates, good>>

RebootByHand ==
  /\ cuts < MaxCuts /\ cuts' = cuts + 1
  /\ confirm \in {"waiting", "confirmed", "factory"}
  /\ Reboot /\ Goes("off")
  /\ UNCHANGED <<updates, good>>

Update ==
  \/ Mark \/ BeginWrite \/ WriteRootfs \/ Hook
  \/ Erase \/ EraseSsbl \/ WriteSsbl \/ EraseCore \/ WriteCore
  \/ WriteCardUBoot \/ WriteCardCore \/ WriteManifest \/ WriteDirCore
  \/ WriteImage \/ Verify \/ Enable \/ ClearError \/ SetReboot \/ Handler
  \/ RaucEnds \/ RunnerReboots

Board == Confirm \/ Deadline \/ WatchdogFires

Next ==
  \/ \E b \in Build : Begin(b)
  \/ Update \/ ToolFails \/ Board
  \/ CoreHangs \/ PowerCut \/ RebootByHand

Spec == Init /\ [][Next]_vars

\* RAUC and the programs it runs go on, and so does the confirmation: the
\* deadline and the watchdog are timers.
FairSpec == Spec /\ WF_vars(Update) /\ WF_vars(Board)

-------------------------------------------------------------------------------
(* Properties.                                                                *)

\* A slot the SDM would boot holds one build: its image, U-Boot, core, rootfs
\* and the core's directory belong together, whatever step of whatever update
\* was the last (install_rsu erases the image first and writes it last).
Coherent == \A s \in Bootable : Whole(s, store[s]["image"])

\* What runs is a whole image (or the factory's).  It may not be: a core install is pending
\* in the slot that is updated, or somebody reboots while a slot is updated again after a
\* failed handler left reboot_image there.
RunsWhole == running \in Slot => \E b \in Build : Whole(running, b)

\* The image confirmed last stays there, enabled and whole, through any update
\* of the other one: there is something healthy to fall back to.
FallbackKept == good # None => good \in enabled /\ \E b \in Healthy : Whole(good, b)

\* The abstract store: a slot holds the build of its image when it has a
\* priority and the image configures.
Holds == [s \in Slot |-> IF s \in Bootable /\ Whole(s, store[s]["image"])
                         THEN store[s]["image"] ELSE None]
Store == INSTANCE SlotStore WITH holds <- Holds, runs <- running, asked <- reboot_image
Implements == Store!Spec

\* A board that waits for its confirmation ends confirmed or in the factory image.
Recovers == (confirm = "waiting") ~> (confirm \in {"confirmed", "factory"})

===============================================================================
