----------------------------- MODULE CoreInstall -----------------------------
(***************************************************************************)
(* The files of an FPGA core's installation: Access.install_core and, when *)
(* the process starts, Access._recover_install (fpga_access.py).  The      *)
(* fabric is in module FpgaAccess; here every file operation is a step,    *)
(* and the power may go, or the process be killed, between any two.        *)
(***************************************************************************)
EXTENDS Naturals

CONSTANTS
  Core,    \* the cores there are
  Good,    \* those the fabric takes; another one fails, or hangs the board
  First,   \* the one installed, and on the card, at first
  Faults,  \* what may happen, of "cut": the power goes or the process ends,
           \* between any two steps; "lost": and with it what was not fsynced;
           \* "full": the disk is full after the install was marked; "raise": a
           \* load ends with an exception that install_core does not catch;
           \* "again": another install after a request that left its mark;
           \* "bare": there is no core installed at first
  MaxCuts  \* bound: cuts

Nil == "none"
Torn == "torn"

ASSUME CoreAssumption == Good \subseteq Core /\ First \in Good /\ {Nil, Torn} \cap Core = {}
ASSUME FaultsAssumption == Faults \subseteq {"cut", "lost", "full", "raise", "again", "bare"}
ASSUME CutsAssumption == MaxCuts \in Nat

VARIABLES
  core, man,           \* de25_std.core.rbf, de25_std.core.json
  prev, prev_man,      \* the two with .prev
  pending,             \* whether the pending file is there
  card,                \* the card's copy, which U-Boot loads at power-on
  at, new,             \* where install_core or the recovery is, and its core
  cuts,                \* cuts so far
  missed               \* history: the card copy of the installed core was not made

files == <<core, man, prev, prev_man, pending, card>>
vars == <<files, at, new, cuts, missed>>

Labels == {"idle", "copy", "copy_man", "pending", "man", "core", "load", "clear", "card",
           "hung", "left", "swap", "swap_man", "reload", "clear_failed", "recover",
           "recover_man", "recover_clear"}

TypeOK ==
  /\ core \in Core \cup {Nil, Torn} /\ card \in Core
  /\ man \in Core \cup {Nil, Torn} /\ prev_man \in Core \cup {Nil, Torn}
  /\ prev \in Core \cup {Nil, Torn}
  /\ pending \in BOOLEAN /\ missed \in BOOLEAN
  /\ at \in Labels /\ new \in Core
  /\ cuts \in 0..MaxCuts

Init ==
  /\ core = First \/ ("bare" \in Faults /\ core = Nil)
  /\ card = First
  /\ man \in {First, Nil}          \* setup_slot_firmware leaves no manifest
  /\ prev = Nil /\ prev_man = Nil
  /\ pending = FALSE
  /\ at = "idle" /\ new = First
  /\ cuts = 0 /\ missed = FALSE

-------------------------------------------------------------------------------
(* install_core.  A bundle that does not match its own manifest or does not   *)
(* fit the board's first stage is refused without a step.                     *)

\* A request that left pending behind has ended: FpgaClient sends a request again
\* whose connection was dropped, and a user may try again.
Start(c) ==
  /\ at = "idle" \/ (at = "left" /\ "again" \in Faults)
  /\ at' = "copy" /\ new' = c
  /\ UNCHANGED <<files, cuts, missed>>

\* The core kept as .prev, where there is one.
Copy ==
  /\ at = "copy"
  /\ prev' = IF core = Nil THEN prev ELSE core
  /\ at' = IF core = Nil THEN "pending" ELSE "copy_man"
  /\ UNCHANGED <<core, man, prev_man, pending, card, new, cuts, missed>>

\* Without a manifest an earlier one's copy is removed.
CopyMan ==
  /\ at = "copy_man"
  /\ prev_man' = man
  /\ at' = "pending"
  /\ UNCHANGED <<core, man, prev, pending, card, new, cuts, missed>>

\* A mutant of Marked: the install is not marked as under way.
NotMarked == pending
Marked == TRUE

WritePending ==
  /\ at = "pending"
  /\ pending' = Marked
  /\ at' = "man"
  /\ UNCHANGED <<core, man, prev, prev_man, card, new, cuts, missed>>

WriteMan ==
  /\ at = "man"
  /\ man' = new
  /\ at' = "core"
  /\ UNCHANGED <<core, prev, prev_man, pending, card, new, cuts, missed>>

WriteCore ==
  /\ at = "core"
  /\ core' = new
  /\ at' = "load"
  /\ UNCHANGED <<man, prev, prev_man, pending, card, new, cuts, missed>>

\* A copy that does not come to its end.
TornCopy ==
  /\ prev' = IF at = "copy" THEN Torn ELSE prev
  /\ prev_man' = IF at = "copy_man" THEN Torn ELSE prev_man

\* A copy or a write raises: the request ends where it is, with pending if that is
\* there by then.
DiskFull ==
  /\ \/ at \in {"copy", "copy_man", "pending"}
     \/ "full" \in Faults /\ at \in {"man", "core"}
  /\ TornCopy
  /\ at' = IF pending THEN "left" ELSE "idle"
  /\ UNCHANGED <<core, man, pending, card, new, cuts, missed>>

\* A mutant of AfterFailure: what the load said is not looked at.
FailureIgnored == "clear"
AfterFailure == "swap"

\* _load's last steps may raise what is no CoreError or OSError, after a good load or
\* a failed one: then nothing here is carried on.
Uncaught == IF "raise" \in Faults THEN {"left"} ELSE {}

Load ==
  /\ at = "load"
  /\ at' \in (IF new \in Good THEN {"clear"} ELSE {"hung"}) \cup {AfterFailure} \cup Uncaught
  /\ UNCHANGED <<files, new, cuts, missed>>

ClearPending ==
  /\ at \in {"clear", "clear_failed", "recover_clear"}
  /\ pending' = FALSE
  /\ at' = IF at = "clear" THEN "card" ELSE "idle"
  /\ missed' = (at = "clear" \/ missed)
  /\ UNCHANGED <<core, man, prev, prev_man, card, new, cuts>>

\* The card's copy, which may fail; write_file renames it into place.
WriteCard ==
  /\ at = "card"
  /\ at' = "idle"
  /\ \/ card' = new /\ missed' = FALSE
     \/ UNCHANGED <<card, missed>>
  /\ UNCHANGED <<core, man, prev, prev_man, pending, new, cuts>>

HasPrev == prev # Nil

\* After a failed load, or at the start after an install that never finished:
\* the .prev core put back (without one nothing is), ...
PutBack ==
  /\ at \in {"swap", "recover"}
  /\ \/ /\ HasPrev
        /\ core' = prev /\ prev' = Nil
        /\ at' = IF at = "swap" THEN "swap_man" ELSE "recover_man"
     \/ /\ ~HasPrev
        /\ at' = IF at = "swap" THEN "clear_failed" ELSE "recover_clear"
        /\ UNCHANGED <<core, prev>>
  /\ UNCHANGED <<man, prev_man, pending, card, new, cuts, missed>>

\* A mutant of ManifestBack: without a .prev the new core's manifest stays.
ManifestStays == IF prev_man = Nil THEN man ELSE prev_man
ManifestBack == prev_man

\* ... and its manifest, or none.
PutBackMan ==
  /\ at \in {"swap_man", "recover_man"}
  /\ man' = ManifestBack /\ prev_man' = Nil
  /\ at' = IF at = "swap_man" THEN "reload" ELSE "recover_clear"
  /\ UNCHANGED <<core, prev, pending, card, new, cuts, missed>>

\* The rollback loads the core that is back; whether it takes is only reported.
Reload ==
  /\ at = "reload"
  /\ at' \in {"clear_failed"} \cup Uncaught \cup (IF core \in Good THEN {} ELSE {"hung"})
  /\ UNCHANGED <<files, new, cuts, missed>>

-------------------------------------------------------------------------------
(* The power goes (the only way out of a board that hangs), or the supervisor *)
(* ends the process (which may be all that ends what a request left); the     *)
(* next one recovers.                                                         *)

Cut ==
  /\ \/ at \in {"hung", "left"} /\ UNCHANGED cuts
     \/ /\ "cut" \in Faults
        /\ cuts < MaxCuts /\ cuts' = cuts + 1
  /\ at' = IF pending THEN "recover" ELSE "idle"
  /\ \/ TornCopy
     \/ "lost" \in Faults /\ prev # Nil      \* copyfile does not fsync
        /\ prev' = Torn /\ UNCHANGED prev_man
  /\ UNCHANGED <<core, man, pending, card, new, missed>>

Next ==
  \/ \E c \in Core : Start(c)
  \/ Copy \/ CopyMan \/ WritePending \/ WriteMan \/ WriteCore \/ DiskFull
  \/ Load \/ ClearPending \/ WriteCard \/ PutBack \/ PutBackMan \/ Reload
  \/ Cut

Spec == Init /\ [][Next]_vars

-------------------------------------------------------------------------------
(* Properties.                                                               *)

\* What is installed: while an install is under way still the core it replaces,
\* which is what the rollback and the recovery put back.
InstalledCore == IF pending /\ prev # Nil THEN prev ELSE core
InstalledMan ==
  IF pending /\ (prev # Nil \/ at \in {"swap_man", "recover_man"}) THEN prev_man ELSE man

Store == INSTANCE CoreStore WITH
           installed <- [core |-> InstalledCore, man |-> InstalledMan], cuts <- cuts

\* install_core implements CoreStore, with a power cut at any step of an install, of
\* its rollback or of the recovery, a full disk, and a load that ends with an exception
\* nobody catches: the core changes only to one that has loaded, and its manifest with
\* it; only a cut may leave it the manifest of another. It needs that no install follows
\* a request that left its mark before a recovery has run, that what was copied lasts
\* through a cut, and that there is a core to begin with.
Implements == Store!Spec

\* "The card still has the last good core": U-Boot never gets an untested one.
CardLoads == card \in Good

\* When no request is under way and none has left its mark, the card has the installed
\* core, which a power-on runs, unless writing it failed or was cut short after the load.
CardInstalled == at = "idle" /\ ~missed => card = core

-------------------------------------------------------------------------------
(* The inductive invariant behind Implements and CardLoads (module            *)
(* CoreInstallProofs), for faults that leave .prev as it is.                  *)

BeforeMark == {"idle", "card", "copy", "copy_man", "pending"}
Untested == {"man", "core", "load", "hung", "swap", "clear"}

\* Pending is there from the first untested file to the end of the clean-up.
PendingWhen == pending <=> at \notin BeforeMark

\* While it is, .prev is the good core before - or is the installed one again.
PrevGood ==
  /\ at \in Untested => prev \in Good
  /\ pending /\ prev # Nil => prev \in Good
  /\ at \in {"copy_man", "pending"} => prev = core
  /\ at = "pending" => prev_man = man
  /\ at \in {"swap_man", "reload", "recover_man", "clear_failed", "recover_clear"} =>
       prev = Nil

\* The core file is untested only in the steps that have a way back.
CoreGood ==
  /\ at \in BeforeMark \cup {"clear"} => core \in Good
  /\ pending /\ prev = Nil => core \in Good

\* What the load tests is what the files hold, and what the card gets.
NewWritten ==
  /\ at \in {"core", "load", "clear"} => man = new
  /\ at \in {"load", "clear"} => core = new
  /\ at \in {"clear", "card"} => new \in Good

\* Until .prev's manifest is back, the one there is that one or the new core's.
ManOfOne ==
  pending /\ (prev # Nil \/ at \in {"swap_man", "recover_man"}) => man \in Core \cup {prev_man}

IInv == PendingWhen /\ PrevGood /\ CoreGood /\ NewWritten /\ ManOfOne /\ CardLoads

===============================================================================
