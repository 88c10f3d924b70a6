------------------------------ MODULE SlotStore ------------------------------
(* What an image update promises of the application images in flash: a slot  *)
(* holds nothing bootable or one build, all of whose parts belong together;   *)
(* it is taken out and filled in one step each, and never while it runs.  A   *)
(* reboot goes to a slot that holds a build, but for one case: the slot a     *)
(* reboot was asked for is taken out again before the reboot.  So what runs   *)
(* holds a build as long as nobody takes out what was asked for.              *)

CONSTANTS Slot, Build, None

VARIABLES
  holds,     \* [Slot -> Build or None]
  runs,      \* the slot whose image runs, or the factory image
  asked      \* the slot the next reboot is asked to go to, or None

Init == holds \in [Slot -> Build \cup {None}] /\ asked = None

TakeOut(s) == s # runs /\ holds' = [holds EXCEPT ![s] = None] /\ UNCHANGED <<runs, asked>>

Fill(s) ==
  /\ s # runs /\ holds[s] = None
  /\ \E b \in Build : holds' = [holds EXCEPT ![s] = b]
  /\ UNCHANGED <<runs, asked>>

Ask(s) == s # runs /\ holds[s] # None /\ asked' = s /\ UNCHANGED <<holds, runs>>

\* The board reboots, into whatever there is.
Boot ==
  /\ holds' = holds /\ asked' = None
  /\ runs' \in Slot => holds[runs'] # None \/ runs' \in {runs, asked}

Next == Boot \/ \E s \in Slot : TakeOut(s) \/ Fill(s) \/ Ask(s)

Spec == Init /\ [][Next]_<<holds, runs, asked>>

===============================================================================
