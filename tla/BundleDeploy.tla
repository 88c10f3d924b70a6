----------------------------- MODULE BundleDeploy -----------------------------
(***************************************************************************)
(* The way of a RAUC bundle: deploy_bundle.py sends it and waits for the   *)
(* outcome, class Bundles of fpga_web.py stores it and starts `rauc        *)
(* install` in a session of its own, the post-install handler gives a GUI  *)
(* release to the server, which restarts into it, and waits until it is    *)
(* confirmed or reverted; an image bundle ends in a reboot.  The parts     *)
(* share the files upload.raucb, pid, rc and reboot and the GUI's links.   *)
(* What happens inside is in ReleaseUpdate and RsuUpdate.                  *)
(***************************************************************************)
EXTENDS Naturals, FiniteSets

CONSTANTS
  Deploy,    \* runs of deploy_bundle.py, each with a bundle of its own
  Image,     \* those whose bundle is an image; the others' is a GUI release
  Faults,    \* what else may happen, of
             \* "gap": the server ends, or rauc opens the bundle, between the start
             \*   of the installation's shell and the writing of its pid;
             \* "silent": the server does not answer once before the reboot
  MaxCuts    \* bound: power cuts and ends of the server

None == "none"
R0 == "r0"            \* the release and the image the board comes with
Down == "down"
Torn == "torn"        \* written over while it was read

ASSUME DeployAssumption ==
  /\ IsFiniteSet(Deploy) /\ Image \subseteq Deploy
  /\ {None, R0, Down, Torn} \cap Deploy = {}
ASSUME FaultsAssumption ==
  Faults \subseteq {"gap", "silent"}
ASSUME CutsAssumption == MaxCuts \in Nat

VARIABLES
  at, before,                   \* where a client and its request are; the GUI
                                \* release and the image it found at its start
  runner, val,                  \* its installation's shell, and rauc's exit code
  bundle,                       \* what that rauc has open: a bundle, or Torn
  file,                         \* upload.raucb: [by, whole], or NoFile
  lock, pid, rc, marker,        \* Bundles.lock and its files pid, rc and reboot
  web,                          \* the release the server runs, or Down
  current, previous, pending,   \* the GUI's links and pending file
  primary, slot, other,         \* the image to boot, the one booted, the second one
  confirm, fail,                \* /api/rsu: confirmed, and a failed image recorded
  cuts,
  kept, alone                   \* history: releases and images confirmed; no
                                \* deployment began before the one before had ended

client == <<at, before>>
install == <<runner, val, bundle>>
files == <<file, lock, pid, rc, marker>>
links == <<current, previous, pending>>
images == <<primary, slot, other, confirm, fail>>
deployVars == <<client, install, files, web, links, images, cuts, kept, alone>>

NoFile == [by |-> {}, whole |-> FALSE]
NoRc == 2             \* there is no rc file

Requests == {"check", "receive", "start", "clean", "popen", "pid"}
Waits == {"poll", "confirm", "watch", "follow", "seen"}
Verdicts == {"installed", "failed", "confirmed", "fell_back", "not_switched"}
Active == {"rm_marker", "rauc", "write", "offer", "wait", "open", "rm_file", "rc", "reboot"}

DeployTypeOK ==
  /\ at \in [Deploy -> Requests \cup Waits \cup Verdicts \cup {"idle", "refused", "lost"}]
  /\ before \in [Deploy -> [web : Deploy \cup {R0}, slot : Deploy \cup {R0}]]
  /\ runner \in [Deploy -> Active \cup {"none", "done"}]
  /\ val \in [Deploy -> {0, 1}] /\ bundle \in [Deploy -> Deploy \cup {None, Torn}]
  /\ file \in [by : SUBSET Deploy, whole : BOOLEAN]
  /\ lock \in Deploy \cup {None} /\ pid \in Deploy \cup {None}
  /\ rc \in {0, 1, NoRc} /\ marker \in BOOLEAN
  /\ {current, previous} \subseteq Deploy \cup {R0}
  /\ web \in {current, Down} /\ pending \in {current, None}
  /\ {primary, slot, other} \subseteq Image \cup {R0}
  /\ confirm \in BOOLEAN /\ fail \in BOOLEAN
  /\ cuts \in 0..MaxCuts
  /\ kept \subseteq Deploy \cup {R0} /\ alone \in BOOLEAN

DeployInit ==
  /\ at = [u \in Deploy |-> "idle"]
  /\ before = [u \in Deploy |-> [web |-> R0, slot |-> R0]]
  /\ runner = [u \in Deploy |-> "none"] /\ val = [u \in Deploy |-> 1]
  /\ bundle = [u \in Deploy |-> None]
  /\ file = NoFile /\ lock = None /\ pid = None /\ rc = NoRc /\ marker = FALSE
  /\ web = R0 /\ current = R0 /\ previous = R0 /\ pending = None
  /\ primary = R0 /\ slot = R0 /\ other = R0 /\ confirm = TRUE /\ fail = FALSE
  /\ cuts = 0
  /\ kept = {R0} /\ alone = TRUE

-------------------------------------------------------------------------------
(* fpga_web.py: class Bundles and the request.                                *)

Running == pid # None /\ rc = NoRc /\ runner[pid] \in Active

Moves(u, to) == at' = [at EXCEPT ![u] = to]

\* An upload goes on, its client has not read its outcome, its reboot is to come, or its
\* release is still on test after the handler gave up.
Open(u) ==
  \/ at[u] \in Requests \cup {"follow", "seen"} \/ runner[u] = "reboot"
  \/ at[u] \in {"poll", "watch", "confirm"} /\ runner[u] = "done"
  \/ runner[u] = "done" /\ pending # None /\ pending = bundle[u]

\* deploy_bundle.py looks at the board, and asks.
Ask(u) ==
  /\ at[u] = "idle" /\ web # Down
  /\ Moves(u, IF Running THEN "refused" ELSE "check")
  /\ before' = [before EXCEPT ![u] = [web |-> web, slot |-> slot]]
  /\ alone' = (alone /\ \A v \in Deploy : ~Open(v))
  /\ UNCHANGED <<install, files, web, links, images, cuts, kept>>

\* Written over by another request while rauc reads it.
TornNow == [v \in Deploy |-> IF runner[v] = "write" /\ file # NoFile THEN Torn ELSE bundle[v]]

\* The request looks again, without the lock, and opens the file to write.
Receive(u) ==
  /\ at[u] = "check"
  /\ IF Running
     THEN Moves(u, "refused") /\ UNCHANGED <<file, bundle>>
     ELSE /\ Moves(u, "receive")
          /\ file' = [by |-> {u}, whole |-> FALSE]
          /\ bundle' = TornNow
  /\ UNCHANGED <<before, runner, val, lock, pid, rc, marker, web, links, images, cuts, kept, alone>>

\* The last byte; or the upload is cut short or has another hash.
Received(u) ==
  /\ at[u] = "receive"
  /\ \/ /\ Moves(u, "start")
        /\ file' = IF file = NoFile THEN file ELSE [by |-> file.by \cup {u}, whole |-> TRUE]
     \/ Moves(u, "refused") /\ file' = NoFile
  /\ UNCHANGED <<before, install, lock, pid, rc, marker, web, links, images, cuts, kept, alone>>

\* (mutant: the look at the other installation left out)
StartBlind(u) ==
  /\ at[u] = "start" /\ lock = None
  /\ Moves(u, "clean") /\ lock' = u
  /\ UNCHANGED <<before, install, file, pid, rc, marker, web, links, images, cuts, kept, alone>>

\* Bundles.start, under its lock.
Start(u) ==
  /\ at[u] = "start" /\ lock = None
  /\ IF Running
     THEN Moves(u, "refused") /\ file' = NoFile /\ lock' = lock
     ELSE Moves(u, "clean") /\ file' = file /\ lock' = u
  /\ UNCHANGED <<before, install, pid, rc, marker, web, links, images, cuts, kept, alone>>

\* (mutant: the last installation's exit code stays)
CleanPidOnly(u) ==
  /\ at[u] = "clean"
  /\ pid' = None
  /\ Moves(u, "popen")
  /\ UNCHANGED <<before, install, file, lock, rc, marker, web, links, images, cuts, kept, alone>>

Clean(u) ==
  /\ at[u] = "clean"
  /\ rc' = NoRc /\ pid' = None
  /\ Moves(u, "popen")
  /\ UNCHANGED <<before, install, file, lock, marker, web, links, images, cuts, kept, alone>>

Popen(u) ==
  /\ at[u] = "popen"
  /\ runner' = [runner EXCEPT ![u] = "rm_marker"]
  /\ Moves(u, "pid")
  /\ UNCHANGED <<before, val, bundle, files, web, links, images, cuts, kept, alone>>

WritePid(u) ==
  /\ at[u] = "pid"
  /\ pid' = u /\ lock' = None
  /\ Moves(u, "poll")
  /\ UNCHANGED <<before, install, file, rc, marker, web, links, images, cuts, kept, alone>>

Uploads(u) ==
  Receive(u) \/ Received(u) \/ Start(u) \/ Clean(u) \/ Popen(u) \/ WritePid(u)

\* Not between the start of a shell and the writing of its pid, but as a fault.
NotInGap == \A u \in Deploy : at[u] = "pid" => "gap" \in Faults

\* The server ends, and with it its lock and the requests it has.
ServerEnds ==
  /\ web' = Down /\ lock' = None
  /\ at' = [u \in Deploy |-> IF at[u] \in Requests \cup {"confirm"} THEN "lost" ELSE at[u]]

\* The supervisor starts what current points at; an upload nobody uses is removed.
Stale == ~Running

WebStarts ==
  /\ web = Down
  /\ web' = current
  /\ file' = IF Stale THEN NoFile ELSE file
  /\ UNCHANGED <<client, install, lock, pid, rc, marker, links, images, cuts, kept, alone>>

Crash ==
  /\ web # Down /\ cuts < MaxCuts
  /\ cuts' = cuts + 1
  /\ NotInGap /\ \A u \in Deploy : at[u] = "follow" => "silent" \in Faults
  /\ ServerEnds
  /\ UNCHANGED <<before, install, file, pid, rc, marker, links, images, kept, alone>>

-------------------------------------------------------------------------------
(* The shell script of an installation, rauc and the post-install handler.    *)

Turns(u, to) == runner' = [runner EXCEPT ![u] = to]
Exits(u, code) == Turns(u, "rm_file") /\ val' = [val EXCEPT ![u] = code]

RmMarker(u) ==
  /\ runner[u] = "rm_marker"
  /\ marker' = FALSE
  /\ Turns(u, "rauc")
  /\ UNCHANGED <<client, val, bundle, file, lock, pid, rc, web, links, images, cuts, kept, alone>>

\* rauc opens the bundle and checks its signature: it takes any whole one.
Rauc(u) ==
  /\ runner[u] = "rauc" /\ (at[u] = "pid" => "gap" \in Faults)
  /\ \/ \E b \in Deploy :
          /\ file = [by |-> {b}, whole |-> TRUE]
          /\ bundle' = [bundle EXCEPT ![u] = b]
          /\ Turns(u, "write") /\ val' = val
     \/ /\ \A b \in Deploy : file # [by |-> {b}, whole |-> TRUE]
        /\ Exits(u, 1) /\ bundle' = bundle
  /\ UNCHANGED <<client, files, web, links, images, cuts, kept, alone>>

\* Slots, or artifacts, written from the bundle; or that fails.
Write(u) ==
  /\ runner[u] = "write"
  /\ \/ bundle[u] # Torn /\ Turns(u, "offer") /\ val' = val
     \/ Exits(u, 1)
  /\ other' = IF bundle[u] \in Image THEN bundle[u] ELSE other
  /\ UNCHANGED <<client, bundle, files, web, links, primary, slot, confirm, fail, cuts, kept, alone>>

\* A core that the bundle carries too comes last, and may be refused.
HandlerEnds(u) == Exits(u, 0) \/ Exits(u, 1)

\* An image: primary (which forgets a failed one), then the handler's marker.
OfferImage(u) ==
  /\ runner[u] = "offer" /\ bundle[u] \in Image
  /\ HandlerEnds(u)
  /\ marker' = (marker \/ val'[u] = 0)
  /\ primary' = bundle[u] /\ fail' = FALSE
  /\ UNCHANGED <<client, bundle, file, lock, pid, rc, web, links, slot, other, confirm,
                 cuts, kept, alone>>

\* A GUI release: the server takes it on test and restarts, or is not there.
OfferRelease(u) ==
  /\ runner[u] = "offer" /\ bundle[u] \notin Image
  /\ IF web = Down
     THEN Exits(u, 1) /\ UNCHANGED <<at, lock, web, links>>
     ELSE /\ Turns(u, "wait") /\ val' = val
          /\ previous' = IF pending = None THEN current ELSE previous
          /\ current' = bundle[u] /\ pending' = bundle[u]
          /\ ServerEnds
  /\ UNCHANGED <<before, bundle, file, pid, rc, marker, images, cuts, kept, alone>>

\* Nothing on test: kept, when it is the current one; the core comes next.
Judged(u) ==
  IF pending = None /\ current = bundle[u] THEN HandlerEnds(u) ELSE Exits(u, 1)

\* activate_gui looks whether there is a pending file; then it reads it, and fails
\* when it is gone.  At a deadline of its own, past that of the test, it gives up.
Wait(u) ==
  /\ runner[u] = "wait"
  /\ \/ pending = bundle[u] /\ Turns(u, "open") /\ val' = val
     \/ pending # bundle[u] /\ Judged(u)
     \/ Exits(u, 1)
  /\ UNCHANGED <<client, bundle, files, web, links, images, cuts, kept, alone>>

Opens(u) ==
  /\ runner[u] = "open"
  /\ IF pending = bundle[u] THEN Turns(u, "wait") /\ val' = val ELSE Exits(u, 1)
  /\ UNCHANGED <<client, bundle, files, web, links, images, cuts, kept, alone>>

RmFile(u) ==
  /\ runner[u] = "rm_file"
  /\ file' = NoFile
  /\ Turns(u, "rc")
  /\ UNCHANGED <<client, val, bundle, lock, pid, rc, marker, web, links, images, cuts, kept, alone>>

WriteRc(u) ==
  /\ runner[u] = "rc"
  /\ rc' = val[u]
  /\ Turns(u, IF val[u] = 0 /\ marker THEN "reboot" ELSE "done")
  /\ UNCHANGED <<client, val, bundle, file, lock, pid, marker, web, links, images, cuts, kept, alone>>

\* The board comes up again: /run is empty, and a release on test is reverted.
Boots(image) ==
  /\ runner' = [v \in Deploy |-> IF runner[v] \in Active THEN "done" ELSE runner[v]]
  /\ pid' = None /\ rc' = NoRc /\ marker' = FALSE
  /\ current' = IF pending = None THEN current ELSE previous
  /\ pending' = None
  /\ ServerEnds
  /\ slot' = image /\ confirm' = FALSE
  /\ other' = IF image = slot THEN other ELSE slot
  /\ UNCHANGED <<before, val, bundle, file, previous, primary>>

Reboot(u) ==
  /\ runner[u] = "reboot"
  /\ Boots(primary)
  /\ UNCHANGED <<fail, cuts, kept, alone>>

Runner(u) ==
  \/ RmMarker(u) \/ Rauc(u) \/ Write(u) \/ OfferImage(u) \/ OfferRelease(u)
  \/ Wait(u) \/ Opens(u) \/ RmFile(u) \/ WriteRc(u) \/ Reboot(u)

PowerCut ==
  /\ cuts < MaxCuts
  /\ cuts' = cuts + 1
  /\ Boots(primary)
  /\ fail' = FALSE
  /\ UNCHANGED <<kept, alone>>

-------------------------------------------------------------------------------
(* The supervisor, the page, and the boot of an image (external here).        *)

\* (mutant: the links go back, the pending file stays)
RevertLinks ==
  /\ pending # None /\ NotInGap
  /\ current' = previous
  /\ ServerEnds
  /\ UNCHANGED <<before, install, file, pid, rc, marker, previous, pending, images, cuts,
                 kept, alone>>

\* A test that fails, by its time or by ends of the server.
Revert ==
  /\ pending # None /\ NotInGap
  /\ current' = previous /\ pending' = None
  /\ ServerEnds
  /\ UNCHANGED <<before, install, file, pid, rc, marker, previous, images, cuts, kept, alone>>

\* Releases.confirm, by the server that is on test.
Keeps ==
  IF web = pending THEN pending' = None /\ kept' = kept \cup {web}
  ELSE UNCHANGED <<pending, kept>>

PageConfirm ==
  /\ web # Down /\ web = pending
  /\ Keeps
  /\ UNCHANGED <<client, install, files, web, current, previous, images, cuts, alone>>

ImageHealthy ==
  /\ ~confirm /\ web # Down
  /\ confirm' = TRUE /\ kept' = kept \cup {slot}
  /\ UNCHANGED <<client, install, files, web, links, primary, slot, other, fail, cuts, alone>>

\* The watchdog: an image never confirmed makes way for the other one.
ImageFallsBack ==
  /\ ~confirm /\ slot \notin kept
  /\ Boots(other)
  /\ fail' = TRUE
  /\ UNCHANGED <<cuts, kept, alone>>

-------------------------------------------------------------------------------
(* deploy_bundle.py, once its bundle is taken.                                *)

\* One GET of /api/bundle; a release on test that is not the one before is
\* looked at, once the server answers.
Poll(u) ==
  /\ at[u] \in {"poll", "watch"} /\ web # Down
  /\ \/ rc = 1 /\ Moves(u, "failed")
     \/ rc = 0 /\ Moves(u, IF marker THEN "follow" ELSE "installed")
     \/ /\ at[u] = "poll" /\ Running
        /\ web = pending /\ web # before[u].web
        /\ Moves(u, "confirm")
  /\ UNCHANGED <<before, install, files, web, links, images, cuts, kept, alone>>

ConfirmRequest(u) ==
  /\ at[u] = "confirm" /\ web # Down
  /\ \/ Keeps /\ Moves(u, "watch")
     \/ Moves(u, "lost") /\ UNCHANGED <<pending, kept>>      \* not healthy: 503
  /\ UNCHANGED <<before, install, files, web, current, previous, images, cuts, alone>>

\* follow_reboot: an answer that is missing is the reboot.
Follow(u) ==
  /\ at[u] = "follow"
  /\ "silent" \notin Faults => web = Down
  /\ Moves(u, "seen")
  /\ UNCHANGED <<before, install, files, web, links, images, cuts, kept, alone>>

Seen(u) ==
  /\ at[u] = "seen" /\ web # Down /\ confirm
  /\ Moves(u, IF slot # before[u].slot THEN "confirmed"
              ELSE IF fail THEN "fell_back" ELSE "not_switched")
  /\ UNCHANGED <<before, install, files, web, links, images, cuts, kept, alone>>

GiveUp(u) ==
  /\ at[u] \in Waits
  /\ Moves(u, "lost")
  /\ UNCHANGED <<before, install, files, web, links, images, cuts, kept, alone>>

Client(u) == Poll(u) \/ ConfirmRequest(u) \/ Follow(u) \/ Seen(u) \/ GiveUp(u)

-------------------------------------------------------------------------------

Supervisor == WebStarts \/ Revert

DeployNext ==
  \/ \E u \in Deploy : Ask(u) \/ Uploads(u) \/ Runner(u) \/ Client(u)
  \/ Supervisor \/ Crash \/ PowerCut
  \/ PageConfirm \/ ImageHealthy \/ ImageFallsBack

DeploySpec == DeployInit /\ [][DeployNext]_deployVars

\* The shell of an installation runs on, so does the request that started it, and the
\* supervisor with its test time.
FairDeploySpec ==
  /\ DeploySpec
  /\ \A u \in Deploy : WF_deployVars(Runner(u)) /\ WF_deployVars(WritePid(u))
  /\ WF_deployVars(WebStarts) /\ WF_deployVars(Revert)

-------------------------------------------------------------------------------

\* One installation at a time, whatever requests come and whenever the server
\* restarts (fpga_web.py 513: "One `rauc install` at a time").
OneInstall ==
  \A u, v \in Deploy : {runner[u], runner[v]} \subseteq Active \ {"reboot"} => u = v

\* What deploy_bundle.py tells is so, if no other deployment began before its own had
\* ended: "installed" and "confirmed" of a bundle that rauc read as it was sent and
\* that was confirmed on the board, "the reboot did not switch images" after the
\* reboot.
VerdictTrue ==
  alone => \A u \in Deploy :
    /\ at[u] \in {"installed", "confirmed"} => bundle[u] = u /\ u \in kept
    /\ at[u] = "not_switched" => runner[u] = "done"

\* After "rauc install failed - the board keeps what it had" (deploy_bundle.py 166)
\* the board runs nothing of the bundle, now or after a power-on.
FailedKeeps == alone => \A u \in Deploy : at[u] = "failed" => u \notin kept /\ primary # u

\* An installation that has begun ends: the handler does not wait for ever.
InstallEnds == \A u \in Deploy : runner[u] = "rm_marker" ~> runner[u] = "done"
===============================================================================
