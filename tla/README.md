# DE25-Standard test project: models, checks and proofs

TLA+ models of the software that runs the DE25-Standard board (an Agilex 5
with Linux, an FPGA register file and a web GUI), the TLC runs that check them
and the theorems TLAPS proves about them. `PROJECT.json` lists the components,
the runs, the source lines behind each definition, what was found and the
hazards the properties are for. Paths below are relative to `src/`.

    tlc -workers 2 -config FpgaAccess_all.cfg MCFpgaAccess.tla   # one run
    tlapm FpgaAccessProofs.tla                                   # the proofs

## The system

| part | keeps | operations | hard because of |
|---|---|---|---|
| `linux/webapp/fpga_access.py`, class `Access`: the one process that maps the registers | the register lock, the core-load lock, the pause, the cached fabric guard, the fan lease | read, write (with a lease), pause, resume, release, adc, scope, reload, install_core, install_rsu; the lease watchdog | a thread per connection, the watchdog and a core load; an access while the fabric reconfigures hangs the CPU |
| core files (`install_core`, `_recover_install`) | core, manifest, `.prev` of both, `pending`, the card's copy | install, rollback, recovery at the start | power cuts between any two file operations |
| oscilloscope: `StreamServer`, `StreamSession`, `Logger`, `LogSession`, `ScopeHw` | the owner, the current session, what the scope is set to | a new stream client takes over, a log, a triggered capture | takeovers of takeovers, timeouts, pauses and loads under a running stream |
| `fpga/scope_ddr_writer.vhd` with `RingHw` and its readers | the ring, bursts under way, the count of records; a log's file and description | write, restart, count, copy, look again; trim, recover | records under way, two counts that wrap, being lapped |
| `linux/webapp/fpga_web.py`, class `Releases`, and `linux/board/de25web-supervisor.sh` | `current`, `previous`, `pending`, the release directories; the supervisor's test | install, confirm, rollback; start, test, revert | two programs that share only files, power cuts, crashes, several request threads |
| `install_rsu`, `linux/board/rauc/*`, `rsu-confirm.sh` | flash slots P1 and P2 with their U-Boot, core and rootfs; the SDM's records | image update, set-primary, confirm or fall back | power cuts, a watchdog, the order of writes |
| `Bundles`, `deploy_bundle.py`, `post-install` | the upload, `pid`, `rc`, `reboot` | upload, `rauc install`, wait for the release, reboot, tell the outcome | four programs, the server restarting in the middle |
| `linux/webapp/temp_control.py` | PI state, mode, history; the fan's lease | control loop, settings, save and load | the loop dies; saturation; a lease racing a renewal |
| `serve()`, `FpgaClient`, `ControlClient` | one connection, one lock | call, resend, time out | late answers, a request carried out after its client gave up |
| `Board`, `ControlLink` of `fpga_web.py` | the newest sample; the plot's history | sample, publish, poll, set, read-change-write of the displays | one connection for all threads, restarts of either process |
| FPGA state machines (fan chip, bridge, decimator, ADC reader), browser GUI, board services, tools | | | not modelled, see below |

The web server and the temperature loop are clients of the access process over
a Unix socket, the web server is one of the loop. The supervisor starts all
three from the release that `current` points at. A fan lease ties the loop to
the access process; `Access.owner` ties stream, log and captures together; a
core load pauses everybody. A GUI release and a core installation meet in the
supervisor, which kills an access process in the middle of an install when a
release is switched. A bundle uses the other two ways of updating: its handler
offers a GUI release to the server that is storing it, and its hook has the
access process write an image.

What makes each correct: no bridge access while the fabric is being configured,
one load at a time, registers and leases as they were after a load, the fan
raised when its controller dies; an installed core that has loaded, with its
own manifest, and a card copy that boots; one user of the scope, undisturbed,
and records in order or an end that says why; a bad release that never sticks,
and a confirmed one that is never lost; an image to boot whose parts belong
together; a verdict on a deployment that is true; answers that belong to their
requests, and pages that end up showing what is.

## Modules

Every module but LineClient has an MC module and the .cfg files of the same
prefix. LineClient is extended by ControlLink and BoardLink; CoreStore and
SlotStore are the abstract specifications of CoreInstall and RsuUpdate.

### FpgaAccess, FpgaAccessProofs

`Access`: `pc[c]` is where a handler thread is in `handle` or `_load`, `dog`
where the watchdog is. What a thread does with the register lock held is two
steps, the checks and then the access, because the loader, the fabric, the
watchdog's first half and `release` do not take the lock. `paused_until` is
"past", "timed" or "never" (`math.inf`), `guard` the cached answer of
`fabric_ready` with its age. One register stands for all the writable ones:
the fan's, with its lease. Its values are speeds, the reverse of the KTACH
numbers in the register. A core load goes through `begin` (save, pause),
`start` and `load` (the kernel's overlay), `settle`, `verify`, `restore` and
then the finally clause (`finish`, `next`, `resume_traffic`); a failed install
does it again with `job.rollback`. `adc` stands for every request that takes
the lock a second time. `scope_op`, `core_info` and the stream's guard have
the shape of a read. `lease = "lapsed"` is a deadline that passed while a load
ran: `held` is added to it at the end. `net` and `kept` are history.

### CoreStore, CoreInstall, CoreInstallProofs

CoreStore is what an installation promises: one core, with its own manifest,
replaced in one step and only by a core that loaded. Its `PowerCut` is what is
left of that by a cut in a rollback: the core may keep the manifest of the one
that was tried. CoreInstall has a step for each file operation of
`install_core`, its rollback and `_recover_install`, a `Cut` between any two
(the power, or the supervisor killing the process), a load that may hang the
board, and one that ends with an exception `install_core` does not catch
(`Uncaught`, or a full disk: the request is at "left" then, with the mark and
the untested core in place, until a recovery or the next install).
`InstalledCore` and `InstalledMan` are the refinement mapping: while `pending`
is there, `.prev` is what is installed. `Faults` selects what may happen.

### ScopeOwner, ScopeProofs

`at[u]` is where a stream session or the logger is; `hw` whose settings the
scope runs with. Connecting swaps `current` and tells the session before to
stop; `OldGone` is `done.wait(3)`. `Closes` is a client that goes away,
`StopStream` the request that ends a stream. `SlowClient` says whether a send
may block for longer than the wait (`STREAM_SEND_TIMEOUT_S` is 5 s): with FALSE
the wait ends only with the session before gone. Pauses and core loads come at
any time (FpgaAccess has them in detail); a load resets the scope. A log whose
disk's size is not to be had (`statvfs` raises) keeps its claim: it is at "check"
for good, which `LogCheck` may be, as nothing makes it go on.

### DdrRing, ScopeProofs

What one session of ScopeOwner reads. A record is its capture and its number.
The writer issues bursts, each with a memory write that lands (`Land`) and an
answer that counts it (`Answer`), in order; `Drop` is the FIFO running full
(a stream ends when it sees that); `Restarted` is the
port's restart, which waits until nothing is under way (`BusIdle`).
`written` wraps at `Word` in what the reader sees (`count`), `Extended` is
`RingHw.written`'s extension by the difference. A stream copies up to `Chunk`
records, one step each, sends them, and looks whether it was lapped
(`Checked`); a log copies a whole poll's, and has its fsync, trim and
description, a crash that loses what was not fsynced, and `recover_logs`. A card
that fails does so at any write, at the trimming ("untrimmed": the description
then says 0 points) or at the description, which stays "running"; "cut" is a
power cut that takes from the file of a log already over. Points the decimator
loses before the ring (`D_LOST`) are not counted here: a log goes on with whole
points, whose own numbers show the gap. `Drop`, which ends a stream, is modelled.
`KeepsUp` is the assumption that the card takes a poll's records before the
writer has made a margin of new ones, the stream's tail assumption that the
record after the counted ones has landed; "slow" and "tail" in `Faults` drop
them. `LooksInTime` bounds the writer to fewer than `Word` new records between
two looks at the count: 2^32 records take minutes at the fastest rate, and a
send lasts 5 s at most.

### ReleaseUpdate, ReleaseUpdateProofs

Each file operation of `Releases.install`, `confirm` and `rollback` is a step
of a request thread, each of `revert()` one of the supervisor. `web` is the
release the server runs from, `exiting` the half second of `restart_soon`,
`test` the supervisor's `test_rel`, `fails` and elapsed time. The inner loop is
`Look` (pending read) and `Judge` (exits, time). `durable` says whether the
content of `pending` is on the card, as only an install fsyncs it. A release
whose directory is not complete is the supervisor's case of missing or empty
files. `Ops` has two words besides the requests: "reinstall" (an upload of a
release that is there) and "hasty" (requests in the half second before the
server exits).

### SlotStore, RsuUpdate, RsuUpdateProofs

SlotStore promises slots that hold nothing bootable or one build whose parts
belong together, taken out and filled in one step, never while they run, and
reboots that go to a slot that holds a build or to the one asked for (`asked`).
That one may have been taken out again: a handler that fails after `set-primary`
leaves `reboot_image` as it is, and the next update erases that slot.
RsuUpdate has one action for each step of `rauc install` with its hook, each
of `install_rsu` (erase the image, SSBL, core, card files, directory, and the
image last), each of `set-primary` (`Enable`, `ClearError`, `SetReboot`), and
the confirmation; `ToolFails` fails any of them, `PowerCut` and `RebootByHand`
come between any two, an interrupted write leaves `Torn`. `Best` is the SDM's
choice (external: what the scripts and the boot backend rely on). `PowerOn`
includes the board's start, which runs `_recover_install` for a pending core.
The refinement maps a slot to the build of its image when the SDM may boot it.

### BundleDeploy, WebServerProofs

`at[u]` is `deploy_bundle.py` and the request it makes, `runner[u]` the shell
that `Bundles.start` leaves in its own session: `rm reboot`, `rauc`, the
handler with its wait, `rm` of the upload, `rc`, the reboot. The upload is
written before `start()` asks whether an install runs. `links` and `board` are
ReleaseUpdate and RsuUpdate in one step per outcome: a release is stored,
tested, confirmed or reverted; an image is primary, booted, confirmed or not.
The handler's wait for a release may end by its own deadline, with the release
still on test; its test then ends by itself later, and counts as `Open` till then.
`alone` is history: no deployment began while the one before still had an
upload, an outcome to read or a reboot to come (`Open`). What
`deploy_bundle.py` tells is about a deployment that was alone; two at once share
the files pid, rc and reboot, and only `OneInstall` is promised to them.

### FanLoop, ControlProofs

Register 9 with everybody who writes it: the loop (`LoopSample` is one pass with
its read and `Places` "write" the time before its write), the page's speed,
`/api/write` (`ApiWrite`: any count, with no floor), the watchdog in its three
steps (`DogSees`, `DogPops`, `DogRaises`, or `DogDrops` for good when the fabric
is not ready), and core loads, which reset it (`CoreLost`, `CoreBack`).
Temperatures are in thousandths of a degree, what the PI controller adds up in
thousandths of a rpm, its output rounded as Python does; speeds are converted to
KTACH and back as in the code. The floats' own rounding is left out, and the
gains, which may be any whole number from 0, do not change during a run.
`RoundTripAssumption` is that a count read as rpm and written again is the same
count, which TLC evaluates for all 256. The registers can be paused, the access
process can end, and then it has no leases; a save of control.json may fail.
`leased` is history.

### LineClient, ControlLink, BoardLink, LineClientProofs, ControlProofs, WebServerProofs

LineClient is `call_raw`, `call` and `serve()`: `up` and `down` are what is on
the connection, `strays` the requests of connections given up whose server
thread has not got to them. `ResendsLate` is the one difference between the two
clients: ControlClient sends again after a timeout, FpgaClient only when no
answer can come any more. `Serve(r, answer)` leaves what a request does to the
module that extends it. ControlLink has the poller with its seeding, the page's
`set`, and the loop with its samples, history and file. BoardLink has the
sampler, the event streams, and requests that read the displays' control
register, change a part and write it back, under `hex_lock`. `stands` and
`made` are history: what an answered request has promised. Two limits: a
connection drops only with the server's process (`serve()` answers every
exception the modelled requests raise; a core load may raise another, and its
dropped connection and second try are in CoreInstall, as "raise" and "again"),
and the poller reads an answer and stores it as `latest` in one step, where in
the code a setting can come between and be shown one poll later.

## Runs

| run | bounds | shows |
|---|---|---|
| access_all | 2 threads, 3 speeds, all requests: leases, ADC requests, pauses | `CheckedTraffic`, `RegistersKept`, `LeaseKept` |
| access_load | 2 threads; read, write, reload, install; fair | `NoAccessDuringLoad`, `LoadEnds` |
| core_install | 3 cores (one bad), 3 cuts, full disk, uncaught exceptions | `Implements`, `CardLoads`, `CardInstalled` |
| scope_sharing | 3 clients, a log, captures; fair | `Exclusive`, `Undisturbed`, `ArmedIsTrue`, `Served` |
| ddr_ring | ring of 4, margin and chunk 2, 2 under way, count wraps at 6, 7 records, 2 sessions; a failing card, crashes | `RingTypeOK`, `InOrder`, `LogTrue` |
| release_update | 3 releases, 1 thread, MAX_FAILS 2, 2 kept, no faults | `NothingSticks`, `FallsBackToConfirmed`, `TargetsThere` |
| release_faults | 2 releases, all requests, 1 crash, 1 power cut; fair | types, `Watched`, `TestEnds` |
| rsu_update | 2 slots, 3 builds (one unhealthy, one with a big core), 3 updates, 2 cuts, failing tools and handlers; fair | types, `Coherent`, `FallbackKept`, `Implements`, `Recovers` |
| bundle_deploy | a GUI release and an image, 2 ends of the server or cuts, the handler's deadline; fair | `OneInstall`, `VerdictTrue`, `InstallEnds` |
| fan_loop | the code's speeds and default gains (320 and 11), samples 5 s apart, 9.375 below and 15.625 above the setpoint and none, page speeds 0 and 6000, counts 0 and 255, 2 ends or requests; fair | `LoopTypeOK`, `OffLeaves`, `NoWindup`, `NetWorks` |
| control_link | 3 samples, 1 setting, 2 faults; fair | `InStep`, `Ordered`, `KeepsPoints`, `Converges` |
| board_link | 2 pages with 2 requests, 1 stream, 2 faults; fair | `NeverTwice`, `HexKept`, `PagesConverge` |

Together they check, per module, one type invariant (where the proofs do not
have it) and what follows from the hazards. What each property says is in the
comment over it.

Why the bounds are enough. Two handler threads are the smallest number that
race (a loader and another, or two loaders), and the watchdog is a third actor;
the proofs below are for any number. Three speeds put the reset speed below,
the safe one in the middle and one above. Three stream clients let a client
take over from one that itself still waits. In ddr_ring the ring and the count
wrap in different places, a session sees both, and the second session finds
what the first one left in memory and under way. Three releases let a second
upload arrive during the test of the first; two suffice where only crashes
matter. MAX_FAILS is 3 on the board: 2 in release_update (so that an exit that
does not yet fail the test occurs), 1 with faults. Three updates with two cuts
include an update of the slot a fallback has just left, and a cut in the
recovery from a cut; three cuts in core_install one in the recovery of a
recovery. In bundle_deploy the two bundles are of the two kinds, as what they
share is where they meet; two images and two releases have been checked with
`VerdictInv` of WebServerProofs too. In fan_loop the integrator moves in its real range with the
default gains: a saturation is reached and left in both directions; any gains,
errors and times are in the proofs. Two faults in the line clients let a timeout meet a restart, or a
second timeout on the resent request. All bounds are constants: `MaxCrashes`,
`MaxCuts`, `MaxUpdates`, `MaxRecords`, `MaxRuns`, `MaxEnds`, `MaxSamples`,
`MaxSets`, `MaxAsks`, `MaxFaults`.

### What does not hold

The passing runs leave something out where the code does not keep a property.
These configurations put it back; TLC finds the counterexample.

| configuration | property | what happens |
|---|---|---|
| FpgaAccess_bad_watchdog | `NoAccessDuringLoad` | the watchdog touches a fabric that reconfigures |
| FpgaAccess_bad_stuck | `LoadEnds` | a load ends with traffic paused for good |
| Release_bad_revert_cut | `NothingSticks` | a reverted release runs again, off test |
| Release_bad_confirm | `ConfirmedKept` | a confirmed release is reverted |
| Core_bad_again | `Implements` | a load ends with an exception nobody catches, the request is sent again, and the untested core becomes `.prev` |
| Scope_bad_takeover | `Exclusive` | two sessions use the scope, as a send may block longer than the takeover waits |
| Ring_bad_tail | `InOrder` | a message holds a record that has not landed |
| Ring_bad_slow | `LogTrue` | a log on a slow card ends "done" with another lap's points |
| Rsu_bad_pending | `RunsWhole` | a new image puts an old pending core back beside its own U-Boot |
| Rsu_bad_handler | `RunsWhole` | a handler fails after `set-primary`; the next update of that slot is under way when somebody reboots, into half an image |
| Bundle_bad_failed | `FailedKeeps` | "the board keeps what it had" when it does not |
| Bundle_bad_gap | `OneInstall` | two `rauc install` after the server ended before it wrote the pid |
| Fan_bad_net | `NetAlways` | the access process ends and takes the lease of a dead loop with it |
| Control_bad_late | `SettingStands` | a setting that timed out undoes one that was answered later |

FpgaAccess_lease passes: `NetHolds`, without core loads.

Each disagrees with a line of the repository, quoted under `findings`, but for
Rsu_bad_handler, of which no document says otherwise. Besides them:

- `NoAccessDuringLoad` also fails with the second access of the ADC requests
  and of log_start, and with pause and resume requests. Two adc_register
  requests at once may also answer each other's value. `CheckedTraffic` says
  what is left, and is checked in access_all, and proved, with leases, ADC
  requests and pauses: an access that looked at the pause under the lock meets a
  load only when a pause or resume that looked before the load began was carried
  out during it.
- The watchdog drops a lease for good when it finds the fabric not ready, and a
  failed load then leaves the fan unwatched (`NetHolds` with loads).
- release_update leaves out rollbacks (one during a test, followed by an
  upload, makes `previous` an unconfirmed release, against
  `linux/webapp/README.md` 236-238), reinstalls (the directory is gone between
  `rmtree` and `rename`), power cuts (one between the `current` link and
  `pending` leaves an untested release running) and a second request thread (a
  confirm and an install interleave).
- core_install includes cuts between the two renames that put `.prev` back,
  disks that fill, and uncaught exceptions. It leaves out the loss of what was
  not fsynced ("lost": `.prev` is made by `copyfile`), an install before the
  recovery of one that left its mark ("again", above), and a board with no core
  at first ("bare": there is no `.prev` to go back to, and an untested core can
  stay). With each of the three `Implements` fails.
- rsu_update leaves out "late" (a tool that fails after it did its work) and
  "early" (an update before the running image is confirmed), which the proofs
  of `Coherent` and the refinement include, and "stale" (above).
- bundle_deploy leaves out an end of the server between `Popen` and the writing
  of pid ("gap", above), by a crash or by a revert of an older test, and a
  request for the outcome that is not answered for another reason than the
  reboot ("silent").
- `HexKept` excuses a write whose client has given up and that is carried out
  after all; it brings back the other part of the register it had read.
- `NetWorks` excuses the access process ending with the lease, and a watchdog
  that drops it because there is no core (Fan_bad_net.cfg is without the excuse).
- `LogTrue` excuses a description that could not be written, which says
  "running" until the next start, the 0 points of a file that could not be
  trimmed, and what a power cut takes of a file that was not fsynced.
- `LogTrue` is about one log: two logs started within one second with the same
  label have the same name, and the second one writes over the first.

Fairness, where a run needs it: threads of a process are scheduled (WF on each
handler thread that is inside a request, on the watchdog, the supervisor, the
poller, a runner's shell); a lock that is free again and again is got in the
end (SF on the calls of BoardLink's threads: Python's locks are not fair, but
the sampler sleeps between two calls and so leaves turns); the SDM answers a
load, since one that never returns is kept paused on purpose (comment at
fpga_access.py 2335); a power-on reset, a pause and a lease's time end; a send
ends by its socket timeout; the supervisor starts again what has ended, but
nobody is bound to start a dead temperature loop in FanLoop (`NetWorks` is
about exactly that time). No fairness is assumed of clients, faults, or the
arrival of requests. CHECK_DEADLOCK is off only where nothing need happen once
the bounded requests and faults are used up.

## What is proved

FpgaAccessProofs, for any set of clients, any requests and any speeds:

- `TypeCorrect`, and `Invariant`: `Spec => []IInv`. `IInv` says who holds each
  lock (`Owners`), at which label of the loader the fabric is being configured
  or in its power-on reset (`FabricOf`), what the load has saved and restored
  (`SavedOf`), and that without pause and resume requests the load's own pause
  lasts and nobody who passed the checks is still at the bridge
  (`PauseHolds`). None of the properties is inductive by itself: that two
  loads exclude each other needs the lock to belong to the label, and that
  checked traffic stays off the fabric needs the pause to have been set under
  the lock, after the last one that checked had left.
- from it `OneLoadAtATime`, `CheckedTrafficExcluded`, `RegistersRestored` and
  `LeasesKept`;
- `NoAccessMeetsLoad`: with reads, writes and loads only, no access at all meets
  a fabric that reconfigures. The hypothesis names the four requests that
  break it (above): a second access without the checks, a lease with its
  watchdog, and pauses by hand;
- `NetWithoutLoads`: `NetHolds` while no core is loaded. A watchdog that has
  dropped the lease has one way to go, to raise the fan.

CoreInstallProofs, for any cores, any number of cuts at any step, full disks and
uncaught exceptions, under `KeepsPrev` (without "lost", "again" and "bare", each
of which can make `.prev` what never loaded):

- `Invariant`: `pending` is there from before the first untested file to the
  end of the clean-up, behind it `.prev` is a core that loads, and the file
  that loads is the one the card gets;
- `CardNeverBad`, and `Refinement`: every step of `install_core`, of its
  rollback and of the recovery either leaves the installed core and manifest
  alone, is CoreStore's `Commit`, or is a cut, which changes no core. The commit
  is the removal of `pending`; `ManOfOne` says which two manifests there may be
  until the one of `.prev` is back.

CoreInstallProofs also shows `CardInstalled` under `KeepsPrev`, from
`CardStands`: the card's copy is the core that was there before the mark until
the new one has loaded, or `missed` says otherwise.

ScopeProofs assumes for the sessions `PromptClients`, that no send outlasts the three
seconds of `done.wait` (Scope_bad_takeover.cfg shows what else happens), and is
about any number of clients. `Exclusive` is not inductive: nothing in it keeps
two sessions that wait from claiming the scope one after the other. `Queued`
says why they do not: the sessions alive are in a row, each waits for the done
event of the one before it, the last is `current`, and only the first is past
its wait. `OwnerOf` ties `owner` to it. A connection appends to the row, an end
takes a session from its front. `Undisturbed` follows with what each user sets
before it reads, `ArmedIsTrue` needs no assumption.

The ring (RingTypeCorrect, StreamInOrder, LogIsTrue in ScopeProofs) is about any
ring, margin, chunk and word, and any number of records. `RingIInv` says that a
record that has landed is in its slot until the next one for that slot lands
(`BusInv`), that the reader's total is at most what was written and agrees with
the counter modulo `Word` (`PortInv`), and what each place of the reader has
counted (`ReaderInv`). Two of its facts need a lemma on `%` each: two records
less than a ring apart are in different slots (`SlotsApart`), and the
difference of two readings of the wrapped counter is the number of records
between them when that is less than `Word` (`WordDifference`), which is what
`LooksInTime` is for. `InOrder` is not inductive, as a message is wrong before
it is known to be: `StreamInv` adds that a copied record is right or the writer
is already so far ahead that the look after the copy must show it. `LogInv`
keeps a poll's records in memory until they are in the file, because `KeepsUp`
leaves the writer no more than the margin, and says what file and description a
crash, a failing card and `recover_logs` find at each step. Each theorem assumes away the fault
whose counterexample is above ("tail", "slow").

ReleaseUpdateProofs, for any number of releases:

- `TypeCorrect` and `TestIsWatched`, for any threads, requests, crashes and
  cuts. `UnderTest` is the inductive half: the server whose name is in
  `pending` is the release under test, but between an install's last steps and
  its exit.
- `TargetsKept`, for any crashes, cuts and rollbacks, when requests come one
  at a time and none uploads a release that is there. `Has` is what a request
  thread relies on at each of its steps, so that `_prune` never takes the
  directory a link has or will have.
- `NothingSticksEver` and `ConfirmedBehind` under `Calm`: one request at a time,
  no rollback, reinstall or second request before the exit, no crash, no cut.
  Each of these is needed; the reasons are listed above. `Sound` is the
  invariant: the links are `Settled` (the current release confirmed, or on
  test with a confirmed one behind it) except inside the three steps of
  `revert()` and the steps of an install after its link moved, and there it
  says what those steps are about to put right.

WebServerProofs on bundles, for any bundles, releases and images, power cuts and
ends of the server:

- `OneAtOnce`: one `rauc install` at a time, unless the server ends (or rauc
  opens the bundle) between the start of the shell and the writing of its pid
  (Bundle_bad_gap.cfg). `OneInstall` is not inductive: nothing in it keeps a
  second request from starting. `StartInv` says that an installation under way
  is the one pid tells of, or its request still has the lock; `TestInv`, that a
  release on test belongs to an installation that got as far as offering it. Its
  handler may have given up by then, so that a revert, which ends the server, can
  come between Popen and WritePid of another: the model has that as "gap" too.
- `ToldTruly`: `VerdictTrue`. `OneBusy` is what `alone` buys, and with it what
  the client reads is its own installation's: `SentInv` (upload.raucb is what
  it sent), `RunnerInv` (a success is a release that was confirmed or an image
  that is the next to boot), `ClientInv` (rc and marker). `KeptInv` needs no
  assumption: what is current, previous or running and not on test was
  confirmed. "silent" is assumed away: an answer that is missing for another
  reason is taken for the reboot.

LineClientProofs has the lemmas on the wire: `up` and `down` together hold at
most one line, and it is the current call's, as every failure closes the
connection. ControlProofs and WebServerProofs have from them that every
answer is read by its own call, for any threads and faults. For the displays
WebServerProofs adds that `hex_lock` leaves one request between its read and
its write, that what it has read is still in the register (`ReadStands`) unless
a write whose client gave up has come late, and that the answer on its way is
what the register held: that gives `HexKept` and, with the strays marked as the
call's own, `NeverTwice`.

For the plot ControlProofs shows `PlotInOrder` and `PlotKept`. The loop's
samples, in its memory or its file, are consecutive up to the present one
(`SamplesInv`); an answer on the wire is a stretch of them that ends no earlier
than the link's last point (`AnswerInv`); so what the poller adds comes after
what it has, and a seeding holds all that is later (`HistoryInv`).

The fan loop (LoopTypeCorrect, OffIsLeft, FanUnwound in ControlProofs) is about
any whole gains from 0, any errors in thousandths of a degree, times, page speeds
and counts of `/api/write`. The register holds any count, so its types say that
what the loop is set to, keeps and adds up stays between the least and the
greatest speed whatever it reads. `OffIsLeft` needs that only a mode that writes is ever
about to, and that a process which is down has no lease (`LoopInv`).
`FanUnwound` follows from the integrator's limits (`IntegralIn`, `ResetIn`) and
`RoundedWithin`, for `Lo < Hi`: at the limit the first error of the other sign
that Kp makes more than half a rpm of moves the rounded output. With a smaller
one, or a Kp of 0, the output may stay where it is, and nothing is said.

RsuUpdateProofs is about any builds, updates and cuts, tools that fail before
or after they did their work, torn writes and hangs. `NoneStale` leaves out an
update of a slot where a core install is pending (a start would put an old core
into the new image's directory: Rsu_bad_pending.cfg). `Apart` says the update
works on a slot that does not run, `Progress` what each step may rely on: the
slot has no priority from `Mark` to the write of the image, and every part
written so far is of the new build. So the image, the last part, makes the slot
whole, which is `Coherent`. For the refinement, failing handlers included, `AskedFor`
says that a warm reboot is never asked for the slot that runs, and while one
runs, for the slot written last; where a handler failed and that slot was taken
out again, the reboot that loads it is SlotStore's `Boot` to `asked`. A
confirmation counts the slot that runs while it is enabled (`good`); one whose
priority was taken out and that runs by such a reboot is not counted.
`FallbackKept` needs `Fallback`, and that there are
at most two slots and no update before a confirmation (`NoneEarly`): the image
confirmed last is the one that runs, or the better one is on trial, and every
start that is not told where to go takes one of the two.

The assumptions on the constants are those named in the modules.

Every invariant and every action property of the runs is proved, and so are the
refinements. Model-checked only are the liveness properties: `LoadEnds`,
`TestEnds`, `Served`, `Recovers`, `InstallEnds`, `NetWorks`, `Converges` and
`PagesConverge`.
Liveness under fairness and ENABLED are out of the prover's reach, as are what
a recursive definition computes (induction over data) and modules with
RECURSIVE operators; none of the modules here has one.

## Not modelled

- The simulated board (`--sim`: `SimBridge`, `ThermalPlant`): a stand-in for
  the hardware.
- The FPGA's state machines for the fan chip (`max6650_fan_control.vhd`), the
  bridge (`axi_lwh2f_bridge.vhd`, `register_block.vhd`), the decimator and the
  ADC reader. Each serves one request at a time; the bridge and the fan chip
  are worth a module (below), the others are a pipeline and a sequencer. The
  register interconnect and the scope's capture core are submodules without
  source here. Memory ordering on the register window is not modelled: all
  accesses come from one process under one lock, except where the models say
  so.
- The browser GUI (presentation), `SocSensors`, static files and downloads of
  the web server (I/O), the board services `eth-watchdog.sh`, `grow-data.py`,
  `lcd-status.py` (sequential scripts around tools).
- The build, image and deployment tools, but for `deploy_bundle.py`;
  `sd_recover.py` and `tftp_server.py` are planned.
- The generated HPS system and the blinkers.
- What only formats or displays: the 64-byte formats of points, JSON, the
  settled and mean error figures of the loop.

## Plan

In the order of importance:

1. Proofs: `NothingSticksEver` with rollbacks while nothing is on test, and with
   the crashes that do no harm; `BundleDeploy` as an abstraction of
   ReleaseUpdate and RsuUpdate, step by step.
2. Max6650 and AxiBridge: set-up and recovery of the fan chip after a NACK or a
   wrong Config; a late answer on the bridge after its read watchdog.
3. TftpServe: block numbers modulo 2^16, lost and duplicated packets.
4. The composition of FpgaAccess and FanLoop, so that `NetWorks` is checked with
   core loads.
