---------------------------- MODULE ReleaseUpdate ----------------------------
(***************************************************************************)
(* GUI releases: class Releases of linux/webapp/fpga_web.py, run by the    *)
(* request threads of the web server, and de25web-supervisor.sh, which     *)
(* starts what "current" points at and reverts a release whose test fails. *)
(* They share only the files under BASE.  Every file operation is a step   *)
(* of its own: a power cut may fall between any two, the server may die    *)
(* under its threads, and the threads take no lock.                        *)
(***************************************************************************)
EXTENDS Naturals, FiniteSets

CONSTANTS
  Release,   \* release names
  First,     \* the one installed and confirmed at first
  Handlers,  \* request threads of the web server
  Ops,       \* what they are asked, of "install", "confirm" and "rollback";
             \* "reinstall": an install may be of a release that is there;
             \* "hasty": requests come in the half second before an exit too
  MaxFails,  \* MAX_FAILS: exits that fail a test
  MaxKept,   \* _prune's max_releases
  MaxCrashes, \* bound: crashes of the web server
  MaxCuts    \* bound: power cuts

Nil == "none"          \* no such link, file or process
Empty == "empty"       \* a pending file without its line

ASSUME ReleaseAssumption == First \in Release /\ {Nil, Empty} \cap Release = {}
ASSUME OpsAssumption == Ops \subseteq {"install", "confirm", "rollback", "reinstall", "hasty"}
ASSUME BoundsAssumption ==
  MaxFails \in Nat \ {0} /\ MaxKept \in Nat \ {0} /\
  MaxCrashes \in Nat /\ MaxCuts \in Nat

VARIABLES
  current, previous, pending,  \* BASE/current, BASE/previous, BASE/pending
  durable,   \* pending's content has reached the card
  releases,  \* the complete directories in BASE/releases
  web,       \* the release fpga_web.py runs from
  exiting,   \* restart_soon is under way
  thread,    \* each request thread: [at, rel, cur]
  sup,       \* the supervisor: [at, bad, empty_reverted]
  test,      \* its test: [rel, fails, over]; over: TEST_SECONDS have passed
  crashes, cuts, \* crashes of the web server and power cuts so far
  confirmed, \* history: the releases some confirm was answered for
  failed     \* history: the releases whose last test failed

disk == <<current, previous, pending, durable, releases>>
faults == <<crashes, cuts>>
vars == <<disk, web, exiting, thread, sup, test, faults, confirmed, failed>>

InstallSteps == {"remove", "place", "look", "previous", "current"}
RollbackSteps == {"rb_current", "rb_previous"}
PendingSteps == {"truncate", "pending"}
Idle == [at |-> "idle", rel |-> First, cur |-> First]
NoTest == [rel |-> Nil, fails |-> 0, over |-> FALSE]

TypeOK ==
  /\ current \in Release
  /\ previous \in Release \cup {Nil}
  /\ pending \in Release \cup {Nil, Empty}
  /\ durable \in BOOLEAN
  /\ releases \subseteq Release
  /\ web \in Release \cup {Nil}
  /\ exiting \in BOOLEAN
  /\ thread \in [Handlers ->
       [at : {"idle", "prune", "confirm"} \cup InstallSteps \cup RollbackSteps \cup
             PendingSteps \cup {"rb_truncate", "rb_pending"},
        rel : Release, cur : Release]]
  /\ sup \in [at : {"boot", "start", "run", "judge", "revert", "revert_previous",
                    "revert_pending"},
              bad : Release, empty_reverted : BOOLEAN]
  /\ test \in [rel : Release \cup {Nil}, fails : 0..MaxFails, over : BOOLEAN]
  /\ crashes \in 0..MaxCrashes /\ cuts \in 0..MaxCuts
  /\ confirmed \subseteq Release
  /\ failed \subseteq Release

Init ==
  /\ current = First /\ previous = Nil /\ pending = Nil /\ durable = TRUE
  /\ releases = {First}
  /\ web = Nil /\ exiting = FALSE
  /\ thread = [h \in Handlers |-> Idle]
  /\ sup = [at |-> "boot", bad |-> First, empty_reverted |-> FALSE]
  /\ test = NoTest
  /\ crashes = 0 /\ cuts = 0
  /\ confirmed = {First} /\ failed = {}

-------------------------------------------------------------------------------
(* The web server's threads: Releases.install, confirm and rollback.         *)

At(h, step) == web # Nil /\ thread[h].at = step
Asked(h, op) == At(h, "idle") /\ op \in Ops /\ (exiting => "hasty" \in Ops)
Step(h, step) == thread' = [thread EXCEPT ![h].at = step]
WebOnly == UNCHANGED <<web, sup, test, faults>>

\* The archive is unpacked beside the release's place.
Install(h, r) ==
  /\ Asked(h, "install") /\ (r \in releases => "reinstall" \in Ops)
  /\ thread' = [thread EXCEPT ![h] = [Idle EXCEPT !.at = "remove", !.rel = r]]
  /\ WebOnly /\ UNCHANGED <<disk, exiting, confirmed, failed>>

InstallRemove(h) ==
  /\ At(h, "remove")
  /\ releases' = releases \ {thread[h].rel}
  /\ Step(h, "place")
  /\ WebOnly /\ UNCHANGED <<current, previous, pending, durable, exiting, confirmed,
                            failed>>

InstallPlace(h) ==
  /\ At(h, "place")
  /\ releases' = releases \cup {thread[h].rel}
  /\ Step(h, "look")
  /\ WebOnly /\ UNCHANGED <<current, previous, pending, durable, exiting, confirmed,
                            failed>>

\* Mutants of MovesPrevious: an upload during a test moves previous; an upload
\* moves it once only.
MovesAlways(cur, rel) == cur # rel
MovesOnce(cur, rel) == cur # rel /\ pending = Nil /\ previous = Nil
\* A current still on test was never confirmed: previous stays.
MovesPrevious(cur, rel) == cur # rel /\ pending = Nil

InstallLook(h) ==
  /\ At(h, "look")
  /\ thread' = [thread EXCEPT
       ![h].at = IF MovesPrevious(current, thread[h].rel) THEN "previous" ELSE "current",
       ![h].cur = current]
  /\ WebOnly /\ UNCHANGED <<disk, exiting, confirmed, failed>>

InstallPrevious(h) ==
  /\ At(h, "previous")
  /\ previous' = thread[h].cur
  /\ Step(h, "current")
  /\ WebOnly /\ UNCHANGED <<current, pending, durable, releases, exiting, confirmed,
                            failed>>

InstallCurrent(h) ==
  /\ At(h, "current")
  /\ current' = thread[h].rel
  /\ Step(h, "truncate")
  /\ WebOnly /\ UNCHANGED <<previous, pending, durable, releases, exiting, confirmed,
                            failed>>

\* open(pending, "w"), for an install or a rollback, ...
Truncate(h) ==
  /\ \/ At(h, "truncate") /\ Step(h, "pending")
     \/ At(h, "rb_truncate") /\ Step(h, "rb_pending")
  /\ pending' = Empty /\ durable' = FALSE
  /\ WebOnly /\ UNCHANGED <<current, previous, releases, exiting, confirmed, failed>>

\* A mutant of RestartSoon: the server goes on.
NoRestart == exiting' = exiting
RestartSoon == exiting' = TRUE

\* ... then its line, which only an install fsyncs.  A rollback is done with it.
WritePending(h) ==
  /\ \/ /\ At(h, "pending") /\ Step(h, "prune")
        /\ durable' = TRUE /\ UNCHANGED exiting
     \/ /\ At(h, "rb_pending") /\ Step(h, "idle")
        /\ durable' = FALSE /\ RestartSoon
  /\ pending' = thread[h].rel
  /\ failed' = failed \ {thread[h].rel}
  /\ WebOnly /\ UNCHANGED <<current, previous, releases, confirmed>>

\* A mutant of Keep: the rollback target is not kept.
KeepNew(h) == {thread[h].rel}
Keep(h) == {thread[h].rel, thread[h].cur, previous}

\* _prune: the oldest beyond max_releases go, whatever their order of age,
\* except those to keep; then the server exits soon.
Prune(h) ==
  /\ At(h, "prune")
  /\ \E gone \in SUBSET (releases \ Keep(h)) :
       /\ Cardinality(releases) - Cardinality(gone) >= MaxKept \/ gone = {}
       /\ releases' = releases \ gone
  /\ RestartSoon
  /\ Step(h, "idle")
  /\ WebOnly /\ UNCHANGED <<current, previous, pending, durable, confirmed, failed>>

\* A mutant of HasPrevious: a rollback with nothing to go back to.
AnyPrevious == TRUE
HasPrevious == previous # Nil

Rollback(h) ==
  /\ Asked(h, "rollback")
  /\ HasPrevious
  /\ thread' = [thread EXCEPT ![h] = [at |-> "rb_current", rel |-> previous,
                                      cur |-> current]]
  /\ WebOnly /\ UNCHANGED <<disk, exiting, confirmed, failed>>

RollbackCurrent(h) ==
  /\ At(h, "rb_current")
  /\ current' = thread[h].rel
  /\ Step(h, "rb_previous")
  /\ WebOnly /\ UNCHANGED <<previous, pending, durable, releases, exiting, confirmed,
                            failed>>

RollbackPrevious(h) ==
  /\ At(h, "rb_previous")
  /\ previous' = thread[h].cur
  /\ Step(h, "rb_truncate")
  /\ WebOnly /\ UNCHANGED <<current, pending, durable, releases, exiting, confirmed,
                            failed>>

\* The release on test must be the one running (and healthy: any may be).
Confirmable == pending = web

Confirm(h) ==
  /\ Asked(h, "confirm")
  /\ Confirmable
  /\ Step(h, "confirm")
  /\ WebOnly /\ UNCHANGED <<disk, exiting, confirmed, failed>>

\* The file is removed; with none there any more the request fails.
ConfirmRemove(h) ==
  /\ At(h, "confirm")
  /\ IF pending = Nil THEN UNCHANGED <<pending, durable, confirmed>>
     ELSE /\ pending' = Nil /\ durable' = TRUE
          /\ confirmed' = confirmed \cup {web}
  /\ Step(h, "idle")
  /\ WebOnly /\ UNCHANGED <<current, previous, releases, exiting, failed>>

-------------------------------------------------------------------------------
(* The end of the web server: restart_soon, a crash, or stop_all.  Its       *)
(* threads end where they are.                                               *)

WebGone ==
  /\ web' = Nil /\ exiting' = FALSE
  /\ thread' = [h \in Handlers |-> Idle]

WebExit ==
  /\ web # Nil /\ exiting
  /\ WebGone
  /\ UNCHANGED <<disk, sup, test, faults, confirmed, failed>>

WebCrash ==
  /\ web # Nil
  /\ crashes < MaxCrashes /\ crashes' = crashes + 1
  /\ WebGone
  /\ UNCHANGED <<disk, sup, test, cuts, confirmed, failed>>

-------------------------------------------------------------------------------
(* The supervisor.                                                           *)

on_test(r) == r # Nil /\ pending = r
SupOnly == UNCHANGED <<releases, faults, confirmed>>
NoFiles == UNCHANGED <<current, previous, pending, durable>>
Quiet == UNCHANGED <<web, exiting, thread>>

\* A pending file at its start: the board restarted during a test.
Boot ==
  /\ sup.at = "boot"
  /\ sup' = [sup EXCEPT !.at = IF pending # Nil THEN "revert" ELSE "start"]
  /\ SupOnly /\ NoFiles /\ Quiet /\ UNCHANGED <<test, failed>>

\* A release on test begins its test, or goes on with it.
NewTest(r) == IF test.rel = r THEN test ELSE [rel |-> r, fails |-> 0, over |-> FALSE]

\* The release's processes are started; a release whose files are missing is
\* reverted first, once.
Start ==
  /\ sup.at = "start"
  /\ IF current \notin releases /\ ~sup.empty_reverted
     THEN /\ sup' = [sup EXCEPT !.at = "revert", !.empty_reverted = TRUE]
          /\ UNCHANGED <<web, test>>
     ELSE /\ test' = IF on_test(current) THEN NewTest(current) ELSE NoTest
          /\ web' = IF current \in releases THEN current ELSE Nil
          /\ sup' = [sup EXCEPT !.at = "run"]
  /\ SupOnly /\ NoFiles /\ UNCHANGED <<exiting, thread, failed>>

\* Once a second: confirmed, or replaced by a newer upload - no test any more.
Look ==
  /\ sup.at = "run" /\ web # Nil
  /\ test' = IF on_test(test.rel) THEN test ELSE NoTest
  /\ sup' = [sup EXCEPT !.at = "judge"]
  /\ SupOnly /\ NoFiles /\ Quiet /\ UNCHANGED failed

\* A mutant of FailsTest: only exits count, not the time.
FailsByExits(t) == t.rel # Nil /\ t.fails >= MaxFails
FailsTest(t) == t.rel # Nil /\ (t.fails >= MaxFails \/ t.over)

\* Then: maybe a process of it has exited and is restarted; too many of those,
\* or the test time over, stop everything and revert.
Judge ==
  /\ sup.at = "judge"
  /\ \E died \in BOOLEAN :
       LET t == IF died /\ test.rel # Nil /\ test.fails < MaxFails
                THEN [test EXCEPT !.fails = @ + 1] ELSE test
       IN IF FailsTest(t)
          THEN /\ WebGone
               /\ test' = NoTest
               /\ sup' = [sup EXCEPT !.at = "revert"]
          ELSE /\ test' = t
               /\ sup' = [sup EXCEPT !.at = "run"]
               /\ Quiet
  /\ SupOnly /\ NoFiles /\ UNCHANGED failed

\* The server has exited: the rest is stopped, and the exit counts while its
\* release is on test and still the current one.
WebEnded ==
  /\ sup.at = "run" /\ web = Nil
  /\ LET counts == on_test(test.rel) /\ current = test.rel
         fails == IF test.fails < MaxFails THEN test.fails + 1 ELSE test.fails
     IN IF counts /\ FailsTest([test EXCEPT !.fails = fails, !.over = FALSE])
        THEN test' = NoTest /\ sup' = [sup EXCEPT !.at = "revert"]
        ELSE /\ test' = IF counts THEN [test EXCEPT !.fails = fails] ELSE test
             /\ sup' = [sup EXCEPT !.at = "start"]
  /\ SupOnly /\ NoFiles /\ Quiet /\ UNCHANGED failed

\* revert(): without a previous release the current one is kept.
Revert ==
  /\ sup.at = "revert"
  /\ IF previous = Nil
     THEN /\ pending' = Nil /\ durable' = TRUE
          /\ sup' = [sup EXCEPT !.at = "start"]
          /\ UNCHANGED <<current, failed>>
     ELSE /\ current' = previous
          /\ sup' = [sup EXCEPT !.at = "revert_previous", !.bad = current]
          /\ failed' = failed \cup ({pending} \cap Release)
          /\ UNCHANGED <<pending, durable>>
  /\ SupOnly /\ Quiet /\ UNCHANGED <<previous, test>>

RevertPrevious ==
  /\ sup.at = "revert_previous"
  /\ previous' = sup.bad
  /\ sup' = [sup EXCEPT !.at = "revert_pending"]
  /\ SupOnly /\ Quiet /\ UNCHANGED <<current, pending, durable, test, failed>>

RevertPending ==
  /\ sup.at = "revert_pending"
  /\ pending' = Nil /\ durable' = TRUE
  /\ sup' = [sup EXCEPT !.at = "start"]
  /\ SupOnly /\ Quiet /\ UNCHANGED <<current, previous, test, failed>>

TimePasses ==
  /\ test.rel # Nil /\ ~test.over
  /\ test' = [test EXCEPT !.over = TRUE]
  /\ UNCHANGED <<disk, web, exiting, thread, sup, faults, confirmed, failed>>

\* The board restarts.  A line of pending that was not fsynced may be gone, and
\* with it the file.
PowerCut ==
  /\ cuts < MaxCuts
  /\ cuts' = cuts + 1
  /\ WebGone
  /\ sup' = [sup EXCEPT !.at = "boot", !.empty_reverted = FALSE]
  /\ test' = NoTest
  /\ pending' \in IF durable THEN {pending} ELSE {pending, Empty, Nil}
  /\ durable' = TRUE
  /\ UNCHANGED <<current, previous, releases, crashes, confirmed, failed>>

-------------------------------------------------------------------------------
Thread(h) ==
  \/ \E r \in Release : Install(h, r)
  \/ InstallRemove(h) \/ InstallPlace(h) \/ InstallLook(h)
  \/ InstallPrevious(h) \/ InstallCurrent(h)
  \/ Truncate(h) \/ WritePending(h) \/ Prune(h)
  \/ Rollback(h) \/ RollbackCurrent(h) \/ RollbackPrevious(h)
  \/ Confirm(h) \/ ConfirmRemove(h)

Supervisor ==
  \/ Boot \/ Start \/ Look \/ Judge \/ WebEnded
  \/ Revert \/ RevertPrevious \/ RevertPending

Next == (\E h \in Handlers : Thread(h)) \/ Supervisor \/ WebExit \/ WebCrash \/ TimePasses
        \/ PowerCut

Spec == Init /\ [][Next]_vars

(* The supervisor is scheduled, time passes, a request under way goes on, a  *)
(* server told to exit exits.                                                *)
Fairness ==
  /\ WF_vars(Supervisor)
  /\ WF_vars(TimePasses)
  /\ WF_vars(WebExit)
  /\ \A h \in Handlers : WF_vars(thread[h].at # "idle" /\ Thread(h))

FairSpec == Spec /\ Fairness

-------------------------------------------------------------------------------
(* Properties.                                                               *)

\* The supervisor watches a running release and no request is changing things.
Steady ==
  /\ sup.at = "run" /\ web # Nil /\ ~exiting
  /\ \A h \in Handlers : thread[h].at \in {"idle", "confirm"}

\* "Keeps a bad release from sticking": what runs with nothing under way is on
\* test, or was confirmed at some time and has failed no test since.
NothingSticks == Steady => on_test(web) \/ web \in confirmed \ failed

\* What runs with its name in pending is watched: the supervisor counts its
\* exits and its time, whatever crashes and power cuts came before.
Watched == Steady /\ on_test(web) => test.rel = web

\* A failed test never lands on a release nobody confirmed: while a release is
\* on test, "previous" - where a revert goes - is a confirmed one.
FallsBackToConfirmed ==
  Steady /\ on_test(web) /\ previous # Nil =>
    previous \in confirmed \/ web \in confirmed

\* The rollback target is there: with the threads at rest, current and previous
\* are complete releases.
TargetsThere ==
  Steady => current \in releases /\ (previous = Nil \/ previous \in releases)

\* "The release is kept once it is confirmed": no revert of a release whose
\* confirm was answered since it went on test (it is not in pending any more).
ConfirmedKept ==
  [][sup.at = "judge" /\ sup'.at = "revert" => pending # Nil]_vars

\* A test ends: confirmed, replaced or reverted.
TestEnds ==
  \A r \in Release : (Steady /\ on_test(r) /\ web = r) ~> ~(on_test(r) /\ web = r)

===============================================================================
