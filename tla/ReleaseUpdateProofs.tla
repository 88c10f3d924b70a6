------------------------ MODULE ReleaseUpdateProofs ------------------------
(***************************************************************************)
(* GUI releases, for any releases, bounds and faults: what runs on test is *)
(* watched; and with one request at a time, the rollback target is there,  *)
(* and no release sticks that was never confirmed.                         *)
(***************************************************************************)
EXTENDS ReleaseUpdate, TLAPS

ThreadType ==
  [at : {"idle", "prune", "confirm"} \cup InstallSteps \cup RollbackSteps \cup
        PendingSteps \cup {"rb_truncate", "rb_pending"},
   rel : Release, cur : Release]

\* A thread that takes a step, and all that end, keep their type.
LEMMA ThreadTyped ==
  ASSUME thread \in [Handlers -> ThreadType], NEW h \in Handlers, NEW step
  PROVE  /\ step \in {"idle", "prune", "confirm"} \cup InstallSteps \cup RollbackSteps \cup
                     PendingSteps \cup {"rb_truncate", "rb_pending"}
              => [thread EXCEPT ![h].at = step] \in [Handlers -> ThreadType]
         /\ [k \in Handlers |-> Idle] \in [Handlers -> ThreadType]
  BY ReleaseAssumption DEF ThreadType, Idle

TestType == [rel : Release \cup {Nil}, fails : 0..MaxFails, over : BOOLEAN]

LEMMA TestTyped ==
  ASSUME NEW r \in Release \cup {Nil}
  PROVE  [rel |-> r, fails |-> 0, over |-> FALSE] \in TestType
  BY BoundsAssumption DEF TestType

LEMMA NoTestTyped == NoTest \in TestType
  BY TestTyped DEF NoTest

LEMMA TypeInit == Init => TypeOK
<1> SUFFICES ASSUME Init PROVE TypeOK
  OBVIOUS
<1>1. thread \in [Handlers -> ThreadType] /\ test \in TestType
  BY ReleaseAssumption, NoTestTyped DEF Init, ThreadType, Idle
<1>2. sup \in [at : {"boot", "start", "run", "judge", "revert", "revert_previous",
                    "revert_pending"},
              bad : Release, empty_reverted : BOOLEAN]
  BY ReleaseAssumption DEF Init
<1>3. crashes \in 0..MaxCrashes /\ cuts \in 0..MaxCuts
  BY BoundsAssumption DEF Init
<1> QED
  BY <1>1, <1>2, <1>3, ReleaseAssumption DEF Init, TypeOK, ThreadType, TestType

LEMMA TypeThread ==
  ASSUME TypeOK, NEW h \in Handlers, Thread(h)
  PROVE  TypeOK'
<1> USE ReleaseAssumption DEF Nil, Empty
<1>0. /\ thread \in [Handlers -> ThreadType] /\ thread[h] \in ThreadType
      /\ UNCHANGED <<web, sup, test, faults>>
  BY DEF TypeOK, ThreadType, Thread, Install, InstallRemove, InstallPlace, InstallLook,
         InstallPrevious, InstallCurrent, Truncate, WritePending, Prune, Rollback,
         RollbackCurrent, RollbackPrevious, Confirm, ConfirmRemove, WebOnly
<1>1. ASSUME thread' \in [Handlers -> ThreadType],
             current' \in Release, previous' \in Release \cup {Nil},
             pending' \in Release \cup {Nil, Empty}, durable' \in BOOLEAN,
             releases' \subseteq Release, exiting' \in BOOLEAN,
             confirmed' \subseteq Release, failed' \subseteq Release
      PROVE  TypeOK'
  BY <1>0, <1>1 DEF TypeOK, ThreadType, faults
<1>2. CASE \E r \in Release : Install(h, r)
  <2>1. PICK r \in Release : Install(h, r)
    BY <1>2
  <2>2. thread' \in [Handlers -> ThreadType]
    BY <1>0, <2>1 DEF Install, Idle, ThreadType, InstallSteps
  <2> QED
    BY <1>1, <2>1, <2>2 DEF Install, disk, TypeOK
<1>3. CASE InstallRemove(h) \/ InstallPlace(h)
  <2>1. thread' \in [Handlers -> ThreadType]
    BY <1>0, <1>3, ThreadTyped DEF InstallRemove, InstallPlace, Step, InstallSteps
  <2> QED
    BY <1>0, <1>1, <1>3, <2>1 DEF InstallRemove, InstallPlace, TypeOK, ThreadType
<1>4. CASE InstallLook(h)
  <2>1. thread' \in [Handlers -> ThreadType]
    BY <1>0, <1>4 DEF InstallLook, InstallSteps, ThreadType, TypeOK
  <2> QED
    BY <1>1, <1>4, <2>1 DEF InstallLook, disk, TypeOK
<1>5. CASE InstallPrevious(h) \/ InstallCurrent(h)
  <2>1. thread' \in [Handlers -> ThreadType]
    BY <1>0, <1>5, ThreadTyped
       DEF InstallPrevious, InstallCurrent, Step, InstallSteps, PendingSteps
  <2> QED
    BY <1>0, <1>1, <1>5, <2>1 DEF InstallPrevious, InstallCurrent, TypeOK, ThreadType
<1>6. CASE Truncate(h)
  <2>1. thread' \in [Handlers -> ThreadType]
    BY <1>0, <1>6, ThreadTyped DEF Truncate, Step, PendingSteps
  <2> QED
    BY <1>1, <1>6, <2>1 DEF Truncate, TypeOK
<1>7. CASE WritePending(h)
  <2>1. thread' \in [Handlers -> ThreadType]
    BY <1>0, <1>7, ThreadTyped DEF WritePending, Step
  <2>2. exiting' \in BOOLEAN /\ durable' \in BOOLEAN
    BY <1>7 DEF WritePending, RestartSoon, TypeOK
  <2> QED
    BY <1>0, <1>1, <1>7, <2>1, <2>2 DEF WritePending, TypeOK, ThreadType
<1>8. CASE Prune(h)
  <2>1. thread' \in [Handlers -> ThreadType]
    BY <1>0, <1>8, ThreadTyped DEF Prune, Step
  <2>2. releases' \subseteq Release
    BY <1>8 DEF Prune, TypeOK
  <2> QED
    BY <1>1, <1>8, <2>1, <2>2 DEF Prune, RestartSoon, TypeOK
<1>9. CASE Rollback(h)
  <2>1. thread' \in [Handlers -> ThreadType]
    BY <1>0, <1>9 DEF Rollback, HasPrevious, RollbackSteps, ThreadType, TypeOK
  <2> QED
    BY <1>1, <1>9, <2>1 DEF Rollback, disk, TypeOK
<1>10. CASE RollbackCurrent(h) \/ RollbackPrevious(h)
  <2>1. thread' \in [Handlers -> ThreadType]
    BY <1>0, <1>10, ThreadTyped
       DEF RollbackCurrent, RollbackPrevious, Step, RollbackSteps
  <2> QED
    BY <1>0, <1>1, <1>10, <2>1 DEF RollbackCurrent, RollbackPrevious, TypeOK, ThreadType
<1>11. CASE Confirm(h)
  <2>1. thread' \in [Handlers -> ThreadType]
    BY <1>0, <1>11, ThreadTyped DEF Confirm, Step
  <2> QED
    BY <1>1, <1>11, <2>1 DEF Confirm, disk, TypeOK
<1>12. CASE ConfirmRemove(h)
  <2>1. thread' \in [Handlers -> ThreadType]
    BY <1>0, <1>12, ThreadTyped DEF ConfirmRemove, Step
  <2>2. web \in Release
    BY <1>12 DEF ConfirmRemove, At, TypeOK
  <2> QED
    BY <1>1, <1>12, <2>1, <2>2 DEF ConfirmRemove, TypeOK
<1> QED
  BY <1>2, <1>3, <1>4, <1>5, <1>6, <1>7, <1>8, <1>9, <1>10, <1>11, <1>12 DEF Thread

LEMMA TypeRest ==
  ASSUME TypeOK, Supervisor \/ WebExit \/ WebCrash \/ TimePasses \/ PowerCut
  PROVE  TypeOK'
<1> USE ReleaseAssumption, BoundsAssumption DEF Nil, Empty
<1>0. /\ thread \in [Handlers -> ThreadType]
      /\ (WebGone => thread' \in [Handlers -> ThreadType])
  BY ThreadTyped DEF TypeOK, ThreadType, WebGone, Idle
<1>1. CASE Boot
  BY <1>1 DEF Boot, TypeOK, SupOnly, NoFiles, Quiet, faults
<1>2. CASE Start
  <2>1. test' \in TestType
    <3>1. test \in TestType /\ NoTest \in TestType /\ NewTest(current) \in TestType
      BY NoTestTyped, TestTyped DEF TypeOK, TestType, NewTest
    <3>2. test' \in {test, NoTest, NewTest(current)}
      BY <1>2 DEF Start
    <3> QED
      BY <3>1, <3>2
  <2>2. web' \in Release \cup {Nil}
    BY <1>2 DEF Start, TypeOK
  <2> QED
    BY <1>2, <2>1, <2>2 DEF Start, TypeOK, TestType, SupOnly, NoFiles, faults
<1>3. CASE Look
  BY <1>3 DEF Look, TypeOK, SupOnly, NoFiles, Quiet, faults, NoTest
<1>4. CASE Judge
  <2>1. PICK died \in BOOLEAN :
          LET t == IF died /\ test.rel # Nil /\ test.fails < MaxFails
                   THEN [test EXCEPT !.fails = @ + 1] ELSE test
          IN IF FailsTest(t)
             THEN WebGone /\ test' = NoTest /\ sup' = [sup EXCEPT !.at = "revert"]
             ELSE test' = t /\ sup' = [sup EXCEPT !.at = "run"] /\ Quiet
    BY <1>4 DEF Judge
  <2> DEFINE t == IF died /\ test.rel # Nil /\ test.fails < MaxFails
                  THEN [test EXCEPT !.fails = @ + 1] ELSE test
  <2>2. t \in [rel : Release \cup {Nil}, fails : 0..MaxFails, over : BOOLEAN]
    BY DEF TypeOK
  <2> HIDE DEF t
  <2>3. CASE FailsTest(t)
    <3>1. WebGone /\ test' = NoTest /\ sup' = [sup EXCEPT !.at = "revert"]
      BY <2>1, <2>3 DEF t
    <3> QED
      BY <1>0, <1>4, <3>1, NoTestTyped
         DEF Judge, TypeOK, ThreadType, TestType, SupOnly, NoFiles, faults, WebGone
  <2>4. CASE ~FailsTest(t)
    <3>1. test' = t /\ sup' = [sup EXCEPT !.at = "run"] /\ Quiet
      BY <2>1, <2>4 DEF t
    <3> QED
      BY <1>4, <2>2, <3>1 DEF Judge, TypeOK, SupOnly, NoFiles, Quiet, faults
  <2> QED
    BY <2>3, <2>4
<1>5. CASE WebEnded
  <2> DEFINE fails == IF test.fails < MaxFails THEN test.fails + 1 ELSE test.fails
  <2>1. fails \in 0..MaxFails
    BY DEF TypeOK
  <2>2. test' \in [rel : Release \cup {Nil}, fails : 0..MaxFails, over : BOOLEAN]
    BY <1>5, <2>1, NoTestTyped DEF WebEnded, TypeOK, TestType
  <2> QED
    BY <1>5, <2>2 DEF WebEnded, TypeOK, SupOnly, NoFiles, Quiet, faults
<1>6. CASE Revert
  <2>1. CASE previous = Nil
    BY <1>6, <2>1 DEF Revert, TypeOK, SupOnly, Quiet, faults
  <2>2. CASE previous # Nil
    BY <1>6, <2>2 DEF Revert, TypeOK, SupOnly, Quiet, faults
  <2> QED
    BY <2>1, <2>2
<1>7. CASE RevertPrevious \/ RevertPending
  <2>1. CASE RevertPrevious
    BY <2>1 DEF RevertPrevious, TypeOK, SupOnly, Quiet, faults
  <2>2. CASE RevertPending
    BY <2>2 DEF RevertPending, TypeOK, SupOnly, Quiet, faults
  <2> QED
    BY <1>7, <2>1, <2>2
<1>8. CASE WebExit
  BY <1>0, <1>8 DEF WebExit, WebGone, TypeOK, ThreadType, disk, faults
<1>9. CASE WebCrash
  <2>1. crashes' \in 0..MaxCrashes
    BY <1>9 DEF WebCrash, TypeOK
  <2> QED
    BY <1>0, <1>9, <2>1 DEF WebCrash, WebGone, TypeOK, ThreadType, disk
<1>10. CASE TimePasses
  BY <1>10 DEF TimePasses, TypeOK, disk, faults
<1>11. CASE PowerCut
  <2>1. cuts' \in 0..MaxCuts
    BY <1>11 DEF PowerCut, TypeOK
  <2>2. pending' \in Release \cup {Nil, Empty} /\ durable' = TRUE
    BY <1>11 DEF PowerCut, TypeOK
  <2> QED
    BY <1>0, <1>11, <2>1, <2>2, NoTestTyped DEF PowerCut, WebGone, TypeOK, ThreadType, TestType
<1> QED
  BY <1>1, <1>2, <1>3, <1>4, <1>5, <1>6, <1>7, <1>8, <1>9, <1>10, <1>11 DEF Supervisor

LEMMA TypeNext == TypeOK /\ [Next]_vars => TypeOK'
<1>1. ASSUME TypeOK, UNCHANGED vars PROVE TypeOK'
  BY <1>1 DEF TypeOK, vars, disk, faults
<1> QED
  BY <1>1, TypeThread, TypeRest DEF Next

\* Every variable keeps its type, for any releases, request threads and faults.
THEOREM TypeCorrect == Spec => []TypeOK
  BY TypeInit, TypeNext, PTL DEF Spec

-------------------------------------------------------------------------------

\* No server runs but in a round of the supervisor, and no request without a server.
Held ==
  /\ sup.at \notin {"run", "judge"} => web = Nil
  /\ web = Nil => ~exiting /\ \A h \in Handlers : thread[h] = Idle

LEMMA HeldNext == TypeOK /\ Held /\ [Next]_vars => Held'
<1> SUFFICES ASSUME TypeOK, Held, [Next]_vars PROVE Held'
  OBVIOUS
<1>1. ASSUME NEW h \in Handlers, Thread(h) PROVE Held'
  <2>1. web # Nil /\ web' = web /\ sup' = sup
    BY <1>1 DEF Thread, Install, InstallRemove, InstallPlace, InstallLook, InstallPrevious,
           InstallCurrent, Truncate, WritePending, Prune, Rollback, RollbackCurrent,
           RollbackPrevious, Confirm, ConfirmRemove, WebOnly, Asked, At
  <2> QED
    BY <2>1 DEF Held
<1>2. CASE Boot \/ Look \/ WebEnded \/ Revert \/ RevertPrevious \/ RevertPending
  BY <1>2 DEF Boot, Look, WebEnded, Revert, RevertPrevious, RevertPending, Held, TypeOK,
         SupOnly, NoFiles, Quiet
<1>3. CASE Start
  BY <1>3 DEF Start, Held, TypeOK
<1>4. CASE Judge
  <2>1. WebGone \/ (Quiet /\ sup'.at = "run")
    BY <1>4 DEF Judge, TypeOK
  <2> QED
    BY <2>1 DEF WebGone, Quiet, Held
<1>5. CASE WebExit \/ WebCrash \/ PowerCut
  BY <1>5 DEF WebExit, WebCrash, PowerCut, WebGone, Held
<1>6. CASE TimePasses \/ UNCHANGED vars
  BY <1>6 DEF TimePasses, vars, Held
<1> QED
  BY <1>1, <1>2, <1>3, <1>4, <1>5, <1>6 DEF Next, Supervisor

\* The server that runs with its name in pending is the one under test, but for the
\* moment before an install, which has just written it, has it exit.
UnderTest ==
  web # Nil /\ ~exiting /\ pending = web =>
    test.rel = web \/ \E h \in Handlers : thread[h].at = "prune"

LEMMA UnderTestThread ==
  ASSUME TypeOK, Held, UnderTest, NEW h \in Handlers, Thread(h)
  PROVE  UnderTest'
<1> USE ReleaseAssumption DEF Nil, Empty
<1>0. web' = web /\ test' = test /\ web # Nil
  BY DEF Thread, Install, InstallRemove, InstallPlace, InstallLook, InstallPrevious,
         InstallCurrent, Truncate, WritePending, Prune, Rollback, RollbackCurrent,
         RollbackPrevious, Confirm, ConfirmRemove, WebOnly, Asked, At
<1>1. ASSUME pending' = pending, exiting' = exiting, thread[h].at # "prune",
             \A k \in Handlers \ {h} : thread'[k] = thread[k]
      PROVE  UnderTest'
  BY <1>0, <1>1 DEF UnderTest
<1>2. ASSUME NEW r \in Release, Install(h, r) PROVE UnderTest'
  BY <1>1, <1>2 DEF Install, disk, Asked, At, TypeOK
<1>3. CASE InstallRemove(h) \/ InstallPlace(h) \/ InstallPrevious(h) \/ InstallCurrent(h)
           \/ RollbackCurrent(h) \/ RollbackPrevious(h)
  BY <1>1, <1>3 DEF InstallRemove, InstallPlace, InstallPrevious, InstallCurrent,
         RollbackCurrent, RollbackPrevious, At, Step, TypeOK
<1>4. CASE InstallLook(h) \/ Rollback(h) \/ Confirm(h)
  BY <1>1, <1>4 DEF InstallLook, Rollback, Confirm, Asked, At, Step, disk, TypeOK
<1>5. CASE Truncate(h)
  BY <1>0, <1>5 DEF Truncate, UnderTest, TypeOK
<1>6. CASE WritePending(h)
  BY <1>0, <1>6 DEF WritePending, RestartSoon, UnderTest, Step, TypeOK
<1>7. CASE Prune(h)
  BY <1>7 DEF Prune, RestartSoon, UnderTest
<1>8. CASE ConfirmRemove(h)
  BY <1>0, <1>1, <1>8 DEF ConfirmRemove, UnderTest, At, Step, TypeOK
<1> QED
  BY <1>2, <1>3, <1>4, <1>5, <1>6, <1>7, <1>8 DEF Thread

LEMMA UnderTestNext == TypeOK /\ Held /\ UnderTest /\ [Next]_vars => UnderTest'
<1> SUFFICES ASSUME TypeOK, Held, UnderTest, [Next]_vars PROVE UnderTest'
  OBVIOUS
<1>1. CASE Boot \/ WebEnded \/ Revert \/ RevertPrevious \/ RevertPending
  BY <1>1 DEF Boot, WebEnded, Revert, RevertPrevious, RevertPending, Held, UnderTest,
         TypeOK, Quiet
<1>2. CASE Start
  BY <1>2 DEF Start, Held, UnderTest, TypeOK, on_test, NewTest, NoFiles
<1>3. CASE Look
  BY <1>3 DEF Look, UnderTest, on_test, NoFiles, Quiet
<1>4. CASE Judge
  <2>1. WebGone \/ (Quiet /\ test'.rel = test.rel)
    BY <1>4 DEF Judge, TypeOK
  <2> QED
    BY <1>4, <2>1 DEF Judge, WebGone, Quiet, NoFiles, UnderTest
<1>5. CASE WebExit \/ WebCrash \/ PowerCut
  BY <1>5 DEF WebExit, WebCrash, PowerCut, WebGone, UnderTest
<1>6. CASE TimePasses \/ UNCHANGED vars
  BY <1>6 DEF TimePasses, vars, disk, UnderTest, TypeOK
<1> QED
  BY <1>1, <1>2, <1>3, <1>4, <1>5, <1>6, UnderTestThread DEF Next, Supervisor

\* What runs with its name in pending is watched by the supervisor, however many
\* threads, crashes and power cuts there are (de25web-supervisor.sh, its test).
THEOREM TestIsWatched == Spec => []Watched
<1>1. Init => TypeOK /\ Held /\ UnderTest
  BY TypeInit DEF Init, Held, UnderTest
<1>2. TypeOK /\ Held /\ UnderTest /\ [Next]_vars => (TypeOK /\ Held /\ UnderTest)'
  BY TypeNext, HeldNext, UnderTestNext
<1>3. UnderTest => Watched
  BY DEF UnderTest, Watched, Steady, on_test
<1> QED
  BY <1>1, <1>2, <1>3, PTL DEF Spec

-------------------------------------------------------------------------------

\* From here on one request thread is enough: the others would be idle.
OneAtATime == \A a, b \in Handlers : a = b

Past == {"truncate", "pending", "prune"}

\* What a request thread relies on: the release it installs is not there until it is
\* placed, and is from then on; what it remembers of current is a whole release.
Has(t) ==
  /\ t.at \in {"remove", "place"} => t.rel \notin releases
  /\ t.at \in {"look", "previous", "current", "rb_current"} \cup Past => t.rel \in releases
  /\ t.at \in {"previous", "rb_current", "rb_previous"} => t.cur \in releases
  /\ t.at \in Past => t.rel = current

Complete ==
  /\ current \in releases /\ previous \in releases \cup {Nil}
  /\ \A h \in Handlers : Has(thread[h])
  /\ sup.at = "revert_previous" => sup.bad \in releases

LEMMA CompleteThread ==
  ASSUME OneAtATime, "reinstall" \notin Ops, TypeOK, Held, Complete,
         NEW h \in Handlers, Thread(h)
  PROVE  Complete'
<1> USE ReleaseAssumption
<1>0. /\ thread[h] \in ThreadType /\ Has(thread[h]) /\ sup' = sup
      /\ thread \in [Handlers -> ThreadType]
      /\ current \in releases /\ previous \in releases \cup {Nil}
  BY DEF TypeOK, ThreadType, Complete, Thread, Install, InstallRemove, InstallPlace,
         InstallLook, InstallPrevious, InstallCurrent, Truncate, WritePending, Prune,
         Rollback, RollbackCurrent, RollbackPrevious, Confirm, ConfirmRemove, WebOnly
<1>1. ASSUME current' \in releases', previous' \in releases' \cup {Nil},
             Has(thread[h])', sup.at = "revert_previous" => sup.bad \in releases'
      PROVE  Complete'
  BY <1>0, <1>1 DEF Complete, OneAtATime
<1>2. ASSUME NEW r \in Release, Install(h, r) PROVE Complete'
  <2>1. thread'[h].at = "remove" /\ thread'[h].rel = r /\ r \notin releases
    BY <1>0, <1>2 DEF Install, Idle
  <2>2. Has(thread[h])'
    BY <1>2, <2>1 DEF Has, Install, disk, Past
  <2> QED
    BY <1>1, <1>2, <2>2 DEF Install, disk, Complete
<1>3. CASE InstallRemove(h)
  <2>1. releases' = releases /\ thread'[h] = [thread[h] EXCEPT !.at = "place"]
    BY <1>0, <1>3 DEF InstallRemove, At, Has, Step
  <2>2. Has(thread[h])'
    BY <1>0, <1>3, <2>1 DEF InstallRemove, Has, Past, At, ThreadType
  <2> QED
    BY <1>1, <1>3, <2>1, <2>2 DEF InstallRemove, Complete
<1>4. CASE InstallPlace(h)
  <2>1. thread'[h] = [thread[h] EXCEPT !.at = "look"]
    BY <1>0, <1>4 DEF InstallPlace, Step
  <2>2. Has(thread[h])'
    BY <1>0, <1>4, <2>1 DEF InstallPlace, Has, Past, ThreadType
  <2> QED
    BY <1>1, <1>4, <2>2 DEF InstallPlace, Complete
<1>5. CASE InstallLook(h)
  <2>1. thread'[h] \in {[thread[h] EXCEPT !.at = a, !.cur = current] :
                          a \in {"previous", "current"}}
    BY <1>0, <1>5 DEF InstallLook
  <2>2. Has(thread[h])'
    BY <1>0, <1>5, <2>1 DEF InstallLook, At, Has, Past, ThreadType, disk
  <2> QED
    BY <1>1, <1>5, <2>2 DEF InstallLook, Complete, disk
<1>6. CASE InstallPrevious(h)
  <2>1. thread'[h] = [thread[h] EXCEPT !.at = "current"]
    BY <1>0, <1>6 DEF InstallPrevious, Step
  <2>2. Has(thread[h])' /\ thread[h].cur \in releases
    BY <1>0, <1>6, <2>1 DEF InstallPrevious, At, Has, Past, ThreadType
  <2> QED
    BY <1>1, <1>6, <2>2 DEF InstallPrevious, Complete
<1>7. CASE InstallCurrent(h)
  <2>1. thread'[h] = [thread[h] EXCEPT !.at = "truncate"]
    BY <1>0, <1>7 DEF InstallCurrent, Step
  <2>2. Has(thread[h])' /\ thread[h].rel \in releases
    BY <1>0, <1>7, <2>1 DEF InstallCurrent, At, Has, Past, ThreadType
  <2> QED
    BY <1>1, <1>7, <2>2 DEF InstallCurrent, Complete
<1>8. CASE Truncate(h)
  <2>1. thread'[h] = [thread[h] EXCEPT !.at = IF At(h, "truncate") THEN "pending"
                                              ELSE "rb_pending"]
    BY <1>0, <1>8 DEF Truncate, Step, At
  <2>2. Has(thread[h])'
    BY <1>0, <1>8, <2>1 DEF Truncate, At, Has, Past, ThreadType
  <2> QED
    BY <1>1, <1>8, <2>2 DEF Truncate, Complete
<1>9. CASE WritePending(h)
  <2>1. thread'[h] = [thread[h] EXCEPT !.at = IF At(h, "pending") THEN "prune" ELSE "idle"]
    BY <1>0, <1>9 DEF WritePending, Step, At
  <2>2. Has(thread[h])'
    BY <1>0, <1>9, <2>1 DEF WritePending, At, Has, Past, ThreadType
  <2> QED
    BY <1>1, <1>9, <2>2 DEF WritePending, Complete
<1>10. CASE Prune(h)
  <2>1. thread'[h] = [thread[h] EXCEPT !.at = "idle"] /\ thread[h].rel = current
    BY <1>0, <1>10 DEF Prune, Step, At, Has, Past
  <2>2. \A r \in releases : r \in {current, previous} => r \in releases'
    BY <1>10, <2>1 DEF Prune, Keep
  <2>3. Has(thread[h])'
    BY <1>0, <1>10, <2>1 DEF Has, Past, ThreadType
  <2>4. sup.at # "revert_previous"
    BY <1>10 DEF Prune, At, Held
  <2> QED
    BY <1>0, <1>1, <1>10, <2>2, <2>3, <2>4 DEF Prune, Complete
<1>11. CASE Rollback(h)
  <2>1. thread'[h] = [at |-> "rb_current", rel |-> previous, cur |-> current]
    BY <1>0, <1>11 DEF Rollback
  <2>2. Has(thread[h])'
    BY <1>0, <1>11, <2>1 DEF Rollback, HasPrevious, Has, Past, disk
  <2> QED
    BY <1>1, <1>11, <2>2 DEF Rollback, Complete, disk
<1>12. CASE RollbackCurrent(h)
  <2>1. thread'[h] = [thread[h] EXCEPT !.at = "rb_previous"]
    BY <1>0, <1>12 DEF RollbackCurrent, Step
  <2>2. Has(thread[h])' /\ thread[h].rel \in releases
    BY <1>0, <1>12, <2>1 DEF RollbackCurrent, At, Has, Past, ThreadType
  <2> QED
    BY <1>1, <1>12, <2>2 DEF RollbackCurrent, Complete
<1>13. CASE RollbackPrevious(h)
  <2>1. thread'[h] = [thread[h] EXCEPT !.at = "rb_truncate"]
    BY <1>0, <1>13 DEF RollbackPrevious, Step
  <2>2. Has(thread[h])' /\ thread[h].cur \in releases
    BY <1>0, <1>13, <2>1 DEF RollbackPrevious, At, Has, Past, ThreadType
  <2> QED
    BY <1>1, <1>13, <2>2 DEF RollbackPrevious, Complete
<1>14. CASE Confirm(h) \/ ConfirmRemove(h)
  <2>1. thread'[h] \in {[thread[h] EXCEPT !.at = a] : a \in {"confirm", "idle"}}
    BY <1>0, <1>14 DEF Confirm, ConfirmRemove, Step
  <2>2. Has(thread[h])'
    BY <1>0, <1>14, <2>1 DEF Has, Past, ThreadType
  <2> QED
    BY <1>1, <1>14, <2>2 DEF Confirm, ConfirmRemove, Complete, disk
<1> QED
  BY <1>2, <1>3, <1>4, <1>5, <1>6, <1>7, <1>8, <1>9, <1>10, <1>11, <1>12, <1>13, <1>14
     DEF Thread

LEMMA CompleteNext ==
  ASSUME OneAtATime, "reinstall" \notin Ops, TypeOK, Held, Complete, [Next]_vars
  PROVE  Complete'
<1>1. ASSUME WebGone, UNCHANGED <<current, previous, releases>>, sup'.at # "revert_previous"
      PROVE  Complete'
  BY <1>1 DEF WebGone, Idle, Complete, Has, Past
<1>2. ASSUME Quiet, UNCHANGED <<current, previous, releases>>, sup'.at # "revert_previous"
      PROVE  Complete'
  BY <1>2 DEF Quiet, Complete, Has
<1>3. CASE Boot \/ Look \/ WebEnded \/ RevertPending
  BY <1>2, <1>3 DEF Boot, Look, WebEnded, RevertPending, TypeOK, SupOnly, NoFiles
<1>4. CASE Start
  BY <1>4 DEF Start, TypeOK, SupOnly, NoFiles, Complete, Has
<1>5. CASE Judge
  <2>1. /\ WebGone \/ Quiet
        /\ sup'.at # "revert_previous"
    BY <1>5 DEF Judge, TypeOK
  <2> QED
    BY <1>1, <1>2, <1>5, <2>1 DEF Judge, SupOnly, NoFiles
<1>6. CASE Revert
  <2>1. \A h \in Handlers : thread'[h] = Idle
    BY <1>6 DEF Revert, Quiet, Held
  <2>2. \A h \in Handlers : Has(thread[h])'
    BY <2>1 DEF Has, Idle, Past
  <2> QED
    BY <1>6, <2>2 DEF Revert, SupOnly, Quiet, Complete, TypeOK
<1>7. CASE RevertPrevious
  <2>1. sup'.at = "revert_pending"
    BY <1>7 DEF RevertPrevious, TypeOK
  <2> QED
    BY <1>7, <2>1 DEF RevertPrevious, SupOnly, Quiet, Complete, Has
<1>8. CASE WebExit \/ WebCrash
  <2>1. sup.at # "revert_previous"
    BY <1>8 DEF WebExit, WebCrash, Held
  <2> QED
    BY <1>1, <1>8, <2>1 DEF WebExit, WebCrash, disk
<1>9. CASE PowerCut
  <2>1. sup'.at = "boot"
    BY <1>9 DEF PowerCut, TypeOK
  <2> QED
    BY <1>1, <1>9, <2>1 DEF PowerCut
<1>10. CASE TimePasses \/ UNCHANGED vars
  BY <1>10 DEF TimePasses, vars, disk, Complete, Has
<1> QED
  BY <1>3, <1>4, <1>5, <1>6, <1>7, <1>8, <1>9, <1>10, CompleteThread DEF Next, Supervisor

\* The rollback target is there, at any crash, exit or power cut, as long as requests
\* come one at a time and none installs a release that is already there
\* (fpga_web.py Releases.install, rollback and _prune).
THEOREM TargetsKept ==
  ASSUME OneAtATime, "reinstall" \notin Ops
  PROVE  Spec => []TargetsThere
<1>1. Init => TypeOK /\ Held /\ Complete
  BY TypeInit DEF Init, Held, Complete, Has, Past, Idle
<1>2. TypeOK /\ Held /\ Complete /\ [Next]_vars => (TypeOK /\ Held /\ Complete)'
  BY TypeNext, HeldNext, CompleteNext
<1>3. Complete => TargetsThere
  BY DEF Complete, TargetsThere
<1> QED
  BY <1>1, <1>2, <1>3, PTL DEF Spec

-------------------------------------------------------------------------------

\* Without crashes, cuts and rollbacks: a release is confirmed, or on test with a
\* confirmed one to go back to.
Reverts == {"revert", "revert_previous", "revert_pending"}
Good == confirmed \ failed

Settled ==
  \/ pending = Nil /\ current \in Good
  \/ pending = current /\ current \notin failed /\ previous \in Good /\ previous # current

\* What an install or a confirm under way has of it.
Way(t) ==
  /\ t.at \in {"idle", "confirm", "prune"} \cup InstallSteps \cup PendingSteps
  /\ exiting => t.at = "idle"
  /\ t.at \notin Past /\ ~exiting => web \in {Nil, current}
  /\ t.at \in InstallSteps => t.rel \notin {current, previous}
  /\ t.at = "previous" => pending = Nil /\ t.cur = current
  /\ t.at \in {"current"} \cup PendingSteps =>
       previous \in Good /\ previous # pending /\ previous # t.rel
  /\ t.at = "confirm" => pending = web
  /\ t.at = "pending" => pending = Empty

Sound ==
  /\ \/ sup.at \in Reverts
     \/ \E h \in Handlers : thread[h].at \in PendingSteps
     \/ Settled
  /\ \A h \in Handlers : Way(thread[h])
  /\ sup.at = "boot" => pending = Nil
  /\ sup.at = "revert" \/ test.rel # Nil => previous \in Good /\ previous # pending
  /\ sup.at \in {"revert_previous", "revert_pending"} => current \in Good
  /\ sup.at \in Reverts => test.rel = Nil

\* The assumptions on the requests and the faults, under which it is so.
Calm ==
  /\ OneAtATime /\ Handlers # {} /\ Ops \cap {"rollback", "reinstall", "hasty"} = {}
  /\ MaxCrashes = 0 /\ MaxCuts = 0

LEMMA SoundThread ==
  ASSUME Calm, TypeOK, Held, Complete, Sound, NEW h \in Handlers, Thread(h)
  PROVE  Sound'
<1> USE ReleaseAssumption DEF Nil, Empty
<1>0. /\ thread[h] \in ThreadType /\ Has(thread[h]) /\ Way(thread[h])
      /\ thread \in [Handlers -> ThreadType]
      /\ sup' = sup /\ sup.at \notin Reverts /\ sup.at # "boot"
      /\ test' = test /\ web' = web /\ web \in Release
      /\ thread[h].at \notin PendingSteps => Settled
      /\ test.rel # Nil => previous \in Good /\ previous # pending
      /\ Good \subseteq Release
  <2>1. /\ sup' = sup /\ test' = test /\ web' = web /\ web # Nil
        /\ thread \in [Handlers -> ThreadType]
    BY DEF TypeOK, ThreadType, Thread, Install, InstallRemove, InstallPlace, InstallLook,
           InstallPrevious, InstallCurrent, Truncate, WritePending, Prune, Rollback,
           RollbackCurrent, RollbackPrevious, Confirm, ConfirmRemove, WebOnly, Asked, At
  <2>2. sup.at \in {"run", "judge"} /\ web \in Release
    BY <2>1 DEF Held, TypeOK
  <2> QED
    BY <2>1, <2>2 DEF Complete, Sound, Calm, OneAtATime, Reverts, Good, TypeOK
<1>1. ASSUME Settled' \/ thread'[h].at \in PendingSteps, Way(thread[h])',
             test.rel # Nil => previous' \in Good' /\ previous' # pending'
      PROVE  Sound'
  BY <1>0, <1>1 DEF Sound, Calm, OneAtATime, Reverts
<1>2. ASSUME NEW r \in Release, Install(h, r) PROVE Sound'
  <2>1. /\ thread'[h].at = "remove" /\ thread'[h].rel = r /\ r \notin releases
        /\ thread[h].at = "idle" /\ ~exiting
    BY <1>0, <1>2 DEF Install, Idle, Calm, Asked, At
  <2>2. r \notin {current, previous} /\ web = current
    BY <1>0, <2>1 DEF Complete, Way, Past
  <2>3. Settled' /\ Good' = Good
    BY <1>0, <1>2, <2>1 DEF Install, Settled, Good, disk, PendingSteps
  <2>4. Way(thread[h])'
    BY <1>0, <1>2, <2>1, <2>2
       DEF Way, Install, disk, Past, InstallSteps, PendingSteps, RollbackSteps
  <2> QED
    BY <1>0, <1>1, <1>2, <2>3, <2>4 DEF Install, disk
<1>3. CASE InstallRemove(h) \/ InstallPlace(h)
  <2>1. /\ thread[h].at \in {"remove", "place"}
        /\ thread'[h] \in {[thread[h] EXCEPT !.at = a] : a \in {"place", "look"}}
    BY <1>0, <1>3 DEF InstallRemove, InstallPlace, Step, At
  <2>2. Settled' /\ Good' = Good
    BY <1>0, <1>3, <2>1 DEF InstallRemove, InstallPlace, Settled, Good, PendingSteps
  <2>3. Way(thread[h])'
    BY <1>0, <1>3, <2>1
       DEF Way, InstallRemove, InstallPlace, Past, InstallSteps, PendingSteps, ThreadType
  <2> QED
    BY <1>0, <1>1, <1>3, <2>2, <2>3 DEF InstallRemove, InstallPlace
<1>4. CASE InstallLook(h)
  <2>1. /\ thread[h].at = "look" /\ thread[h].rel # current
        /\ thread'[h] = [thread[h] EXCEPT
             !.at = IF pending = Nil THEN "previous" ELSE "current", !.cur = current]
    BY <1>0, <1>4 DEF InstallLook, At, Way, InstallSteps, MovesPrevious
  <2>2. Settled' /\ Good' = Good /\ Settled
    BY <1>0, <1>4, <2>1 DEF InstallLook, Settled, Good, disk, PendingSteps
  <2>3. Way(thread[h])'
    <3>1. CASE pending = Nil
      BY <1>0, <1>4, <2>1, <3>1
         DEF Way, InstallLook, disk, Past, InstallSteps, PendingSteps, ThreadType
    <3>2. CASE pending # Nil
      <4>1. previous \in Good /\ previous # pending /\ previous # thread[h].rel
        BY <1>0, <2>1, <2>2, <3>2 DEF Settled, Way, InstallSteps
      <4> QED
        BY <1>0, <1>4, <2>1, <2>2, <3>2, <4>1
           DEF Way, InstallLook, disk, Past, InstallSteps, PendingSteps, ThreadType
    <3> QED
      BY <3>1, <3>2
  <2> QED
    BY <1>0, <1>1, <1>4, <2>2, <2>3 DEF InstallLook, disk
<1>5. CASE InstallPrevious(h)
  <2>1. /\ thread[h].at = "previous" /\ pending = Nil /\ thread[h].cur = current
        /\ thread[h].rel # current /\ previous' = current
        /\ thread'[h] = [thread[h] EXCEPT !.at = "current"]
    BY <1>0, <1>5 DEF InstallPrevious, At, Step, Way, InstallSteps
  <2>2. Settled' /\ Good' = Good /\ previous' \in Good /\ previous' # pending
    BY <1>0, <1>5, <2>1 DEF InstallPrevious, Settled, Good, PendingSteps, TypeOK
  <2>3. Way(thread[h])'
    BY <1>0, <1>5, <2>1, <2>2
       DEF Way, InstallPrevious, Past, InstallSteps, PendingSteps, ThreadType
  <2> QED
    BY <1>1, <1>5, <2>2, <2>3 DEF InstallPrevious
<1>6. CASE InstallCurrent(h)
  <2>1. /\ thread[h].at = "current" /\ ~exiting
        /\ thread'[h] = [thread[h] EXCEPT !.at = "truncate"]
        /\ previous \in Good /\ previous # pending /\ previous # thread[h].rel
    BY <1>0, <1>6 DEF InstallCurrent, At, Step, Way
  <2>2. Good' = Good /\ thread'[h].at \in PendingSteps
    BY <1>0, <1>6, <2>1 DEF InstallCurrent, Good, PendingSteps, ThreadType
  <2>3. Way(thread[h])'
    BY <1>0, <1>6, <2>1, <2>2
       DEF Way, InstallCurrent, Past, InstallSteps, PendingSteps, ThreadType
  <2> QED
    BY <1>1, <1>6, <2>1, <2>2, <2>3 DEF InstallCurrent
<1>7. CASE Truncate(h)
  <2>1. /\ thread[h].at = "truncate" /\ ~exiting
        /\ thread'[h] = [thread[h] EXCEPT !.at = "pending"]
        /\ previous \in Good /\ previous # thread[h].rel
    BY <1>0, <1>7 DEF Truncate, At, Step, Way, PendingSteps, InstallSteps
  <2>2. Good' = Good /\ thread'[h].at \in PendingSteps /\ previous' \in Good
        /\ previous' # pending'
    BY <1>0, <1>7, <2>1 DEF Truncate, Good, PendingSteps, ThreadType
  <2>3. Way(thread[h])'
    BY <1>0, <1>7, <2>1, <2>2
       DEF Way, Truncate, Past, InstallSteps, PendingSteps, ThreadType
  <2> QED
    BY <1>1, <1>7, <2>2, <2>3 DEF Truncate
<1>8. CASE WritePending(h)
  <2>1. /\ thread[h].at = "pending" /\ ~exiting /\ thread[h].rel = current
        /\ thread'[h] = [thread[h] EXCEPT !.at = "prune"] /\ exiting' = exiting
        /\ previous \in Good /\ previous # thread[h].rel
    BY <1>0, <1>8 DEF WritePending, At, Step, Way, Has, Past, PendingSteps, InstallSteps
  <2>2. Good \subseteq Good'
    BY <1>8 DEF WritePending, Good
  <2>3. Settled' /\ previous' \in Good' /\ previous' # pending'
    BY <1>8, <2>1, <2>2 DEF WritePending, Settled
  <2>4. Way(thread[h])'
    BY <1>0, <1>8, <2>1
       DEF Way, WritePending, Past, InstallSteps, PendingSteps, ThreadType
  <2> QED
    BY <1>1, <2>3, <2>4
<1>9. CASE Prune(h)
  <2>1. /\ thread[h].at = "prune" /\ exiting' = TRUE
        /\ thread'[h] = [thread[h] EXCEPT !.at = "idle"]
    BY <1>0, <1>9 DEF Prune, At, Step, RestartSoon
  <2>2. Settled' /\ Good' = Good
    BY <1>0, <1>9, <2>1 DEF Prune, Settled, Good, PendingSteps
  <2>3. Way(thread[h])'
    BY <1>0, <2>1 DEF Way, Past, InstallSteps, PendingSteps, ThreadType
  <2> QED
    BY <1>0, <1>1, <1>9, <2>2, <2>3 DEF Prune
<1>10. CASE Rollback(h) \/ RollbackCurrent(h) \/ RollbackPrevious(h)
  BY <1>0, <1>10 DEF Rollback, RollbackCurrent, RollbackPrevious, Asked, At, Calm, Way,
     InstallSteps, PendingSteps
<1>11. CASE Confirm(h)
  <2>1. /\ thread[h].at = "idle" /\ ~exiting /\ pending = web
        /\ thread'[h] = [thread[h] EXCEPT !.at = "confirm"]
    BY <1>0, <1>11 DEF Confirm, Asked, At, Step, Confirmable, Calm
  <2>2. Settled' /\ Good' = Good
    BY <1>0, <1>11, <2>1 DEF Confirm, Settled, Good, disk, PendingSteps
  <2>3. Way(thread[h])'
    BY <1>0, <1>11, <2>1
       DEF Way, Confirm, disk, Past, InstallSteps, PendingSteps, ThreadType
  <2> QED
    BY <1>0, <1>1, <1>11, <2>2, <2>3 DEF Confirm, disk
<1>12. CASE ConfirmRemove(h)
  <2>1. /\ thread[h].at = "confirm" /\ ~exiting /\ pending = web /\ web = current
        /\ thread'[h] = [thread[h] EXCEPT !.at = "idle"]
    BY <1>0, <1>12 DEF ConfirmRemove, At, Step, Way, Past
  <2>2. current \notin failed /\ Good \subseteq Good' /\ current \in Good'
        /\ current' = current /\ pending' = Nil /\ previous' = previous
    BY <1>0, <1>12, <2>1 DEF ConfirmRemove, Settled, Good, PendingSteps
  <2>3. Settled'
    BY <2>2 DEF Settled
  <2>4. Way(thread[h])'
    BY <1>0, <1>12, <2>1
       DEF Way, ConfirmRemove, Past, InstallSteps, PendingSteps, ThreadType
  <2> QED
    BY <1>0, <1>1, <2>2, <2>3, <2>4
<1> QED
  BY <1>2, <1>3, <1>4, <1>5, <1>6, <1>7, <1>8, <1>9, <1>10, <1>11, <1>12 DEF Thread

LEMMA SoundSupervisor ==
  ASSUME Calm, TypeOK, Held, Complete, Sound, Supervisor
  PROVE  Sound'
<1> USE ReleaseAssumption DEF Nil, Empty
<1>0. /\ current \in Release /\ Nil \notin Good
      /\ sup.at \notin Reverts /\ web = Nil => Settled
      /\ UNCHANGED <<releases, confirmed>>
  BY DEF TypeOK, Good, Held, Sound, Idle, PendingSteps, Supervisor, Boot, Start, Look, Judge,
         WebEnded, Revert, RevertPrevious, RevertPending, SupOnly
<1>1. ASSUME \A h \in Handlers : thread'[h] = Idle, web' = Nil, ~exiting'
      PROVE  \A h \in Handlers : Way(thread[h])'
  BY <1>0, <1>1 DEF Way, Idle, Past, InstallSteps, PendingSteps
<1>2. ASSUME UNCHANGED <<current, previous, pending, failed, thread, web, exiting>>
      PROVE  /\ \A h \in Handlers : Way(thread[h])'
             /\ Settled' = Settled /\ Good' = Good
  BY <1>0, <1>2 DEF Sound, Way, Settled, Good
<1>3. CASE Boot
  <2>1. sup.at = "boot" /\ sup'.at = "start" /\ web = Nil
    BY <1>3 DEF Boot, Sound, Held, TypeOK
  <2> QED
    BY <1>0, <1>2, <1>3, <2>1 DEF Boot, NoFiles, Quiet, Sound, Reverts
<1>4. CASE Start
  <2>1. /\ web = Nil /\ ~exiting /\ sup.at = "start" /\ sup'.at = "run" /\ web' = current
        /\ Settled /\ \A h \in Handlers : thread[h] = Idle
        /\ test' = IF on_test(current) THEN NewTest(current) ELSE NoTest
    BY <1>0, <1>4 DEF Start, Held, Complete, TypeOK, Reverts
  <2>2. Settled' /\ Good' = Good
    BY <1>0, <1>4, <2>1 DEF Start, NoFiles, Settled, Good
  <2>3. \A h \in Handlers : Way(thread[h])'
    BY <1>4, <2>1 DEF Start, NoFiles, Way, Idle, Past, InstallSteps, PendingSteps
  <2>4. test'.rel # Nil => previous \in Good /\ previous # pending
    BY <1>0, <2>1 DEF on_test, NoTest, Settled
  <2> QED
    BY <1>4, <2>1, <2>2, <2>3, <2>4 DEF Start, NoFiles, Sound, Reverts
<1>5. CASE Look
  <2>1. sup'.at = "judge" /\ sup.at = "run" /\ (test'.rel # Nil => test.rel # Nil)
    BY <1>5 DEF Look, TypeOK, NoTest
  <2> QED
    BY <1>2, <1>5, <2>1 DEF Look, NoFiles, Quiet, Sound, Reverts
<1>6. CASE Judge
  <2>1. \/ /\ WebGone /\ test'.rel = Nil /\ sup'.at = "revert" /\ test.rel # Nil
        \/ /\ test'.rel = test.rel /\ sup'.at = "run" /\ Quiet
    BY <1>6 DEF Judge, TypeOK, FailsTest, NoTest
  <2>2. CASE WebGone /\ test'.rel = Nil /\ sup'.at = "revert" /\ test.rel # Nil
    <3>1. \A h \in Handlers : Way(thread[h])'
      BY <1>1, <2>2 DEF WebGone
    <3>2. previous' \in Good' /\ previous' # pending'
      BY <1>0, <1>6, <2>2 DEF Judge, NoFiles, Sound, Good
    <3> QED
      BY <2>2, <3>1, <3>2 DEF Sound, Reverts
  <2>3. CASE test'.rel = test.rel /\ sup'.at = "run" /\ Quiet
    BY <1>2, <1>6, <2>3 DEF Judge, NoFiles, Quiet, Sound, Reverts
  <2> QED
    BY <2>1, <2>2, <2>3
<1>7. CASE WebEnded
  <2>1. /\ web = Nil /\ sup.at = "run" /\ Settled
        /\ \/ test.rel # Nil /\ test'.rel = Nil /\ sup'.at = "revert"
           \/ test'.rel = test.rel /\ sup'.at = "start"
    BY <1>0, <1>7 DEF WebEnded, TypeOK, on_test, NoTest, Reverts
  <2> QED
    BY <1>2, <1>7, <2>1 DEF WebEnded, NoFiles, Quiet, Sound, Reverts
<1>8. CASE Revert
  <2>1. /\ previous \in Good /\ previous # pending /\ web = Nil /\ ~exiting
        /\ \A h \in Handlers : thread[h] = Idle
    BY <1>8 DEF Revert, Sound, Held
  <2>2. sup'.at = "revert_previous" /\ current' = previous /\ test'.rel = Nil
    BY <1>0, <1>8, <2>1 DEF Revert, TypeOK, Sound, Reverts
  <2>3. current' \in Good'
    BY <1>0, <1>8, <2>1, <2>2 DEF Revert, Good
  <2>4. \A h \in Handlers : Way(thread[h])'
    BY <1>1, <1>8, <2>1 DEF Revert, Quiet
  <2> QED
    BY <2>2, <2>3, <2>4 DEF Sound, Reverts
<1>9. CASE RevertPrevious
  <2>1. /\ current \in Good /\ web = Nil /\ ~exiting /\ test'.rel = Nil
        /\ \A h \in Handlers : thread[h] = Idle
    BY <1>9 DEF RevertPrevious, Sound, Held, Reverts
  <2>2. sup'.at = "revert_pending" /\ current' \in Good'
    BY <1>0, <1>9, <2>1 DEF RevertPrevious, TypeOK, Good
  <2>3. \A h \in Handlers : Way(thread[h])'
    BY <1>1, <1>9, <2>1 DEF RevertPrevious, Quiet
  <2> QED
    BY <2>1, <2>2, <2>3 DEF Sound, Reverts
<1>10. CASE RevertPending
  <2>1. /\ current \in Good /\ web = Nil /\ ~exiting /\ test'.rel = Nil
        /\ \A h \in Handlers : thread[h] = Idle
    BY <1>10 DEF RevertPending, Sound, Held, Reverts
  <2>2. sup'.at = "start" /\ Settled'
    BY <1>0, <1>10, <2>1 DEF RevertPending, TypeOK, Good, Settled
  <2>3. \A h \in Handlers : Way(thread[h])'
    BY <1>1, <1>10, <2>1 DEF RevertPending, Quiet
  <2> QED
    BY <2>1, <2>2, <2>3 DEF Sound, Reverts
<1> QED
  BY <1>3, <1>4, <1>5, <1>6, <1>7, <1>8, <1>9, <1>10 DEF Supervisor

LEMMA SoundNext ==
  ASSUME Calm, TypeOK, Held, Complete, Sound, [Next]_vars
  PROVE  Sound'
<1>1. CASE WebExit
  <2>1. \A h \in Handlers : thread[h].at = "idle"
    BY <1>1 DEF WebExit, Sound, Way
  <2>2. Settled /\ sup.at \in {"run", "judge"}
    BY <1>1, <2>1 DEF WebExit, Sound, PendingSteps, Held, Reverts
  <2>3. \A h \in Handlers : Way(thread[h])'
    BY <1>1 DEF WebExit, WebGone, Way, Idle, Past, InstallSteps, PendingSteps
  <2> QED
    BY <1>1, <2>2, <2>3 DEF WebExit, disk, Sound, Settled, Good, Reverts
<1>2. CASE WebCrash \/ PowerCut
  BY <1>2 DEF WebCrash, PowerCut, Calm, TypeOK
<1>3. CASE TimePasses \/ UNCHANGED vars
  <2>1. /\ UNCHANGED <<disk, web, exiting, thread, sup, confirmed, failed>>
        /\ test'.rel = test.rel
    BY <1>3 DEF TimePasses, vars, TypeOK
  <2> QED
    BY <2>1 DEF disk, Sound, Way, Settled, Good
<1> QED
  BY <1>1, <1>2, <1>3, SoundThread, SoundSupervisor DEF Next

LEMMA SoundAlways ==
  ASSUME Calm
  PROVE  Spec => [](TypeOK /\ Held /\ Complete /\ Sound)
<1>0. OneAtATime /\ "reinstall" \notin Ops
  BY DEF Calm
<1>1. Init => TypeOK /\ Held /\ Complete
  BY TypeInit DEF Init, Held, Complete, Has, Past, Idle
<1>2. Init => Sound
  BY ReleaseAssumption
     DEF Init, Sound, Way, Settled, Good, Idle, NoTest, Past, InstallSteps, PendingSteps, Reverts
<1>3. TypeOK /\ Held /\ Complete /\ Sound /\ [Next]_vars =>
        (TypeOK /\ Held /\ Complete /\ Sound)'
  BY <1>0, TypeNext, HeldNext, CompleteNext, SoundNext
<1> QED
  BY <1>1, <1>2, <1>3, PTL DEF Spec

\* With one request at a time and no crash, cut or rollback, nothing sticks: what runs
\* was confirmed, or is on test (fpga_web.py Releases, de25web-supervisor.sh).
THEOREM NothingSticksEver ==
  ASSUME Calm
  PROVE  Spec => []NothingSticks
<1>1. Held /\ Complete /\ Sound => NothingSticks
  BY DEF Calm, NothingSticks, Held, Sound, Settled, Good, Way, Steady, on_test, Past,
         Reverts, PendingSteps
<1> QED
  BY <1>1, SoundAlways, PTL

\* And a failed test falls back to a confirmed release (fpga_web.py Releases.install,
\* which leaves previous alone while a release is on test).
THEOREM ConfirmedBehind ==
  ASSUME Calm
  PROVE  Spec => []FallsBackToConfirmed
<1>1. TypeOK /\ Held /\ Complete /\ Sound => FallsBackToConfirmed
  BY ReleaseAssumption
     DEF FallsBackToConfirmed, Held, Sound, Settled, Good, Way, Steady, on_test, Past,
         Reverts, PendingSteps, TypeOK
<1> QED
  BY <1>1, SoundAlways, PTL

=============================================================================
