---------------------------- MODULE WebServerProofs ----------------------------
(***************************************************************************)
(* What fpga_web.py promises.                                              *)
(*                                                                         *)
(* BoardLink: what the requests for the displays can rely on, for any      *)
(* number of threads, requests, pauses and ends of the two processes.      *)
(*                                                                         *)
(* BundleDeploy: one installation at a time, and deploy_bundle.py tells    *)
(* what happened, for any number of bundles, power cuts and ends of the    *)
(* server.                                                                 *)
(***************************************************************************)
EXTENDS BoardLink, BundleDeploy, LineClientProofs, TLAPS

-----------------------------------------------------------------------------
(* The displays (BoardLink).                                                 *)

PageTypes ==
  /\ control \in Control
  /\ page \in [Page -> [at : Places, change : Change, read : Control]]

\* A request holds hex_lock from its begin to its end.
OnePage == \A p, q \in Page : page[p].at # "idle" /\ page[q].at # "idle" => p = q

\* What was read of the part that the request leaves alone is what that part is, until
\* it is written back.
ReadStands ==
  \A p \in Page : page[p].at \in {"asks_digits", "digits", "asks_write", "write"} =>
    \A part \in {"raw", "blank"} \ {page[p].change.part} :
      made[part] = Nothing \/ page[p].read[part] = made[part]

\* So is what the answer on its way says.
AnswerStands ==
  \A p \in Page : page[p].at = "read" /\ Calling /\ call.by = p /\ down # <<>> =>
    /\ received.control \in Control
    /\ \A part \in {"raw", "blank"} :
         made[part] = Nothing \/ received.control[part] = made[part]

\* A write that has not been given up is that of a request which waits for it.
WriteOfPage ==
  Calling /\ call.req.op = "write" =>
    /\ call.by \in Page /\ page[call.by].at = "write"
    /\ call.req.value = Changed(call.by)

IInv ==
  /\ LinkInv /\ PageTypes /\ DOMAIN made = {"raw", "blank"}
  /\ OnePage /\ ReadStands /\ AnswerStands /\ WriteOfPage
  /\ HexKept

-------------------------------------------------------------------------------

LEMMA IdleTyped == Idle \in [at : Places, change : Change, read : Control] /\ Dark \in Control
BY BoardAssumption DEF Idle, Dark, SomeShade, Places, Change, Control

LEMMA ChangedTyped == ASSUME PageTypes, NEW p \in Page PROVE Changed(p) \in Control
<1>1. page[p].read \in Control /\ page[p].change \in Change
  BY DEF PageTypes
<1>2. CASE page[p].change.part = "raw"
  BY <1>1, <1>2 DEF Changed, Control, Change
<1>3. CASE page[p].change.part = "blank"
  BY <1>1, <1>3 DEF Changed, Control, Change
<1> QED
  BY <1>1, <1>2, <1>3 DEF Change

LEMMA StepsLink == ASSUME PageTypes, Next PROVE [LinkNext]_link
<1> USE ThreadAssumption, RequestAssumption DEF LinkNext
<1>1. CASE Handle \/ HandleStray
  BY <1>1 DEF Handle, HandleStray
<1>2. CASE Pause
  BY <1>2 DEF Pause
<1>3. CASE Resume \/ Dies \/ Starts
  BY <1>3 DEF Resume, Dies, Starts
<1>4. CASE SamplerAsks \/ Sampled
  BY <1>4 DEF SamplerAsks, Sampled
<1>5. CASE \E s \in Stream : StreamSends(s)
  BY <1>5 DEF StreamSends
<1>6. ASSUME NEW p \in Page, PageAsks(p)
      PROVE  [LinkNext]_link
  BY <1>6 DEF PageAsks
<1>7. ASSUME NEW p \in Page, PageCalls(p)
      PROVE  [LinkNext]_link
  BY <1>7, ChangedTyped DEF PageCalls
<1>8. ASSUME NEW p \in Page, PageGoes(p), ~PageCalls(p)
      PROVE  [LinkNext]_link
  BY <1>8 DEF PageGoes, PageRead, PageDigits, PageWritten, PageRefused, PageFails
<1>9. CASE Asks \/ Again \/ WebEnds
  BY <1>9 DEF Asks, Again, WebEnds
<1> QED
  BY <1>1, <1>2, <1>3, <1>4, <1>5, <1>6, <1>7, <1>8, <1>9 DEF Next

LEMMA CallKept ==
  ASSUME LinkInv, Calling, Send \/ Retry
  PROVE  call'.by = call.by /\ call'.req = call.req /\ down' = <<>>
<1>1. call \in Call
  BY DEF LinkInv
<1> QED
  BY <1>1 DEF Send, Retry, Close, LinkInv, Wire, Call

LEMMA HandleKeeps == ASSUME IInv, Handle PROVE IInv'
<1> USE DEF IInv, Calling
<1>1. PICK r \in Request : Serve(r, [ok |-> ~paused, control |-> control]) /\ CarriedOut(r)
  BY DEF Handle
<1>2. /\ r = call.req /\ Calling /\ down = <<>>
      /\ down' = <<[req |-> r, answer |-> [ok |-> ~paused, control |-> control]]>>
      /\ UNCHANGED <<call, page>>
  <2>1. Calling /\ up = <<call.req>> /\ down = <<>>
    BY <1>1 DEF Serve, LinkInv, Wire
  <2>2. r = call.req /\ down' = <<[req |-> r, answer |-> [ok |-> ~paused, control |-> control]]>>
    BY <1>1, <2>1 DEF Serve
  <2> QED
    BY <1>1, <2>1, <2>2 DEF Serve, CarriedOut
<1>3. LinkInv'
  BY LinkKept, StepsLink DEF Next
<1>4. CASE r.op = "write" /\ ~paused
  <2> DEFINE p == call.by
  <2>1. p \in Page /\ page[p].at = "write" /\ control' = Changed(p)
    BY <1>1, <1>2, <1>4 DEF WriteOfPage, CarriedOut
  <2>2. made' = [made EXCEPT ![page[p].change.part] = page[p].change.to]
    BY <1>1, <1>2, <1>4, <2>1 DEF Handle, Serve
  <2>3. control' \in Control
    BY <2>1, ChangedTyped
  <2>4. page[p].change.part \in {"raw", "blank"} /\ page[p].read \in Control
    BY <2>1 DEF PageTypes, Change
  <2>5. HexKept'
    BY <2>1, <2>2, <2>4 DEF HexKept, ReadStands, Changed, Control
  <2>6. ReadStands'
    BY <1>2, <2>1, <2>2, <2>4 DEF ReadStands, OnePage
  <2>7. AnswerStands'
    BY <1>2, <2>1 DEF AnswerStands
  <2> QED
    BY <1>2, <1>3, <2>1, <2>2, <2>3, <2>5, <2>6, <2>7
       DEF PageTypes, OnePage, WriteOfPage, Changed
<1>5. CASE ~(r.op = "write" /\ ~paused)
  <2>1. UNCHANGED <<control, made>>
    BY <1>1, <1>2, <1>5 DEF Handle, CarriedOut, Serve
  <2>2. received'.control = control
    BY <1>2 DEF received
  <2>3. AnswerStands'
    BY <1>2, <2>1, <2>2 DEF AnswerStands, HexKept, PageTypes
  <2> QED
    BY <1>2, <1>3, <2>1, <2>3 DEF PageTypes, OnePage, ReadStands, WriteOfPage, HexKept, Changed
<1> QED
  BY <1>4, <1>5

LEMMA StrayKeeps == ASSUME IInv, HandleStray PROVE IInv'
<1> USE DEF IInv, Calling
<1>1. PICK r \in Request : ServeStray(r) /\ CarriedOut(r)
  BY DEF HandleStray
<1>2. LinkInv'
  BY LinkKept, StepsLink DEF Next
<1>3. control' \in Control /\ UNCHANGED <<call, down, page>>
  BY <1>1, RequestAssumption DEF ServeStray, CarriedOut, PageTypes
<1>4. made' = IF control' # control THEN [part \in DOMAIN made |-> Nothing] ELSE made
  BY DEF HandleStray
<1> QED
  BY <1>2, <1>3, <1>4
     DEF PageTypes, OnePage, ReadStands, AnswerStands, WriteOfPage, HexKept, Changed, received

LEMMA PageKeeps ==
  ASSUME IInv, NEW p \in Page, PageAsks(p) \/ PageGoes(p)
  PROVE  IInv'
<1> USE DEF IInv, Calling
<1>1. LinkInv'
  BY LinkKept, StepsLink DEF Next
<1>2. page[p] \in [at : Places, change : Change, read : Control]
  BY DEF PageTypes
<1> USE DEF PageTypes, OnePage, ReadStands, AnswerStands, WriteOfPage, HexKept, Changed,
            received, link, fabric
<1>3. CASE PageAsks(p)
  <2>1. (\A q \in Page : page[q].at = "idle") /\ UNCHANGED <<call, down, control, made>>
    BY <1>3 DEF PageAsks, HexFree
  <2>2. PICK c \in Change :
          page' = [page EXCEPT ![p] = [Idle EXCEPT !.at = "asks_read", !.change = c]]
    BY <1>3 DEF PageAsks
  <2>3. /\ page'[p] \in [at : Places, change : Change, read : Control]
        /\ page'[p].at = "asks_read"
        /\ \A q \in Page \ {p} : page'[q] = page[q]
    BY <2>2, IdleTyped DEF Places
  <2>4. PageTypes' /\ OnePage' /\ ReadStands' /\ AnswerStands'
    BY <2>1, <2>2, <2>3
  <2>5. WriteOfPage'
    BY <2>1
  <2> QED
    BY <1>1, <2>1, <2>4, <2>5
<1>4. CASE PageCalls(p)
  <2>1. ~Calling /\ down = <<>> /\ down' = <<>>
    BY <1>4 DEF PageCalls, Begin, LinkInv, Wire
  <2> QED
    BY <1>1, <1>2, <1>4, <2>1 DEF PageCalls, Begin, Goes, Places
<1>5. CASE PageRead(p)
  <2>1. call' = NoCall /\ UNCHANGED <<control, made>>
    BY <1>5 DEF PageRead, Answered
  <2>2. received.control \in Control
        /\ \A part \in {"raw", "blank"} :
              made[part] = Nothing \/ received.control[part] = made[part]
    BY <1>5 DEF PageRead, Answered
  <2>3. PICK to \in {"asks_digits", "asks_write"} :
          page' = [page EXCEPT ![p].at = to, ![p].read = received.control]
    BY <1>5 DEF PageRead
  <2>4. /\ page'[p] \in [at : Places, change : Change, read : Control]
        /\ page'[p].at = to /\ page'[p].read = received.control
        /\ \A q \in Page \ {p} : page'[q] = page[q]
    <3>1. page'[p] = [at |-> to, change |-> page[p].change, read |-> received.control]
      BY <1>2, <2>3
    <3> QED
      BY <1>2, <2>2, <2>3, <3>1 DEF Places
  <2>5. PageTypes' /\ OnePage'
    BY <1>5, <2>1, <2>3, <2>4 DEF PageRead
  <2>6. ReadStands'
    BY <2>1, <2>2, <2>4
  <2> QED
    BY <1>1, <2>1, <2>5, <2>6
<1>6. CASE PageDigits(p)
  BY <1>1, <1>2, <1>6 DEF PageDigits, Answered, Goes, Places
<1>7. CASE PageWritten(p) \/ PageRefused(p) \/ PageFails(p)
  <2>1. /\ call' = NoCall /\ UNCHANGED <<control, made>>
        /\ page' = [page EXCEPT ![p] = Idle]
    BY <1>7 DEF PageWritten, PageRefused, PageFails, Answered, Raises
  <2>2. PageTypes'
    BY <2>1, IdleTyped
  <2> QED
    BY <1>1, <2>1, <2>2 DEF Idle
<1> QED
  BY <1>3, <1>4, <1>5, <1>6, <1>7 DEF PageGoes

\* A request reads the control register, changes its part and writes it back while no
\* other one does; what it has read holds until then, or a late write has come.
THEOREM Invariant == Spec => []IInv
<1>1. Init => IInv
  <2> SUFFICES ASSUME Init PROVE IInv
    OBVIOUS
  <2>1. LinkInv /\ call = NoCall
    BY LinkStarts DEF Init, LinkInit
  <2> QED
    BY <2>1, IdleTyped
       DEF Init, IInv, PageTypes, OnePage, ReadStands, AnswerStands, WriteOfPage, HexKept,
           Calling, Idle
<1>2. ASSUME IInv, [Next]_vars
      PROVE  IInv'
  <2> USE DEF IInv, Calling
  <2>1. LinkInv'
    BY <1>2, LinkKept, StepsLink DEF vars, link
  <2>2. CASE UNCHANGED <<call, down, control, made, page>>
    BY <1>2, <2>1, <2>2
       DEF PageTypes, OnePage, ReadStands, AnswerStands, WriteOfPage, HexKept, Changed, received
  <2>3. CASE call' = NoCall /\ UNCHANGED <<control, made, page>>
    BY <1>2, <2>1, <2>3
       DEF PageTypes, OnePage, ReadStands, AnswerStands, WriteOfPage, HexKept, Changed
  <2>4. CASE Pause \/ Resume \/ Dies \/ Starts \/ UNCHANGED vars
    BY <2>2, <2>4
       DEF Pause, Resume, Dies, Starts, ServerGone, ServerBack, pages, vars, link, fabric
  <2>5. CASE SamplerAsks
    <3>1. down' = <<>> /\ call'.by = Sampler /\ call'.req.op = "read_many"
          /\ UNCHANGED <<control, made, page>>
      BY <1>2, <2>5 DEF SamplerAsks, Begin, LinkInv, Wire, fabric, pages
    <3> QED
      BY <1>2, <2>1, <3>1
         DEF PageTypes, OnePage, ReadStands, AnswerStands, WriteOfPage, HexKept, Changed
  <2>6. CASE Sampled
    BY <2>3, <2>6 DEF Sampled, Answered, Raises, fabric, pages
  <2>7. ASSUME NEW s \in Stream, StreamSends(s)
        PROVE  IInv'
    BY <2>2, <2>7 DEF StreamSends, link, fabric, pages
  <2>8. CASE Asks \/ Again
    <3>1. call'.by = call.by /\ call'.req = call.req /\ down' = <<>> /\ Calling
          /\ UNCHANGED <<control, made, page>>
      BY <1>2, <2>8, CallKept
         DEF Asks, Again, Send, Retry, Failure, Dropped, Late, fabric, pages
    <3> QED
      BY <1>2, <2>1, <3>1
         DEF PageTypes, OnePage, ReadStands, AnswerStands, WriteOfPage, HexKept, Changed
  <2>9. CASE WebEnds
    <3>1. call' = NoCall /\ UNCHANGED <<control, made>> /\ page' = [p \in Page |-> Idle]
      BY <2>9 DEF WebEnds, ClientEnds, fabric
    <3> QED
      BY <1>2, <2>1, <3>1, IdleTyped
         DEF PageTypes, OnePage, ReadStands, AnswerStands, WriteOfPage, HexKept, Idle
  <2> QED
    BY <1>2, <2>4, <2>5, <2>6, <2>7, <2>8, <2>9, HandleKeeps, StrayKeeps, PageKeeps DEF Next
<1> QED
  BY <1>1, <1>2, PTL DEF Spec

\* "two requests at once must not undo each other" (fpga_web.py, hex_lock), for any
\* number of requests, timeouts, pauses and restarts.
THEOREM RequestsKeepParts == Spec => []HexKept
<1>1. IInv => HexKept
  BY DEF IInv
<1> QED
  BY <1>1, Invariant, PTL

\* The server never carries a request out a second time while the first may still be
\* running (fpga_access.py 2753), for any threads and faults.
THEOREM NoRequestTwice == Spec => []NeverTwice
<1>1. IInv => NeverTwice
  BY LinkMeans DEF IInv
<1> QED
  BY <1>1, Invariant, PTL

\* Nor does any thread read an answer that is not its own.
THEOREM AnswersInStep == Spec => []InStep
<1>1. IInv => InStep
  BY LinkMeans DEF IInv
<1> QED
  BY <1>1, Invariant, PTL

-----------------------------------------------------------------------------
(* One installation at a time (BundleDeploy).                                *)

\* The script of an installation, up to the reboot it may ask for.
Work == Active \ {"reboot"}

\* A request that has the lock finds no installation under way, and starts one; each
\* one under way is the one that pid tells of, or its request is about to write it.
StartInv ==
  \A u \in Deploy :
    /\ at[u] \in {"clean", "popen", "pid"} => lock = u
    /\ at[u] \in {"clean", "popen"} => \A v \in Deploy : runner[v] \notin Work
    /\ at[u] = "pid" => runner[u] \in {"rm_marker", "rauc"}
    /\ at[u] \in {"popen", "pid"} => rc = NoRc
    /\ runner[u] \in Work => at[u] = "pid" \/ (pid = u /\ rc = NoRc)

\* An installation that waits for the outcome of a test, or has given up.
TestOf(v) ==
  /\ bundle[v] = pending
  /\ \/ runner[v] \in {"wait", "open"}
     \/ runner[v] \in {"rm_file", "rc", "done"} /\ val[v] = 1

\* A release on test is that of such an installation.
TestInv ==
  /\ pending # None => \E v \in Deploy : TestOf(v)
  /\ \A u \in Deploy :
       /\ at[u] \in {"idle", "check", "receive", "start", "clean", "popen"} => runner[u] = "none"
       /\ runner[u] = "write" => bundle[u] # None
       /\ runner[u] \in {"offer", "wait", "open"} => bundle[u] \in Deploy

DeployInv == DeployTypeOK /\ StartInv /\ TestInv /\ OneInstall

\* A boot of either image.
LEMMA BootTypes ==
  ASSUME DeployTypeOK, NEW image \in {primary, other}, Boots(image),
         fail' \in BOOLEAN, cuts' \in 0..MaxCuts, UNCHANGED <<kept, alone>>
  PROVE  DeployTypeOK'
<1> USE DeployAssumption DEF DeployTypeOK, Boots, ServerEnds
<1>1. runner' \in [Deploy -> Active \cup {"none", "done"}]
  BY DEF Active
<1>2. at' \in [Deploy -> Requests \cup Waits \cup Verdicts \cup {"idle", "refused", "lost"}]
  OBVIOUS
<1>3. /\ {current', previous'} \subseteq Deploy \cup {R0}
      /\ web' = Down /\ pending' = None /\ lock' = None /\ pid' = None
      /\ {primary', slot', other'} \subseteq Image \cup {R0}
      /\ rc' = NoRc /\ marker' = FALSE /\ confirm' = FALSE
  OBVIOUS
<1>4. UNCHANGED <<before, val, bundle, file, kept, alone>>
  OBVIOUS
<1> QED
  BY <1>1, <1>2, <1>3, <1>4 DEF NoRc

\* Every step keeps the types.
LEMMA DeployTypes ==
  ASSUME DeployTypeOK, StartInv, TestInv, [DeployNext]_deployVars PROVE DeployTypeOK'
<1> USE DeployAssumption, CutsAssumption
     DEF DeployTypeOK, Requests, Waits, Verdicts, Active, NoRc, NoFile, None, R0, Down, Torn
<1>1. ASSUME NEW u \in Deploy, Ask(u) PROVE DeployTypeOK'
  BY <1>1 DEF Ask, Moves, install, files, links, images
<1>2. ASSUME NEW u \in Deploy, Receive(u) PROVE DeployTypeOK'
  <2>1. file' \in [by : SUBSET Deploy, whole : BOOLEAN]
    <3>1. CASE file' = file
      BY <3>1
    <3>2. CASE file' = [by |-> {u}, whole |-> FALSE]
      BY <3>2
    <3> QED
      BY <1>2, <3>1, <3>2 DEF Receive
  <2>2. bundle' \in [Deploy -> Deploy \cup {None, Torn}]
    BY <1>2 DEF Receive, TornNow
  <2> QED
    BY <1>2, <2>1, <2>2 DEF Receive, Moves, client, install, files, links, images
<1>3. ASSUME NEW u \in Deploy, Received(u) PROVE DeployTypeOK'
  <2>1. file' \in [by : SUBSET Deploy, whole : BOOLEAN]
    <3>1. CASE file' = NoFile
      BY <3>1
    <3>2. CASE file' = [by |-> file.by \cup {u}, whole |-> TRUE]
      BY <3>2
    <3> QED
      BY <1>3, <3>1, <3>2 DEF Received
  <2> QED
    BY <1>3, <2>1 DEF Received, Moves, client, install, files, links, images
<1>4. ASSUME NEW u \in Deploy, Start(u) PROVE DeployTypeOK'
  <2>1. file' \in [by : SUBSET Deploy, whole : BOOLEAN]
    <3>1. CASE file' = file
      BY <3>1
    <3>2. CASE file' = NoFile
      BY <3>2
    <3> QED
      BY <1>4, <3>1, <3>2 DEF Start
  <2>2. at' \in [Deploy -> Requests \cup Waits \cup Verdicts \cup {"idle", "refused",
    "lost"}]
    BY <1>4 DEF Start, Moves
  <2> QED
    BY <1>4, <2>1, <2>2 DEF Start, client, install, files, links, images
<1>5. ASSUME NEW u \in Deploy, Clean(u) PROVE DeployTypeOK'
  BY <1>5 DEF Clean, Moves, install, links, images
<1>6. ASSUME NEW u \in Deploy, Popen(u) PROVE DeployTypeOK'
  BY <1>6 DEF Popen, Moves, files, links, images
<1>7. ASSUME NEW u \in Deploy, WritePid(u) PROVE DeployTypeOK'
  BY <1>7 DEF WritePid, Moves, install, links, images
<1>8. ASSUME NEW u \in Deploy, RmMarker(u) PROVE DeployTypeOK'
  <2>1. runner' \in [Deploy -> Active \cup {"none", "done"}]
    BY <1>8 DEF RmMarker, Turns
  <2>2. /\ marker' = FALSE
        /\ UNCHANGED <<at, before, val, bundle, file, lock, pid, rc>>
        /\ UNCHANGED <<web, current, previous, pending, images, cuts, kept, alone>>
    BY <1>8 DEF RmMarker, client, links
  <2> QED
    BY <2>1, <2>2 DEF images
<1>9. ASSUME NEW u \in Deploy, Rauc(u) PROVE DeployTypeOK'
  BY <1>9 DEF Rauc, Turns, Exits, client, files, links, images
<1>10. ASSUME NEW u \in Deploy, Write(u) PROVE DeployTypeOK'
  BY <1>10 DEF Write, Turns, Exits, client, files, links
<1>11. ASSUME NEW u \in Deploy, OfferImage(u) PROVE DeployTypeOK'
  <2>1. /\ val' \in [Deploy -> {0, 1}]
        /\ runner' \in [Deploy -> Active \cup {"none", "done"}]
    BY <1>11 DEF OfferImage, HandlerEnds, Exits, Turns
  <2>2. marker' \in BOOLEAN /\ fail' \in BOOLEAN /\ primary' \in Image \cup {R0}
    BY <1>11 DEF OfferImage
  <2> QED
    BY <1>11, <2>1, <2>2 DEF OfferImage, client, install, files, links, images
<1>12. ASSUME NEW u \in Deploy, OfferRelease(u) PROVE DeployTypeOK'
  BY <1>12 DEF OfferRelease, Turns, Exits, ServerEnds, links, images, TestInv
<1>13. ASSUME NEW u \in Deploy, Wait(u) PROVE DeployTypeOK'
  BY <1>13 DEF Wait, Turns, Exits, HandlerEnds, Judged, client, files, links, images
<1>14. ASSUME NEW u \in Deploy, Opens(u) PROVE DeployTypeOK'
  BY <1>14 DEF Opens, Turns, Exits, client, files, links, images
<1>15. ASSUME NEW u \in Deploy, RmFile(u) PROVE DeployTypeOK'
  BY <1>15 DEF RmFile, Turns, client, links, images
<1>16. ASSUME NEW u \in Deploy, WriteRc(u) PROVE DeployTypeOK'
  BY <1>16 DEF WriteRc, Turns, client, links, images
<1>17. ASSUME NEW u \in Deploy, Poll(u) PROVE DeployTypeOK'
  BY <1>17 DEF Poll, Moves, install, files, links, images
<1>18. ASSUME NEW u \in Deploy, ConfirmRequest(u) PROVE DeployTypeOK'
  BY <1>18 DEF ConfirmRequest, Moves, Keeps, install, files, images
<1>19. ASSUME NEW u \in Deploy, Follow(u) PROVE DeployTypeOK'
  BY <1>19 DEF Follow, Moves, install, files, links, images
<1>20. ASSUME NEW u \in Deploy, Seen(u) PROVE DeployTypeOK'
  BY <1>20 DEF Seen, Moves, install, files, links, images
<1>21. ASSUME NEW u \in Deploy, GiveUp(u) PROVE DeployTypeOK'
  BY <1>21 DEF GiveUp, Moves, install, files, links, images
<1>22. ASSUME WebStarts PROVE DeployTypeOK'
  BY <1>22 DEF WebStarts, client, install, links, images
<1>23. ASSUME Revert PROVE DeployTypeOK'
  BY <1>23 DEF Revert, NotInGap, ServerEnds, install, images
<1>24. ASSUME Crash PROVE DeployTypeOK'
  BY <1>24 DEF Crash, NotInGap, ServerEnds, install, links, images
<1>25. ASSUME PageConfirm PROVE DeployTypeOK'
  BY <1>25 DEF PageConfirm, Keeps, client, install, files, images
<1>26. ASSUME ImageHealthy PROVE DeployTypeOK'
  BY <1>26 DEF ImageHealthy, client, install, files, links
<1>27. ASSUME NEW u \in Deploy, Reboot(u) PROVE DeployTypeOK'
  BY <1>27, BootTypes DEF Reboot
<1>28. ASSUME PowerCut PROVE DeployTypeOK'
  <2>1. cuts' \in 0..MaxCuts
    BY <1>28 DEF PowerCut
  <2> QED
    BY <1>28, <2>1, BootTypes DEF PowerCut
<1>29. ASSUME ImageFallsBack PROVE DeployTypeOK'
  BY <1>29, BootTypes DEF ImageFallsBack
<1>30. CASE UNCHANGED deployVars
  BY <1>30 DEF deployVars, client, install, files, links, images
<1> QED
  BY <1>1, <1>2, <1>3, <1>4, <1>5, <1>6, <1>7, <1>8, <1>9, <1>10, <1>11, <1>12, <1>13,
    <1>14, <1>15, <1>16, <1>17, <1>18, <1>19, <1>20, <1>21, <1>22, <1>23, <1>24, <1>25,
      <1>26, <1>27, <1>28, <1>29, <1>30
       DEF DeployNext, Uploads, Runner, Client, Supervisor

\* pid is not yet written while a request holds the lock, and after that it tells of the
\* installation: a second one is refused, if nothing comes between Popen and WritePid.
LEMMA StartStep ==
  ASSUME DeployInv, DeployTypeOK', "gap" \notin Faults, [DeployNext]_deployVars
  PROVE StartInv' /\ OneInstall'
<1> USE DeployAssumption
     DEF DeployInv, DeployTypeOK, Requests, Waits, Verdicts, Active, NoRc, NoFile,
         StartInv, TestInv, OneInstall, Work
<1>1. ASSUME NEW u \in Deploy, Ask(u) PROVE StartInv' /\ OneInstall'
  BY <1>1 DEF Ask, Moves, install, files, links, images
<1>2. ASSUME NEW u \in Deploy, Receive(u) PROVE StartInv' /\ OneInstall'
  BY <1>2 DEF Receive, Moves, TornNow, links, images, None, Torn
<1>3. ASSUME NEW u \in Deploy, Received(u) PROVE StartInv' /\ OneInstall'
  BY <1>3 DEF Received, Moves, install, links, images
<1>4. ASSUME NEW u \in Deploy, Start(u) PROVE StartInv' /\ OneInstall'
  BY <1>4 DEF Start, Moves, install, links, images, Running
<1>5. ASSUME NEW u \in Deploy, Clean(u) PROVE StartInv' /\ OneInstall'
  BY <1>5 DEF Clean, Moves, install, links, images
<1>6. ASSUME NEW u \in Deploy, Popen(u) PROVE StartInv' /\ OneInstall'
  BY <1>6 DEF Popen, Moves, files, links, images
<1>7. ASSUME NEW u \in Deploy, WritePid(u) PROVE StartInv' /\ OneInstall'
  BY <1>7 DEF WritePid, Moves, install, links, images
<1>8. ASSUME NEW u \in Deploy, RmMarker(u) PROVE StartInv' /\ OneInstall'
  BY <1>8 DEF RmMarker, Turns, client, links, images
<1>9. ASSUME NEW u \in Deploy, Rauc(u) PROVE StartInv' /\ OneInstall'
  BY <1>9 DEF Rauc, Turns, Exits, client, files, links, images
<1>10. ASSUME NEW u \in Deploy, Write(u) PROVE StartInv' /\ OneInstall'
  BY <1>10 DEF Write, Turns, Exits, client, files, links
<1>11. ASSUME NEW u \in Deploy, OfferImage(u) PROVE StartInv' /\ OneInstall'
  BY <1>11 DEF OfferImage, Turns, Exits, HandlerEnds, client, links
<1>12. ASSUME NEW u \in Deploy, OfferRelease(u) PROVE StartInv' /\ OneInstall'
  BY <1>12 DEF OfferRelease, Turns, Exits, ServerEnds, links, images
<1>13. ASSUME NEW u \in Deploy, Wait(u) PROVE StartInv' /\ OneInstall'
  BY <1>13 DEF Wait, Turns, Exits, HandlerEnds, Judged, client, files, links, images
<1>14. ASSUME NEW u \in Deploy, Opens(u) PROVE StartInv' /\ OneInstall'
  BY <1>14 DEF Opens, Turns, Exits, client, files, links, images
<1>15. ASSUME NEW u \in Deploy, RmFile(u) PROVE StartInv' /\ OneInstall'
  BY <1>15 DEF RmFile, Turns, client, links, images
<1>16. ASSUME NEW u \in Deploy, WriteRc(u) PROVE StartInv' /\ OneInstall'
  BY <1>16 DEF WriteRc, Turns, client, links, images
<1>17. ASSUME NEW u \in Deploy, Poll(u) PROVE StartInv' /\ OneInstall'
  BY <1>17 DEF Poll, Moves, install, files, links, images
<1>18. ASSUME NEW u \in Deploy, ConfirmRequest(u) PROVE StartInv' /\ OneInstall'
  BY <1>18 DEF ConfirmRequest, Moves, Keeps, install, files, images
<1>19. ASSUME NEW u \in Deploy, Follow(u) PROVE StartInv' /\ OneInstall'
  BY <1>19 DEF Follow, Moves, install, files, links, images
<1>20. ASSUME NEW u \in Deploy, Seen(u) PROVE StartInv' /\ OneInstall'
  BY <1>20 DEF Seen, Moves, install, files, links, images
<1>21. ASSUME NEW u \in Deploy, GiveUp(u) PROVE StartInv' /\ OneInstall'
  BY <1>21 DEF GiveUp, Moves, install, files, links, images
<1>22. ASSUME WebStarts PROVE StartInv' /\ OneInstall'
  BY <1>22 DEF WebStarts, client, install, links, images, Running, Stale
<1>23. ASSUME Revert PROVE StartInv' /\ OneInstall'
  BY <1>23 DEF Revert, NotInGap, ServerEnds, install, images
<1>24. ASSUME Crash PROVE StartInv' /\ OneInstall'
  BY <1>24 DEF Crash, NotInGap, ServerEnds, install, links, images
<1>25. ASSUME PageConfirm PROVE StartInv' /\ OneInstall'
  BY <1>25 DEF PageConfirm, Keeps, client, install, files, images
<1>26. ASSUME ImageHealthy PROVE StartInv' /\ OneInstall'
  BY <1>26 DEF ImageHealthy, client, install, files, links
<1>27. ASSUME NEW u \in Deploy, Reboot(u) PROVE StartInv' /\ OneInstall'
  BY <1>27 DEF Reboot, ServerEnds, Boots
<1>28. ASSUME PowerCut PROVE StartInv' /\ OneInstall'
  BY <1>28 DEF PowerCut, ServerEnds, Boots
<1>29. ASSUME ImageFallsBack PROVE StartInv' /\ OneInstall'
  BY <1>29 DEF ImageFallsBack, ServerEnds, Boots
<1>30. CASE UNCHANGED deployVars
  BY <1>30 DEF deployVars, client, install, files, links, images
<1> QED
  BY <1>1, <1>2, <1>3, <1>4, <1>5, <1>6, <1>7, <1>8, <1>9, <1>10, <1>11, <1>12, <1>13,
    <1>14, <1>15, <1>16, <1>17, <1>18, <1>19, <1>20, <1>21, <1>22, <1>23, <1>24, <1>25,
      <1>26, <1>27, <1>28, <1>29, <1>30
       DEF DeployNext, Uploads, Runner, Client, Supervisor

\* OfferRelease begins a test, and its installation waits for its end or gives up.
LEMMA TestStep ==
  ASSUME DeployInv, DeployTypeOK', "gap" \notin Faults, [DeployNext]_deployVars
  PROVE TestInv'
<1> USE DeployAssumption
     DEF DeployInv, DeployTypeOK, Requests, Waits, Verdicts, Active, NoRc, NoFile,
         StartInv, TestInv, TestOf, OneInstall, Work
<1>1. ASSUME NEW u \in Deploy, Ask(u) PROVE TestInv'
  BY <1>1 DEF Ask, Moves, install, files, links, images
<1>2. ASSUME NEW u \in Deploy, Receive(u) PROVE TestInv'
  BY <1>2 DEF Receive, Moves, TornNow, links, images, None, Torn
<1>3. ASSUME NEW u \in Deploy, Received(u) PROVE TestInv'
  BY <1>3 DEF Received, Moves, install, links, images
<1>4. ASSUME NEW u \in Deploy, Start(u) PROVE TestInv'
  BY <1>4 DEF Start, Moves, install, links, images, Running
<1>5. ASSUME NEW u \in Deploy, Clean(u) PROVE TestInv'
  BY <1>5 DEF Clean, Moves, install, links, images
<1>6. ASSUME NEW u \in Deploy, Popen(u) PROVE TestInv'
  BY <1>6 DEF Popen, Moves, files, links, images
<1>7. ASSUME NEW u \in Deploy, WritePid(u) PROVE TestInv'
  BY <1>7 DEF WritePid, Moves, install, links, images
<1>8. ASSUME NEW u \in Deploy, RmMarker(u) PROVE TestInv'
  BY <1>8 DEF RmMarker, Turns, client, links, images
<1>9. ASSUME NEW u \in Deploy, Rauc(u) PROVE TestInv'
  BY <1>9 DEF Rauc, Turns, Exits, client, files, links, images
<1>10. ASSUME NEW u \in Deploy, Write(u) PROVE TestInv'
  <2>1. /\ UNCHANGED <<at, bundle, pending>>
        /\ \A v \in Deploy \ {u} : runner'[v] = runner[v] /\ val'[v] = val[v]
        /\ runner'[u] \in {"offer", "rm_file"}
    BY <1>10 DEF Write, Turns, Exits, links, client
  <2>2. \A v \in Deploy : TestOf(v) => v # u
    BY <1>10 DEF Write
  <2>3. pending # None => \E v \in Deploy : TestOf(v)'
    <3>1. \A v \in Deploy \ {u} : TestOf(v) => TestOf(v)'
      BY <2>1
    <3> QED
      BY <2>2, <3>1
  <2>4. \A v \in Deploy :
          /\ at'[v] \in {"idle", "check", "receive", "start", "clean", "popen"} =>
               runner'[v] = "none"
          /\ runner'[v] = "write" => bundle'[v] # None
          /\ runner'[v] \in {"offer", "wait", "open"} => bundle'[v] \in Deploy
    <3>1. runner[u] = "write" /\ bundle[u] \in Deploy \cup {Torn}
      BY <1>10 DEF Write
    <3>2. runner'[u] = "offer" => bundle[u] \in Deploy
      BY <1>10, <3>1 DEF Write, Turns, Exits
    <3> QED
      BY <2>1, <3>1, <3>2
  <2> QED
    BY <2>1, <2>3, <2>4
<1>11. ASSUME NEW u \in Deploy, OfferImage(u) PROVE TestInv'
  BY <1>11 DEF OfferImage, Turns, Exits, HandlerEnds, client, links
<1>12. ASSUME NEW u \in Deploy, OfferRelease(u) PROVE TestInv'
  BY <1>12 DEF OfferRelease, Turns, Exits, ServerEnds, links, images
<1>13. ASSUME NEW u \in Deploy, Wait(u) PROVE TestInv'
  BY <1>13 DEF Wait, Turns, Exits, HandlerEnds, Judged, client, files, links, images
<1>14. ASSUME NEW u \in Deploy, Opens(u) PROVE TestInv'
  BY <1>14 DEF Opens, Turns, Exits, client, files, links, images
<1>15. ASSUME NEW u \in Deploy, RmFile(u) PROVE TestInv'
  BY <1>15 DEF RmFile, Turns, client, links, images
<1>16. ASSUME NEW u \in Deploy, WriteRc(u) PROVE TestInv'
  BY <1>16 DEF WriteRc, Turns, client, links, images
<1>17. ASSUME NEW u \in Deploy, Poll(u) PROVE TestInv'
  BY <1>17 DEF Poll, Moves, install, files, links, images
<1>18. ASSUME NEW u \in Deploy, ConfirmRequest(u) PROVE TestInv'
  BY <1>18 DEF ConfirmRequest, Moves, Keeps, install, files, images
<1>19. ASSUME NEW u \in Deploy, Follow(u) PROVE TestInv'
  BY <1>19 DEF Follow, Moves, install, files, links, images
<1>20. ASSUME NEW u \in Deploy, Seen(u) PROVE TestInv'
  BY <1>20 DEF Seen, Moves, install, files, links, images
<1>21. ASSUME NEW u \in Deploy, GiveUp(u) PROVE TestInv'
  BY <1>21 DEF GiveUp, Moves, install, files, links, images
<1>22. ASSUME WebStarts PROVE TestInv'
  BY <1>22 DEF WebStarts, client, install, links, images, Running, Stale
<1>23. ASSUME Revert PROVE TestInv'
  BY <1>23 DEF Revert, NotInGap, ServerEnds, install, images
<1>24. ASSUME Crash PROVE TestInv'
  BY <1>24 DEF Crash, NotInGap, ServerEnds, install, links, images
<1>25. ASSUME PageConfirm PROVE TestInv'
  BY <1>25 DEF PageConfirm, Keeps, client, install, files, images
<1>26. ASSUME ImageHealthy PROVE TestInv'
  BY <1>26 DEF ImageHealthy, client, install, files, links
<1>27. ASSUME NEW u \in Deploy, Reboot(u) PROVE TestInv'
  BY <1>27 DEF Reboot, ServerEnds, Boots
<1>28. ASSUME PowerCut PROVE TestInv'
  BY <1>28 DEF PowerCut, ServerEnds, Boots
<1>29. ASSUME ImageFallsBack PROVE TestInv'
  BY <1>29 DEF ImageFallsBack, ServerEnds, Boots
<1>30. CASE UNCHANGED deployVars
  BY <1>30 DEF deployVars, client, install, files, links, images
<1> QED
  BY <1>1, <1>2, <1>3, <1>4, <1>5, <1>6, <1>7, <1>8, <1>9, <1>10, <1>11, <1>12, <1>13,
    <1>14, <1>15, <1>16, <1>17, <1>18, <1>19, <1>20, <1>21, <1>22, <1>23, <1>24, <1>25,
      <1>26, <1>27, <1>28, <1>29, <1>30
       DEF DeployNext, Uploads, Runner, Client, Supervisor

LEMMA DeployBegins == DeployInit => DeployInv
<1> SUFFICES ASSUME DeployInit PROVE DeployInv
  OBVIOUS
<1> USE DEF DeployInit
<1>1. at \in [Deploy -> {"idle"}] /\ runner \in [Deploy -> {"none"}]
  OBVIOUS
<1>2. before \in [Deploy -> [web : Deploy \cup {R0}, slot : Deploy \cup {R0}]]
  OBVIOUS
<1>3. val \in [Deploy -> {0, 1}] /\ bundle \in [Deploy -> Deploy \cup {None, Torn}]
  OBVIOUS
<1>4. file \in [by : SUBSET Deploy, whole : BOOLEAN]
  BY DEF NoFile
<1>5. cuts \in 0..MaxCuts
  BY CutsAssumption
<1>6. DeployTypeOK
  BY <1>1, <1>2, <1>3, <1>4, <1>5 DEF DeployTypeOK, NoRc
<1>7. StartInv /\ TestInv /\ OneInstall
  BY <1>1 DEF StartInv, TestInv, OneInstall, Work, Active
<1> QED
  BY <1>6, <1>7 DEF DeployInv
\* "One `rauc install` at a time" (fpga_web.py 513), for any uploads, power cuts and
\* restarts, but none of the server between the start of the shell and its pid.
THEOREM OneAtOnce == ASSUME "gap" \notin Faults PROVE DeploySpec => []OneInstall
<1>1. DeployInit => DeployInv
  BY DeployBegins
<1>2. DeployInv /\ [DeployNext]_deployVars => DeployInv'
  BY DeployTypes, StartStep, TestStep DEF DeployInv
<1>3. DeployInv => OneInstall
  BY DEF DeployInv
<1> QED
  BY <1>1, <1>2, <1>3, PTL DEF DeploySpec

-----------------------------------------------------------------------------
(* What deploy_bundle.py tells (BundleDeploy).                               *)

\* What is not on test is what was confirmed.
KeptInv ==
  /\ previous \in kept
  /\ pending = None => current \in kept
  /\ confirm => slot \in kept

Busy(u) == at[u] \in Requests \cup Waits \/ runner[u] \in Active

\* While every deployment begins after the end of the one before, one is busy.
OneBusy == \A u, v \in Deploy : Busy(u) /\ Busy(v) => u = v

\* Then what is under way during a test is the installation it belongs to.
OwnTest == \A u \in Deploy : Busy(u) /\ pending # None => TestOf(u)

\* A shell is there from the start of the installation.
ShellInv ==
  \A u \in Deploy :
    /\ at[u] \in {"idle", "check", "receive", "start", "clean", "popen"} => runner[u] = "none"
    /\ at[u] \in Waits => runner[u] # "none"

\* rauc has what was sent ...
SentInv ==
  \A u \in Deploy :
    /\ (\/ at[u] \in {"receive", "start", "clean", "popen", "pid"}
        \/ runner[u] \in {"rm_marker", "rauc"})
       => file.by \subseteq {u}
    /\ runner[u] \in {"write", "offer", "wait", "open"} => bundle[u] = u

\* ... its success is a release confirmed or an image that is the next to boot ...
RunnerInv ==
  \A u \in Deploy :
    /\ runner[u] = "offer" /\ u \in Image => other = u
    /\ runner[u] \in {"rm_file", "rc", "reboot"} /\ val[u] = 0 =>
         bundle[u] = u /\ (marker \/ u \in kept)
    /\ runner[u] \in Active \ {"rm_marker"} /\ marker =>
         /\ runner[u] \in {"rm_file", "rc", "reboot"} /\ val[u] = 0
         /\ primary = u /\ other = u
    /\ runner[u] = "reboot" => val[u] = 0 /\ marker
    /\ at[u] \in Requests \/ runner[u] \in Active => slot = before[u].slot

\* ... and what the client sees of it is the installation's own.
ClientInv ==
  \A u \in Deploy :
    /\ at[u] \in {"poll", "watch", "confirm"} =>
         \/ rc = NoRc
         \/ rc = val[u] /\ runner[u] = "reboot"
         \/ /\ runner[u] = "done"
            /\ rc = 0 => ~marker /\ bundle[u] = u /\ u \in kept
    /\ at[u] \in {"follow", "seen"} =>
         /\ bundle[u] = u /\ primary = u /\ {slot, other} \subseteq {before[u].slot, u}
         /\ \/ runner[u] = "done"
            \/ at[u] = "follow" /\ runner[u] = "reboot" /\ web # Down
    /\ at[u] \in Verdicts => runner[u] = "done"
    /\ at[u] \in {"installed", "confirmed"} => bundle[u] = u /\ u \in kept

VerdictInv ==
  /\ DeployInv /\ KeptInv /\ ShellInv
  /\ alone => OneBusy /\ OwnTest /\ SentInv /\ RunnerInv /\ ClientInv

\* Once two deployments overlapped, alone stays FALSE.
LEMMA AloneEnds == ASSUME [DeployNext]_deployVars, alone' PROVE alone
<1>1. ASSUME NEW u \in Deploy, Uploads(u) PROVE alone
  BY <1>1 DEF Uploads, Receive, Received, Start, Clean, Popen, WritePid
<1>2. ASSUME NEW u \in Deploy, Runner(u) PROVE alone
  BY <1>2 DEF Runner, RmMarker, Rauc, Write, OfferImage, OfferRelease, Wait, Opens, RmFile,
              WriteRc, Reboot
<1>3. ASSUME NEW u \in Deploy, Client(u) PROVE alone
  BY <1>3 DEF Client, Poll, ConfirmRequest, Follow, Seen, GiveUp
<1>4. ASSUME NEW u \in Deploy, Ask(u) PROVE alone
  BY <1>4 DEF Ask
<1>5. CASE Supervisor \/ Crash \/ PowerCut \/ PageConfirm \/ ImageHealthy \/ ImageFallsBack
  BY <1>5 DEF Supervisor, WebStarts, Revert, Crash, PowerCut, PageConfirm, ImageHealthy,
              ImageFallsBack
<1>6. CASE UNCHANGED deployVars
  BY <1>6 DEF deployVars
<1> QED
  BY <1>1, <1>2, <1>3, <1>4, <1>5, <1>6 DEF DeployNext

\* A link goes to a release on test only while pending tells so.
LEMMA KeptStep ==
  ASSUME DeployInv, KeptInv, DeployTypeOK', Faults = {}, [DeployNext]_deployVars
  PROVE KeptInv'
<1> USE DeployAssumption
     DEF DeployTypeOK, Requests, Waits, Verdicts, Active, NoRc, NoFile, KeptInv, TestInv,
         DeployInv
<1>1. ASSUME NEW u \in Deploy, Ask(u) PROVE KeptInv'
  BY <1>1 DEF Ask, Moves, install, files, links, images
<1>2. ASSUME NEW u \in Deploy, Receive(u) PROVE KeptInv'
  BY <1>2 DEF Receive, Moves, TornNow, links, images, None, Torn
<1>3. ASSUME NEW u \in Deploy, Received(u) PROVE KeptInv'
  BY <1>3 DEF Received, Moves, install, links, images
<1>4. ASSUME NEW u \in Deploy, Start(u) PROVE KeptInv'
  BY <1>4 DEF Start, Moves, install, links, images, Running
<1>5. ASSUME NEW u \in Deploy, Clean(u) PROVE KeptInv'
  BY <1>5 DEF Clean, Moves, install, links, images
<1>6. ASSUME NEW u \in Deploy, Popen(u) PROVE KeptInv'
  BY <1>6 DEF Popen, Moves, files, links, images
<1>7. ASSUME NEW u \in Deploy, WritePid(u) PROVE KeptInv'
  BY <1>7 DEF WritePid, Moves, install, links, images
<1>8. ASSUME NEW u \in Deploy, RmMarker(u) PROVE KeptInv'
  BY <1>8 DEF RmMarker, Turns, client, links, images
<1>9. ASSUME NEW u \in Deploy, Rauc(u) PROVE KeptInv'
  BY <1>9 DEF Rauc, Turns, Exits, client, files, links, images
<1>10. ASSUME NEW u \in Deploy, Write(u) PROVE KeptInv'
  BY <1>10 DEF Write, Turns, Exits, client, files, links
<1>11. ASSUME NEW u \in Deploy, OfferImage(u) PROVE KeptInv'
  BY <1>11 DEF OfferImage, Turns, Exits, HandlerEnds, client, links
<1>12. ASSUME NEW u \in Deploy, OfferRelease(u) PROVE KeptInv'
  BY <1>12 DEF OfferRelease, Turns, Exits, ServerEnds, links, images
<1>13. ASSUME NEW u \in Deploy, Wait(u) PROVE KeptInv'
  BY <1>13 DEF Wait, Turns, Exits, HandlerEnds, Judged, client, files, links, images
<1>14. ASSUME NEW u \in Deploy, Opens(u) PROVE KeptInv'
  BY <1>14 DEF Opens, Turns, Exits, client, files, links, images
<1>15. ASSUME NEW u \in Deploy, RmFile(u) PROVE KeptInv'
  BY <1>15 DEF RmFile, Turns, client, links, images
<1>16. ASSUME NEW u \in Deploy, WriteRc(u) PROVE KeptInv'
  BY <1>16 DEF WriteRc, Turns, client, links, images
<1>17. ASSUME NEW u \in Deploy, Poll(u) PROVE KeptInv'
  BY <1>17 DEF Poll, Moves, install, files, links, images
<1>18. ASSUME NEW u \in Deploy, ConfirmRequest(u) PROVE KeptInv'
  BY <1>18 DEF ConfirmRequest, Moves, Keeps, install, files, images
<1>19. ASSUME NEW u \in Deploy, Follow(u) PROVE KeptInv'
  BY <1>19 DEF Follow, Moves, install, files, links, images
<1>20. ASSUME NEW u \in Deploy, Seen(u) PROVE KeptInv'
  BY <1>20 DEF Seen, Moves, install, files, links, images
<1>21. ASSUME NEW u \in Deploy, GiveUp(u) PROVE KeptInv'
  BY <1>21 DEF GiveUp, Moves, install, files, links, images
<1>22. ASSUME WebStarts PROVE KeptInv'
  BY <1>22 DEF WebStarts, client, install, links, images, Running, Stale
<1>23. ASSUME Revert PROVE KeptInv'
  BY <1>23 DEF Revert, NotInGap, ServerEnds, install, images
<1>24. ASSUME Crash PROVE KeptInv'
  BY <1>24 DEF Crash, NotInGap, ServerEnds, install, links, images
<1>25. ASSUME PageConfirm PROVE KeptInv'
  BY <1>25 DEF PageConfirm, Keeps, client, install, files, images
<1>26. ASSUME ImageHealthy PROVE KeptInv'
  BY <1>26 DEF ImageHealthy, client, install, files, links
<1>27. ASSUME NEW u \in Deploy, Reboot(u) PROVE KeptInv'
  BY <1>27 DEF Reboot, ServerEnds, Boots
<1>28. ASSUME PowerCut PROVE KeptInv'
  BY <1>28 DEF PowerCut, ServerEnds, Boots
<1>29. ASSUME ImageFallsBack PROVE KeptInv'
  BY <1>29 DEF ImageFallsBack, ServerEnds, Boots
<1>30. CASE UNCHANGED deployVars
  BY <1>30 DEF deployVars, client, install, files, links, images
<1> QED
  BY <1>1, <1>2, <1>3, <1>4, <1>5, <1>6, <1>7, <1>8, <1>9, <1>10, <1>11, <1>12, <1>13,
    <1>14, <1>15, <1>16, <1>17, <1>18, <1>19, <1>20, <1>21, <1>22, <1>23, <1>24, <1>25,
      <1>26, <1>27, <1>28, <1>29, <1>30
       DEF DeployNext, Uploads, Runner, Client, Supervisor

LEMMA ShellStep ==
  ASSUME DeployInv, ShellInv, DeployTypeOK', Faults = {}, [DeployNext]_deployVars
  PROVE ShellInv'
<1> USE DeployAssumption
     DEF DeployTypeOK, Requests, Waits, Verdicts, Active, NoRc, NoFile, ShellInv,
         StartInv, DeployInv
<1>1. ASSUME NEW u \in Deploy, Ask(u) PROVE ShellInv'
  BY <1>1 DEF Ask, Moves, install, files, links, images
<1>2. ASSUME NEW u \in Deploy, Receive(u) PROVE ShellInv'
  BY <1>2 DEF Receive, Moves, TornNow, links, images, None, Torn
<1>3. ASSUME NEW u \in Deploy, Received(u) PROVE ShellInv'
  BY <1>3 DEF Received, Moves, install, links, images
<1>4. ASSUME NEW u \in Deploy, Start(u) PROVE ShellInv'
  BY <1>4 DEF Start, Moves, install, links, images, Running
<1>5. ASSUME NEW u \in Deploy, Clean(u) PROVE ShellInv'
  BY <1>5 DEF Clean, Moves, install, links, images
<1>6. ASSUME NEW u \in Deploy, Popen(u) PROVE ShellInv'
  BY <1>6 DEF Popen, Moves, files, links, images
<1>7. ASSUME NEW u \in Deploy, WritePid(u) PROVE ShellInv'
  BY <1>7 DEF WritePid, Moves, install, links, images
<1>8. ASSUME NEW u \in Deploy, RmMarker(u) PROVE ShellInv'
  BY <1>8 DEF RmMarker, Turns, client, links, images
<1>9. ASSUME NEW u \in Deploy, Rauc(u) PROVE ShellInv'
  BY <1>9 DEF Rauc, Turns, Exits, client, files, links, images
<1>10. ASSUME NEW u \in Deploy, Write(u) PROVE ShellInv'
  BY <1>10 DEF Write, Turns, Exits, client, files, links
<1>11. ASSUME NEW u \in Deploy, OfferImage(u) PROVE ShellInv'
  BY <1>11 DEF OfferImage, Turns, Exits, HandlerEnds, client, links
<1>12. ASSUME NEW u \in Deploy, OfferRelease(u) PROVE ShellInv'
  BY <1>12 DEF OfferRelease, Turns, Exits, ServerEnds, links, images
<1>13. ASSUME NEW u \in Deploy, Wait(u) PROVE ShellInv'
  BY <1>13 DEF Wait, Turns, Exits, HandlerEnds, Judged, client, files, links, images
<1>14. ASSUME NEW u \in Deploy, Opens(u) PROVE ShellInv'
  BY <1>14 DEF Opens, Turns, Exits, client, files, links, images
<1>15. ASSUME NEW u \in Deploy, RmFile(u) PROVE ShellInv'
  BY <1>15 DEF RmFile, Turns, client, links, images
<1>16. ASSUME NEW u \in Deploy, WriteRc(u) PROVE ShellInv'
  BY <1>16 DEF WriteRc, Turns, client, links, images
<1>17. ASSUME NEW u \in Deploy, Poll(u) PROVE ShellInv'
  BY <1>17 DEF Poll, Moves, install, files, links, images
<1>18. ASSUME NEW u \in Deploy, ConfirmRequest(u) PROVE ShellInv'
  BY <1>18 DEF ConfirmRequest, Moves, Keeps, install, files, images
<1>19. ASSUME NEW u \in Deploy, Follow(u) PROVE ShellInv'
  BY <1>19 DEF Follow, Moves, install, files, links, images
<1>20. ASSUME NEW u \in Deploy, Seen(u) PROVE ShellInv'
  BY <1>20 DEF Seen, Moves, install, files, links, images
<1>21. ASSUME NEW u \in Deploy, GiveUp(u) PROVE ShellInv'
  BY <1>21 DEF GiveUp, Moves, install, files, links, images
<1>22. ASSUME WebStarts PROVE ShellInv'
  BY <1>22 DEF WebStarts, client, install, links, images, Running, Stale
<1>23. ASSUME Revert PROVE ShellInv'
  BY <1>23 DEF Revert, NotInGap, ServerEnds, install, images
<1>24. ASSUME Crash PROVE ShellInv'
  BY <1>24 DEF Crash, NotInGap, ServerEnds, install, links, images
<1>25. ASSUME PageConfirm PROVE ShellInv'
  BY <1>25 DEF PageConfirm, Keeps, client, install, files, images
<1>26. ASSUME ImageHealthy PROVE ShellInv'
  BY <1>26 DEF ImageHealthy, client, install, files, links
<1>27. ASSUME NEW u \in Deploy, Reboot(u) PROVE ShellInv'
  BY <1>27 DEF Reboot, ServerEnds, Boots
<1>28. ASSUME PowerCut PROVE ShellInv'
  BY <1>28 DEF PowerCut, ServerEnds, Boots
<1>29. ASSUME ImageFallsBack PROVE ShellInv'
  BY <1>29 DEF ImageFallsBack, ServerEnds, Boots
<1>30. CASE UNCHANGED deployVars
  BY <1>30 DEF deployVars, client, install, files, links, images
<1> QED
  BY <1>1, <1>2, <1>3, <1>4, <1>5, <1>6, <1>7, <1>8, <1>9, <1>10, <1>11, <1>12, <1>13,
    <1>14, <1>15, <1>16, <1>17, <1>18, <1>19, <1>20, <1>21, <1>22, <1>23, <1>24, <1>25,
      <1>26, <1>27, <1>28, <1>29, <1>30
       DEF DeployNext, Uploads, Runner, Client, Supervisor

\* A client that asks is refused, or nobody else has anything under way.
LEMMA BusyStep ==
  ASSUME VerdictInv, alone, alone', DeployTypeOK', Faults = {}, [DeployNext]_deployVars
  PROVE OneBusy'
<1> USE DeployAssumption
     DEF DeployTypeOK, Requests, Waits, Verdicts, Active, NoRc, NoFile, OneBusy, Busy,
         ShellInv, StartInv, DeployInv, VerdictInv
<1>1. ASSUME NEW u \in Deploy, Ask(u) PROVE OneBusy'
  <2>1. \A v \in Deploy : ~Open(v)
    BY <1>1 DEF Ask
  <2>2. \A v \in Deploy : Busy(v) => runner[v] \in Work
    BY <2>1 DEF Open, Work
  <2>3. \A v \in Deploy : runner[v] \in Work => Running
    BY <2>1 DEF Open, Running, Work, None
  <2>4. \A v \in Deploy : runner'[v] = runner[v] /\ (v # u => at'[v] = at[v])
    BY <1>1 DEF Ask, Moves, install
  <2>5. CASE Running
    <3>1. at'[u] = "refused" /\ runner[u] = "none"
      BY <1>1, <2>5 DEF Ask, Moves
    <3>2. \A v \in Deploy : Busy(v)' => Busy(v)
      BY <2>4, <3>1
    <3> QED
      BY <3>2
  <2>6. CASE ~Running
    <3>1. \A v \in Deploy : ~Busy(v)
      BY <2>2, <2>3, <2>6
    <3>2. \A v \in Deploy : Busy(v)' => v = u
      BY <2>4, <3>1
    <3> QED
      BY <3>2
  <2> QED
    BY <2>5, <2>6
<1>2. ASSUME NEW u \in Deploy, Receive(u) PROVE OneBusy'
  BY <1>2 DEF Receive, Moves, TornNow, links, images, None, Torn
<1>3. ASSUME NEW u \in Deploy, Received(u) PROVE OneBusy'
  BY <1>3 DEF Received, Moves, install, links, images
<1>4. ASSUME NEW u \in Deploy, Start(u) PROVE OneBusy'
  BY <1>4 DEF Start, Moves, install, links, images, Running
<1>5. ASSUME NEW u \in Deploy, Clean(u) PROVE OneBusy'
  BY <1>5 DEF Clean, Moves, install, links, images
<1>6. ASSUME NEW u \in Deploy, Popen(u) PROVE OneBusy'
  BY <1>6 DEF Popen, Moves, files, links, images
<1>7. ASSUME NEW u \in Deploy, WritePid(u) PROVE OneBusy'
  BY <1>7 DEF WritePid, Moves, install, links, images
<1>8. ASSUME NEW u \in Deploy, RmMarker(u) PROVE OneBusy'
  BY <1>8 DEF RmMarker, Turns, client, links, images
<1>9. ASSUME NEW u \in Deploy, Rauc(u) PROVE OneBusy'
  BY <1>9 DEF Rauc, Turns, Exits, client, files, links, images
<1>10. ASSUME NEW u \in Deploy, Write(u) PROVE OneBusy'
  BY <1>10 DEF Write, Turns, Exits, client, files, links
<1>11. ASSUME NEW u \in Deploy, OfferImage(u) PROVE OneBusy'
  BY <1>11 DEF OfferImage, Turns, Exits, HandlerEnds, client, links
<1>12. ASSUME NEW u \in Deploy, OfferRelease(u) PROVE OneBusy'
  BY <1>12 DEF OfferRelease, Turns, Exits, ServerEnds, links, images
<1>13. ASSUME NEW u \in Deploy, Wait(u) PROVE OneBusy'
  BY <1>13 DEF Wait, Turns, Exits, HandlerEnds, Judged, client, files, links, images
<1>14. ASSUME NEW u \in Deploy, Opens(u) PROVE OneBusy'
  BY <1>14 DEF Opens, Turns, Exits, client, files, links, images
<1>15. ASSUME NEW u \in Deploy, RmFile(u) PROVE OneBusy'
  BY <1>15 DEF RmFile, Turns, client, links, images
<1>16. ASSUME NEW u \in Deploy, WriteRc(u) PROVE OneBusy'
  BY <1>16 DEF WriteRc, Turns, client, links, images
<1>17. ASSUME NEW u \in Deploy, Poll(u) PROVE OneBusy'
  BY <1>17 DEF Poll, Moves, install, files, links, images
<1>18. ASSUME NEW u \in Deploy, ConfirmRequest(u) PROVE OneBusy'
  BY <1>18 DEF ConfirmRequest, Moves, Keeps, install, files, images
<1>19. ASSUME NEW u \in Deploy, Follow(u) PROVE OneBusy'
  BY <1>19 DEF Follow, Moves, install, files, links, images
<1>20. ASSUME NEW u \in Deploy, Seen(u) PROVE OneBusy'
  BY <1>20 DEF Seen, Moves, install, files, links, images
<1>21. ASSUME NEW u \in Deploy, GiveUp(u) PROVE OneBusy'
  BY <1>21 DEF GiveUp, Moves, install, files, links, images
<1>22. ASSUME WebStarts PROVE OneBusy'
  BY <1>22 DEF WebStarts, client, install, links, images, Running, Stale
<1>23. ASSUME Revert PROVE OneBusy'
  BY <1>23 DEF Revert, NotInGap, ServerEnds, install, images
<1>24. ASSUME Crash PROVE OneBusy'
  BY <1>24 DEF Crash, NotInGap, ServerEnds, install, links, images
<1>25. ASSUME PageConfirm PROVE OneBusy'
  BY <1>25 DEF PageConfirm, Keeps, client, install, files, images
<1>26. ASSUME ImageHealthy PROVE OneBusy'
  BY <1>26 DEF ImageHealthy, client, install, files, links
<1>27. ASSUME NEW u \in Deploy, Reboot(u) PROVE OneBusy'
  BY <1>27 DEF Reboot, ServerEnds, Boots
<1>28. ASSUME PowerCut PROVE OneBusy'
  BY <1>28 DEF PowerCut, ServerEnds, Boots
<1>29. ASSUME ImageFallsBack PROVE OneBusy'
  BY <1>29 DEF ImageFallsBack, ServerEnds, Boots
<1>30. CASE UNCHANGED deployVars
  BY <1>30 DEF deployVars, client, install, files, links, images
<1> QED
  BY <1>1, <1>2, <1>3, <1>4, <1>5, <1>6, <1>7, <1>8, <1>9, <1>10, <1>11, <1>12, <1>13,
    <1>14, <1>15, <1>16, <1>17, <1>18, <1>19, <1>20, <1>21, <1>22, <1>23, <1>24, <1>25,
      <1>26, <1>27, <1>28, <1>29, <1>30
       DEF DeployNext, Uploads, Runner, Client, Supervisor

\* A client that asks during a test is refused, or the deployment on test is still open.
LEMMA OwnStep ==
  ASSUME VerdictInv, alone, alone', DeployTypeOK', Faults = {}, [DeployNext]_deployVars
  PROVE OwnTest'
<1> USE DeployAssumption
     DEF DeployTypeOK, Requests, Waits, Verdicts, Active, NoRc, NoFile, OneBusy, Busy,
         OwnTest, TestInv, ShellInv, StartInv, DeployInv, VerdictInv
<1>1. ASSUME NEW u \in Deploy, Ask(u) PROVE OwnTest'
  <2>1. \A v \in Deploy : ~Open(v)
    BY <1>1 DEF Ask
  <2>2. ASSUME pending # None PROVE Running
    <3>1. PICK v \in Deploy : TestOf(v)
      BY <2>2
    <3>2. runner[v] \in {"wait", "open", "rm_file", "rc"}
      BY <2>1, <2>2, <3>1 DEF Open, TestOf
    <3> QED
      BY <2>1, <3>2 DEF Open, Running, Work, None
  <2>3. /\ runner' = runner /\ val' = val /\ bundle' = bundle /\ pending' = pending
        /\ \A v \in Deploy \ {u} : at'[v] = at[v]
    BY <1>1 DEF Ask, Moves, install, links
  <2>4. pending # None => at'[u] = "refused"
    BY <1>1, <2>2 DEF Ask, Moves
  <2>5. \A v \in Deploy : pending # None /\ Busy(v)' => Busy(v)
    BY <2>3, <2>4
  <2> QED
    BY <2>3, <2>5 DEF TestOf
<1> USE DEF TestOf
<1>2. ASSUME NEW u \in Deploy, Receive(u) PROVE OwnTest'
  BY <1>2 DEF Receive, Moves, TornNow, links, images, None, Torn
<1>3. ASSUME NEW u \in Deploy, Received(u) PROVE OwnTest'
  BY <1>3 DEF Received, Moves, install, links, images
<1>4. ASSUME NEW u \in Deploy, Start(u) PROVE OwnTest'
  BY <1>4 DEF Start, Moves, install, links, images, Running
<1>5. ASSUME NEW u \in Deploy, Clean(u) PROVE OwnTest'
  BY <1>5 DEF Clean, Moves, install, links, images
<1>6. ASSUME NEW u \in Deploy, Popen(u) PROVE OwnTest'
  BY <1>6 DEF Popen, Moves, files, links, images
<1>7. ASSUME NEW u \in Deploy, WritePid(u) PROVE OwnTest'
  BY <1>7 DEF WritePid, Moves, install, links, images
<1>8. ASSUME NEW u \in Deploy, RmMarker(u) PROVE OwnTest'
  BY <1>8 DEF RmMarker, Turns, client, links, images
<1>9. ASSUME NEW u \in Deploy, Rauc(u) PROVE OwnTest'
  BY <1>9 DEF Rauc, Turns, Exits, client, files, links, images
<1>10. ASSUME NEW u \in Deploy, Write(u) PROVE OwnTest'
  BY <1>10 DEF Write, Turns, Exits, client, files, links
<1>11. ASSUME NEW u \in Deploy, OfferImage(u) PROVE OwnTest'
  BY <1>11 DEF OfferImage, Turns, Exits, HandlerEnds, client, links
<1>12. ASSUME NEW u \in Deploy, OfferRelease(u) PROVE OwnTest'
  BY <1>12 DEF OfferRelease, Turns, Exits, ServerEnds, links, images
<1>13. ASSUME NEW u \in Deploy, Wait(u) PROVE OwnTest'
  BY <1>13 DEF Wait, Turns, Exits, HandlerEnds, Judged, client, files, links, images
<1>14. ASSUME NEW u \in Deploy, Opens(u) PROVE OwnTest'
  BY <1>14 DEF Opens, Turns, Exits, client, files, links, images
<1>15. ASSUME NEW u \in Deploy, RmFile(u) PROVE OwnTest'
  BY <1>15 DEF RmFile, Turns, client, links, images
<1>16. ASSUME NEW u \in Deploy, WriteRc(u) PROVE OwnTest'
  BY <1>16 DEF WriteRc, Turns, client, links, images
<1>17. ASSUME NEW u \in Deploy, Poll(u) PROVE OwnTest'
  BY <1>17 DEF Poll, Moves, install, files, links, images
<1>18. ASSUME NEW u \in Deploy, ConfirmRequest(u) PROVE OwnTest'
  BY <1>18 DEF ConfirmRequest, Moves, Keeps, install, files, images
<1>19. ASSUME NEW u \in Deploy, Follow(u) PROVE OwnTest'
  BY <1>19 DEF Follow, Moves, install, files, links, images
<1>20. ASSUME NEW u \in Deploy, Seen(u) PROVE OwnTest'
  BY <1>20 DEF Seen, Moves, install, files, links, images
<1>21. ASSUME NEW u \in Deploy, GiveUp(u) PROVE OwnTest'
  BY <1>21 DEF GiveUp, Moves, install, files, links, images
<1>22. ASSUME WebStarts PROVE OwnTest'
  BY <1>22 DEF WebStarts, client, install, links, images, Running, Stale
<1>23. ASSUME Revert PROVE OwnTest'
  BY <1>23 DEF Revert, NotInGap, ServerEnds, install, images
<1>24. ASSUME Crash PROVE OwnTest'
  BY <1>24 DEF Crash, NotInGap, ServerEnds, install, links, images
<1>25. ASSUME PageConfirm PROVE OwnTest'
  BY <1>25 DEF PageConfirm, Keeps, client, install, files, images
<1>26. ASSUME ImageHealthy PROVE OwnTest'
  BY <1>26 DEF ImageHealthy, client, install, files, links
<1>27. ASSUME NEW u \in Deploy, Reboot(u) PROVE OwnTest'
  BY <1>27 DEF Reboot, ServerEnds, Boots
<1>28. ASSUME PowerCut PROVE OwnTest'
  BY <1>28 DEF PowerCut, ServerEnds, Boots
<1>29. ASSUME ImageFallsBack PROVE OwnTest'
  BY <1>29 DEF ImageFallsBack, ServerEnds, Boots
<1>30. CASE UNCHANGED deployVars
  BY <1>30 DEF deployVars, client, install, files, links, images
<1> QED
  BY <1>1, <1>2, <1>3, <1>4, <1>5, <1>6, <1>7, <1>8, <1>9, <1>10, <1>11, <1>12, <1>13,
    <1>14, <1>15, <1>16, <1>17, <1>18, <1>19, <1>20, <1>21, <1>22, <1>23, <1>24, <1>25,
      <1>26, <1>27, <1>28, <1>29, <1>30
       DEF DeployNext, Uploads, Runner, Client, Supervisor

\* No other client writes over what this one sent.
LEMMA SentStep ==
  ASSUME VerdictInv, alone, alone', DeployTypeOK', Faults = {}, [DeployNext]_deployVars
  PROVE SentInv'
<1> USE DeployAssumption
     DEF DeployTypeOK, Requests, Waits, Verdicts, Active, NoRc, NoFile, OneBusy, Busy,
         SentInv, ShellInv, DeployInv, VerdictInv
<1>1. ASSUME NEW u \in Deploy, Ask(u) PROVE SentInv'
  BY <1>1 DEF Ask, Moves, install, files, links, images
<1>2. ASSUME NEW u \in Deploy, Receive(u) PROVE SentInv'
  BY <1>2 DEF Receive, Moves, TornNow, links, images, None, Torn
<1>3. ASSUME NEW u \in Deploy, Received(u) PROVE SentInv'
  BY <1>3 DEF Received, Moves, install, links, images
<1>4. ASSUME NEW u \in Deploy, Start(u) PROVE SentInv'
  BY <1>4 DEF Start, Moves, install, links, images, Running
<1>5. ASSUME NEW u \in Deploy, Clean(u) PROVE SentInv'
  BY <1>5 DEF Clean, Moves, install, links, images
<1>6. ASSUME NEW u \in Deploy, Popen(u) PROVE SentInv'
  BY <1>6 DEF Popen, Moves, files, links, images
<1>7. ASSUME NEW u \in Deploy, WritePid(u) PROVE SentInv'
  BY <1>7 DEF WritePid, Moves, install, links, images
<1>8. ASSUME NEW u \in Deploy, RmMarker(u) PROVE SentInv'
  BY <1>8 DEF RmMarker, Turns, client, links, images
<1>9. ASSUME NEW u \in Deploy, Rauc(u) PROVE SentInv'
  <2>1. file.by \subseteq {u}
    BY <1>9 DEF Rauc
  <2>2. \A b \in Deploy : file = [by |-> {b}, whole |-> TRUE] => b = u
    BY <2>1
  <2>3. runner'[u] = "write" => bundle'[u] = u
    BY <1>9, <2>2 DEF Rauc, Exits, Turns
  <2> QED
    BY <1>9, <2>3 DEF Rauc, Exits, Turns, client, files
<1>10. ASSUME NEW u \in Deploy, Write(u) PROVE SentInv'
  BY <1>10 DEF Write, Turns, Exits, client, files, links
<1>11. ASSUME NEW u \in Deploy, OfferImage(u) PROVE SentInv'
  BY <1>11 DEF OfferImage, Turns, Exits, HandlerEnds, client, links
<1>12. ASSUME NEW u \in Deploy, OfferRelease(u) PROVE SentInv'
  BY <1>12 DEF OfferRelease, Turns, Exits, ServerEnds, links, images
<1>13. ASSUME NEW u \in Deploy, Wait(u) PROVE SentInv'
  BY <1>13 DEF Wait, Turns, Exits, HandlerEnds, Judged, client, files, links, images
<1>14. ASSUME NEW u \in Deploy, Opens(u) PROVE SentInv'
  BY <1>14 DEF Opens, Turns, Exits, client, files, links, images
<1>15. ASSUME NEW u \in Deploy, RmFile(u) PROVE SentInv'
  BY <1>15 DEF RmFile, Turns, client, links, images
<1>16. ASSUME NEW u \in Deploy, WriteRc(u) PROVE SentInv'
  BY <1>16 DEF WriteRc, Turns, client, links, images
<1>17. ASSUME NEW u \in Deploy, Poll(u) PROVE SentInv'
  BY <1>17 DEF Poll, Moves, install, files, links, images
<1>18. ASSUME NEW u \in Deploy, ConfirmRequest(u) PROVE SentInv'
  BY <1>18 DEF ConfirmRequest, Moves, Keeps, install, files, images
<1>19. ASSUME NEW u \in Deploy, Follow(u) PROVE SentInv'
  BY <1>19 DEF Follow, Moves, install, files, links, images
<1>20. ASSUME NEW u \in Deploy, Seen(u) PROVE SentInv'
  BY <1>20 DEF Seen, Moves, install, files, links, images
<1>21. ASSUME NEW u \in Deploy, GiveUp(u) PROVE SentInv'
  BY <1>21 DEF GiveUp, Moves, install, files, links, images
<1>22. ASSUME WebStarts PROVE SentInv'
  BY <1>22 DEF WebStarts, client, install, links, images, Running, Stale
<1>23. ASSUME Revert PROVE SentInv'
  BY <1>23 DEF Revert, NotInGap, ServerEnds, install, images
<1>24. ASSUME Crash PROVE SentInv'
  BY <1>24 DEF Crash, NotInGap, ServerEnds, install, links, images
<1>25. ASSUME PageConfirm PROVE SentInv'
  BY <1>25 DEF PageConfirm, Keeps, client, install, files, images
<1>26. ASSUME ImageHealthy PROVE SentInv'
  BY <1>26 DEF ImageHealthy, client, install, files, links
<1>27. ASSUME NEW u \in Deploy, Reboot(u) PROVE SentInv'
  BY <1>27 DEF Reboot, ServerEnds, Boots
<1>28. ASSUME PowerCut PROVE SentInv'
  BY <1>28 DEF PowerCut, ServerEnds, Boots
<1>29. ASSUME ImageFallsBack PROVE SentInv'
  BY <1>29 DEF ImageFallsBack, ServerEnds, Boots
<1>30. CASE UNCHANGED deployVars
  BY <1>30 DEF deployVars, client, install, files, links, images
<1> QED
  BY <1>1, <1>2, <1>3, <1>4, <1>5, <1>6, <1>7, <1>8, <1>9, <1>10, <1>11, <1>12, <1>13,
    <1>14, <1>15, <1>16, <1>17, <1>18, <1>19, <1>20, <1>21, <1>22, <1>23, <1>24, <1>25,
      <1>26, <1>27, <1>28, <1>29, <1>30
       DEF DeployNext, Uploads, Runner, Client, Supervisor

LEMMA RunnerStep ==
  ASSUME VerdictInv, alone, alone', DeployTypeOK', Faults = {}, [DeployNext]_deployVars
  PROVE RunnerInv'
<1> USE DeployAssumption
     DEF DeployTypeOK, Requests, Waits, Verdicts, Active, NoRc, NoFile, OneBusy, Busy,
         SentInv, RunnerInv, ShellInv, KeptInv, DeployInv, VerdictInv
<1>1. ASSUME NEW u \in Deploy, Ask(u) PROVE RunnerInv'
  BY <1>1 DEF Ask, Moves, install, files, links, images
<1>2. ASSUME NEW u \in Deploy, Receive(u) PROVE RunnerInv'
  BY <1>2 DEF Receive, Moves, TornNow, links, images, None, Torn
<1>3. ASSUME NEW u \in Deploy, Received(u) PROVE RunnerInv'
  BY <1>3 DEF Received, Moves, install, links, images
<1>4. ASSUME NEW u \in Deploy, Start(u) PROVE RunnerInv'
  BY <1>4 DEF Start, Moves, install, links, images, Running
<1>5. ASSUME NEW u \in Deploy, Clean(u) PROVE RunnerInv'
  BY <1>5 DEF Clean, Moves, install, links, images
<1>6. ASSUME NEW u \in Deploy, Popen(u) PROVE RunnerInv'
  BY <1>6 DEF Popen, Moves, files, links, images
<1>7. ASSUME NEW u \in Deploy, WritePid(u) PROVE RunnerInv'
  BY <1>7 DEF WritePid, Moves, install, links, images
<1>8. ASSUME NEW u \in Deploy, RmMarker(u) PROVE RunnerInv'
  BY <1>8 DEF RmMarker, Turns, client, links, images
<1>9. ASSUME NEW u \in Deploy, Rauc(u) PROVE RunnerInv'
  BY <1>9 DEF Rauc, Turns, Exits, client, files, links, images
<1>10. ASSUME NEW u \in Deploy, Write(u) PROVE RunnerInv'
  BY <1>10 DEF Write, Turns, Exits, client, files, links
<1>11. ASSUME NEW u \in Deploy, OfferImage(u) PROVE RunnerInv'
  <2>1. bundle[u] = u /\ marker = FALSE /\ slot = before[u].slot
    BY <1>11 DEF OfferImage
  <2>2. \A v \in Deploy \ {u} : ~Busy(v)
    BY <1>11 DEF OfferImage
  <2>3. other = u
    BY <1>11, <2>1 DEF OfferImage
  <2> QED
    <3>1. /\ runner' = [runner EXCEPT ![u] = "rm_file"]
          /\ at' = at /\ before' = before /\ bundle' = bundle /\ other' = other /\ slot' = slot
          /\ kept' = kept /\ primary' = u
      BY <1>11, <2>1 DEF OfferImage, HandlerEnds, Exits, Turns, client
    <3>2. \/ val'[u] = 0 /\ marker'
          \/ val'[u] = 1 /\ ~marker'
      <4>1. marker' = (val'[u] = 0)
        BY <1>11, <2>1 DEF OfferImage
      <4>2. val'[u] = 0 \/ val'[u] = 1
        BY <1>11 DEF OfferImage, HandlerEnds, Exits
      <4>3. CASE val'[u] = 0
        BY <4>1, <4>3 DEF OfferImage
      <4>4. CASE val'[u] = 1
        <5>1. ~(val'[u] = 0)
          BY <4>4
        <5> QED
          BY <4>1, <4>4, <5>1
      <4> QED
        BY <4>2, <4>3, <4>4
    <3>3. \A v \in Deploy \ {u} : runner'[v] \notin Active /\ at'[v] \notin Requests
      BY <2>2, <3>1
    <3>4. runner'[u] = "rm_file"
      BY <3>1
    <3> QED
      BY <2>1, <2>3, <3>1, <3>2, <3>3, <3>4
<1>12. ASSUME NEW u \in Deploy, OfferRelease(u) PROVE RunnerInv'
  BY <1>12 DEF OfferRelease, Turns, Exits, ServerEnds, links, images
<1>13. ASSUME NEW u \in Deploy, Wait(u) PROVE RunnerInv'
  BY <1>13 DEF Wait, Turns, Exits, HandlerEnds, Judged, client, files, links, images
<1>14. ASSUME NEW u \in Deploy, Opens(u) PROVE RunnerInv'
  BY <1>14 DEF Opens, Turns, Exits, client, files, links, images
<1>15. ASSUME NEW u \in Deploy, RmFile(u) PROVE RunnerInv'
  BY <1>15 DEF RmFile, Turns, client, links, images
<1>16. ASSUME NEW u \in Deploy, WriteRc(u) PROVE RunnerInv'
  BY <1>16 DEF WriteRc, Turns, client, links, images
<1>17. ASSUME NEW u \in Deploy, Poll(u) PROVE RunnerInv'
  BY <1>17 DEF Poll, Moves, install, files, links, images
<1>18. ASSUME NEW u \in Deploy, ConfirmRequest(u) PROVE RunnerInv'
  BY <1>18 DEF ConfirmRequest, Moves, Keeps, install, files, images
<1>19. ASSUME NEW u \in Deploy, Follow(u) PROVE RunnerInv'
  BY <1>19 DEF Follow, Moves, install, files, links, images
<1>20. ASSUME NEW u \in Deploy, Seen(u) PROVE RunnerInv'
  BY <1>20 DEF Seen, Moves, install, files, links, images
<1>21. ASSUME NEW u \in Deploy, GiveUp(u) PROVE RunnerInv'
  BY <1>21 DEF GiveUp, Moves, install, files, links, images
<1>22. ASSUME WebStarts PROVE RunnerInv'
  BY <1>22 DEF WebStarts, client, install, links, images, Running, Stale
<1>23. ASSUME Revert PROVE RunnerInv'
  BY <1>23 DEF Revert, NotInGap, ServerEnds, install, images
<1>24. ASSUME Crash PROVE RunnerInv'
  BY <1>24 DEF Crash, NotInGap, ServerEnds, install, links, images
<1>25. ASSUME PageConfirm PROVE RunnerInv'
  BY <1>25 DEF PageConfirm, Keeps, client, install, files, images
<1>26. ASSUME ImageHealthy PROVE RunnerInv'
  BY <1>26 DEF ImageHealthy, client, install, files, links
<1>27. ASSUME NEW u \in Deploy, Reboot(u) PROVE RunnerInv'
  BY <1>27 DEF Reboot, ServerEnds, Boots
<1>28. ASSUME PowerCut PROVE RunnerInv'
  BY <1>28 DEF PowerCut, ServerEnds, Boots
<1>29. ASSUME ImageFallsBack PROVE RunnerInv'
  BY <1>29 DEF ImageFallsBack, ServerEnds, Boots
<1>30. CASE UNCHANGED deployVars
  BY <1>30 DEF deployVars, client, install, files, links, images
<1> QED
  BY <1>1, <1>2, <1>3, <1>4, <1>5, <1>6, <1>7, <1>8, <1>9, <1>10, <1>11, <1>12, <1>13,
    <1>14, <1>15, <1>16, <1>17, <1>18, <1>19, <1>20, <1>21, <1>22, <1>23, <1>24, <1>25,
      <1>26, <1>27, <1>28, <1>29, <1>30
       DEF DeployNext, Uploads, Runner, Client, Supervisor

\* rc and marker are the client's own installation's.
LEMMA ClientStep ==
  ASSUME VerdictInv, alone, alone', DeployTypeOK', Faults = {}, [DeployNext]_deployVars
  PROVE ClientInv'
<1> USE DeployAssumption
     DEF DeployTypeOK, Requests, Waits, Verdicts, Active, NoRc, NoFile, OneBusy, Busy,
         RunnerInv, ClientInv, StartInv, ShellInv, KeptInv, TestInv, OwnTest, TestOf,
         DeployInv, VerdictInv
<1>1. ASSUME NEW u \in Deploy, Ask(u) PROVE ClientInv'
  BY <1>1 DEF Ask, Moves, install, files, links, images
<1>2. ASSUME NEW u \in Deploy, Receive(u) PROVE ClientInv'
  BY <1>2 DEF Receive, Moves, TornNow, links, images, None, Torn
<1>3. ASSUME NEW u \in Deploy, Received(u) PROVE ClientInv'
  BY <1>3 DEF Received, Moves, install, links, images
<1>4. ASSUME NEW u \in Deploy, Start(u) PROVE ClientInv'
  BY <1>4 DEF Start, Moves, install, links, images, Running
<1>5. ASSUME NEW u \in Deploy, Clean(u) PROVE ClientInv'
  BY <1>5 DEF Clean, Moves, install, links, images
<1>6. ASSUME NEW u \in Deploy, Popen(u) PROVE ClientInv'
  BY <1>6 DEF Popen, Moves, files, links, images
<1>7. ASSUME NEW u \in Deploy, WritePid(u) PROVE ClientInv'
  BY <1>7 DEF WritePid, Moves, install, links, images
<1>8. ASSUME NEW u \in Deploy, RmMarker(u) PROVE ClientInv'
  BY <1>8 DEF RmMarker, Turns, client, links, images
<1>9. ASSUME NEW u \in Deploy, Rauc(u) PROVE ClientInv'
  BY <1>9 DEF Rauc, Turns, Exits, client, files, links, images
<1>10. ASSUME NEW u \in Deploy, Write(u) PROVE ClientInv'
  BY <1>10 DEF Write, Turns, Exits, client, files, links
<1>11. ASSUME NEW u \in Deploy, OfferImage(u) PROVE ClientInv'
  BY <1>11 DEF OfferImage, Turns, Exits, HandlerEnds, client, links
<1>12. ASSUME NEW u \in Deploy, OfferRelease(u) PROVE ClientInv'
  BY <1>12 DEF OfferRelease, Turns, Exits, ServerEnds, links, images
<1>13. ASSUME NEW u \in Deploy, Wait(u) PROVE ClientInv'
  BY <1>13 DEF Wait, Turns, Exits, HandlerEnds, Judged, client, files, links, images
<1>14. ASSUME NEW u \in Deploy, Opens(u) PROVE ClientInv'
  BY <1>14 DEF Opens, Turns, Exits, client, files, links, images
<1>15. ASSUME NEW u \in Deploy, RmFile(u) PROVE ClientInv'
  BY <1>15 DEF RmFile, Turns, client, links, images
<1>16. ASSUME NEW u \in Deploy, WriteRc(u) PROVE ClientInv'
  BY <1>16 DEF WriteRc, Turns, client, links, images
<1>17. ASSUME NEW u \in Deploy, Poll(u) PROVE ClientInv'
  BY <1>17 DEF Poll, Moves, install, files, links, images
<1>18. ASSUME NEW u \in Deploy, ConfirmRequest(u) PROVE ClientInv'
  BY <1>18 DEF ConfirmRequest, Moves, Keeps, install, files, images
<1>19. ASSUME NEW u \in Deploy, Follow(u) PROVE ClientInv'
  BY <1>19 DEF Follow, Moves, install, files, links, images
<1>20. ASSUME NEW u \in Deploy, Seen(u) PROVE ClientInv'
  BY <1>20 DEF Seen, Moves, install, files, links, images
<1>21. ASSUME NEW u \in Deploy, GiveUp(u) PROVE ClientInv'
  BY <1>21 DEF GiveUp, Moves, install, files, links, images
<1>22. ASSUME WebStarts PROVE ClientInv'
  BY <1>22 DEF WebStarts, client, install, links, images, Running, Stale
<1>23. ASSUME Revert PROVE ClientInv'
  BY <1>23 DEF Revert, NotInGap, ServerEnds, install, images
<1>24. ASSUME Crash PROVE ClientInv'
  BY <1>24 DEF Crash, NotInGap, ServerEnds, install, links, images
<1>25. ASSUME PageConfirm PROVE ClientInv'
  BY <1>25 DEF PageConfirm, Keeps, client, install, files, images
<1>26. ASSUME ImageHealthy PROVE ClientInv'
  BY <1>26 DEF ImageHealthy, client, install, files, links
<1>27. ASSUME NEW u \in Deploy, Reboot(u) PROVE ClientInv'
  BY <1>27 DEF Reboot, ServerEnds, Boots
<1>28. ASSUME PowerCut PROVE ClientInv'
  BY <1>28 DEF PowerCut, ServerEnds, Boots
<1>29. ASSUME ImageFallsBack PROVE ClientInv'
  BY <1>29 DEF ImageFallsBack, ServerEnds, Boots
<1>30. CASE UNCHANGED deployVars
  BY <1>30 DEF deployVars, client, install, files, links, images
<1> QED
  BY <1>1, <1>2, <1>3, <1>4, <1>5, <1>6, <1>7, <1>8, <1>9, <1>10, <1>11, <1>12, <1>13,
    <1>14, <1>15, <1>16, <1>17, <1>18, <1>19, <1>20, <1>21, <1>22, <1>23, <1>24, <1>25,
      <1>26, <1>27, <1>28, <1>29, <1>30
       DEF DeployNext, Uploads, Runner, Client, Supervisor

\* deploy_bundle.py tells of a bundle installed or confirmed only what was sent, read
\* whole and confirmed on the board, and of a reboot only after it, as long as no
\* deployment begins before the one before has ended.
THEOREM ToldTruly == ASSUME Faults = {} PROVE DeploySpec => []VerdictTrue
<1>1. DeployInit => VerdictInv
  <2>1. DeployInit => DeployInv
    BY DeployBegins
  <2>2. DeployInit => KeptInv /\ ShellInv
    BY DEF DeployInit, KeptInv, ShellInv, Waits
  <2>3. DeployInit => OneBusy /\ OwnTest /\ SentInv /\ RunnerInv /\ ClientInv
    BY DEF DeployInit, OneBusy, OwnTest, Busy, SentInv, RunnerInv, ClientInv, Requests, Waits,
           Verdicts, Active
  <2> QED
    BY <2>1, <2>2, <2>3 DEF VerdictInv
<1>2. VerdictInv /\ [DeployNext]_deployVars => VerdictInv'
  <2> SUFFICES ASSUME VerdictInv, [DeployNext]_deployVars PROVE VerdictInv'
    OBVIOUS
  <2>1. DeployInv' /\ KeptInv' /\ ShellInv'
    BY DeployTypes, StartStep, TestStep, KeptStep, ShellStep DEF VerdictInv, DeployInv
  <2>2. alone' => alone
    BY AloneEnds
  <2>3. alone' => OneBusy' /\ OwnTest' /\ SentInv' /\ RunnerInv' /\ ClientInv'
    BY <2>1, <2>2, BusyStep, OwnStep, SentStep, RunnerStep, ClientStep DEF DeployInv
  <2> QED
    BY <2>1, <2>3 DEF VerdictInv
<1>3. VerdictInv => VerdictTrue
  BY DEF VerdictInv, ClientInv, VerdictTrue, Verdicts
<1> QED
  BY <1>1, <1>2, <1>3, PTL DEF DeploySpec

===============================================================================
