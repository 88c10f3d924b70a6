------------------------------- MODULE BoardLink -------------------------------
(***************************************************************************)
(* The web server's side of the registers: Board of fpga_web.py, whose     *)
(* sampler reads them 20 times a second for every client, the event        *)
(* streams that wait for its states, and the requests for the displays,    *)
(* which read the control register, change a part of it and write it       *)
(* back.  All share one FpgaClient; the access process may be paused, and  *)
(* both processes may end and are started again.                           *)
(***************************************************************************)
EXTENDS LineClient

CONSTANTS
  Page,      \* threads with a request for the displays
  Stream,    \* clients of /api/events
  Shades,    \* values of "blank"
  Nothing,   \* no state yet, no value
  MaxAsks    \* bound: requests for the displays

Sampler == "sampler"

ASSUME BoardAssumption == Shades # {} /\ MaxAsks \in Nat
ASSUME ThreadAssumption == Thread = Page \cup {Sampler} /\ Sampler \notin Page

Control == [raw : BOOLEAN, blank : Shades]

ASSUME RequestAssumption ==
  Request = [op : {"read_many", "read"}] \cup [op : {"write"}, value : Control]
            \cup [op : {"digits"}]

\* What a request changes: digits or raw segments, or the blanking.
Change == [part : {"raw"}, to : BOOLEAN] \cup [part : {"blank"}, to : Shades]

VARIABLES
  control,   \* register 22: [raw, blank]
  paused,    \* register traffic is refused: a pause, or no core
  state,     \* Board._state: [ok, control], or Nothing
  sampler,   \* where the sampler is
  shown,     \* what each stream's page shows
  page,      \* each page's request: [at, change, read]
  asks,      \* requests so far
  made       \* history: what the last request has made of each part; Nothing after
             \* a write that came late

fabric == <<control, paused>>
board == <<state, sampler, shown>>
pages == <<page, asks, made>>
vars == <<link, fabric, board, pages>>

\* A sampled state: of its registers, the displays' control.
Sample == [ok : BOOLEAN, control : Control]

Places == {"idle", "asks_read", "read", "asks_digits", "digits", "asks_write", "write"}

TypeOK ==
  /\ LinkTypeOK
  /\ control \in Control /\ paused \in BOOLEAN
  /\ state = Nothing \/ state \in Sample
  /\ sampler \in {"sleep", "asked"}
  /\ \A s \in Stream : shown[s] = Nothing \/ shown[s] \in Sample
  /\ page \in [Page -> [at : Places, change : Change, read : Control]]
  /\ asks \in 0..MaxAsks
  /\ DOMAIN made = {"raw", "blank"}

SomeShade == CHOOSE b \in Shades : TRUE
Dark == [raw |-> FALSE, blank |-> SomeShade]
Idle == [at |-> "idle", change |-> [part |-> "raw", to |-> FALSE], read |-> Dark]

Init ==
  /\ LinkInit
  /\ control = Dark /\ paused = FALSE
  /\ state = Nothing /\ sampler = "sleep"
  /\ shown = [s \in Stream |-> Nothing]
  /\ page = [p \in Page |-> Idle] /\ asks = 0
  /\ made = [part \in {"raw", "blank"} |-> Dark[part]]

-------------------------------------------------------------------------------
(* The access process, as far as these requests go (handle).                 *)

CarriedOut(r) ==
  /\ control' = IF r.op = "write" /\ ~paused THEN r.value ELSE control
  /\ UNCHANGED <<paused, board, page, asks>>

Handle ==
  \E r \in Request :
    /\ Serve(r, [ok |-> ~paused, control |-> control])
    /\ CarriedOut(r)
    /\ made' = IF r.op = "write" /\ ~paused
               THEN [made EXCEPT ![page[call.by].change.part] = page[call.by].change.to]
               ELSE made

\* A write that comes late brings the other part back with it.
HandleStray ==
  \E r \in Request :
    /\ ServeStray(r) /\ CarriedOut(r)
    /\ made' = IF control' # control THEN [part \in DOMAIN made |-> Nothing] ELSE made

Pause ==
  /\ ~paused /\ Fault /\ paused' = TRUE
  /\ UNCHANGED <<serving, conn, up, down, strays, call, control, board, pages>>

Resume ==
  /\ paused /\ paused' = FALSE
  /\ UNCHANGED <<link, control, board, pages>>

\* The registers stay what they are.
Dies == Fault /\ ServerGone /\ UNCHANGED <<fabric, board, pages>>
Starts == ServerBack /\ UNCHANGED <<fabric, board, pages>>

-------------------------------------------------------------------------------
(* Board: the sampler, and the streams.                                      *)

SamplerAsks ==
  /\ sampler = "sleep" /\ Begin(Sampler, [op |-> "read_many"])
  /\ sampler' = "asked"
  /\ UNCHANGED <<fabric, state, shown, pages>>

\* (mutant: the thread ends with its exception)
SampleEnds == UNCHANGED <<state, sampler>>

\* Unavailable, or paused: that is published, and the GUI kept served.
SampleFails == state' = [ok |-> FALSE, control |-> Dark] /\ sampler' = "sleep"

Sampled ==
  /\ sampler = "asked"
  /\ \/ /\ Answered(Sampler)
        /\ IF received.ok THEN state' = received /\ sampler' = "sleep" ELSE SampleFails
     \/ Raises(Sampler) /\ SampleFails
  /\ UNCHANGED <<fabric, shown, pages>>

\* wait_next: a state the stream has not sent yet.
Newer(s) == shown[s] # state

StreamSends(s) ==
  /\ Newer(s)
  /\ shown' = [shown EXCEPT ![s] = state]
  /\ UNCHANGED <<link, fabric, state, sampler, pages>>

-------------------------------------------------------------------------------
(* _hex and _hex_write.                                                      *)

\* (mutant: without hex_lock)
NoLock == TRUE

\* hex_lock
HexFree == \A p \in Page : page[p].at = "idle"

PageAsks(p) ==
  /\ page[p].at = "idle" /\ HexFree
  /\ asks < MaxAsks /\ asks' = asks + 1
  /\ \E c \in Change : page' = [page EXCEPT ![p] = [Idle EXCEPT !.at = "asks_read", !.change = c]]
  /\ UNCHANGED <<link, fabric, board, made>>

Goes(p, to) == page' = [page EXCEPT ![p].at = to]

Changed(p) == [page[p].read EXCEPT ![page[p].change.part] = page[p].change.to]

\* Its next call; the digits, or the six segments, are written before.
PageCalls(p) ==
  /\ \/ page[p].at = "asks_read" /\ Begin(p, [op |-> "read"]) /\ Goes(p, "read")
     \/ page[p].at = "asks_digits" /\ Begin(p, [op |-> "digits"]) /\ Goes(p, "digits")
     \/ /\ page[p].at = "asks_write"
        /\ Begin(p, [op |-> "write", value |-> Changed(p)]) /\ Goes(p, "write")
  /\ UNCHANGED <<fabric, board, asks, made>>

PageRead(p) ==
  /\ page[p].at = "read" /\ Answered(p) /\ received.ok
  /\ page' = [page EXCEPT
       ![p].at = IF page[p].change.part = "raw" THEN "asks_digits" ELSE "asks_write",
       ![p].read = received.control]
  /\ UNCHANGED <<fabric, board, asks, made>>

PageDigits(p) ==
  /\ page[p].at = "digits" /\ Answered(p) /\ received.ok
  /\ Goes(p, "asks_write")
  /\ UNCHANGED <<fabric, board, asks, made>>

PageWritten(p) ==
  /\ page[p].at = "write" /\ Answered(p) /\ received.ok
  /\ page' = [page EXCEPT ![p] = Idle]
  /\ UNCHANGED <<fabric, board, asks, made>>

\* Refused: 503, and nothing was written.
PageRefused(p) ==
  /\ page[p].at # "idle" /\ Answered(p) /\ ~received.ok
  /\ page' = [page EXCEPT ![p] = Idle]
  /\ UNCHANGED <<fabric, board, asks, made>>

\* Unavailable: 503 too, whatever the last write has done.
PageFails(p) ==
  /\ page[p].at # "idle" /\ Raises(p)
  /\ page' = [page EXCEPT ![p] = Idle]
  /\ UNCHANGED <<fabric, board, asks, made>>

Again == Retry /\ UNCHANGED <<fabric, board, pages>>
Asks == Send /\ UNCHANGED <<fabric, board, pages>>

\* The web server ends, and starts with nothing; its pages connect again.
WebEnds ==
  /\ ClientEnds
  /\ state' = Nothing /\ sampler' = "sleep"
  /\ page' = [p \in Page |-> Idle]
  /\ UNCHANGED <<fabric, shown, asks, made>>

-------------------------------------------------------------------------------
PageGoes(p) ==
  PageCalls(p) \/ PageRead(p) \/ PageDigits(p) \/ PageWritten(p) \/ PageRefused(p) \/ PageFails(p)

Next ==
  \/ Handle \/ HandleStray \/ Pause \/ Resume \/ Dies \/ Starts
  \/ SamplerAsks \/ Sampled \/ \E s \in Stream : StreamSends(s)
  \/ \E p \in Page : PageAsks(p) \/ PageGoes(p)
  \/ Asks \/ Again \/ WebEnds

Spec == Init /\ [][Next]_vars

\* Every thread goes on and has its turn of the client's lock, a pause ends, and the
\* supervisor starts the access process again.
FairSpec ==
  /\ Spec
  /\ WF_vars(Handle) /\ WF_vars(HandleStray) /\ WF_vars(Resume) /\ WF_vars(Starts)
  /\ SF_vars(SamplerAsks) /\ WF_vars(Sampled) /\ \A s \in Stream : WF_vars(StreamSends(s))
  /\ \A p \in Page : SF_vars(PageCalls(p)) /\ WF_vars(PageGoes(p))
  /\ WF_vars(Asks) /\ WF_vars(Again)

-------------------------------------------------------------------------------

\* "two requests at once must not undo each other": each part of the displays' control
\* register is what the last request for it has made it, but for a write that its
\* client has given up and that is carried out after all.
HexKept == \A part \in {"raw", "blank"} : made[part] = Nothing \/ control[part] = made[part]

\* Every page ends up with what the registers really are, through pauses, ends of
\* both processes, late answers and other requests.
PagesConverge == <>[](\A s \in Stream : shown[s] = [ok |-> TRUE, control |-> control])

===============================================================================
