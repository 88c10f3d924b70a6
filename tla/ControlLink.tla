------------------------------ MODULE ControlLink ------------------------------
(***************************************************************************)
(* The web server's side of the temperature loop: ControlLink of           *)
(* fpga_web.py, its poller and the page's settings, and temp_control.py,   *)
(* whose history of the last ten minutes survives a clean stop in a file.  *)
(* Both processes may end at any time and are started again.  Times are    *)
(* the numbers of samples; the ten minutes are never over.                 *)
(***************************************************************************)
EXTENDS LineClient

CONSTANTS
  Mode,       \* the loop's modes
  FirstMode,
  Absent,     \* no file, no answer
  MaxSamples, \* bound: samples taken
  MaxSets     \* bound: settings asked for

ASSUME LoopAssumption == FirstMode \in Mode /\ MaxSamples \in Nat /\ MaxSets \in Nat
ASSUME RequestAssumption ==
  Request = [op : {"state", "history"}] \cup [op : {"set"}, mode : Mode]
ASSUME ThreadAssumption == Thread = {"poll", "page"}

VARIABLES
  boot,       \* this run of the controller
  now,        \* samples taken
  mode,       \* its setting, and that in control.json
  samples,    \* Controller.history: times
  state,      \* Controller.state: [boot, t, mode]; t = 0 before the first sample
  file,       \* control-history.json, or Absent
  history, seen, latest, \* ControlLink.history, .boot (0: none), .latest (or Absent)
  poll,       \* the poller: where it is, and the state it has got
  sets, stands \* settings asked for; the last answered, or "unclear"

Unclear == "unclear"

controller == <<boot, now, mode, samples, state, file>>
view == <<history, seen, latest>>
page == <<sets, stands>>
vars == <<link, controller, view, poll, page>>

NoState == [boot |-> 0, t |-> 0, mode |-> FirstMode]

StateType == [boot : Nat, t : 0..MaxSamples, mode : Mode]

TypeOK ==
  /\ LinkTypeOK
  /\ boot \in Nat /\ now \in 0..MaxSamples /\ mode \in Mode
  /\ samples \in Seq(1..MaxSamples)
  /\ state \in StateType
  /\ file = Absent \/ file \in Seq(1..MaxSamples)
  /\ history \in Seq(1..MaxSamples) /\ seen \in 0..boot
  /\ latest = Absent \/ latest \in StateType
  /\ poll \in [at : {"sleep", "state", "seed", "history"}, st : StateType]
  /\ sets \in 0..MaxSets /\ stands \in Mode \cup {Unclear}

Init ==
  /\ LinkInit
  /\ boot = 1 /\ now = 0 /\ mode = FirstMode /\ samples = <<>>
  /\ state = [boot |-> 1, t |-> 0, mode |-> FirstMode] /\ file = Absent
  /\ history = <<>> /\ seen = 0 /\ latest = Absent
  /\ poll = [at |-> "sleep", st |-> NoState]
  /\ sets = 0 /\ stands = FirstMode

-------------------------------------------------------------------------------
(* temp_control.py.                                                          *)

\* A sample ends: _finish.
Sample ==
  /\ serving = "up" /\ now < MaxSamples
  /\ now' = now + 1
  /\ samples' = Append(samples, now')
  /\ state' = [boot |-> boot, t |-> now', mode |-> mode]
  /\ UNCHANGED <<link, boot, mode, file, view, poll, page>>

Answer(r) ==
  CASE r.op = "state" -> state
    [] r.op = "history" -> samples
    [] r.op = "set" -> [state EXCEPT !.mode = r.mode]

\* A request, under the controller's lock where that matters.
CarriedOut(r) ==
  /\ IF r.op = "set" THEN mode' = r.mode /\ state' = Answer(r)
                     ELSE UNCHANGED <<mode, state>>
  /\ UNCHANGED <<boot, now, samples, file, view, poll, page>>

Handle == \E r \in Request : Serve(r, Answer(r)) /\ CarriedOut(r)
HandleStray == \E r \in Request : ServeStray(r) /\ CarriedOut(r)

\* SIGTERM: the history is saved, in one step (a rename).
Stops ==
  /\ Fault /\ ServerGone
  /\ file' = samples
  /\ UNCHANGED <<boot, now, mode, samples, state, view, poll, page>>

\* A crash, a kill, or a power cut that keeps the run directory.
Dies ==
  /\ Fault /\ ServerGone
  /\ UNCHANGED <<controller, view, poll, page>>

\* (mutant: the file stays where it is)
LeftThere(content) == content

\* load_history: the file is read once, and removed.
Taken(content) == Absent

Starts ==
  /\ ServerBack
  /\ boot' = boot + 1
  /\ samples' = IF file = Absent THEN <<>> ELSE file
  /\ file' = Taken(file)
  /\ state' = [boot |-> boot', t |-> 0, mode |-> mode]
  /\ UNCHANGED <<now, mode, view, poll, page>>

-------------------------------------------------------------------------------
(* The poller, and the page.                                                 *)

PollBegins ==
  /\ poll.at = "sleep" /\ Begin("poll", [op |-> "state"])
  /\ poll' = [poll EXCEPT !.at = "state"]
  /\ UNCHANGED <<controller, view, page>>

\* What a poll ends with: the sample, unless it is there, and the state.
Added(h, st) == IF st.t > 0 /\ (h = <<>> \/ st.t > Last(h)) THEN Append(h, st.t) ELSE h

Shows(h, st) ==
  /\ history' = Added(h, st)
  /\ latest' = st
  /\ poll' = [at |-> "sleep", st |-> NoState]

\* (mutant: only a link that has none)
FirstRun(st) == seen = 0

\* A run of the controller whose history is not here yet.
OtherRun(st) == st.boot # seen

\* The state has come; of another run, its history has to be asked for first.  In
\* the code a setting may be answered before latest takes this state, and is then
\* shown with the next one.
PollState ==
  /\ poll.at = "state"
  /\ Answered("poll")
  /\ IF OtherRun(received)
     THEN poll' = [at |-> "seed", st |-> received] /\ UNCHANGED <<history, latest>>
     ELSE Shows(history, received)
  /\ UNCHANGED <<controller, seen, page>>

PollSeeds ==
  /\ poll.at = "seed" /\ Begin("poll", [op |-> "history"])
  /\ poll' = [poll EXCEPT !.at = "history"]
  /\ UNCHANGED <<controller, view, page>>

\* (mutant: all of its own is kept)
KeptAll(h, n) == n = Len(history)

\* Of its own history the points before the controller's: as they are in order, the
\* first n.
Kept(h, n) ==
  IF h = <<>> THEN n = Len(history)
  ELSE /\ \A i \in 1..n : history[i] < Head(h)
       /\ \A i \in n + 1..Len(history) : history[i] >= Head(h)

\* _seed, and the end of the poll.
PollHistory ==
  /\ poll.at = "history"
  /\ Answered("poll")
  /\ \E n \in 0..Len(history) :
       Kept(received, n) /\ Shows(SubSeq(history, 1, n) \o received, poll.st)
  /\ seen' = poll.st.boot
  /\ UNCHANGED <<controller, page>>

PollFails ==
  /\ Raises("poll")
  /\ latest' = Absent
  /\ poll' = [at |-> "sleep", st |-> NoState]
  /\ UNCHANGED <<controller, history, seen, page>>

PageSets ==
  /\ sets < MaxSets /\ sets' = sets + 1
  /\ \E m \in Mode : Begin("page", [op |-> "set", mode |-> m])
  /\ UNCHANGED <<controller, view, poll, stands>>

\* ControlLink.set: what the answer says is shown at once.
PageSet ==
  /\ Answered("page")
  /\ latest' = received
  /\ stands' = call.req.mode
  /\ UNCHANGED <<controller, history, seen, poll, sets>>

\* The page is told so; its setting may have been made, or may still be.
PageFails ==
  /\ Raises("page")
  /\ stands' = Unclear
  /\ UNCHANGED <<controller, view, poll, sets>>

Again == Retry /\ UNCHANGED <<controller, view, poll, page>>
Asks == Send /\ UNCHANGED <<controller, view, poll, page>>

\* The web server ends, and starts with nothing.
WebEnds ==
  /\ ClientEnds
  /\ history' = <<>> /\ seen' = 0 /\ latest' = Absent
  /\ poll' = [at |-> "sleep", st |-> NoState]
  /\ stands' = IF Calling /\ call.by = "page" THEN Unclear ELSE stands
  /\ UNCHANGED <<controller, sets>>

-------------------------------------------------------------------------------
Poller == PollBegins \/ PollState \/ PollSeeds \/ PollHistory \/ PollFails
Page == PageSet \/ PageFails
Controller == Sample \/ Handle \/ HandleStray

Next ==
  \/ Controller \/ Stops \/ Dies \/ Starts
  \/ Poller \/ PageSets \/ Page \/ Asks \/ Again \/ WebEnds

Spec == Init /\ [][Next]_vars

\* Every thread goes on, and the supervisor starts the loop again.
FairSpec ==
  /\ Spec
  /\ WF_vars(Handle) /\ WF_vars(HandleStray) /\ WF_vars(Sample) /\ WF_vars(Starts)
  /\ WF_vars(Poller) /\ WF_vars(Page) /\ WF_vars(Asks) /\ WF_vars(Again)

-------------------------------------------------------------------------------

\* The plot's points stay in order and come once, whatever runs of the controller they
\* are from and whatever it has loaded from its file.
Ordered == \A i \in 1..Len(history) - 1 : history[i] < history[i + 1]

\* "so the plot survives a restart of either process": the link loses no point of the
\* ten minutes but with its own process.
KeepsPoints ==
  [][ToSet(history) \subseteq ToSet(history') \/ seen' = 0]_vars

\* Whatever restarts, timeouts and settings there were, the page ends up with what
\* the loop really does.
Converges == <>[](latest # Absent /\ latest.mode = mode /\ seen = boot)

\* A setting that was answered stands until the next one is asked for.
SettingStands == stands # Unclear => mode = stands \/ (Calling /\ call.req.op = "set")

===============================================================================
