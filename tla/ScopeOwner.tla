------------------------------ MODULE ScopeOwner ------------------------------
(***************************************************************************)
(* Who has the oscilloscope, in linux/webapp/fpga_access.py: the stream's  *)
(* WebSocket sessions (a new client takes over from the one before), the   *)
(* data logger's thread and the triggered captures share one scope and one *)
(* DDR ring.  Access.owner keeps them apart; the registers are under       *)
(* Access.lock, so each step here that touches them is one hold of it.     *)
(* Only whose settings the scope runs with is modelled; the records of the *)
(* ring are not.                                                           *)
(***************************************************************************)
EXTENDS Naturals, FiniteSets

CONSTANTS
  Sessions,  \* names of stream sessions; one that has left is used again
  SlowClient \* a send may block for longer (5 s) than a takeover waits (3 s)

Nil == "none"
Log == "log"
Users == Sessions \cup {Log}

ASSUME SessionsAssumption == {Nil, Log, "reset", "stopped", "capture"} \cap Sessions = {}
ASSUME SlowClientAssumption == SlowClient \in BOOLEAN

VARIABLES
  owner,    \* Access.owner: Nil, "stream" or Log
  current,  \* StreamServer.current
  at,       \* where each session's thread, and the logger, is
  old,      \* the session whose done event each one waits for, Nil: none
  stopped,  \* the users whose stop event is set
  hw,       \* what the scope does: runs for a user, "capture", "stopped", "reset"
  armed,    \* ScopeHw.armed: a capture's settings are believed to be in it
  paused    \* register traffic: "no", "timed" (an operator's pause), "load"

vars == <<owner, current, at, old, stopped, hw, armed, paused>>
scope == <<hw, armed>>

\* From the claim of the scope to its release.
Using == {"check", "start", "loop", "send", "end", "release"}
Running == {"loop", "send"}

TypeOK ==
  /\ owner \in {Nil, "stream", Log}
  /\ current \in Sessions \cup {Nil}
  /\ at \in [Users -> {"idle", "wait", "claim", "leave"} \cup Using]
  /\ old \in [Sessions -> Sessions \cup {Nil}]
  /\ stopped \subseteq Users
  /\ hw \in Users \cup {"capture", "stopped", "reset"}
  /\ armed \in BOOLEAN
  /\ paused \in {"no", "timed", "load"}

Init ==
  /\ owner = Nil /\ current = Nil
  /\ at = [u \in Users |-> "idle"]
  /\ old = [s \in Sessions |-> Nil]
  /\ stopped = {}
  /\ hw = "reset" /\ armed = FALSE
  /\ paused = "no"

Goto(u, label) == at' = [at EXCEPT ![u] = label]

-------------------------------------------------------------------------------
(* StreamServer._client: a whole request has come.                           *)

\* A mutant of Told: the session before is left to end by itself.
NotTold(s) == stopped \ {s}
\* The session before is told to stop.
Told(s) == (stopped \ {s}) \cup ({current} \cap Sessions)

Connect(s) ==
  /\ at[s] = "idle"
  /\ old' = [old EXCEPT ![s] = IF current # Nil /\ at[current] # "leave"
                                THEN current ELSE Nil]
  /\ current' = s
  /\ stopped' = Told(s)
  /\ Goto(s, "wait")
  /\ UNCHANGED <<owner, scope, paused>>

\* A mutant of OldGone: nobody waits for it.
NoWait(s) == TRUE
\* done.wait(3): it has ended, or is stuck in a send for longer.
OldGone(s) == old[s] = Nil \/ SlowClient

Waited(s) ==
  /\ at[s] = "wait"
  /\ OldGone(s)
  /\ Goto(s, "claim")
  /\ old' = [old EXCEPT ![s] = Nil]
  /\ UNCHANGED <<owner, current, stopped, scope, paused>>

\* The done event of a session is set: who waits for it waits no more.
Done(s) == old' = [t \in Sessions |-> IF old[t] = s THEN Nil ELSE old[t]]

\* StreamSession.run claims the scope, unless a log has it.
Claim(s) ==
  /\ at[s] = "claim"
  /\ IF owner = Log
     THEN Goto(s, "leave") /\ Done(s) /\ UNCHANGED owner
     ELSE Goto(s, "start") /\ owner' = "stream" /\ UNCHANGED old
  /\ UNCHANGED <<current, stopped, scope, paused>>

Leave(s) ==
  /\ at[s] = "leave"
  /\ current' = IF current = s THEN Nil ELSE current
  /\ stopped' = stopped \ {s}
  /\ Goto(s, "idle")
  /\ UNCHANGED <<owner, old, scope, paused>>

Streaming == current # Nil

\* stream_stop
StopStream ==
  /\ Streaming
  /\ stopped' = stopped \cup {current}
  /\ UNCHANGED <<owner, current, at, old, scope, paused>>

\* The client closes: its session's reader stops it.
Closes(s) ==
  /\ at[s] \in {"start", "loop", "send"}
  /\ stopped' = stopped \cup {s}
  /\ UNCHANGED <<owner, current, at, old, scope, paused>>

-------------------------------------------------------------------------------
(* Logger.start and stop.                                                    *)

\* A mutant of ScopeFree: a log takes the scope from a stream.
FreeOfLogs == owner # Log
ScopeFree == owner = Nil

\* The pause was looked at in an earlier hold of the lock.
LogStart ==
  /\ at[Log] = "idle"
  /\ ScopeFree
  /\ owner' = Log
  /\ Goto(Log, "check")
  /\ UNCHANGED <<current, old, stopped, scope, paused>>

\* The disk may be full; else a new session, with a stop event of its own.  When the
\* disk's size is not to be had (statvfs raises), the request ends here and its claim
\* stays: a log that is at "check" for ever, as it may be, LogCheck being under no
\* fairness.
LogCheck ==
  /\ at[Log] = "check"
  /\ \/ Goto(Log, "idle") /\ owner' = Nil
     \/ Goto(Log, "start") /\ UNCHANGED owner
  /\ UNCHANGED <<current, old, stopped, scope, paused>>

LogStop ==
  /\ at[Log] \in Using \ {"check"}
  /\ stopped' = stopped \cup {Log}
  /\ UNCHANGED <<owner, current, at, old, scope, paused>>

-------------------------------------------------------------------------------
(* StreamSession.run and LogSession._run: the ring.                          *)

\* A mutant of Disarmed: the triggered capture believes its settings are there.
StillArmed == armed
Disarmed == FALSE

\* RingHw.start: raises with the registers paused or no ring in this core, else
\* the scope runs for u - or does not start after all.
RingStart(u) ==
  /\ at[u] = "start"
  /\ \/ Goto(u, "end") /\ UNCHANGED scope
     \/ /\ paused = "no"
        /\ hw' = u /\ armed' = Disarmed
        /\ \E label \in {"loop", "end"} : Goto(u, label)
  /\ UNCHANGED <<owner, current, old, stopped, paused>>

\* RingHw.written: the registers are there and the scope streams - for whomever.
Written == paused = "no" /\ hw \in Users

\* A round: told to stop, or something new to send (to write, for the log,
\* which ends by itself too: its duration, the disk, an overrun).
Poll(u) ==
  /\ at[u] = "loop"
  /\ \/ u \in stopped /\ Goto(u, "end")
     \/ u \notin stopped /\ ~Written /\ Goto(u, "end")
     \/ u \notin stopped /\ Written /\ Goto(u, IF u = Log THEN "end" ELSE "send")
  /\ UNCHANGED <<owner, current, old, stopped, scope, paused>>

\* The send has ended; lapped, or the connection gone, the session ends.
Sent(s) ==
  /\ at[s] = "send"
  /\ \/ Written /\ Goto(s, "loop")
     \/ Goto(s, "end")
  /\ UNCHANGED <<owner, current, old, stopped, scope, paused>>

\* RingHw.stop: whoever the scope runs for.
RingStop(u) ==
  /\ at[u] = "end"
  /\ IF paused # "no" THEN UNCHANGED scope ELSE hw' = "stopped" /\ armed' = FALSE
  /\ Goto(u, "release")
  /\ UNCHANGED <<owner, current, old, stopped, paused>>

Release(u) ==
  /\ at[u] = "release"
  /\ IF u = Log
     THEN owner' = Nil /\ Goto(u, "idle") /\ stopped' = stopped \ {u} /\ UNCHANGED old
     ELSE /\ owner' = IF owner = "stream" THEN Nil ELSE owner
          /\ stopped' = stopped \cup {u}
          /\ Done(u)
          /\ Goto(u, "leave")
  /\ UNCHANGED <<current, scope, paused>>

-------------------------------------------------------------------------------
(* scope_op: one request of a capture arms (nothing armed, or other settings)*)
(* or reads what was captured; and scope_stop.                               *)

CaptureArm ==
  /\ paused = "no" /\ ScopeFree
  /\ hw' = "capture" /\ armed' = TRUE
  /\ UNCHANGED <<owner, current, at, old, stopped, paused>>

CaptureDone ==
  /\ paused = "no" /\ ScopeFree
  /\ armed /\ hw = "capture"
  /\ hw' = "stopped" /\ armed' = FALSE
  /\ UNCHANGED <<owner, current, at, old, stopped, paused>>

ScopeStop ==
  /\ paused = "no" /\ ScopeFree
  /\ hw' = "stopped" /\ armed' = FALSE
  /\ UNCHANGED <<owner, current, at, old, stopped, paused>>

-------------------------------------------------------------------------------
(* The registers paused by an operator or a core load, which resets the scope. *)

Pause ==
  /\ \/ paused = "no" /\ paused' \in {"timed", "load"}
     \/ paused = "timed" /\ paused' \in {"no", "load"}
  /\ UNCHANGED <<owner, current, at, old, stopped, scope>>

LoadDone ==
  /\ paused = "load"
  /\ paused' = "no"
  /\ hw' = "reset"
  /\ UNCHANGED <<owner, current, at, old, stopped, armed>>

-------------------------------------------------------------------------------
Session(s) == Waited(s) \/ Claim(s) \/ Sent(s) \/ Leave(s)
Ring(u) == RingStart(u) \/ Poll(u) \/ RingStop(u) \/ Release(u)

Next ==
  \/ \E s \in Sessions : Connect(s) \/ Session(s) \/ Closes(s)
  \/ \E u \in Users : Ring(u)
  \/ StopStream \/ LogStart \/ LogCheck \/ LogStop
  \/ CaptureArm \/ CaptureDone \/ ScopeStop
  \/ Pause \/ LoadDone

Spec == Init /\ [][Next]_vars

(* The threads run; a send ends by its own timeout.                          *)
Fairness ==
  /\ \A s \in Sessions : WF_vars(Session(s))
  /\ \A u \in Users : WF_vars(Ring(u))

FairSpec == Spec /\ Fairness

-------------------------------------------------------------------------------
(* Properties.                                                               *)

\* "The triggered scope, the stream and a log exclude each other", and one
\* stream client at a time: a takeover begins only after the other has let go.
OneUser == Cardinality({u \in Users : at[u] \in Using}) <= 1

\* The owner is the kind of user that has claimed the scope and not let go, so
\* captures stay out while one runs and get in when none does (a claim that a failing
\* disk has left counts as a log).
Exclusive ==
  /\ OneUser
  /\ \A s \in Sessions : at[s] \in Using => owner = "stream"
  /\ at[Log] \in Using <=> owner = Log
  /\ owner = "stream" => \E s \in Sessions : at[s] \in Using

\* Nobody else's stop, arm or start reaches a scope that streams for a user;
\* only a core load resets it.
Undisturbed == \A u \in Users : at[u] \in Running => hw \in {u, "reset"}

\* A capture that believes its settings are in the scope is right, unless a
\* core load has reset the scope since (then it waits for a trigger that
\* cannot come, until its settings change).
ArmedIsTrue == armed => hw \in {"capture", "reset"}

\* A client that takes over gets its turn: the session before ends.
Served == \A s \in Sessions : at[s] = "wait" ~> at[s] \in {"start", "leave"}

===============================================================================
