------------------------------ MODULE LineClient ------------------------------
(***************************************************************************)
(* One client of a line server of this system: FpgaClient of               *)
(* fpga_access.py and ControlClient of temp_control.py, which the threads  *)
(* of a process share, and serve() at the other end.  A request is a line, *)
(* its answer a line, over one connection that is kept; the client's lock  *)
(* is held for a whole call.  The server has a thread for each connection: *)
(* a request whose connection was given up may still be carried out.       *)
(* What requests do, and what becomes of an answer, is left to the modules *)
(* that extend this one.                                                   *)
(***************************************************************************)
EXTENDS Naturals, Sequences, SequencesExt

CONSTANTS
  Thread,       \* threads that call
  Request,      \* what they may ask
  ResendsLate,  \* a request whose answer timed out is sent again (ControlClient)
  NoCall,
  MaxFaults     \* bound: ends of processes, timeouts and pauses

\* A call that holds the client's lock, about to send or waiting for its answer.
Call == [by : Thread, req : Request, at : {"send", "await"}, attempt : {0, 1}]

ASSUME ClientAssumption == ResendsLate \in BOOLEAN /\ MaxFaults \in Nat /\ NoCall \notin Call

VARIABLES
  serving,   \* the server's process: "up" or "down"
  conn,      \* the client's connection: "none", "open", or "broken", its server gone
  up, down,  \* on it: requests not carried out yet, and answers not read yet
  strays,    \* requests on connections given up, not carried out yet
  call,      \* the call that holds the lock: [by, req, at, attempt]
  faults     \* counted against MaxFaults

link == <<serving, conn, up, down, strays, call, faults>>

Calling == call # NoCall

LinkTypeOK ==
  /\ serving \in {"up", "down"}
  /\ conn \in {"none", "open", "broken"}
  /\ up \in Seq(Request)
  /\ \A i \in DOMAIN down : DOMAIN down[i] = {"req", "answer"} /\ down[i].req \in Request
  /\ \A i \in DOMAIN strays : strays[i] \in [req : Request, mine : BOOLEAN]
  /\ Calling => call \in Call
  /\ faults \in 0..MaxFaults

LinkInit ==
  /\ serving = "up" /\ conn = "none" /\ up = <<>> /\ down = <<>> /\ strays = <<>>
  /\ call = NoCall /\ faults = 0

Fault == faults < MaxFaults /\ faults' = faults + 1

-------------------------------------------------------------------------------
(* The client: call_raw, call.                                               *)

\* A thread takes the lock.
Begin(t, r) ==
  /\ ~Calling
  /\ call' = [by |-> t, req |-> r, at |-> "send", attempt |-> 0]
  /\ UNCHANGED <<serving, conn, up, down, strays, faults>>

\* connect, if there is no connection, and sendall.
Send ==
  /\ Calling /\ call.at = "send"
  /\ conn = "open" \/ (conn = "none" /\ serving = "up")
  /\ conn' = "open"
  /\ up' = Append(up, call.req)
  /\ call' = [call EXCEPT !.at = "await"]
  /\ UNCHANGED <<serving, down, strays, faults>>

\* Nobody listens, the peer has closed, or it closes before it has answered.  It
\* closes when its process ends: serve() answers what the modelled requests raise
\* (an install may raise more, and is dropped then: CoreInstall).
Dropped ==
  /\ Calling
  /\ \/ call.at = "send" /\ (conn = "broken" \/ (conn = "none" /\ serving = "down"))
     \/ call.at = "await" /\ conn = "broken" /\ down = <<>>
  /\ faults' = faults

\* socket.timeout
Late == Calling /\ call.at = "await" /\ Fault

Failure == Dropped \/ Late

\* (mutant: the connection is kept after a failure)
KeepOpen(same) == UNCHANGED <<conn, up, down, strays>>

\* Every failure closes the connection; what was sent on it goes its way.
Close(same) ==
  /\ conn' = "none" /\ up' = <<>> /\ down' = <<>>
  /\ LET given == strays \o [i \in DOMAIN up |-> [req |-> up[i], mine |-> TRUE]]
     IN strays' = [i \in DOMAIN given |-> [given[i] EXCEPT !.mine = @ /\ same]]

\* (mutant: after a timeout too)
ResentLate == call.attempt = 0

\* One reconnect: the server may have restarted.  FpgaClient takes none after a timeout.
Resent == call.attempt = 0 /\ (faults' = faults \/ ResendsLate)

Retry ==
  /\ Failure /\ Resent
  /\ Close(TRUE)
  /\ call' = [call EXCEPT !.at = "send", !.attempt = 1]
  /\ UNCHANGED serving

\* FpgaUnavailable, ControlUnavailable
Raises(t) ==
  /\ Failure /\ call.by = t /\ ~Resent
  /\ Close(FALSE)
  /\ call' = NoCall
  /\ UNCHANGED serving

\* readline: what was received is the call's result.
received == Head(down).answer

Answered(t) ==
  /\ Calling /\ call.by = t /\ call.at = "await" /\ down # <<>>
  /\ down' = Tail(down)
  /\ call' = NoCall
  /\ strays' = [i \in DOMAIN strays |-> [strays[i] EXCEPT !.mine = FALSE]]
  /\ UNCHANGED <<serving, conn, up, faults>>

\* The client's own process ends.
ClientEnds ==
  /\ Fault
  /\ conn' = "none" /\ up' = <<>> /\ down' = <<>> /\ call' = NoCall
  /\ LET given == strays \o [i \in DOMAIN up |-> [req |-> up[i], mine |-> FALSE]]
     IN strays' = [i \in DOMAIN given |-> [given[i] EXCEPT !.mine = FALSE]]
  /\ UNCHANGED serving

-------------------------------------------------------------------------------
(* The server: serve().                                                      *)

\* The thread of the connection carries its next request out and answers it.
Serve(r, answer) ==
  /\ serving = "up" /\ conn = "open" /\ up # <<>>
  /\ r = Head(up)
  /\ up' = Tail(up)
  /\ down' = Append(down, [req |-> r, answer |-> answer])
  /\ UNCHANGED <<serving, conn, strays, call, faults>>

\* That of one given up does, and has nobody to answer.
ServeStray(r) ==
  /\ serving = "up"
  /\ \E i \in DOMAIN strays :
       /\ r = strays[i].req
       /\ strays' = RemoveAt(strays, i)
  /\ UNCHANGED <<serving, conn, up, down, call, faults>>

\* The process ends with all its threads; an answer it has sent can be read.
ServerGone ==
  /\ serving = "up" /\ serving' = "down"
  /\ conn' = IF conn = "open" THEN "broken" ELSE conn
  /\ up' = <<>> /\ strays' = <<>>
  /\ UNCHANGED <<down, call>>

ServerBack ==
  /\ serving = "down" /\ serving' = "up"
  /\ UNCHANGED <<conn, up, down, strays, call, faults>>

-------------------------------------------------------------------------------

\* An answer is that of the call that reads it: no line on the connection belongs to a
\* call before, whatever timed out ("every failure" closes it, _close).
InStep ==
  /\ Len(up) + Len(down) <= 1
  /\ up # <<>> => Calling /\ call.at = "await" /\ Head(up) = call.req
  /\ down # <<>> => Calling /\ call.at = "await" /\ Head(down).req = call.req

\* "a reply that timed out is not resent: the request may be running": the server never
\* carries a request out while another of its threads may still be at the same call.
NeverTwice ==
  ~ResendsLate /\ Calling /\ call.attempt = 1 => \A i \in DOMAIN strays : ~strays[i].mine

===============================================================================
