------------------------------ MODULE ScopeProofs ------------------------------
(***************************************************************************)
(* The scope, for any number of clients and any size of the ring.          *)
(*                                                                         *)
(* ScopeOwner: when every send ends before a takeover stops waiting, one   *)
(* user at a time has the scope and has it undisturbed.  The sessions that *)
(* have not ended form a queue: each waits for the one before it, and only *)
(* the first one may claim the scope.                                      *)
(*                                                                         *)
(* DdrRing: what a stream's client gets and a log's file holds is in       *)
(* order.  A record that has landed is in its slot until the next one      *)
(* there lands, and the reader's count, though it wraps, tells how far the *)
(* writer is.                                                              *)
(***************************************************************************)
EXTENDS ScopeOwner, DdrRing, FiniteSetTheorems, TLAPS

-----------------------------------------------------------------------------
(* Who has the scope (ScopeOwner).                                           *)

\* No send outlasts the three seconds a takeover waits.
PromptClients == SlowClient = FALSE

\* The sessions whose done event is not set.
Alive == {s \in Sessions : at[s] \notin {"idle", "leave"}}

\* q[lo + 1], ..., q[hi] are the sessions alive, in the order they came; each waits for
\* the one before it, the first for none.
Queue(q, lo, hi) ==
  /\ Alive = {q[i] : i \in lo + 1 .. hi}
  /\ \A i, j \in lo + 1 .. hi : q[i] = q[j] => i = j
  /\ lo < hi => old[q[lo + 1]] = Nil /\ current = q[hi]
  /\ \A i \in lo + 2 .. hi : old[q[i]] = q[i - 1] /\ at[q[i]] = "wait"

Queued == \E q \in [Nat -> Users], lo, hi \in Nat : lo <= hi /\ Queue(q, lo, hi)

\* A session that is not in the queue is not waited for.
CurrentRuns == current \in Sessions => at[current] # "idle"

\* Who has claimed the scope.
OwnerOf ==
  /\ at[Log] \in Using \cup {"idle"}
  /\ at[Log] \in Using <=> owner = Log
  /\ \A s \in Sessions : at[s] \in Using => owner = "stream"
  /\ owner = "stream" => \E s \in Sessions : at[s] \in Using

\* At most one session is past its wait.
OneAhead ==
  \A s, t \in Sessions :
    at[s] \in Using \cup {"claim"} /\ at[t] \in Using \cup {"claim"} => s = t

IInv == Queued /\ CurrentRuns /\ OwnerOf

-------------------------------------------------------------------------------

LEMMA NamesDiffer ==
  /\ Nil \notin Sessions /\ Log \notin Sessions /\ Nil # Log
  /\ "stream" # Nil /\ "stream" # Log
BY SessionsAssumption DEF Nil, Log

\* The types of what the users of the scope share.
THEOREM TypeCorrect == Spec => []TypeOK
<1> USE NamesDiffer DEF TypeOK, Users, Using
<1>1. Init => TypeOK
  BY DEF Init
<1>2. ASSUME TypeOK, [Next]_vars
      PROVE  TypeOK'
  <2>1. ASSUME NEW s \in Sessions, Connect(s)
        PROVE  TypeOK'
    <3>1. Told(s) \subseteq Users
      BY <1>2 DEF Told
    <3> QED
      BY <1>2, <2>1, <3>1 DEF Connect, Goto, scope
  <2>2. ASSUME NEW s \in Sessions, Session(s)
        PROVE  TypeOK'
    BY <1>2, <2>2 DEF Session, Waited, Claim, Sent, Leave, Done, Goto, scope
  <2>3. ASSUME NEW s \in Sessions, Closes(s)
        PROVE  TypeOK'
    BY <1>2, <2>3 DEF Closes, scope
  <2>4. ASSUME NEW u \in Users, Ring(u)
        PROVE  TypeOK'
    <3>1. CASE RingStart(u)
      <4>1. \E label \in {"loop", "end"} : Goto(u, label)
        BY <3>1 DEF RingStart
      <4>2. hw' \in Users \cup {"capture", "stopped", "reset"} /\ armed' \in BOOLEAN
        BY <1>2, <3>1 DEF RingStart, Disarmed, scope
      <4> QED
        BY <1>2, <3>1, <4>1, <4>2 DEF RingStart, Goto
    <3>2. CASE Poll(u) \/ RingStop(u)
      BY <1>2, <2>4, <3>2 DEF Poll, RingStop, Goto, scope
    <3>3. CASE Release(u)
      BY <1>2, <2>4, <3>3 DEF Release, Done, Goto, scope
    <3> QED
      BY <2>4, <3>1, <3>2, <3>3 DEF Ring
  <2>5. CASE StopStream \/ LogStart \/ LogCheck \/ LogStop
    BY <1>2, <2>5 DEF StopStream, Streaming, LogStart, LogCheck, LogStop, Goto, scope
  <2>6. CASE CaptureArm \/ CaptureDone \/ ScopeStop \/ Pause \/ LoadDone
    BY <1>2, <2>6 DEF CaptureArm, CaptureDone, ScopeStop, Pause, LoadDone, scope
  <2>7. CASE UNCHANGED vars
    BY <1>2, <2>7 DEF vars, scope
  <2> QED
    BY <1>2, <2>1, <2>2, <2>3, <2>4, <2>5, <2>6, <2>7 DEF Next
<1> QED
  BY <1>1, <1>2, PTL DEF Spec

LEMMA QueueAhead ==
  ASSUME TypeOK, Queued
  PROVE  OneAhead
<1>1. PICK q \in [Nat -> Users], lo \in Nat, hi \in Nat : lo <= hi /\ Queue(q, lo, hi)
  BY DEF Queued
<1>2. ASSUME NEW s \in Sessions, at[s] \in Using \cup {"claim"}
      PROVE  s = q[lo + 1]
  <2>1. PICK i \in lo + 1 .. hi : s = q[i]
    BY <1>1, <1>2 DEF Queue, Alive, Using
  <2>2. i \notin lo + 2 .. hi
    BY <1>1, <1>2, <2>1 DEF Queue, Using
  <2> QED
    BY <2>1, <2>2
<1> QED
  BY <1>2 DEF OneAhead

\* A step that leaves the queue alone.
LEMMA QueueSame ==
  ASSUME TypeOK, Queued, Alive' = Alive, UNCHANGED old,
         current \in Alive => UNCHANGED current,
         \A s \in Alive : at[s] = "wait" /\ old[s] # Nil => at'[s] = "wait"
  PROVE  Queued'
<1>1. PICK q \in [Nat -> Users], lo \in Nat, hi \in Nat : lo <= hi /\ Queue(q, lo, hi)
  BY DEF Queued
<1>2. \A i \in lo + 2 .. hi : q[i] \in Alive /\ old[q[i]] # Nil
  <2>1. \A i \in lo + 1 .. hi : q[i] \in Alive /\ q[i] # Nil
    BY <1>1, NamesDiffer DEF Queue, Alive
  <2>2. \A i \in lo + 2 .. hi : i \in lo + 1 .. hi /\ i - 1 \in lo + 1 .. hi
    BY <1>1
  <2> QED
    BY <1>1, <2>1, <2>2 DEF Queue
<1>3. lo < hi => current \in Alive
  BY <1>1 DEF Queue
<1>4. Queue(q, lo, hi)'
  BY <1>1, <1>2, <1>3 DEF Queue
<1> QED
  BY <1>1, <1>4 DEF Queued

\* A client that connects is the last one.
LEMMA QueueGrows ==
  ASSUME TypeOK, Queued, CurrentRuns, NEW s \in Sessions, Connect(s)
  PROVE  Queued'
<1>1. PICK q \in [Nat -> Users], lo \in Nat, hi \in Nat : lo <= hi /\ Queue(q, lo, hi)
  BY DEF Queued
<1> DEFINE r == [q EXCEPT ![hi + 1] = s]
<1>2. r \in [Nat -> Users] /\ r[hi + 1] = s /\ \A i \in lo + 1 .. hi : r[i] = q[i]
  BY <1>1 DEF Users
<1>3. Alive' = Alive \cup {s} /\ s \notin Alive
  BY DEF Connect, Goto, TypeOK, Users, Alive
<1>4. Alive' = {r[i] : i \in lo + 1 .. hi + 1}
  BY <1>1, <1>2, <1>3 DEF Queue
<1>5. \A i, j \in lo + 1 .. hi + 1 : r[i] = r[j] => i = j
  <2>1. \A i \in lo + 1 .. hi : r[i] # s
    BY <1>1, <1>2, <1>3 DEF Queue
  <2>2. \A i \in lo + 1 .. hi + 1 : i = hi + 1 \/ i \in lo + 1 .. hi
    BY <1>1
  <2> QED
    BY <1>1, <1>2, <2>1, <2>2 DEF Queue
<1>6. current' = s /\ at'[s] = "wait"
      /\ \A t \in Sessions \ {s} : old'[t] = old[t] /\ at'[t] = at[t]
  BY DEF Connect, Goto, TypeOK, Users
<1>7. old'[s] = IF lo < hi THEN q[hi] ELSE Nil
  <2>1. CASE lo < hi
    <3>1. current = q[hi] /\ q[hi] \in Alive
      BY <1>1, <2>1 DEF Queue
    <3> QED
      BY <2>1, <3>1, NamesDiffer DEF Connect, TypeOK, Alive
  <2>2. CASE lo = hi
    <3>1. Alive = {}
      BY <1>1, <2>2 DEF Queue
    <3>2. current # Nil => at[current] = "leave"
      BY <3>1 DEF Alive, CurrentRuns, TypeOK
    <3> QED
      BY <2>2, <3>2 DEF Connect, TypeOK
  <2> QED
    BY <1>1, <2>1, <2>2
<1>8. \A i \in lo + 1 .. hi : q[i] \in Sessions \ {s}
  BY <1>1, <1>3 DEF Queue, Alive
<1>9. old'[r[lo + 1]] = Nil /\ current' = r[hi + 1]
  BY <1>1, <1>2, <1>6, <1>7, <1>8 DEF Queue
<1>10. \A i \in lo + 2 .. hi + 1 : old'[r[i]] = r[i - 1] /\ at'[r[i]] = "wait"
  <2> TAKE i \in lo + 2 .. hi + 1
  <2>1. CASE i = hi + 1
    BY <1>1, <1>2, <1>6, <1>7, <2>1
  <2>2. CASE i # hi + 1
    <3>1. i \in lo + 2 .. hi /\ i \in lo + 1 .. hi /\ i - 1 \in lo + 1 .. hi
      BY <1>1, <2>2
    <3> QED
      BY <1>1, <1>2, <1>6, <1>8, <3>1 DEF Queue
  <2> QED
    BY <2>1, <2>2
<1>11. Queue(r, lo, hi + 1)'
  BY <1>1, <1>4, <1>5, <1>9, <1>10 DEF Queue
<1>12. r \in [Nat -> Users] /\ hi + 1 \in Nat /\ lo <= hi + 1
  BY <1>1, <1>2
<1> HIDE DEF r
<1> QED
  BY <1>11, <1>12 DEF Queued

\* The first one ends, and the one that waits for it is the first.
LEMMA QueueShrinks ==
  ASSUME TypeOK, Queued, NEW s \in Sessions, s \in Alive, at[s] # "wait",
         Goto(s, "leave"), Done(s), UNCHANGED current
  PROVE  Queued'
<1>1. PICK q \in [Nat -> Users], lo \in Nat, hi \in Nat : lo <= hi /\ Queue(q, lo, hi)
  BY DEF Queued
<1>2. lo < hi /\ s = q[lo + 1]
  BY <1>1 DEF Queue
<1>3. at'[s] = "leave" /\ \A t \in Sessions \ {s} : at'[t] = at[t]
  BY DEF Goto, TypeOK, Users
<1>4. \A t \in Sessions : old'[t] = IF old[t] = s THEN Nil ELSE old[t]
  BY DEF Done
<1>5. \A i \in lo + 2 .. hi : q[i] \in Sessions /\ q[i] # s /\ i \in lo + 1 .. hi
  BY <1>1, <1>2 DEF Queue, Alive
<1>6. Alive' = {q[i] : i \in (lo + 1) + 1 .. hi}
  <2>1. Alive' = Alive \ {s}
    BY <1>3 DEF Alive
  <2>2. \A i \in lo + 1 .. hi : i = lo + 1 \/ i \in (lo + 1) + 1 .. hi
    BY <1>1
  <2>3. (lo + 1) + 1 = lo + 2
    BY <1>1
  <2> QED
    BY <1>1, <1>2, <1>5, <2>1, <2>2, <2>3 DEF Queue
<1>7. lo + 1 < hi => old'[q[(lo + 1) + 1]] = Nil /\ current' = q[hi]
  <2> SUFFICES ASSUME lo + 1 < hi
               PROVE  old'[q[(lo + 1) + 1]] = Nil /\ current' = q[hi]
    OBVIOUS
  <2>1. lo + 2 \in lo + 2 .. hi /\ (lo + 1) + 1 = lo + 2 /\ (lo + 2) - 1 = lo + 1
    BY <1>1
  <2> QED
    BY <1>1, <1>2, <1>4, <1>5, <2>1 DEF Queue
<1>8. \A i \in (lo + 1) + 2 .. hi : old'[q[i]] = q[i - 1] /\ at'[q[i]] = "wait"
  <2> TAKE i \in (lo + 1) + 2 .. hi
  <2>1. i \in lo + 2 .. hi /\ i - 1 \in lo + 2 .. hi
    BY <1>1
  <2> QED
    BY <1>1, <1>3, <1>4, <1>5, <2>1 DEF Queue
<1>9. \A i, j \in (lo + 1) + 1 .. hi : q[i] = q[j] => i = j
  BY <1>1 DEF Queue
<1>10. Queue(q, lo + 1, hi)'
  BY <1>6, <1>7, <1>8, <1>9 DEF Queue
<1> QED
  BY <1>1, <1>2, <1>10 DEF Queued

\* The sessions wait in a queue, and the owner is who has claimed the scope: neither
\* holds without the other, as a session that ends clears the owner whoever it is.
THEOREM Invariant == PromptClients /\ Spec => []IInv
<1> SUFFICES ASSUME PromptClients PROVE Spec => []IInv
  OBVIOUS
<1> USE NamesDiffer
<1>1. ASSUME Init PROVE IInv
  <2>1. Queue([n \in Nat |-> Log], 0, 0)
    BY <1>1 DEF Init, Queue, Alive, Users
  <2>2. Queued
    BY <2>1 DEF Queued, Users
  <2> QED
    BY <1>1, <2>2 DEF Init, IInv, CurrentRuns, OwnerOf, Using, Users
<1>2. ASSUME TypeOK, IInv, [Next]_vars
      PROVE  IInv'
  <2> USE DEF IInv
  <2>0. OneAhead
    BY <1>2, QueueAhead
  <2>1. ASSUME NEW s \in Sessions, Connect(s)
        PROVE  IInv'
    <3>1. Queued'
      BY <1>2, <2>1, QueueGrows
    <3> QED
      BY <1>2, <2>1, <3>1 DEF Connect, Goto, TypeOK, Users, CurrentRuns, OwnerOf, Using
  <2>2. ASSUME NEW s \in Sessions, Waited(s)
        PROVE  IInv'
    <3>1. old[s] = Nil /\ UNCHANGED <<old, current>>
      BY <1>2, <2>2 DEF Waited, OldGone, PromptClients, TypeOK
    <3>2. Queued'
      BY <1>2, <2>2, <3>1, QueueSame DEF Waited, Goto, Alive, TypeOK, Users
    <3> QED
      BY <1>2, <2>2, <3>2 DEF Waited, Goto, TypeOK, Users, CurrentRuns, OwnerOf, Using
  <2>3. ASSUME NEW s \in Sessions, Claim(s)
        PROVE  IInv'
    <3>1. CASE owner = Log
      <4>1. Queued'
        BY <1>2, <2>3, <3>1, QueueShrinks DEF Claim, Alive
      <4> QED
        BY <1>2, <2>3, <3>1, <4>1
           DEF Claim, Goto, TypeOK, Users, CurrentRuns, OwnerOf, Using
    <3>2. CASE owner # Log
      <4>1. Queued'
        BY <1>2, <2>3, <3>2, QueueSame DEF Claim, Goto, Alive, TypeOK, Users
      <4> QED
        BY <1>2, <2>3, <3>2, <4>1
           DEF Claim, Goto, TypeOK, Users, CurrentRuns, OwnerOf, Using
    <3> QED
      BY <3>1, <3>2
  <2>4. ASSUME NEW s \in Sessions, Leave(s)
        PROVE  IInv'
    <3>1. Queued'
      BY <1>2, <2>4, QueueSame DEF Leave, Goto, Alive, TypeOK, Users
    <3> QED
      BY <1>2, <2>4, <3>1 DEF Leave, Goto, TypeOK, Users, CurrentRuns, OwnerOf, Using
  <2>5. ASSUME NEW s \in Sessions, Release(s)
        PROVE  IInv'
    <3>1. Queued'
      BY <1>2, <2>5, QueueShrinks DEF Release, Alive, Users
    <3> QED
      BY <1>2, <2>0, <2>5, <3>1
         DEF Release, Goto, TypeOK, Users, CurrentRuns, OwnerOf, OneAhead, Using
  <2>6. CASE Release(Log)
    <3>1. Queued'
      BY <1>2, <2>6, QueueSame DEF Release, Goto, Alive, TypeOK, Users
    <3> QED
      BY <1>2, <2>6, <3>1 DEF Release, Goto, TypeOK, Users, CurrentRuns, OwnerOf, Using
  <2>7. ASSUME NEW u \in Users, RingStart(u) \/ Poll(u) \/ RingStop(u) \/ Sent(u)
        PROVE  IInv'
    <3>1. /\ at' = [at EXCEPT ![u] = at'[u]]
          /\ at[u] \in Using \ {"check"} /\ at'[u] \in Using \ {"check"}
          /\ UNCHANGED <<owner, current, old>>
      BY <1>2, <2>7 DEF RingStart, Poll, RingStop, Sent, Goto, TypeOK, Using
    <3>2. Queued'
      BY <1>2, <3>1, QueueSame DEF Alive, TypeOK, Users, Using
    <3> QED
      BY <1>2, <3>1, <3>2 DEF TypeOK, Users, CurrentRuns, OwnerOf, Using
  <2>8. CASE LogStart \/ LogCheck
    <3>1. Queued'
      BY <1>2, <2>8, QueueSame DEF LogStart, LogCheck, Goto, Alive, TypeOK, Users
    <3> QED
      BY <1>2, <2>8, <3>1
         DEF LogStart, LogCheck, ScopeFree, Goto, TypeOK, Users, CurrentRuns, OwnerOf, Using
  <2>9. ASSUME UNCHANGED <<owner, current, at, old>>
        PROVE  IInv'
    <3>1. Queued'
      BY <1>2, <2>9, QueueSame DEF Alive
    <3> QED
      BY <1>2, <2>9, <3>1 DEF CurrentRuns, OwnerOf
  <2>10. ASSUME \/ \E s \in Sessions : Closes(s)
                \/ StopStream \/ LogStop \/ CaptureArm \/ CaptureDone \/ ScopeStop
                \/ Pause \/ LoadDone \/ UNCHANGED vars
         PROVE  IInv'
    <3>1. UNCHANGED <<owner, current, at, old>>
      BY <2>10 DEF Closes, StopStream, LogStop, CaptureArm, CaptureDone, ScopeStop, Pause,
                   LoadDone, vars
    <3> QED
      BY <2>9, <3>1
  <2> QED
    BY <1>2, <2>1, <2>2, <2>3, <2>4, <2>5, <2>6, <2>7, <2>8, <2>10
       DEF Next, Session, Ring, Users
<1> QED
  BY <1>1, <1>2, TypeCorrect, PTL DEF Spec

\* "The triggered scope, the stream and a log exclude each other" (fpga_access.py 66)
\* and "one client at a time; a new one takes over" (1451), for any number of clients.
THEOREM OneUserOfTheScope == PromptClients /\ Spec => []Exclusive
<1>1. ASSUME TypeOK, IInv
      PROVE  Exclusive
  <2>1. \A u, v \in Users : at[u] \in Using /\ at[v] \in Using => u = v
    BY <1>1, QueueAhead, NamesDiffer DEF IInv, OwnerOf, OneAhead, Users
  <2> DEFINE Them == {u \in Users : at[u] \in Using}
  <2>2. Cardinality(Them) <= 1
    <3>1. CASE Them = {}
      BY <3>1, FS_EmptySet
    <3>2. CASE \E u \in Users : u \in Them
      <4>1. PICK u \in Users : Them = {u}
        BY <2>1, <3>2
      <4> QED
        BY <4>1, FS_Singleton
    <3> QED
      BY <3>1, <3>2
  <2> QED
    BY <1>1, <2>2 DEF IInv, OwnerOf, Exclusive, OneUser
<1> QED
  BY <1>1, TypeCorrect, Invariant, PTL

\* Whoever streams or logs has its own settings in the scope, but for a core load.
THEOREM UndisturbedUsers == PromptClients /\ Spec => []Undisturbed
<1> SUFFICES ASSUME PromptClients PROVE Spec => []Undisturbed
  OBVIOUS
<1> USE NamesDiffer
<1>1. Init => Undisturbed
  BY DEF Init, Undisturbed, Running
<1>2. ASSUME TypeOK, IInv, Undisturbed, [Next]_vars
      PROVE  Undisturbed'
  <2>1. \A u, v \in Users : at[u] \in Using /\ at[v] \in Using => u = v
    BY <1>2, QueueAhead DEF IInv, OwnerOf, OneAhead, Users
  <2>2. owner = Nil => \A u \in Users : at[u] \notin Using
    BY <1>2 DEF IInv, OwnerOf, Users
  <2> USE DEF Undisturbed, Running
  <2>3. ASSUME NEW s \in Sessions, Connect(s) \/ Session(s) \/ Closes(s)
        PROVE  Undisturbed'
    BY <1>2, <2>3
       DEF Connect, Session, Waited, Claim, Sent, Leave, Closes, Goto, scope, TypeOK, Users
  <2>4. ASSUME NEW u \in Users, Ring(u)
        PROVE  Undisturbed'
    BY <1>2, <2>1, <2>4
       DEF Ring, RingStart, Poll, RingStop, Release, Written, Goto, scope, TypeOK, Using
  <2>5. CASE StopStream \/ LogStart \/ LogCheck \/ LogStop
    BY <1>2, <2>5 DEF StopStream, LogStart, LogCheck, LogStop, Goto, scope, TypeOK
  <2>6. CASE CaptureArm \/ CaptureDone \/ ScopeStop
    BY <1>2, <2>2, <2>6 DEF CaptureArm, CaptureDone, ScopeStop, ScopeFree, Using
  <2>7. CASE Pause \/ LoadDone \/ UNCHANGED vars
    BY <1>2, <2>7 DEF Pause, LoadDone, vars, scope
  <2> QED
    BY <1>2, <2>3, <2>4, <2>5, <2>6, <2>7 DEF Next
<1> QED
  BY <1>1, <1>2, TypeCorrect, Invariant, PTL DEF Spec

\* A capture is told when a stream or a log has changed its settings, whatever clients do.
THEOREM ArmedKnown == Spec => []ArmedIsTrue
<1>1. Init => ArmedIsTrue
  BY DEF Init, ArmedIsTrue
<1>2. ASSUME ArmedIsTrue, [Next]_vars
      PROVE  ArmedIsTrue'
  <2> USE DEF ArmedIsTrue, scope
  <2>1. ASSUME NEW s \in Sessions, Connect(s) \/ Session(s) \/ Closes(s)
        PROVE  ArmedIsTrue'
    BY <1>2, <2>1 DEF Connect, Session, Waited, Claim, Sent, Leave, Closes
  <2>2. ASSUME NEW u \in Users, Ring(u)
        PROVE  ArmedIsTrue'
    BY <1>2, <2>2 DEF Ring, RingStart, Disarmed, Poll, RingStop, Release
  <2>3. CASE StopStream \/ LogStart \/ LogCheck \/ LogStop
    BY <1>2, <2>3 DEF StopStream, LogStart, LogCheck, LogStop
  <2>4. CASE CaptureArm \/ CaptureDone \/ ScopeStop \/ Pause \/ LoadDone \/ UNCHANGED vars
    BY <1>2, <2>4 DEF CaptureArm, CaptureDone, ScopeStop, Pause, LoadDone, vars
  <2> QED
    BY <1>2, <2>1, <2>2, <2>3, <2>4 DEF Next
<1> QED
  BY <1>1, <1>2, PTL DEF Spec

-----------------------------------------------------------------------------
(* The ring (DdrRing): counts and slots.                                     *)

\* Records that share a slot of the ring are at least a ring apart.
LEMMA SlotsApart ==
  ASSUME NEW n \in Nat, n > 0, NEW a \in Nat, NEW b \in Nat, a < b, a % n = b % n
  PROVE  a + n <= b
<1>1. a = n * (a \div n) + (a % n) /\ b = n * (b \div n) + (b % n)
  OBVIOUS
<1>2. a \div n \in Int /\ b \div n \in Int
  OBVIOUS
<1>3. (a \div n) + 1 <= b \div n
  <2>1. n * (a \div n) < n * (b \div n)
    BY <1>1, <1>2
  <2> QED
    BY <1>2, <2>1
<1>4. n * ((a \div n) + 1) <= n * (b \div n)
  BY <1>2, <1>3
<1>5. n * ((a \div n) + 1) = n * (a \div n) + n
  BY <1>2
<1> QED
  BY <1>1, <1>2, <1>4, <1>5

LEMMA Divided ==
  ASSUME NEW n \in Nat, n > 0, NEW a \in Int
  PROVE  /\ a % n \in 0 .. n - 1
         /\ a \div n \in Int
         /\ a = n * (a \div n) + (a % n)
OBVIOUS

LEMMA Remainder ==
  ASSUME NEW n \in Nat, n > 0, NEW q \in Int, NEW r \in 0 .. n - 1
  PROVE  (n * q + r) % n = r
OBVIOUS

LEMMA Difference ==
  ASSUME NEW n \in Int, NEW p \in Int, NEW q \in Int, NEW r \in Int, NEW s \in Int
  PROVE  s - r = n * (p - q) + ((n * q + s) - (n * p + r))
<1>1. n * (p - q) = n * p - n * q /\ n * p \in Int /\ n * q \in Int
  OBVIOUS
<1> QED
  BY <1>1

LEMMA Around ==
  ASSUME NEW n \in Nat, n > 0, NEW a \in Nat
  PROVE  (a + n) % n = a % n
<1> DEFINE q == a \div n
           r == a % n
<1>1. q \in Int /\ r \in 0 .. n - 1 /\ a = n * q + r
  OBVIOUS
<1> HIDE DEF q, r
<1>2. n * (q + 1) = n * q + n /\ n * q \in Int
  BY <1>1
<1>3. a + n = n * (q + 1) + r /\ q + 1 \in Int
  BY <1>1, <1>2
<1>4. (n * (q + 1) + r) % n = r
  BY <1>1, <1>3, Remainder
<1> QED
  BY <1>3, <1>4 DEF r

LEMMA SlotsFurther ==
  ASSUME NEW n \in Nat, n > 0, NEW a \in Nat, NEW b \in Nat, a < b, a % n = b % n,
         a + n # b
  PROVE  a + n + n <= b
<1>1. a + n < b /\ a + n \in Nat
  <2>1. a + n <= b
    BY SlotsApart
  <2> QED
    BY <2>1
<1>2. (a + n) % n = b % n
  BY Around
<1> DEFINE c == a + n
<1>3. c \in Nat /\ c < b /\ c % n = b % n
  BY <1>1, <1>2
<1> HIDE DEF c
<1>4. c + n <= b
  BY <1>3, SlotsApart
<1> QED
  BY <1>4 DEF c

\* The difference of two words is how far the count went, if that is less than
\* a word holds.
LEMMA WordDifference ==
  ASSUME NEW n \in Nat, n > 0, NEW t \in Nat, NEW w \in Nat, t <= w, w - t < n
  PROVE  ((w % n) - (t % n)) % n = w - t
<1> DEFINE p == t \div n
           q == w \div n
           r == t % n
           s == w % n
<1>1. /\ p \in Int /\ q \in Int /\ r \in Int /\ s \in Int
      /\ t = n * p + r /\ w = n * q + s
  OBVIOUS
<1> HIDE DEF p, q, r, s
<1>2. s - r = n * (p - q) + (w - t)
  BY <1>1, Difference
<1>3. p - q \in Int /\ w - t \in 0 .. n - 1
  BY <1>1
<1>4. (n * (p - q) + (w - t)) % n = w - t
  BY <1>3, Remainder
<1>5. (s - r) % n = w - t
  BY <1>2, <1>4
<1> QED
  BY <1>5 DEF r, s

\* Extended by the difference, the total is what its new word says.
LEMMA WordKept ==
  ASSUME NEW n \in Nat, n > 0, NEW t \in Nat, NEW c \in 0 .. n - 1
  PROVE  (t + ((c - (t % n)) % n)) % n = c
<1> DEFINE r == t % n
           d == c - r
           p == t \div n
           q == d \div n
           s == d % n
<1>1. r \in Int /\ p \in Int /\ t = n * p + r
  OBVIOUS
<1>2. d \in Int
  BY <1>1
<1>3. q \in Int /\ s \in Int /\ d = n * q + s
  BY <1>2
<1>4. c = d + r
  BY <1>1
<1> HIDE DEF p, q, r, s, d
<1>5. t + s = n * (p - q) + c
  <2>1. n * (p - q) = n * p - n * q /\ n * p \in Int /\ n * q \in Int
    BY <1>1, <1>3
  <2> QED
    BY <1>1, <1>3, <1>4, <2>1
<1>6. (n * (p - q) + c) % n = c
  BY <1>1, <1>3, Remainder
<1>7. (t + s) % n = c
  BY <1>5, <1>6
<1> QED
  BY <1>7 DEF r, s, d

\* A file is cut to whole points.
LEMMA Points ==
  ASSUME NEW n \in Nat, n > 0, NEW k \in Nat
  PROVE  /\ k \div n \in Nat /\ (k \div n) * n \in 0 .. k
         /\ ((k \div n) * n) \div n = k \div n
<1>1. k \div n \in Nat /\ k % n \in 0 .. n - 1 /\ k = n * (k \div n) + (k % n)
  OBVIOUS
<1>2. \A q \in Nat : (q * n) \div n = q
  OBVIOUS
<1>3. (k \div n) * n = n * (k \div n) /\ n * (k \div n) \in Nat
  BY <1>1
<1> QED
  BY <1>1, <1>2, <1>3

-----------------------------------------------------------------------------
(* The inductive invariant.                                                  *)

\* A session that has found its scope started.
Armed == {"poll", "polled", "copy", "send", "check", "checked", "write"}
Places == Armed \cup {"idle", "arm", "await", "off", "down"}

BusTypes ==
  /\ port \in {"idle", "restart", "post"}
  /\ capture \in 0 .. MaxRuns /\ runs \in 0 .. MaxRuns /\ capture <= runs
  /\ issued \in 0 .. MaxRecords /\ written \in 0 .. issued
  /\ lost \in -1 .. MaxRecords
  /\ memory \in [0 .. Slots - 1 -> (0 .. MaxRuns) \X (0 .. Slots + MaxRecords)]
  /\ flight \subseteq {capture} \X (written .. issued - 1)

ReaderTypes ==
  /\ kind \in {"stream", "log"} /\ pc \in Places
  /\ first \in Nat /\ total \in Nat /\ sent \in Nat /\ synced \in Nat
  /\ count \in 0 .. Word - 1 /\ last32 \in 0 .. Word - 1
  /\ bounce \in Seq(Records) /\ Len(bounce) <= Chunk /\ out \in Seq(Records)
  /\ meta \in [state : {"done", "running", "interrupted", "failed"}, points : Nat]
  /\ barred \in BOOLEAN

\* A record that has landed is in its slot until the next one there lands: few
\* are under way at a time, so the next but one cannot come first.
BusInv ==
  /\ issued - written <= Flight /\ lost <= issued
  /\ port = "post" =>
       \A i \in Nat : Landed(i) /\ ~Landed(i + Slots) =>
         memory[i % Slots] = <<capture, Number(i)>>

\* The reader's total follows the capture it has armed; its scope never starts
\* again under it, and what is under way goes with a core load.
PortInv ==
  /\ pc \in {"await"} \cup Armed /\ port = "post" =>
       /\ capture = runs
       /\ issued - total < Word /\ total <= written
       /\ kind = "log" => lost < 0
  /\ pc \in Armed =>
       /\ port # "restart" /\ (port = "idle" => flight = {})
       /\ last32 = total % Word
       /\ first = StartOf(kind)
  /\ pc \in {"polled", "checked"} /\ port = "post" => Extended <= written

\* Where the copied records are: in bounce, or sent and to be looked at.
ReaderInv ==
  /\ pc \in {"arm", "await"} => total = 0 /\ sent = 0 /\ out = <<>> /\ bounce = <<>>
  /\ InSession => ended = "no"
  /\ pc \in {"poll", "polled"} => bounce = <<>>
  /\ pc \in Armed \ {"check", "checked"} => Len(out) = sent
  /\ pc \in {"check", "checked"} =>
       /\ Len(out) = sent + Len(bounce)
       /\ \A j \in 1 .. Len(bounce) : out[sent + j] = bounce[j]
  /\ pc \in {"send", "check", "checked"} => kind = "stream"
  /\ pc \in {"write", "down"} => kind = "log"

LEMMA Sizes ==
  /\ Slots \in Nat /\ Slots > 0 /\ Margin \in Nat /\ Margin > 0 /\ Chunk \in Nat /\ Chunk > 0
  /\ Flight \in Nat /\ Flight > 0 /\ Word \in Nat /\ Word > 0
  /\ PointRecords \in Nat /\ PointRecords > 0
  /\ MaxRecords \in Nat /\ MaxRuns \in Nat /\ DeepStart \in Nat
  /\ Flight <= Margin /\ Margin < Slots /\ Slots <= Word
  BY RingAssumption

RingIInv == BusTypes /\ ReaderTypes /\ BusInv /\ PortInv /\ ReaderInv

LEMMA TypesHold == RingIInv => RingTypeOK
<1> SUFFICES ASSUME RingIInv PROVE RingTypeOK
  OBVIOUS
<1>0. /\ ReaderInv /\ pc \in Places
      /\ Len(bounce) \in Nat /\ Len(out) \in Nat /\ sent \in Nat
  BY DEF RingIInv, ReaderTypes
<1>1. InSession => sent <= Len(out)
  <2>1. CASE pc \in {"arm", "await"}
    BY <1>0, <2>1 DEF ReaderInv
  <2>2. CASE pc \in {"check", "checked"}
    BY <1>0, <2>2 DEF ReaderInv
  <2>3. CASE pc \in Armed \ {"check", "checked"}
    BY <1>0, <2>3 DEF ReaderInv
  <2> QED
    BY <1>0, <2>1, <2>2, <2>3 DEF Places, InSession
<1>2. (InSession /\ pc \notin {"arm", "await"} /\ port = "post") => total <= written
  BY DEF RingIInv, ReaderTypes, PortInv, Places, InSession
<1> QED
  BY <1>1, <1>2 DEF RingIInv, RingTypeOK, BusTypes, ReaderTypes

LEMMA RingStarts == RingInit => RingIInv
<1> SUFFICES ASSUME RingInit PROVE RingIInv
  OBVIOUS
<1> USE Sizes
<1>1. BusTypes
  <2>1. memory \in [0 .. Slots - 1 -> (0 .. MaxRuns) \X (0 .. Slots + MaxRecords)]
    <3>1. <<0, 0>> \in (0 .. MaxRuns) \X (0 .. Slots + MaxRecords)
      OBVIOUS
    <3> QED
      BY <3>1 DEF RingInit, Stale
  <2> QED
    BY <2>1 DEF RingInit, BusTypes
<1>2. ReaderTypes
  <2>1. bounce \in Seq(Records) /\ out \in Seq(Records) /\ Len(bounce) = 0
    BY DEF RingInit
  <2>2. meta \in [state : {"done", "running", "interrupted", "failed"}, points : Nat]
    BY DEF RingInit
  <2>3. kind \in {"stream", "log"} /\ pc \in Places /\ barred \in BOOLEAN
    BY DEF RingInit, Places
  <2>4. count \in 0 .. Word - 1 /\ last32 \in 0 .. Word - 1
    BY DEF RingInit
  <2> QED
    BY <2>1, <2>2, <2>3, <2>4 DEF RingInit, ReaderTypes
<1>3. BusInv
  BY DEF RingInit, BusInv
<1>4. PortInv /\ ReaderInv
  BY DEF RingInit, PortInv, ReaderInv, Armed, InSession
<1> QED
  BY <1>1, <1>2, <1>3, <1>4 DEF RingIInv

-----------------------------------------------------------------------------
(* The steps of the bus, and of the reader.                                  *)

BusStep == Issue \/ Land \/ Answer \/ Drop \/ Restarted \/ CoreLoad

ReaderStep ==
  \/ \E k \in {"stream", "log"} : Start(k)
  \/ Arm \/ Await \/ Look \/ LookFails \/ Polled \/ CopyRecord
  \/ Send \/ Checked \/ WriteOut \/ CardFails \/ Stop \/ PausedOut \/ Off
  \/ Crash \/ Recover \/ SwitchTraffic

LEMMA Steps == [RingNext]_ringVars <=> BusStep \/ ReaderStep \/ UNCHANGED ringVars
  BY DEF RingNext, BusStep, ReaderStep

LEMMA BusTyped ==
  ASSUME BusTypes, BusInv, BusStep
  PROVE  BusTypes'
<1> USE Sizes DEF BusTypes
<1>1. CASE Issue
  <2>1. issued \in Nat /\ written \in Nat /\ issued < MaxRecords
    BY <1>1 DEF Issue
  <2>2. flight' \subseteq {capture} \X (written .. issued)
    BY <1>1, <2>1 DEF Issue
  <2> QED
    BY <1>1, <2>1, <2>2 DEF Issue
<1>2. CASE Land
  <2>1. PICK f \in flight :
          /\ flight' = flight \ {f}
          /\ memory' = [memory EXCEPT ![f[2] % Slots] = <<f[1], Number(f[2])>>]
          /\ UNCHANGED <<port, capture, issued, written, lost, runs, reader, barred>>
    BY <1>2 DEF Land
  <2>2. f[1] = capture /\ f[2] \in written .. issued - 1
    OBVIOUS
  <2>3. <<f[1], Number(f[2])>> \in (0 .. MaxRuns) \X (0 .. Slots + MaxRecords)
    BY <2>2 DEF Number
  <2> QED
    BY <2>1, <2>3
<1>3. CASE Answer
  <2>1. PICK w \in (written + 1) .. issued :
          /\ \A i \in written .. w - 1 : <<capture, i>> \notin flight
          /\ written' = w
          /\ UNCHANGED <<port, capture, issued, lost, flight, memory, runs, reader, barred>>
    BY <1>3 DEF Answer
  <2>2. flight \subseteq {capture} \X (w .. issued - 1)
    <3> SUFFICES ASSUME NEW f \in flight PROVE f \in {capture} \X (w .. issued - 1)
      OBVIOUS
    <3>1. f = <<capture, f[2]>> /\ f[2] \in written .. issued - 1
      OBVIOUS
    <3>2. f[2] \notin written .. w - 1
      BY <2>1, <3>1
    <3> QED
      BY <2>1, <3>1, <3>2
  <2> QED
    BY <2>1, <2>2
<1>4. CASE Drop
  BY <1>4 DEF Drop
<1>5. CASE Restarted
  BY <1>5 DEF Restarted, BusIdle, Stale
<1>6. CASE CoreLoad
  BY <1>6 DEF CoreLoad
<1> QED
  BY <1>1, <1>2, <1>3, <1>4, <1>5, <1>6 DEF BusStep

LEMMA BusHolds ==
  ASSUME BusTypes, BusInv, BusStep
  PROVE  BusInv'
<1> USE Sizes DEF BusTypes
<1>1. CASE Issue
  <2>1. issued' - written' <= Flight /\ lost' <= issued'
    BY <1>1 DEF Issue, BusInv
  <2>2. ASSUME port' = "post", NEW i \in Nat, Landed(i)', ~Landed(i + Slots)'
        PROVE  memory'[i % Slots] = <<capture', Number(i)'>>
    <3>1. Landed(i) /\ ~Landed(i + Slots)
      BY <1>1, <2>2 DEF Issue, Landed
    <3> QED
      BY <1>1, <3>1 DEF Issue, BusInv, Number
  <2> QED
    BY <2>1, <2>2 DEF BusInv
<1>2. CASE Land
  <2>1. PICK f \in flight :
          /\ flight' = flight \ {f}
          /\ memory' = [memory EXCEPT ![f[2] % Slots] = <<f[1], Number(f[2])>>]
          /\ UNCHANGED <<port, capture, issued, written, lost, runs, reader, barred>>
    BY <1>2 DEF Land
  <2> DEFINE k == f[2]
  <2>2. f = <<capture, k>> /\ k \in written .. issued - 1 /\ k \in Nat
    OBVIOUS
  <2>3. ASSUME port = "post", NEW i \in Nat, Landed(i)', ~Landed(i + Slots)'
        PROVE  memory'[i % Slots] = <<capture, Number(i)>>
    <3>0. i % Slots \in 0 .. Slots - 1 /\ k % Slots \in 0 .. Slots - 1
      <4>1. k \in Nat
        BY <2>2
      <4> HIDE DEF BusTypes, k
      <4> QED
        BY <4>1, Divided
    <3>1. CASE i = k
      BY <2>1, <2>2, <3>0, <3>1
    <3>2. CASE i # k
      <4>1. Landed(i) /\ ~Landed(i + Slots)
        BY <2>1, <2>2, <2>3, <3>2 DEF Landed
      <4>2. i % Slots # k % Slots
        <5>0. SUFFICES ASSUME i % Slots = k % Slots PROVE FALSE
          OBVIOUS
        <5>1. i < issued /\ issued - written <= Flight /\ k \in Nat
          BY <2>2, <4>1 DEF Landed, BusInv
        <5>2. CASE i < k
          <6>1. i + Slots # k
            BY <2>1, <2>2, <2>3 DEF Landed
          <6>2. i + Slots + Slots <= k
            BY <5>0, <5>1, <5>2, <6>1, SlotsFurther
          <6>3. i + Slots < written /\ i + Slots \in Nat
            BY <2>2, <6>2, <5>1
          <6>4. i + Slots \notin written .. issued - 1 /\ i + Slots < issued
            BY <6>3
          <6>5. Landed(i + Slots)
            BY <6>4 DEF Landed
          <6> QED
            BY <4>1, <6>5
        <5>3. CASE k < i
          <6>1. k + Slots <= i
            BY <5>0, <5>1, <5>3, SlotsApart
          <6> QED
            BY <2>2, <5>1, <6>1
        <5> QED
          BY <5>1, <3>2, <5>2, <5>3
      <4>3. memory'[i % Slots] = memory[i % Slots]
        BY <2>1, <3>0, <4>2
      <4> QED
        BY <2>3, <4>1, <4>3 DEF BusInv
    <3> QED
      BY <3>1, <3>2
  <2> QED
    BY <2>1, <2>3 DEF BusInv, Number
<1>3. CASE Answer
  BY <1>3 DEF Answer, BusInv, Landed, Number
<1>4. CASE Drop
  <2>1. ASSUME NEW i \in Nat, Landed(i)
        PROVE  Number(i)' = Number(i)
    BY <1>4, <2>1 DEF Drop, Landed, Number
  <2> QED
    BY <1>4, <2>1 DEF Drop, BusInv, Landed
<1>5. CASE Restarted
  BY <1>5 DEF Restarted, BusInv, Landed
<1>6. CASE CoreLoad
  BY <1>6 DEF CoreLoad, BusInv
<1> QED
  BY <1>1, <1>2, <1>3, <1>4, <1>5, <1>6 DEF BusStep

\* The reader leaves the bus alone, but for starting and stopping the capture.
LEMMA ReaderKeepsBus ==
  ASSUME ReaderStep
  PROVE  /\ UNCHANGED <<capture, issued, written, lost, flight, memory>>
         /\ port' = port \/ port' \in {"restart", "idle"}
         /\ runs' = runs \/ (runs < MaxRuns /\ runs' = runs + 1)
<1>1. CASE \E k \in {"stream", "log"} : Start(k)
  BY <1>1 DEF Start, hardware
<1>2. CASE Arm \/ Await \/ Off
  BY <1>2 DEF Arm, Await, Off, hardware
<1>3. CASE Look \/ LookFails \/ Polled \/ CopyRecord \/ Send
  BY <1>3 DEF Look, LookFails, Polled, CopyRecord, Send, hardware
<1>4. CASE Checked \/ WriteOut \/ CardFails \/ Stop \/ PausedOut
  BY <1>4 DEF Checked, WriteOut, CardFails, Stop, PausedOut, hardware
<1>5. CASE Crash \/ Recover \/ SwitchTraffic
  BY <1>5 DEF Crash, Recover, SwitchTraffic, hardware
<1> QED
  BY <1>1, <1>2, <1>3, <1>4, <1>5 DEF ReaderStep

LEMMA BusNext ==
  ASSUME BusTypes, BusInv, [RingNext]_ringVars
  PROVE  BusTypes' /\ BusInv'
<1>1. CASE BusStep
  BY <1>1, BusTyped, BusHolds
<1>2. CASE ReaderStep
  <2>0. runs' \in 0 .. MaxRuns /\ capture <= runs'
    <3>1. runs' = runs \/ (runs < MaxRuns /\ runs' = runs + 1)
      BY <1>2, ReaderKeepsBus
    <3>2. MaxRuns \in Nat /\ runs \in 0 .. MaxRuns /\ capture \in Nat /\ capture <= runs
      BY Sizes DEF BusTypes
    <3> QED
      BY <3>1, <3>2
  <2>1. BusTypes'
    BY <1>2, <2>0, ReaderKeepsBus DEF BusTypes
  <2>2. BusInv'
    BY <1>2, ReaderKeepsBus DEF BusInv, Landed, Number
  <2> QED
    BY <2>1, <2>2
<1>3. CASE UNCHANGED ringVars
  BY <1>3 DEF ringVars, hardware, BusTypes, BusInv, Landed, Number
<1> QED
  BY <1>1, <1>2, <1>3, Steps

LEMMA BusKeepsReader ==
  ASSUME BusStep
  PROVE  UNCHANGED reader /\ UNCHANGED barred /\ UNCHANGED runs
<1>1. CASE Issue \/ Land \/ Answer
  BY <1>1 DEF Issue, Land, Answer
<1>2. CASE Drop \/ Restarted \/ CoreLoad
  BY <1>2 DEF Drop, Restarted, CoreLoad
<1> QED
  BY <1>1, <1>2 DEF BusStep

LEMMA RecordAt ==
  ASSUME BusTypes, NEW i \in Nat
  PROVE  memory[i % Slots] \in Records
<1>1. i % Slots \in 0 .. Slots - 1
  BY Sizes, Divided
<1> QED
  BY <1>1, Sizes DEF BusTypes, Records

LEMMA Piece ==
  ASSUME NEW t \in Int, NEW s \in Nat, first \in Nat
  PROVE  /\ PieceOf(t, s) \in Int
         /\ PieceOf(t, s) <= t - s /\ PieceOf(t, s) <= Chunk
<1>1. Slots - ((first + s) % Slots) \in Int
  <2>1. first + s \in Int
    OBVIOUS
  <2> QED
    BY <2>1, Sizes, Divided
<1> DEFINE r == Slots - ((first + s) % Slots)
<1> HIDE DEF r
<1>2. PieceOf(t, s) = LET least(a, b) == IF a < b THEN a ELSE b
                      IN  least(least(t - s, Chunk), r)
  BY DEF PieceOf, r
<1>3. r \in Int
  BY <1>1 DEF r
<1> QED
  BY <1>2, <1>3, Sizes

LEMMA ExtendedWord ==
  ASSUME ReaderTypes
  PROVE  /\ Extended \in Nat /\ Extended >= total
         /\ last32 = total % Word => count = Extended % Word
<1>1. /\ total \in Nat /\ count - last32 \in Int /\ count \in 0 .. Word - 1
      /\ Word \in Nat /\ Word > 0
  BY Sizes DEF ReaderTypes
<1>2. (count - last32) % Word \in 0 .. Word - 1
  BY <1>1, Divided
<1>3. ASSUME last32 = total % Word
      PROVE  count = Extended % Word
  BY <1>1, <1>3, WordKept DEF Extended
<1> QED
  BY <1>1, <1>2, <1>3 DEF Extended

\* A trimmed file, and its description.
LEMMA TrimmedTyped ==
  ASSUME out \in Seq(Records), Trimmed
  PROVE  /\ out' \in Seq(Records)
         /\ \A state \in {"done", "failed", "interrupted"} :
              Described(state) \in [state : {"done", "running", "interrupted", "failed"}, points : Nat]
<1> DEFINE m == (Len(out) \div PointRecords) * PointRecords
<1>1. m \in 0 .. Len(out)
  BY Sizes, Points
<1> HIDE DEF m
<1>2. out' = SubSeq(out, 1, m) \/ out' = out
  BY DEF Trimmed, Whole, m
<1>3. out' \in Seq(Records)
  BY <1>1, <1>2
<1>4. Len(out') \in Nat
  BY <1>3
<1>5. Len(out') \div PointRecords \in Nat
  BY <1>4, Points, Sizes
<1> QED
  BY <1>3, <1>5 DEF Described

LEMMA ReaderTyped ==
  ASSUME BusTypes, ReaderTypes, [RingNext]_ringVars
  PROVE  ReaderTypes'
<1> USE Sizes DEF ReaderTypes
<1> USE DEF Places, Armed
<1>1. CASE \E k \in {"stream", "log"} : Start(k)
  <2>1. PICK k \in {"stream", "log"} : Start(k)
    BY <1>1
  <2>2. meta' \in [state : {"done", "running", "interrupted", "failed"}, points : Nat]
    BY <2>1 DEF Start
  <2> QED
    BY <2>1, <2>2 DEF Start
<1>2. CASE Arm
  BY <1>2 DEF Arm
<1>17. CASE Await
  <2>1. CASE port = "post"
    BY <1>17, <2>1 DEF Await, StartOf
  <2>2. CASE port # "post"
    BY <1>17, <2>2 DEF Await, Ends
  <2> QED
    BY <2>1, <2>2
<1>3. CASE Look
  <2>1. written % Word \in 0 .. Word - 1
    BY Divided DEF BusTypes
  <2> QED
    BY <1>3, <2>1 DEF Look
<1>4. CASE LookFails \/ PausedOut
  BY <1>4 DEF LookFails, PausedOut, Ends
<1>18. CASE CardFails
  <2>1. PICK k \in 0 .. Len(bounce) : out' = out \o SubSeq(bounce, 1, k)
    BY <1>18 DEF CardFails
  <2>2. SubSeq(bounce, 1, k) \in Seq(Records)
    BY <2>1
  <2>3. out' \in Seq(Records)
    BY <2>1, <2>2
  <2> QED
    BY <1>18, <2>3 DEF CardFails
<1>5. CASE Polled
  BY <1>5, ExtendedWord DEF Polled
<1>6. CASE CopyRecord
  <2>1. first + sent + Len(bounce) \in Nat
    OBVIOUS
  <2>2. memory[(first + sent + Len(bounce)) % Slots] \in Records
    BY <2>1, RecordAt
  <2>3. Len(bounce) + 1 <= Chunk
    <3>0. total \in Int /\ sent \in Nat /\ first \in Nat
      OBVIOUS
    <3>1. PieceOf(total, sent) \in Int /\ PieceOf(total, sent) <= Chunk
      <4> HIDE DEF ReaderTypes
      <4> QED
        BY <3>0, Piece
    <3>2. Len(bounce) < PieceOf(total, sent)
      BY <1>6 DEF CopyRecord
    <3> QED
      BY <3>1, <3>2
  <2>4. /\ bounce' = Append(bounce, memory[(first + sent + Len(bounce)) % Slots])
        /\ pc' \in {"send", "write", "copy"}
        /\ UNCHANGED <<kind, first, count, last32, total, sent, out, synced, meta, barred>>
    BY <1>6 DEF CopyRecord
  <2>5. bounce' \in Seq(Records) /\ Len(bounce') = Len(bounce) + 1
    BY <2>2, <2>4
  <2> QED
    BY <2>3, <2>4, <2>5
<1>7. CASE Send
  <2>1. out \o bounce \in Seq(Records)
    OBVIOUS
  <2> QED
    BY <1>7, <2>1 DEF Send, Ends
<1>8. CASE Checked
  <2>0. bounce \in Seq(Records) /\ Len(bounce) \in Nat /\ sent \in Nat /\ Len(bounce) <= Chunk
    OBVIOUS
  <2>1. sent' \in Nat /\ bounce' \in Seq(Records) /\ Len(bounce') <= Chunk
    <3>1. CASE Lapped(Extended)
      BY <1>8, <2>0, <3>1 DEF Checked
    <3>2. CASE ~Lapped(Extended)
      <4>1. sent' = sent + Len(bounce) /\ bounce' = <<>>
        BY <1>8, <3>2 DEF Checked
      <4> QED
        BY <2>0, <4>1
    <3> QED
      BY <3>1, <3>2
  <2> QED
    BY <1>8, <2>1, ExtendedWord DEF Checked
<1>9. CASE WriteOut
  <2>1. out' \in Seq(Records) /\ sent' \in Nat /\ bounce' = <<>> /\ Len(out') \in Nat
    <3>1. out \o bounce \in Seq(Records) /\ sent + Len(bounce) \in Nat
      OBVIOUS
    <3>2. out' = out \o bounce /\ sent' = sent + Len(bounce) /\ bounce' = <<>>
      BY <1>9 DEF WriteOut
    <3> HIDE DEF ReaderTypes
    <3> QED
      BY <3>1, <3>2
  <2>2. Len(out') \div PointRecords \in Nat
    BY <2>1, Points
  <2>3. meta' \in [state : {"done", "running", "interrupted", "failed"}, points : Nat]
    BY <1>9, <2>2 DEF WriteOut
  <2>4. synced' \in Nat /\ pc' \in Places
    BY <1>9, <2>1 DEF WriteOut
  <2> QED
    BY <1>9, <2>1, <2>3, <2>4 DEF WriteOut
<1>10. CASE Stop
  BY <1>10 DEF Stop
<1>12. CASE Off
  <2>1. CASE kind = "log"
    <3>1. PICK state \in {"done", "failed"} : meta' \in {meta, Described(state)} /\ Trimmed
      BY <1>12, <2>1 DEF Off
    <3>2. out' \in Seq(Records) /\ meta' \in [state : {"done", "running", "interrupted", "failed"}, points : Nat]
      BY <3>1, TrimmedTyped
    <3> QED
      BY <1>12, <3>2 DEF Off
  <2>2. CASE kind # "log"
    BY <1>12, <2>2 DEF Off
  <2> QED
    BY <2>1, <2>2
<1>13. CASE Crash
  <2>1. PICK k \in 0 .. Len(out) : out' = SubSeq(out, 1, k)
    BY <1>13 DEF Crash
  <2>2. out' \in Seq(Records)
    BY <2>1
  <2> QED
    BY <1>13, <2>2 DEF Crash
<1>14. CASE Recover
  <2>1. CASE meta.state = "running"
    <3>1. Trimmed /\ meta' \in {meta, Described("interrupted")} /\ pc' \in {"idle", "down"}
      BY <1>14, <2>1 DEF Recover
    <3>2. out' \in Seq(Records) /\ meta' \in [state : {"done", "running", "interrupted", "failed"}, points : Nat]
      BY <3>1, TrimmedTyped
    <3> QED
      BY <1>14, <3>1, <3>2 DEF Recover
  <2>2. CASE meta.state # "running"
    BY <1>14, <2>2 DEF Recover
  <2> QED
    BY <2>1, <2>2
<1>15. CASE SwitchTraffic
  BY <1>15 DEF SwitchTraffic, reader
<1>16. CASE BusStep \/ UNCHANGED ringVars
  BY <1>16, BusKeepsReader DEF ringVars, reader
<1> QED
  BY <1>1, <1>2, <1>3, <1>4, <1>5, <1>6, <1>7, <1>8, <1>9, <1>10, <1>12, <1>13, <1>14,
     <1>15, <1>16, <1>17, <1>18, Steps DEF ReaderStep

\* A look at the count finds what the bus has answered.
LEMMA LookTells ==
  ASSUME BusTypes, ReaderTypes, PortInv, pc \in Armed, port = "post", Look
  PROVE  Extended' = written
<1>1. /\ total \in Nat /\ written \in Nat /\ issued \in Nat /\ written <= issued
      /\ total <= written /\ issued - total < Word
      /\ Word \in Nat /\ Word > 0
  BY Sizes DEF BusTypes, ReaderTypes, PortInv
<1>2. last32 = total % Word
  BY DEF PortInv
<1>3. ((written % Word) - (total % Word)) % Word = written - total
  <2>1. written - total < Word
    BY <1>1
  <2> QED
    BY <1>1, <2>1, WordDifference
<1>4. count' = written % Word /\ last32' = last32 /\ total' = total
  BY DEF Look
<1>5. Extended' = total + (((written % Word) - (total % Word)) % Word)
  BY <1>2, <1>4 DEF Extended
<1>6. Extended' = total + (written - total)
  BY <1>3, <1>5
<1> QED
  BY <1>1, <1>6

LEMMA PortNext ==
  ASSUME RingIInv, [RingNext]_ringVars
  PROVE  PortInv'
<1> USE Sizes
<1>0. /\ port \in {"idle", "restart", "post"} /\ runs \in Nat /\ issued \in Nat
      /\ written \in Nat /\ written <= issued
      /\ kind \in {"stream", "log"} /\ pc \in Places /\ total \in Nat
      /\ Extended \in Nat /\ total <= Extended
      /\ PortInv
  BY ExtendedWord DEF RingIInv, BusTypes, ReaderTypes
<1>01. pc = "await" => total = 0
  BY DEF RingIInv, ReaderInv
<1>02. pc \in Armed => last32 = total % Word /\ count = Extended % Word
  BY <1>0, ExtendedWord DEF PortInv, RingIInv
<1>1. CASE BusStep
  <2>0. UNCHANGED <<reader, barred, runs>> /\ Extended' = Extended
    BY <1>1, BusKeepsReader DEF reader, Extended
  <2>1. CASE Issue
    <3>1. pc \in {"await"} \cup Armed => issued' - total < Word
      <4>1. issued' = issued + 1 /\ (InSession => issued + 1 - total < Word)
        BY <2>1 DEF Issue, LooksInTime
      <4>2. pc \in {"await"} \cup Armed => InSession
        BY DEF InSession, Armed
      <4> QED
        BY <1>0, <4>1, <4>2
    <3> QED
      BY <1>0, <2>0, <2>1, <3>1 DEF Issue, PortInv, reader, StartOf
  <2>2. CASE Land
    BY <1>0, <2>0, <2>2 DEF Land, PortInv, reader, StartOf
  <2>3. CASE Answer
    <3>1. written' >= written
      BY <1>0, <2>3 DEF Answer
    <3>2. written' \in Nat
      BY <1>0, <2>3 DEF Answer
    <3> QED
      BY <1>0, <2>0, <2>3, <3>1, <3>2 DEF Answer, PortInv, reader, StartOf
  <2>4. CASE Drop
    BY <1>0, <2>0, <2>4 DEF Drop, PortInv, reader, StartOf
  <2>5. CASE Restarted
    <3>1. pc \notin Armed
      BY <1>0, <2>5 DEF Restarted, PortInv
    <3> QED
      BY <1>0, <1>01, <2>0, <2>5, <3>1 DEF Restarted, PortInv, reader, Armed
  <2>6. CASE CoreLoad
    BY <1>0, <2>0, <2>6 DEF CoreLoad, PortInv, reader, StartOf
  <2> QED
    BY <1>1, <2>1, <2>2, <2>3, <2>4, <2>5, <2>6 DEF BusStep
<1>2. CASE Await
  <2>1. CASE port = "post"
    <3>1. 0 = 0 % Word
      OBVIOUS
    <3> HIDE DEF StartOf
    <3>2. /\ pc = "await" /\ pc' = "poll" /\ first' = StartOf(kind) /\ kind' = kind
          /\ last32' = 0 /\ total' = 0
          /\ UNCHANGED <<port, capture, issued, written, lost, flight, runs>>
      BY <1>2, <2>1 DEF Await, Guarded, hardware
    <3>3. StartOf(kind)' = StartOf(kind)
      BY <3>2 DEF StartOf
    <3> QED
      BY <1>0, <1>01, <2>1, <3>1, <3>2, <3>3 DEF PortInv, Armed
  <2>2. CASE port # "post"
    BY <1>2, <2>2 DEF Await, Ends, PortInv, Armed
  <2> QED
    BY <2>1, <2>2
<1>3. CASE Look
  <2>1. /\ pc \in {"poll", "check"} /\ pc' \in {"polled", "checked"}
        /\ count' = written % Word
        /\ UNCHANGED <<hardware, runs, kind, first, last32, total>>
    BY <1>3 DEF Look, Guarded
  <2>2. pc \in Armed /\ pc' \in Armed
    BY <2>1 DEF Armed
  <2>3. ASSUME port = "post" PROVE Extended' = written
    BY <2>2, <2>3, <1>3, LookTells DEF RingIInv
  <2>4. /\ UNCHANGED <<port, capture, issued, written, lost, flight>>
        /\ StartOf(kind)' = StartOf(kind)
    BY <2>1 DEF hardware, StartOf
  <2> QED
    BY <1>0, <2>1, <2>2, <2>3, <2>4 DEF PortInv
<1>4. CASE Polled \/ Checked
  <2>1. /\ pc \in {"polled", "checked"} /\ port = "post" /\ lost < 0
        /\ pc' \in {"off", "copy", "poll"}
        /\ total' = Extended /\ last32' = count
        /\ UNCHANGED <<hardware, runs, kind, first>>
    BY <1>4 DEF Polled, Checked, Guarded, Good
  <2>2. pc \in Armed
    BY <2>1 DEF Armed
  <2>3. last32' = total' % Word
    BY <1>02, <2>1, <2>2
  <2>4. /\ UNCHANGED <<port, capture, issued, written, lost, flight>>
        /\ StartOf(kind)' = StartOf(kind)
    BY <2>1 DEF hardware, StartOf
  <2>5. total' <= written /\ issued - total' < Word
    BY <1>0, <2>1, <2>2 DEF PortInv
  <2> QED
    BY <1>0, <2>1, <2>2, <2>3, <2>4, <2>5 DEF PortInv, Armed
<1>5. CASE CopyRecord \/ Send \/ WriteOut
  <2>1. /\ pc \in {"copy", "send", "write"}
        /\ pc' \in {"copy", "send", "write", "check", "poll", "off"}
        /\ UNCHANGED <<hardware, runs, kind, first, last32, total>>
    BY <1>5 DEF CopyRecord, Send, WriteOut, Ends
  <2>2. pc \in Armed
    BY <2>1 DEF Armed
  <2>3. /\ UNCHANGED <<port, capture, issued, written, lost, flight>>
        /\ StartOf(kind)' = StartOf(kind)
    BY <2>1 DEF hardware, StartOf
  <2> QED
    BY <1>0, <2>1, <2>2, <2>3 DEF PortInv, Armed
<1>6. CASE pc' \in {"arm", "off", "idle", "down"}
  BY <1>6 DEF PortInv, Armed
<1>7. CASE (\E k \in {"stream", "log"} : Start(k)) \/ LookFails \/ CardFails \/ Stop
           \/ PausedOut \/ Off \/ Crash \/ Recover
  <2>1. pc' \in {"arm", "off", "idle", "down"}
    BY <1>7 DEF Start, LookFails, CardFails, Stop, PausedOut, Off, Crash, Recover, Ends
  <2> QED
    BY <1>6, <2>1
<1>8. CASE Arm
  BY <1>8 DEF Arm, PortInv, Armed
<1>9. CASE SwitchTraffic \/ UNCHANGED ringVars
  <2>1. UNCHANGED <<hardware, runs, reader>>
    BY <1>9 DEF SwitchTraffic, ringVars
  <2>2. /\ UNCHANGED <<port, capture, issued, written, lost, flight, runs>>
        /\ UNCHANGED <<kind, pc, first, count, last32, total>>
        /\ Extended' = Extended /\ StartOf(kind)' = StartOf(kind)
    BY <2>1 DEF hardware, reader, Extended, StartOf
  <2> QED
    BY <1>0, <2>2 DEF PortInv
<1> QED
  BY <1>1, <1>2, <1>3, <1>4, <1>5, <1>7, <1>8, <1>9, Steps DEF ReaderStep

LEMMA Joined ==
  ASSUME NEW a \in Seq(Records), NEW b \in Seq(Records)
  PROVE  /\ Len(a \o b) = Len(a) + Len(b)
         /\ \A j \in 1 .. Len(a) : (a \o b)[j] = a[j]
         /\ \A j \in 1 .. Len(b) : (a \o b)[Len(a) + j] = b[j]
OBVIOUS

LEMMA ReaderNext ==
  ASSUME ReaderTypes, ReaderInv, [RingNext]_ringVars
  PROVE  ReaderInv'
<1>0. /\ pc \in Places /\ kind \in {"stream", "log"} /\ sent \in Nat
      /\ bounce \in Seq(Records) /\ out \in Seq(Records)
      /\ Len(bounce) \in Nat /\ Len(out) \in Nat
  BY DEF ReaderTypes
<1> USE DEF Armed
<1>1. CASE pc' \in {"off", "idle", "down"} /\ (pc' = "down" => kind' = "log")
  BY <1>1 DEF ReaderInv, InSession
<1>2. CASE \E k \in {"stream", "log"} : Start(k)
  BY <1>2 DEF Start, ReaderInv
<1>3. CASE Arm
  BY <1>3 DEF Arm, Guarded, ReaderInv, InSession
<1>4. CASE Await
  <2>1. CASE port = "post"
    <3>1. Len(<<>>) = 0
      OBVIOUS
    <3>2. /\ pc = "await" /\ pc' = "poll" /\ total' = 0
          /\ UNCHANGED <<kind, sent, bounce, out, ended>>
      BY <1>4, <2>1 DEF Await, Guarded
    <3>3. sent = 0 /\ out = <<>> /\ bounce = <<>> /\ ended = "no"
      BY <3>2 DEF ReaderInv, InSession
    <3> QED
      BY <3>1, <3>2, <3>3 DEF ReaderInv
  <2>2. CASE port # "post"
    BY <1>1, <1>4, <2>2 DEF Await, Ends
  <2> QED
    BY <2>1, <2>2
<1>5. CASE Look
  BY <1>5 DEF Look, Guarded, ReaderInv, InSession
<1>6. CASE Polled
  BY <1>6 DEF Polled, Guarded, ReaderInv, InSession
<1>7. CASE CopyRecord
  BY <1>0, <1>7 DEF CopyRecord, ReaderInv, InSession
<1>8. CASE Send
  <2>1. CASE pc' = "off"
    BY <1>1, <2>1
  <2>2. CASE pc' = "check" /\ out' = out \o bounce /\ UNCHANGED <<kind, sent, bounce, ended>>
    <3>1. Len(out) = sent /\ kind = "stream" /\ ended = "no"
      BY <1>8 DEF Send, ReaderInv, InSession
    <3>2. /\ Len(out') = sent + Len(bounce)
          /\ \A j \in 1 .. Len(bounce) : out'[sent + j] = bounce[j]
      BY <1>0, <2>2, <3>1, Joined
    <3> QED
      BY <2>2, <3>1, <3>2 DEF ReaderInv
  <2> QED
    BY <1>8, <2>1, <2>2 DEF Send, Ends
<1>9. CASE Checked
  <2>1. CASE Lapped(Extended)
    BY <1>1, <1>9, <2>1 DEF Checked
  <2>2. CASE ~Lapped(Extended)
    <3>1. /\ pc = "checked" /\ pc' = "poll" /\ sent' = sent + Len(bounce) /\ bounce' = <<>>
          /\ UNCHANGED <<kind, out, ended>>
      BY <1>9, <2>2 DEF Checked, Guarded
    <3>2. Len(out) = sent + Len(bounce) /\ ended = "no"
      BY <3>1 DEF ReaderInv, InSession
    <3> QED
      BY <3>1, <3>2 DEF ReaderInv
  <2> QED
    BY <2>1, <2>2
<1>10. CASE WriteOut
  <2>1. /\ pc = "write" /\ out' = out \o bounce /\ sent' = sent + Len(bounce)
        /\ bounce' = <<>> /\ kind' = kind
        /\ \/ pc' \in {"copy", "poll"} /\ ended' = ended
           \/ pc' = "off"
    BY <1>10 DEF WriteOut
  <2>2. Len(out) = sent /\ kind = "log" /\ ended = "no"
    BY <2>1 DEF ReaderInv, InSession
  <2>3. Len(out') = sent'
    BY <1>0, <2>1, <2>2
  <2> QED
    BY <1>1, <2>1, <2>2, <2>3 DEF ReaderInv
<1>11. CASE LookFails \/ CardFails \/ Stop \/ PausedOut \/ Off \/ Crash
  BY <1>1, <1>11 DEF LookFails, CardFails, Stop, PausedOut, Off, Crash, Ends
<1>13. CASE Recover
  <2>1. pc = "down" /\ pc' \in {"idle", "down"} /\ kind' = kind
    BY <1>13 DEF Recover
  <2>2. kind = "log"
    BY <2>1 DEF ReaderInv
  <2> QED
    BY <1>1, <2>1, <2>2
<1>12. CASE BusStep \/ SwitchTraffic \/ UNCHANGED ringVars
  <2>1. UNCHANGED reader
    BY <1>12, BusKeepsReader DEF SwitchTraffic, ringVars
  <2> QED
    BY <2>1 DEF reader, ReaderInv, InSession
<1> QED
  BY <1>2, <1>3, <1>4, <1>5, <1>6, <1>7, <1>8, <1>9, <1>10, <1>11, <1>12, <1>13, Steps
     DEF ReaderStep

LEMMA RingKept == RingIInv /\ [RingNext]_ringVars => RingIInv'
  BY BusNext, ReaderTyped, PortNext, ReaderNext DEF RingIInv

\* The types of the ring, and that a reader of a capture that runs never counts
\* more than the bus has answered.
THEOREM RingTypeCorrect == RingSpec => []RingTypeOK
<1>1. RingSpec => []RingIInv
  BY RingStarts, RingKept, PTL DEF RingSpec
<1> QED
  BY <1>1, TypesHold, PTL

-----------------------------------------------------------------------------
(* The stream.                                                               *)

\* The record of the ring that bounce[j] was copied for.
At(j) == first + sent + j - 1

\* A copied record is the right one, or the writer has gone round past it; the
\* look after the message shows that, by at most what is under way less.
StreamInv ==
  kind = "stream" /\ pc # "idle" =>
    /\ InOrderTo(sent)
    /\ ended = "stopped" => Len(out) = sent
    /\ pc \in {"copy", "send", "check"} /\ Good =>
         \A j \in 1 .. Len(bounce) : bounce[j] = <<runs, At(j)>> \/ issued > At(j) + Slots
    /\ pc = "checked" /\ Good =>
         \A j \in 1 .. Len(bounce) :
           bounce[j] = <<runs, At(j)>> \/ Extended + Flight > At(j) + Slots

\* A record that has landed is in memory, or the writer has started the next one
\* there.
LEMMA RecordFound ==
  ASSUME RingIInv, pc \in Armed, Good, NEW i \in Nat, Landed(i)
  PROVE  memory[i % Slots] = <<runs, i>> \/ issued > i + Slots
<1>1. capture = runs /\ Number(i) = i
  BY Sizes DEF RingIInv, BusTypes, PortInv, Good, Number
<1>2. CASE Landed(i + Slots)
  BY <1>2, Sizes DEF Landed, RingIInv, BusTypes
<1>3. CASE ~Landed(i + Slots)
  BY <1>1, <1>3 DEF RingIInv, BusInv, Good
<1> QED
  BY <1>2, <1>3

LEMMA CountedLanded ==
  ASSUME RingIInv, pc \in Armed, Good, NEW i \in Nat, i < total
  PROVE  Landed(i)
<1>1. i < written /\ written <= issued /\ written \in Nat /\ issued \in Nat
  BY Sizes DEF RingIInv, PortInv, Good, BusTypes, ReaderTypes
<1>2. <<capture, i>> \notin flight
  BY <1>1 DEF RingIInv, BusTypes
<1> QED
  BY <1>1, <1>2 DEF Landed

LEMMA Numbers ==
  ASSUME RingIInv
  PROVE  /\ port \in {"idle", "restart", "post"} /\ runs \in Nat /\ issued \in Nat
         /\ written \in Nat /\ written <= issued /\ issued - written <= Flight
         /\ lost \in Int /\ kind \in {"stream", "log"} /\ pc \in Places
         /\ total \in Nat /\ Extended \in Nat /\ sent \in Nat /\ first \in Nat
         /\ bounce \in Seq(Records) /\ out \in Seq(Records)
         /\ Len(bounce) \in Nat /\ Len(out) \in Nat
<1>1. BusTypes /\ ReaderTypes /\ BusInv /\ Extended \in Nat
  BY ExtendedWord DEF RingIInv
<1>2. /\ port \in {"idle", "restart", "post"} /\ runs \in Nat /\ issued \in Nat
      /\ written \in Nat /\ written <= issued /\ issued - written <= Flight
      /\ lost \in Int
  BY <1>1, Sizes DEF BusTypes, BusInv
<1>3. /\ kind \in {"stream", "log"} /\ pc \in Places
      /\ total \in Nat /\ sent \in Nat /\ first \in Nat
      /\ bounce \in Seq(Records) /\ out \in Seq(Records)
  BY <1>1 DEF ReaderTypes
<1> QED
  BY <1>1, <1>2, <1>3

LEMMA StreamStep ==
  ASSUME "tail" \notin Faults, RingIInv, StreamInv, [RingNext]_ringVars
  PROVE  StreamInv'
<1> SUFFICES ASSUME kind' = "stream", pc' # "idle"
             PROVE  StreamInv'
  BY DEF StreamInv
<1> USE Sizes
<1>0. /\ port \in {"idle", "restart", "post"} /\ runs \in Nat /\ issued \in Nat
      /\ written \in Nat /\ written <= issued /\ issued - written <= Flight
      /\ lost \in Int /\ kind \in {"stream", "log"} /\ pc \in Places
      /\ total \in Nat /\ Extended \in Nat /\ sent \in Nat /\ first \in Nat
      /\ bounce \in Seq(Records) /\ out \in Seq(Records)
      /\ Len(bounce) \in Nat /\ Len(out) \in Nat
  BY Numbers
<1> DEFINE Kept(b) == \A j \in 1 .. Len(b) :
                        b[j] = <<runs, At(j)>> \/ issued > At(j) + Slots
           Seen(b, e) == \A j \in 1 .. Len(b) :
                           b[j] = <<runs, At(j)>> \/ e + Flight > At(j) + Slots
<1>01. kind = "stream" /\ pc # "idle" =>
         /\ InOrderTo(sent)
         /\ ended = "stopped" => Len(out) = sent
         /\ pc \in {"copy", "send", "check"} /\ Good => Kept(bounce)
         /\ pc = "checked" /\ Good => Seen(bounce, Extended)
  BY DEF StreamInv
<1>1. CASE \E k \in {"stream", "log"} : Start(k)
  BY <1>1 DEF Start, StreamInv, InOrderTo
<1>2. CASE \/ Arm \/ Await \/ LookFails \/ PausedOut \/ CardFails \/ Stop
           \/ Polled
  <2>1. /\ pc # "idle" /\ pc' \notin {"send", "check", "checked"}
        /\ UNCHANGED <<kind, runs, sent, out, bounce>>
        /\ pc' = "copy" => pc = "polled"
        /\ ended' = "stopped" => ended = "stopped" \/ pc = "poll"
    BY <1>2 DEF Arm, Await, LookFails, PausedOut, CardFails, Stop, Polled, Ends, Guarded
  <2>2. ended' = "stopped" => Len(out) = sent
    BY <1>01, <2>1 DEF RingIInv, ReaderInv, Armed
  <2>3. pc' = "copy" => Len(bounce') = 0
    BY <2>1 DEF RingIInv, ReaderInv
  <2>4. InOrderTo(sent)'
    BY <1>01, <2>1 DEF InOrderTo, Expected
  <2> QED
    BY <2>1, <2>2, <2>3, <2>4 DEF StreamInv
<1>3. CASE Look
  <2>1. /\ pc # "idle" /\ pc \in Armed /\ pc' \in {"polled", "checked"}
        /\ pc' = "checked" => pc = "check"
        /\ UNCHANGED <<hardware, kind, runs, first, sent, out, bounce, ended>>
    BY <1>3 DEF Look, Guarded, Armed
  <2>2. InOrderTo(sent)' /\ (ended' = "stopped" => Len(out') = sent')
    BY <1>01, <2>1 DEF InOrderTo, Expected
  <2>3. ASSUME pc' = "checked", Good'
        PROVE  \A j \in 1 .. Len(bounce') :
                 bounce'[j] = <<runs', At(j)'>> \/ Extended' + Flight > At(j)' + Slots
    <3>1. Good /\ port = "post" /\ pc = "check" /\ kind = "stream"
      BY <2>1, <2>3 DEF Good, hardware
    <3>2. Extended' = written
      BY <1>3, <2>1, <3>1, LookTells DEF RingIInv
    <3> SUFFICES ASSUME NEW j \in 1 .. Len(bounce), bounce[j] # <<runs, At(j)>>
                 PROVE  Extended' + Flight > At(j) + Slots
      BY <2>1 DEF At
    <3>3. issued > At(j) + Slots
      BY <1>01, <2>1, <3>1
    <3> QED
      BY <1>0, <3>2, <3>3 DEF At
  <2> QED
    BY <2>1, <2>2, <2>3 DEF StreamInv
<1>4. CASE CopyRecord
  <2> DEFINE i == first + sent + Len(bounce)
  <2>1. /\ pc = "copy" /\ kind' = kind /\ pc' \in {"copy", "send", "write"}
        /\ i < total \/ port # "post" \/ Landed(i)
        /\ bounce' = Append(bounce, memory[i % Slots])
        /\ UNCHANGED <<hardware, runs, first, total, sent, out, ended>>
    BY <1>4 DEF CopyRecord
  <2>2. InOrderTo(sent)' /\ (ended' = "stopped" => Len(out') = sent')
    BY <1>01, <2>1 DEF InOrderTo, Expected
  <2>3. i \in Nat
    BY <1>0
  <2> HIDE DEF i
  <2>4. ASSUME Good' PROVE Kept(bounce)'
    <3>1. Good /\ port = "post" /\ pc \in Armed /\ issued' = issued /\ runs' = runs
      BY <2>1, <2>4 DEF Good, hardware, Armed
    <3>2. Landed(i)
      BY <2>1, <2>3, <3>1, CountedLanded
    <3>3. memory[i % Slots] = <<runs, i>> \/ issued > i + Slots
      BY <2>3, <3>1, <3>2, RecordFound
    <3>4. Kept(bounce)
      BY <1>01, <2>1, <3>1
    <3>5. memory[i % Slots] \in Records
      BY <2>3, RecordAt DEF RingIInv
    <3>6. /\ Len(bounce') = Len(bounce) + 1
          /\ \A j \in 1 .. Len(bounce) : bounce'[j] = bounce[j]
          /\ bounce'[Len(bounce) + 1] = memory[i % Slots]
      BY <1>0, <2>1, <3>5
    <3>7. At(Len(bounce) + 1) = i
      BY <1>0 DEF At, i
    <3>8. \A j : At(j)' = At(j)
      BY <2>1 DEF At
    <3> SUFFICES ASSUME NEW j \in 1 .. Len(bounce) + 1
                 PROVE  bounce'[j] = <<runs, At(j)>> \/ issued > At(j) + Slots
      BY <3>1, <3>6, <3>8
    <3>9. CASE j = Len(bounce) + 1
      BY <3>3, <3>6, <3>7, <3>9
    <3>10. CASE j # Len(bounce) + 1
      <4>1. j \in 1 .. Len(bounce)
        BY <1>0, <3>10
      <4> QED
        BY <3>4, <3>6, <4>1
    <3> QED
      BY <3>9, <3>10
  <2> QED
    BY <2>1, <2>2, <2>4 DEF StreamInv
<1>5. CASE Send
  <2>1. /\ pc = "send" /\ Len(out) = sent
        /\ UNCHANGED <<hardware, runs, kind, first, sent, bounce>>
    BY <1>5 DEF Send, Ends, RingIInv, ReaderInv, Armed
  <2>2. CASE pc' = "check" /\ out' = out \o bounce /\ ended' = ended
    <3>1. InOrderTo(sent)'
      <4>1. \A j \in 1 .. sent : out'[j] = out[j]
        BY <1>0, <2>1, <2>2, Joined
      <4> QED
        BY <1>01, <2>1, <4>1 DEF InOrderTo, Expected
    <3>2. ended' # "stopped"
      BY <2>1, <2>2 DEF RingIInv, ReaderInv, InSession
    <3>3. Good' => Kept(bounce)'
      BY <1>01, <2>1 DEF Good, hardware, At
    <3> QED
      BY <2>2, <3>1, <3>2, <3>3 DEF StreamInv
  <2>3. CASE Ends("connection")
    BY <1>01, <2>1, <2>3 DEF Ends, StreamInv, InOrderTo, Expected
  <2> QED
    BY <1>5, <2>2, <2>3 DEF Send
<1>6. CASE Checked
  <2>1. /\ pc = "checked" /\ Good /\ UNCHANGED <<runs, kind, out>>
        /\ pc' \in {"off", "poll"} /\ ended' \in {"overrun", ended}
    BY <1>6 DEF Checked, Guarded
  <2>2. ended' # "stopped"
    BY <2>1 DEF RingIInv, ReaderInv, InSession
  <2>3. CASE Lapped(Extended)
    BY <1>01, <1>6, <2>1, <2>2, <2>3 DEF Checked, StreamInv, InOrderTo, Expected
  <2>4. CASE ~Lapped(Extended)
    <3>1. sent' = sent + Len(bounce) /\ first = DeepStart
      BY <1>6, <2>1, <2>4 DEF Checked, RingIInv, PortInv, Armed, StartOf
    <3>2. \A j \in 1 .. Len(bounce) : out[sent + j] = bounce[j]
      BY <2>1 DEF RingIInv, ReaderInv
    <3>3. ASSUME NEW j \in 1 .. Len(bounce) PROVE bounce[j] = <<runs, At(j)>>
      BY <1>0, <1>01, <2>1, <2>4 DEF Lapped, At
    <3>4. ASSUME NEW i \in 1 .. sent + Len(bounce) PROVE out[i] = Expected(i)
      <4>1. CASE i <= sent
        BY <1>0, <1>01, <2>1, <4>1 DEF InOrderTo
      <4>2. CASE i > sent
        <5> DEFINE j == i - sent
        <5>1. j \in 1 .. Len(bounce) /\ i = sent + j
          BY <1>0, <4>2
        <5>2. out[i] = <<runs, At(j)>>
          BY <3>2, <3>3, <5>1
        <5> QED
          BY <1>0, <2>1, <3>1, <5>1, <5>2 DEF At, Expected
      <4> QED
        BY <1>0, <4>1, <4>2
    <3>5. InOrderTo(sent)'
      BY <2>1, <3>1, <3>4 DEF InOrderTo, Expected
    <3> QED
      BY <2>1, <2>2, <3>5 DEF StreamInv
  <2> QED
    BY <2>3, <2>4
<1>7. CASE WriteOut \/ Off \/ Crash \/ Recover
  BY <1>7 DEF WriteOut, Off, Crash, Recover, RingIInv, ReaderInv
<1>8. CASE BusStep \/ SwitchTraffic \/ UNCHANGED ringVars
  <2>1. UNCHANGED <<reader, runs>>
    BY <1>8, BusKeepsReader DEF SwitchTraffic, ringVars
  <2>2. UNCHANGED <<kind, pc, sent, out, ended, bounce, first, count, last32, total>>
    BY <2>1 DEF reader
  <2>3. InOrderTo(sent)' /\ (ended' = "stopped" => Len(out') = sent')
    BY <1>01, <2>1, <2>2 DEF InOrderTo, Expected
  <2>4. ASSUME pc \in Armed, Good' PROVE Good /\ issued' >= issued /\ issued' \in Nat
    <3>1. CASE Issue \/ Land \/ Answer
      BY <1>0, <2>4, <3>1 DEF Issue, Land, Answer, Good
    <3>2. CASE Drop \/ CoreLoad
      BY <1>0, <2>4, <3>2 DEF Drop, CoreLoad, Good
    <3>3. CASE Restarted
      BY <2>4, <3>3 DEF Restarted, RingIInv, PortInv
    <3>4. CASE SwitchTraffic \/ UNCHANGED ringVars
      BY <1>0, <2>4, <3>4 DEF SwitchTraffic, ringVars, hardware, Good
    <3> QED
      BY <1>8, <3>1, <3>2, <3>3, <3>4 DEF BusStep
  <2>5. ASSUME pc \in {"copy", "send", "check"}, Good' PROVE Kept(bounce)'
    <3>1. Good /\ issued' >= issued /\ issued' \in Nat
      BY <2>4, <2>5 DEF Armed
    <3>2. Kept(bounce)
      BY <1>01, <2>2, <2>5, <3>1
    <3> QED
      BY <1>0, <2>1, <2>2, <3>1, <3>2 DEF At
  <2>6. ASSUME pc = "checked", Good' PROVE Seen(bounce, Extended)'
    <3>1. Good
      BY <2>4, <2>6 DEF Armed
    <3>2. Seen(bounce, Extended)
      BY <1>01, <2>2, <2>6, <3>1
    <3> QED
      BY <2>1, <2>2, <3>2 DEF At, Extended
  <2> QED
    BY <2>2, <2>3, <2>5, <2>6 DEF StreamInv
<1> QED
  BY <1>1, <1>2, <1>3, <1>4, <1>5, <1>6, <1>7, <1>8, Steps DEF ReaderStep

\* Each message of a stream is a run of whole records in order, but for the last
\* before an end that says so: a record is copied only when it has landed, and a
\* lap of the ring is seen by the look after the message, whatever the writer has
\* under way, as that is no more than the margin.
THEOREM StreamInOrder ==
  ASSUME "tail" \notin Faults
  PROVE  RingSpec => []InOrder
<1>1. RingInit => StreamInv
  BY DEF RingInit, StreamInv
<1>2. RingIInv /\ StreamInv /\ [RingNext]_ringVars => StreamInv'
  BY StreamStep
<1>3. RingInit => RingIInv
  BY RingStarts
<1>4. RingIInv /\ [RingNext]_ringVars => RingIInv'
  BY RingKept
<1>5. StreamInv => InOrder
  BY DEF StreamInv, InOrder
<1> QED
  BY <1>1, <1>2, <1>3, <1>4, <1>5, PTL DEF RingSpec

-----------------------------------------------------------------------------
(* The log.                                                                  *)

\* While the card has a poll's records they are in the ring's memory: the poll
\* left a margin to the writer, and until the card is done the writer uses no
\* more than that.
LogInv ==
  kind = "log" =>
    /\ InOrderTo(Len(out))
    /\ pc \notin {"idle", "down"} => meta.state = "running"
    /\ pc = "down" /\ meta.state # "running" => ended = "cut"
    /\ pc = "idle" /\ meta.state # "running" /\ ended \notin {"untrimmed", "cut"} =>
         Len(out) = meta.points * PointRecords
    /\ pc = "polled" /\ port = "post" => issued <= Extended + Margin
    /\ pc \in {"copy", "write"} =>
         /\ total - sent <= Slots - Margin
         /\ sent + Len(bounce) <= total
         /\ \A j \in 1 .. Len(bounce) : bounce[j] = <<runs, sent + j - 1>>
         /\ \A i \in sent .. total - 1 : memory[i % Slots] = <<runs, i>>
         /\ port = "post" => issued <= total + Margin

\* A file cut short is in order as it was.
LEMMA Shortened ==
  ASSUME NEW k \in 0 .. Len(out), out \in Seq(Records), out' = SubSeq(out, 1, k),
         InOrderTo(Len(out)), kind' = kind, runs' = runs
  PROVE  Len(out') = k /\ InOrderTo(Len(out))'
<1>1. Len(out') = k /\ \A i \in 1 .. k : out'[i] = out[i]
  OBVIOUS
<1>2. \A i \in 1 .. k : out[i] = Expected(i)
  BY DEF InOrderTo
<1>3. \A i : Expected(i)' = Expected(i)
  BY DEF Expected
<1> QED
  BY <1>1, <1>2, <1>3 DEF InOrderTo

LEMMA MadeWhole ==
  ASSUME out \in Seq(Records), Trimmed, InOrderTo(Len(out)), kind' = kind, runs' = runs
  PROVE  /\ ended' # "untrimmed" => Len(out') = (Len(out') \div PointRecords) * PointRecords
         /\ InOrderTo(Len(out))'
<1> DEFINE m == (Len(out) \div PointRecords) * PointRecords
<1>1. m \in 0 .. Len(out) /\ m \div PointRecords = Len(out) \div PointRecords
  BY Sizes, Points
<1> HIDE DEF m
<1>2. CASE out' = SubSeq(out, 1, m)
  <2>1. Len(out') = m /\ InOrderTo(Len(out))'
    BY <1>1, <1>2, Shortened
  <2> QED
    BY <1>1, <2>1 DEF m
<1>3. CASE out' = out /\ ended' = "untrimmed"
  BY <1>3 DEF InOrderTo, Expected
<1> QED
  BY <1>2, <1>3 DEF Trimmed, Whole, m

\* What is copied in order is written in order.
LEMMA WrittenOn ==
  ASSUME NEW b \in Seq(Records), out \in Seq(Records), sent \in Nat, kind = "log",
         kind' = kind, runs' = runs, out' = out \o b, Len(out) = sent,
         InOrderTo(Len(out)), \A j \in 1 .. Len(b) : b[j] = <<runs, sent + j - 1>>
  PROVE  InOrderTo(Len(out))'
<1>0. Len(b) \in Nat
  OBVIOUS
<1>1. Len(b) \in Nat /\ Len(out') = sent + Len(b)
  BY <1>0, Joined
<1>2. ASSUME NEW i \in 1 .. sent + Len(b) PROVE out'[i] = Expected(i)
  <2>1. CASE i <= sent
    <3>1. i \in 1 .. Len(out) /\ out'[i] = out[i]
      BY <1>1, <2>1, Joined
    <3> QED
      BY <3>1 DEF InOrderTo
  <2>2. CASE i > sent
    <3> DEFINE j == i - sent
    <3>1. j \in 1 .. Len(b) /\ i = sent + j
      BY <1>1, <2>2
    <3>2. out'[sent + j] = b[j]
      BY <3>1, Joined
    <3>3. Expected(i) = <<runs, 0 + i - 1>> /\ 0 + i - 1 = sent + j - 1
      BY <3>1 DEF Expected
    <3> QED
      BY <3>1, <3>2, <3>3
  <2> QED
    BY <1>1, <2>1, <2>2
<1> QED
  BY <1>1, <1>2 DEF InOrderTo, Expected

\* A landing record does not take the slot of one the card is still to have.
LEMMA LandsElsewhere ==
  ASSUME RingIInv, LogInv, kind = "log", pc \in {"copy", "write"}, Land,
         NEW i \in sent .. total - 1
  PROVE  memory'[i % Slots] = memory[i % Slots]
<1>0. /\ issued \in Nat /\ written \in Nat /\ total \in Nat /\ sent \in Nat
      /\ port \in {"idle", "restart", "post"}
  BY Numbers
<1>1. PICK f \in flight :
        /\ flight' = flight \ {f}
        /\ memory' = [memory EXCEPT ![f[2] % Slots] = <<f[1], Number(f[2])>>]
  BY DEF Land
<1> DEFINE k == f[2]
<1>2. k \in written .. issued - 1
  BY DEF RingIInv, BusTypes
<1>3. port = "post" /\ total <= written
  BY <1>0 DEF RingIInv, PortInv, Armed
<1>4. total - sent <= Slots - Margin /\ issued <= total + Margin
  BY <1>3 DEF LogInv
<1>5. i \in Nat /\ k \in Nat /\ i < k /\ k < i + Slots
  BY <1>0, <1>2, <1>3, <1>4, Sizes
<1> HIDE DEF k
<1>6. i % Slots # k % Slots
  <2> SUFFICES ASSUME i % Slots = k % Slots PROVE FALSE
    OBVIOUS
  <2>1. i + Slots <= k
    BY <1>5, Sizes, SlotsApart
  <2> QED
    BY <1>5, <2>1, Sizes
<1>7. memory' = [memory EXCEPT ![k % Slots] = <<f[1], Number(f[2])>>]
  BY <1>1 DEF k
<1>8. /\ i % Slots \in 0 .. Slots - 1
      /\ memory \in [0 .. Slots - 1 -> (0 .. MaxRuns) \X (0 .. Slots + MaxRecords)]
  BY <1>5, Sizes, Divided DEF RingIInv, BusTypes
<1> QED
  BY <1>6, <1>7, <1>8

LEMMA LogBus ==
  ASSUME "slow" \notin Faults, RingIInv, LogInv, BusStep
  PROVE  LogInv'
<1> SUFFICES ASSUME kind = "log" PROVE LogInv'
  BY BusKeepsReader DEF LogInv, reader
<1>0. /\ issued \in Nat /\ written \in Nat /\ total \in Nat /\ Extended \in Nat
      /\ Margin \in Nat
  BY Numbers, Sizes
<1>1. /\ UNCHANGED <<kind, pc, sent, out, bounce, total, meta, ended, runs>> /\ Extended' = Extended
  BY BusKeepsReader DEF reader, Extended
<1>2. InOrderTo(Len(out))'
  BY <1>1 DEF LogInv, InOrderTo, Expected
<1>3. ASSUME pc \in {"copy", "write"}, NEW i \in sent .. total - 1
      PROVE  memory'[i % Slots] = memory[i % Slots]
  <2>1. CASE Land
    BY <1>3, <2>1, LandsElsewhere
  <2>2. CASE Restarted
    BY <1>3, <2>2 DEF Restarted, RingIInv, PortInv, Armed
  <2> QED
    BY <2>1, <2>2 DEF BusStep, Issue, Answer, Drop, CoreLoad
<1>4. ASSUME port' = "post", pc \in {"polled", "copy", "write"}
      PROVE  port = "post" /\ issued' <= (IF pc = "polled" THEN Extended ELSE total) + Margin
  <2>1. CASE Issue
    <3>1. issued < (IF pc = "polled" THEN Extended ELSE total) + Margin
      BY <1>4, <2>1 DEF Issue, KeepsUp
    <3> QED
      BY <1>0, <1>4, <2>1, <3>1 DEF Issue
  <2>2. CASE Restarted
    BY <1>4, <2>2 DEF Restarted, RingIInv, PortInv, Armed
  <2>3. CASE Land \/ Answer \/ Drop \/ CoreLoad
    <3>1. port = "post" /\ issued' = issued
      BY <1>4, <2>3 DEF Land, Answer, Drop, CoreLoad
    <3> QED
      BY <1>4, <3>1 DEF LogInv
  <2> QED
    BY <2>1, <2>2, <2>3 DEF BusStep
<1> QED
  BY <1>1, <1>2, <1>3, <1>4 DEF LogInv

LEMMA LogReader ==
  ASSUME "slow" \notin Faults, RingIInv, LogInv, ReaderStep
  PROVE  LogInv'
<1> SUFFICES ASSUME kind' = "log" PROVE LogInv'
  BY DEF LogInv
<1>0. /\ issued \in Nat /\ written \in Nat /\ written <= issued
      /\ issued - written <= Flight /\ total \in Nat /\ Extended \in Nat
      /\ sent \in Nat /\ lost \in Int
      /\ bounce \in Seq(Records) /\ out \in Seq(Records)
      /\ Len(bounce) \in Nat /\ Len(out) \in Nat
  BY Numbers
<1>01. kind = "log" =>
         /\ InOrderTo(Len(out))
         /\ pc \notin {"idle", "down"} => meta.state = "running"
         /\ pc = "down" /\ meta.state # "running" => ended = "cut"
         /\ pc = "idle" /\ meta.state # "running" /\ ended \notin {"untrimmed", "cut"} =>
              Len(out) = meta.points * PointRecords
  BY DEF LogInv
<1>1. ASSUME pc \notin {"idle", "down"}, pc' \notin {"idle", "down", "polled", "copy", "write"},
             UNCHANGED <<kind, runs, out, meta>>
      PROVE  LogInv'
  BY <1>01, <1>1 DEF LogInv, InOrderTo, Expected
<1>2. CASE \E k \in {"stream", "log"} : Start(k)
  <2>1. /\ pc' = "arm" /\ out' = <<>> /\ kind' = "log"
        /\ meta' = [state |-> "running", points |-> 0]
    BY <1>2 DEF Start
  <2>2. Len(out') = 0 /\ meta'.state = "running"
    BY <2>1
  <2> QED
    BY <2>1, <2>2 DEF LogInv, InOrderTo
<1>3. CASE Arm \/ Await \/ LookFails \/ PausedOut \/ Stop
  <2>1. /\ pc \notin {"idle", "down"} /\ pc' \in {"await", "poll", "off"}
        /\ UNCHANGED <<kind, runs, out, meta>>
    BY <1>3 DEF Arm, Await, LookFails, PausedOut, Stop, Ends, Guarded
  <2> QED
    BY <1>1, <2>1
<1>13. CASE CardFails
  <2>1. /\ kind = "log" /\ pc \in {"arm", "poll", "write"} /\ pc' = "off"
        /\ UNCHANGED <<kind, runs, meta>>
    BY <1>13 DEF CardFails
  <2>2. PICK k \in 0 .. Len(bounce) : out' = out \o SubSeq(bounce, 1, k)
    BY <1>13 DEF CardFails
  <2> DEFINE b == SubSeq(bounce, 1, k)
  <2>3. b \in Seq(Records) /\ Len(b) = k /\ \A j \in 1 .. k : b[j] = bounce[j]
    BY <1>0, <2>2
  <2>4. Len(out) = sent /\ \A j \in 1 .. Len(bounce) : bounce[j] = <<runs, sent + j - 1>>
    <3>1. CASE pc = "write"
      BY <2>1, <3>1 DEF RingIInv, ReaderInv, Armed, LogInv
    <3>2. CASE pc \in {"arm", "poll"}
      <4>1. bounce = <<>> /\ Len(bounce) = 0 /\ Len(out) = sent
        BY <3>2 DEF RingIInv, ReaderInv, Armed
      <4> QED
        BY <4>1
    <3> QED
      BY <2>1, <3>1, <3>2
  <2> HIDE DEF b
  <2>5. \A j \in 1 .. Len(b) : b[j] = <<runs, sent + j - 1>>
    BY <1>0, <2>2, <2>3, <2>4
  <2>6. out' = out \o b
    BY <2>2 DEF b
  <2>7. InOrderTo(Len(out))'
    BY <1>0, <1>01, <2>1, <2>3, <2>4, <2>5, <2>6, WrittenOn
  <2> QED
    BY <1>01, <2>1, <2>7 DEF LogInv
<1>4. CASE Look
  <2>1. /\ pc \in Armed /\ pc' \in {"polled", "checked"} /\ pc \notin {"idle", "down"}
        /\ UNCHANGED <<hardware, kind, runs, out, meta>>
    BY <1>4 DEF Look, Guarded, Armed
  <2>2. ASSUME port' = "post" PROVE issued' <= Extended' + Margin
    <3>1. port = "post" /\ issued' = issued
      BY <2>1, <2>2 DEF hardware
    <3>2. Extended' = written
      BY <1>4, <2>1, <3>1, LookTells DEF RingIInv
    <3> QED
      BY <1>0, <3>1, <3>2, Sizes
  <2> QED
    BY <1>01, <2>1, <2>2 DEF LogInv, InOrderTo, Expected
<1>5. CASE Polled
  <2>1. /\ pc = "polled" /\ port = "post" /\ lost < 0 /\ total' = Extended
        /\ pc' \in {"off", "copy", "poll"}
        /\ pc' = "copy" => ~Lapping(Extended)
        /\ UNCHANGED <<hardware, kind, runs, sent, bounce, out, meta>>
    BY <1>5 DEF Polled, Guarded, Good
  <2>2. CASE pc' = "copy"
    <3>1. bounce = <<>> /\ Len(bounce) = 0
      BY <2>1 DEF RingIInv, ReaderInv
    <3>2. capture = runs /\ Extended <= written /\ issued <= Extended + Margin
      BY <2>1 DEF RingIInv, PortInv, Armed, LogInv
    <3>3. Extended - sent <= Slots - Margin
      BY <1>0, <2>1, <2>2, Sizes DEF Lapping
    <3>4. ASSUME Extended > sent \/ Extended = sent PROVE sent <= Extended
      BY <1>0, <3>4
    <3>5. ASSUME NEW i \in sent .. Extended - 1 PROVE memory[i % Slots] = <<runs, i>>
      <4>1. i \in Nat /\ i < written /\ i < issued /\ ~(i + Slots < issued)
        BY <1>0, <3>2, <3>3, Sizes
      <4>2. Landed(i) /\ ~Landed(i + Slots)
        BY <1>0, <4>1 DEF Landed, RingIInv, BusTypes
      <4>3. Number(i) = i
        BY <1>0, <2>1 DEF Number
      <4> QED
        BY <2>1, <3>2, <4>1, <4>2, <4>3 DEF RingIInv, BusInv
    <3>6. sent <= Extended
      BY <1>0, <1>5, <2>2 DEF Polled
    <3>7. UNCHANGED <<port, issued, memory>>
      BY <2>1 DEF hardware
    <3>8. InOrderTo(Len(out))' /\ meta'.state = "running"
      BY <1>01, <2>1 DEF InOrderTo, Expected
    <3>9. /\ total' - sent' <= Slots - Margin
          /\ sent' + Len(bounce') <= total'
          /\ issued' <= total' + Margin
          /\ \A i \in sent' .. total' - 1 : memory'[i % Slots] = <<runs', i>>
      BY <1>0, <2>1, <3>1, <3>2, <3>3, <3>5, <3>6, <3>7
    <3> QED
      BY <2>1, <2>2, <3>1, <3>8, <3>9 DEF LogInv
  <2> QED
    BY <1>1, <2>1, <2>2
<1>6. CASE CopyRecord
  <2>1. /\ pc = "copy" /\ Len(bounce) < PieceOf(total, sent)
        /\ bounce' = Append(bounce, memory[(first + sent + Len(bounce)) % Slots])
        /\ pc' \in {"send", "write", "copy"}
        /\ UNCHANGED <<hardware, kind, runs, total, sent, out, meta>>
    BY <1>6 DEF CopyRecord
  <2>2. first = 0
    BY <2>1 DEF RingIInv, PortInv, Armed, StartOf
  <2>3. sent + Len(bounce) < total
    <3>1. /\ PieceOf(total, sent) \in Int
          /\ PieceOf(total, sent) <= total - sent
      <4>1. total \in Int /\ sent \in Nat /\ first \in Nat
        BY <1>0, <2>2
      <4> QED
        BY <4>1, Piece
    <3> QED
      BY <1>0, <2>1, <3>1
  <2> DEFINE i == sent + Len(bounce)
  <2>4. i \in sent .. total - 1 /\ i \in Nat /\ first + sent + Len(bounce) = i
    BY <1>0, <2>2, <2>3
  <2>5. memory[i % Slots] = <<runs, i>>
    BY <2>1, <2>4 DEF LogInv
  <2>6. memory[i % Slots] \in Records
    BY <2>4, RecordAt DEF RingIInv
  <2>7. bounce' = Append(bounce, memory[i % Slots])
    BY <2>1, <2>4
  <2>8. /\ Len(bounce') = Len(bounce) + 1
        /\ \A j \in 1 .. Len(bounce) : bounce'[j] = bounce[j]
        /\ bounce'[Len(bounce) + 1] = <<runs, i>>
    BY <1>0, <2>5, <2>6, <2>7
  <2>9. ASSUME NEW j \in 1 .. Len(bounce) + 1 PROVE bounce'[j] = <<runs, sent + j - 1>>
    <3>1. CASE j = Len(bounce) + 1
      <4>1. sent + j - 1 = i
        BY <1>0, <3>1
      <4> QED
        BY <2>8, <3>1, <4>1
    <3>2. CASE j # Len(bounce) + 1
      <4>1. j \in 1 .. Len(bounce)
        BY <1>0, <3>2
      <4> QED
        BY <2>1, <2>8, <4>1 DEF LogInv
    <3> QED
      BY <3>1, <3>2
  <2>10. UNCHANGED <<port, issued, memory>>
    BY <2>1 DEF hardware
  <2>11. InOrderTo(Len(out))' /\ meta'.state = "running"
    BY <1>01, <2>1 DEF InOrderTo, Expected
  <2>12. /\ total' - sent' <= Slots - Margin
         /\ sent' + Len(bounce') <= total'
         /\ \A n \in sent' .. total' - 1 : memory'[n % Slots] = <<runs', n>>
         /\ port' = "post" => issued' <= total' + Margin
    <3>1. /\ total - sent <= Slots - Margin
          /\ \A n \in sent .. total - 1 : memory[n % Slots] = <<runs, n>>
          /\ port = "post" => issued <= total + Margin
      BY <2>1 DEF LogInv
    <3>2. sent + Len(bounce') <= total
      BY <1>0, <2>3, <2>8
    <3> QED
      BY <2>1, <2>10, <3>1, <3>2
  <2> QED
    BY <2>1, <2>8, <2>9, <2>11, <2>12 DEF LogInv
<1>7. CASE Send \/ Checked
  BY <1>7 DEF Send, Checked, Ends, Guarded, RingIInv, ReaderInv
<1>8. CASE WriteOut
  <2>1. /\ pc = "write" /\ out' = out \o bounce /\ sent' = sent + Len(bounce)
        /\ bounce' = <<>> /\ Len(bounce') = 0
        /\ UNCHANGED <<hardware, runs, kind, total>>
        /\ \/ sent' < total /\ pc' = "copy" /\ meta' = meta
           \/ /\ pc' \in {"poll", "off"}
              /\ meta' \in {meta, [meta EXCEPT !.points = Len(out') \div PointRecords]}
    BY <1>8 DEF WriteOut
  <2>2. Len(out) = sent
    BY <2>1 DEF RingIInv, ReaderInv, Armed
  <2>3. \A j \in 1 .. Len(bounce) : bounce[j] = <<runs, sent + j - 1>>
    BY <2>1 DEF LogInv
  <2>5. InOrderTo(Len(out))'
    BY <1>0, <1>01, <2>1, <2>2, <2>3, WrittenOn
  <2>6. meta'.state = "running"
    BY <1>01, <2>1 DEF RingIInv, ReaderTypes
  <2>7. CASE pc' = "copy"
    <3>0. sent' < total
      BY <2>1, <2>7
    <3>1. /\ total - sent <= Slots - Margin
          /\ \A n \in sent .. total - 1 : memory[n % Slots] = <<runs, n>>
          /\ port = "post" => issued <= total + Margin
      BY <2>1 DEF LogInv
    <3>2. UNCHANGED <<port, issued, memory, total, runs>>
      BY <2>1 DEF hardware
    <3>3. sent' \in Nat /\ sent <= sent'
      BY <1>0, <2>1
    <3>4. total' - sent' <= Slots - Margin /\ sent' + Len(bounce') <= total'
      <4>1. total' = total /\ sent' < total /\ Len(bounce') = 0
        BY <2>1, <3>0, <3>2
      <4>2. /\ total \in Nat /\ sent \in Nat /\ Slots \in Nat /\ Margin \in Nat
            /\ total - sent <= Slots - Margin
        BY <1>0, <3>1, Sizes
      <4>3. total - sent' <= Slots - Margin /\ sent' + 0 <= total
        <5>1. \A t, r, n, k, m \in Nat :
                t - r <= n - m /\ r <= k /\ k < t => t - k <= n - m /\ k + 0 <= t
          OBVIOUS
        <5> QED
          BY <3>3, <4>1, <4>2, <5>1
      <4> QED
        BY <4>1, <4>3
    <3>5. \A n \in sent' .. total' - 1 : memory'[n % Slots] = <<runs', n>>
      BY <1>0, <3>1, <3>2, <3>3
    <3> QED
      BY <2>1, <2>5, <2>6, <2>7, <3>1, <3>2, <3>4, <3>5 DEF LogInv
  <2>8. CASE pc' \in {"poll", "off"}
    BY <2>5, <2>6, <2>8 DEF LogInv
  <2> QED
    BY <2>1, <2>7, <2>8
<1>9. CASE Off
  <2>1. /\ pc = "off" /\ pc' = "idle" /\ kind = "log" /\ UNCHANGED <<kind, runs>> /\ Trimmed
    BY <1>9 DEF Off
  <2>2. PICK state \in {"done", "failed"} : meta' \in {meta, Described(state)}
    BY <1>9, <2>1 DEF Off
  <2>3. /\ ended' # "untrimmed" => Len(out') = (Len(out') \div PointRecords) * PointRecords
        /\ InOrderTo(Len(out))'
    BY <1>0, <1>01, <2>1, MadeWhole
  <2>4. CASE meta' = meta
    BY <1>01, <2>1, <2>3, <2>4 DEF LogInv
  <2>5. CASE meta' = Described(state)
    BY <2>1, <2>3, <2>5 DEF LogInv, Described
  <2> QED
    BY <2>2, <2>4, <2>5
<1>10. CASE Crash
  <2>1. PICK k \in 0 .. Len(out) : out' = SubSeq(out, 1, k)
    BY <1>10 DEF Crash
  <2>3. /\ pc' = "down" /\ UNCHANGED <<kind, runs, meta>>
        /\ meta.state # "running" => ended' = "cut"
    BY <1>10 DEF Crash
  <2>4. InOrderTo(Len(out))'
    BY <1>0, <1>01, <2>1, <2>3, Shortened
  <2> QED
    BY <2>3, <2>4 DEF LogInv
<1>11. CASE Recover
  <2>1. pc = "down" /\ pc' \in {"idle", "down"} /\ UNCHANGED <<kind, runs>>
    BY <1>11 DEF Recover
  <2>2. CASE meta.state = "running"
    <3>1. /\ Trimmed
          /\ \/ meta' = meta /\ pc' = "down"
             \/ meta' = Described("interrupted") /\ pc' = "idle"
      BY <1>11, <2>2 DEF Recover
    <3>2. /\ ended' # "untrimmed" => Len(out') = (Len(out') \div PointRecords) * PointRecords
          /\ InOrderTo(Len(out))'
      BY <1>0, <1>01, <2>1, <3>1, MadeWhole
    <3>3. CASE meta' = meta /\ pc' = "down"
      BY <2>2, <3>2, <3>3 DEF LogInv
    <3>4. CASE meta' = Described("interrupted") /\ pc' = "idle"
      BY <3>2, <3>4 DEF LogInv, Described
    <3> QED
      BY <3>1, <3>3, <3>4
  <2>3. CASE meta.state # "running"
    <3>1. pc' = "idle" /\ UNCHANGED <<out, meta, ended>>
      BY <1>11, <2>3 DEF Recover
    <3>2. InOrderTo(Len(out))' /\ ended' = "cut"
      BY <1>01, <2>1, <2>3, <3>1 DEF InOrderTo, Expected
    <3> QED
      BY <3>1, <3>2 DEF LogInv
  <2> QED
    BY <2>2, <2>3
<1>12. CASE SwitchTraffic
  <2>1. UNCHANGED <<kind, pc, sent, out, bounce, total, meta, ended, runs, port, issued, memory>>
        /\ Extended' = Extended
    BY <1>12 DEF SwitchTraffic, hardware, reader, Extended
  <2>2. InOrderTo(Len(out))'
    BY <1>01, <2>1 DEF InOrderTo, Expected
  <2> QED
    BY <2>1, <2>2 DEF LogInv
<1> QED
  BY <1>2, <1>3, <1>4, <1>5, <1>6, <1>7, <1>8, <1>9, <1>10, <1>11, <1>12, <1>13 DEF ReaderStep

\* What the file of a log holds is its points in order from the first, whatever the
\* writer, a pause, a failing card or a crash did, and a description that is not
\* "running" says how many, on a card that keeps up with the ring; but for a card
\* that failed when the file was trimmed, and a power cut after the end.
THEOREM LogIsTrue ==
  ASSUME "slow" \notin Faults
  PROVE  RingSpec => []LogTrue
<1>1. RingInit => RingIInv /\ LogInv
  BY RingStarts DEF RingInit, LogInv
<1>2. RingIInv /\ LogInv /\ [RingNext]_ringVars => RingIInv' /\ LogInv'
  <2> SUFFICES ASSUME RingIInv, LogInv, [RingNext]_ringVars PROVE LogInv'
    BY RingKept
  <2>1. CASE UNCHANGED ringVars
    BY <2>1 DEF ringVars, hardware, reader, LogInv, InOrderTo, Expected, Extended
  <2> QED
    BY <2>1, LogBus, LogReader, Steps
<1>3. RingIInv /\ LogInv => LogTrue
  BY DEF RingIInv, ReaderTypes, LogInv, LogTrue, InOrderTo
<1> QED
  BY <1>1, <1>2, <1>3, PTL DEF RingSpec

===============================================================================
