------------------------------- MODULE DdrRing -------------------------------
(***************************************************************************)
(* The scope's continuous capture through the DDR ring: the FPGA's writer  *)
(* (scope_ddr_writer.vhd) and the two readers of fpga_access.py, a stream  *)
(* (StreamSession over RingHw) and a data log (LogSession), one session at *)
(* a time.  The writer has several records under way, counts them when the *)
(* bus has answered, and never waits for the reader; the reader counts in  *)
(* words of limited width, copies while the writer goes on, and finds out  *)
(* afterwards whether it was lapped.                                       *)
(*                                                                         *)
(* A record is the pair of its capture and its number, its data left out.  *)
(* The points a log loses are lost whole before the ring                   *)
(* (scope_decimator.vhd), which stays in whole points: what tells of them, *)
(* the number in a point and the count of D_LOST, is data in this sense.   *)
(* Who may have the scope is module ScopeOwner's.                          *)
(***************************************************************************)
EXTENDS Integers, Sequences, FiniteSets

CONSTANTS
  Slots,        \* records the ring holds (W_RING)
  Margin,       \* STREAM_MARGIN
  Chunk,        \* STREAM_CHUNK, records in a message or a write at most
  Flight,       \* records the writer has under way at most
  Word,         \* 2^32 in the FPGA: the counter of written records wraps here
  DeepStart,    \* S_DEEP_START: the ring record of a stream's first sample
  PointRecords, \* records of a log's point
  MaxRecords,   \* bound: records of one capture
  MaxRuns,      \* bound: sessions
  Faults        \* of {"lose", "tail", "slow"}, below

ASSUME RingAssumption ==
  /\ {Slots, Margin, Chunk, Flight, Word, PointRecords, MaxRecords, MaxRuns}
       \subseteq Nat \ {0}
  /\ DeepStart \in Nat
  /\ Flight <= Margin /\ Margin < Slots /\ Slots <= Word
  /\ Faults \subseteq {"lose", "tail", "slow"}

(***************************************************************************)
(* lose  the writer's FIFO runs full and a record is dropped               *)
(* tail  the record after the counted ones may be copied before it landed  *)
(* slow  the card may take longer over a poll's records than the writer    *)
(*       over a margin of new ones                                         *)
(***************************************************************************)

VARIABLES
  port,     \* the scope: "idle", "restart" (the capture port restarts) or "post"
  capture,  \* the number of the capture that runs
  issued,   \* its records put on the bus
  written,  \* its records the bus has answered (capture_written)
  lost,     \* the ring record before which one was dropped, or -1
  flight,   \* records under way that are not in memory: <<capture, index>>
  memory,   \* the ring: [0 .. Ring - 1 -> <<capture, number>>]
  runs,     \* sessions started
  kind,     \* the session: "stream" or "log"
  pc,       \* where its thread is
  first,    \* RingHw.first
  count,    \* the word it has just read
  last32, total, sent, \* RingHw.last32, .total; records sent or in the file
  bounce,   \* the records copied
  out,      \* what the client has received, or the file holds
  synced,   \* the file's records that were fsynced
  meta,     \* the log's description: [state, points]
  ended,    \* how the session ended, "no" while it runs; then "untrimmed", the size
            \* of its file not to be had, and "cut", a power cut after its end
  barred    \* register traffic is paused: Access.paused()

hardware == <<port, capture, issued, written, lost, flight, memory>>
reader == <<kind, pc, first, count, last32, total, sent, bounce, out, synced,
            meta, ended>>
ringVars == <<hardware, runs, reader, barred>>

\* The number of the capture's record at ring record i: one more once one was
\* dropped before it.
Number(i) == IF lost >= 0 /\ i >= lost THEN i + 1 ELSE i

\* What the ring holds of the captures before, all one to this one.
Stale == <<0, 0>>

\* A session that runs: what ends it with an exception is how, below.
InSession == pc \notin {"idle", "off", "down"}

RingInit ==
  /\ port = "idle" /\ capture = 0 /\ issued = 0 /\ written = 0 /\ lost = -1
  /\ flight = {} /\ memory = [s \in 0 .. Slots - 1 |-> Stale]
  /\ runs = 0 /\ kind = "stream" /\ pc = "idle" /\ first = 0
  /\ count = 0 /\ last32 = 0 /\ total = 0 /\ sent = 0
  /\ bounce = <<>> /\ out = <<>> /\ synced = 0
  /\ meta = [state |-> "done", points |-> 0] /\ ended = "no" /\ barred = FALSE

-----------------------------------------------------------------------------
(* The FPGA *)

\* The total with the word just read: the difference, as a word.
Extended == total + ((count - last32) % Word)

\* What the runs assume of a card that keeps up: from a look at the count until
\* the card has that poll's records, the writer starts no more than a margin of
\* new ones.
KeepsUp ==
  \/ "slow" \in Faults \/ kind = "stream" \/ pc \notin {"polled", "copy", "write"}
  \/ issued < (IF pc = "polled" THEN Extended ELSE total) + Margin

\* The count must not go round between two looks of the reader.
LooksInTime == InSession => issued + 1 - total < Word

Issue ==
  /\ port = "post" /\ issued < MaxRecords
  /\ issued - written < Flight
  /\ KeepsUp /\ LooksInTime
  /\ issued' = issued + 1
  /\ flight' = flight \union {<<capture, issued>>}
  /\ UNCHANGED <<port, capture, written, lost, memory, runs, reader, barred>>

\* A record's data reaches the memory, any time before its answer.
Land ==
  \E f \in flight :
    /\ flight' = flight \ {f}
    /\ memory' = [memory EXCEPT ![f[2] % Slots] = <<f[1], Number(f[2])>>]
    /\ UNCHANGED <<port, capture, issued, written, lost, runs, reader, barred>>

\* The answers come in the bursts' order.
Answer ==
  \E w \in (written + 1) .. issued :
    /\ \A i \in written .. w - 1 : <<capture, i>> \notin flight
    /\ written' = w
    /\ UNCHANGED <<port, capture, issued, lost, flight, memory, runs, reader, barred>>

\* In the scope's FIFO, which a log does not fill: its points come one by one.
Drop ==
  /\ "lose" \in Faults /\ port = "post" /\ kind = "stream" /\ lost < 0
  /\ lost' = issued
  /\ UNCHANGED <<port, capture, issued, written, flight, memory, runs, reader, barred>>

\* The port has restarted: it waits for what is on the bus, then starts at
\* record 0.  The scope reaches its state POST after that.
NotAwaited == TRUE                                                  \* mutant
BusIdle == flight = {} /\ written = issued

Restarted ==
  /\ port = "restart" /\ BusIdle
  /\ port' = "post" /\ capture' = runs
  /\ issued' = 0 /\ written' = 0 /\ lost' = -1
  /\ memory' = [s \in 0 .. Slots - 1 |-> Stale]
  /\ UNCHANGED <<flight, runs, reader, barred>>

-----------------------------------------------------------------------------
(* The reader *)

\* guard(fn): no access while register traffic is paused.
Guarded(p) == pc = p /\ ~barred

Ends(how) ==
  /\ pc' = "off" /\ ended' = how
  /\ UNCHANGED <<kind, first, count, last32, total, sent, bounce, out, synced, meta>>

\* A pause at any of its accesses ends the session.
PausedOut ==
  /\ pc \in {"arm", "await", "poll", "polled", "check", "checked"} /\ barred
  /\ Ends("paused")
  /\ UNCHANGED <<hardware, runs, barred>>

Start(k) ==
  /\ pc = "idle" /\ runs < MaxRuns
  /\ runs' = runs + 1 /\ kind' = k /\ pc' = "arm"
  /\ sent' = 0 /\ out' = <<>> /\ bounce' = <<>> /\ synced' = 0 /\ ended' = "no"
  /\ first' = 0 /\ count' = 0 /\ last32' = 0 /\ total' = 0
  /\ meta' = IF k = "log" THEN [state |-> "running", points |-> 0] ELSE meta
  /\ UNCHANGED <<hardware, barred>>

\* RingHw.start: stop, set up, arm.
Arm ==
  /\ Guarded("arm")
  /\ port' = "restart" /\ pc' = "await"
  /\ UNCHANGED <<capture, issued, written, lost, flight, memory, runs, kind,
                 first, count, last32, total, sent, bounce, out, synced, meta,
                 ended, barred>>

StartOfAll(k) == DeepStart                                          \* mutant
StartOf(k) == IF k = "log" THEN 0 ELSE DeepStart

Await ==
  /\ Guarded("await")
  /\ \/ /\ port = "post"
        /\ pc' = "poll" /\ first' = StartOf(kind) /\ last32' = 0 /\ total' = 0
        /\ UNCHANGED <<kind, count, sent, bounce, out, synced, meta, ended>>
     \/ /\ port # "post"
        /\ Ends("the scope did not start")
  /\ UNCHANGED <<hardware, runs, barred>>

\* RingHw.written reads the count, then what was lost and the scope's state;
\* the lock does not hold the FPGA still between the reads.
Look ==
  /\ Guarded("poll") \/ Guarded("check")
  /\ count' = written % Word
  /\ pc' = IF pc = "poll" THEN "polled" ELSE "checked"
  /\ UNCHANGED <<hardware, runs, kind, first, last32, total, sent, bounce, out,
                 synced, meta, ended, barred>>

Good == port = "post" /\ lost < 0

LookFails ==
  /\ Guarded("polled") \/ Guarded("checked")
  /\ ~Good
  /\ Ends("the scope stopped, or records lost")
  /\ UNCHANGED <<hardware, runs, barred>>

Lapping(t) == t - sent > Slots - Margin
LappedBare(t) == t > sent + Slots                                   \* mutant
Lapped(t) == t + Margin > sent + Slots

\* The next piece ends with the counted records, the chunk, or the ring's end.
PieceOf(t, s) ==
  LET least(a, b) == IF a < b THEN a ELSE b
  IN  least(least(t - s, Chunk), Slots - ((first + s) % Slots))

Polled ==
  /\ Guarded("polled") /\ Good
  /\ total' = Extended /\ last32' = count
  /\ \/ Lapping(Extended) /\ pc' = "off" /\ ended' = "overrun"
     \/ ~Lapping(Extended) /\ Extended > sent /\ pc' = "copy" /\ ended' = ended
     \/ /\ ~Lapping(Extended) /\ (Extended = sent \/ kind = "stream")
        /\ pc' = "poll" /\ ended' = ended
  /\ UNCHANGED <<hardware, runs, kind, first, count, sent, bounce, out, synced,
                 meta, barred>>

\* Has the record at ring record i landed?
Landed(i) == i < issued /\ <<capture, i>> \notin flight

CopyRecord ==
  LET i == first + sent + Len(bounce)
  IN  /\ pc = "copy" /\ Len(bounce) < PieceOf(total, sent)
      /\ i < total \/ "tail" \in Faults \/ port # "post" \/ Landed(i)
      /\ bounce' = Append(bounce, memory[i % Slots])
      /\ pc' = IF Len(bounce') = PieceOf(total, sent)
               THEN IF kind = "stream" THEN "send" ELSE "write"
               ELSE "copy"
      /\ UNCHANGED <<hardware, runs, kind, first, count, last32, total, sent,
                     out, synced, meta, ended, barred>>

\* The client takes the message, or nothing for STREAM_SEND_TIMEOUT_S.
Send ==
  /\ pc = "send"
  /\ \/ /\ pc' = "check" /\ out' = out \o bounce
        /\ UNCHANGED <<kind, first, count, last32, total, sent, bounce, synced,
                       meta, ended>>
     \/ Ends("connection")
  /\ UNCHANGED <<hardware, runs, barred>>

Checked ==
  /\ Guarded("checked") /\ Good
  /\ total' = Extended /\ last32' = count
  /\ IF Lapped(Extended)
     THEN pc' = "off" /\ ended' = "overrun" /\ UNCHANGED <<sent, bounce>>
     ELSE pc' = "poll" /\ sent' = sent + Len(bounce) /\ bounce' = <<>>
          /\ ended' = ended
  /\ UNCHANGED <<hardware, runs, kind, first, count, out, synced, meta, barred>>

\* The log's inner loop writes every record of the poll, looks at the file
\* once a second, and ends when the card is nearly full.
WriteOut ==
  /\ pc = "write"
  /\ out' = out \o bounce /\ sent' = sent + Len(bounce) /\ bounce' = <<>>
  /\ \/ sent' < total /\ pc' = "copy" /\ UNCHANGED <<synced, meta, ended>>
     \/ /\ sent' = total
        /\ synced' \in {synced, Len(out')}
        /\ meta' \in {meta, [meta EXCEPT !.points = Len(out') \div PointRecords]}
        /\ \/ pc' = "poll" /\ ended' = ended
           \/ pc' = "off" /\ ended' = "stopped" /\ synced' = Len(out')
  /\ UNCHANGED <<hardware, runs, kind, first, count, last32, total, barred>>

\* An OSError of the first description, the opening, a write (a part of it may be in
\* the file), a flush or statvfs.
CardFails ==
  /\ kind = "log" /\ pc \in {"arm", "poll", "write"}
  /\ pc' = "off" /\ ended' = "file"
  /\ \E k \in 0 .. Len(bounce) : out' = out \o SubSeq(bounce, 1, k)
  /\ UNCHANGED <<hardware, runs, kind, first, count, last32, total, sent, bounce, synced,
                 meta, barred>>

Stop ==
  /\ pc = "poll"
  /\ pc' = "off" /\ ended' = "stopped"
  /\ synced' = Len(out)
  /\ UNCHANGED <<hardware, runs, kind, first, count, last32, total, sent, bounce,
                 out, meta, barred>>

Whole(file) == SubSeq(file, 1, (Len(file) \div PointRecords) * PointRecords)

\* The file trimmed to whole points, unless the card does not even give its size;
\* the description says how many, 0 then.
Trimmed ==
  \/ out' = Whole(out) /\ ended' = ended
  \/ out' = out /\ ended' = "untrimmed"

Described(state) ==
  [state |-> state,
   points |-> IF ended' = "untrimmed" THEN 0 ELSE Len(out') \div PointRecords]

\* The finally clauses: the scope stopped, unless traffic is paused; a log's file
\* trimmed and described.  A description that cannot be written stays "running".
Off ==
  /\ pc = "off"
  /\ port' = IF barred THEN port ELSE "idle"
  /\ pc' = "idle"
  /\ IF kind = "log"
     THEN /\ Trimmed
          /\ meta' \in {meta, Described(IF ended = "stopped" THEN "done" ELSE "failed")}
     ELSE UNCHANGED <<out, meta, ended>>
  /\ bounce' = <<>> /\ sent' = 0
  /\ UNCHANGED <<capture, issued, written, lost, flight, memory, runs, kind, first,
                 count, last32, total, synced, barred>>

-----------------------------------------------------------------------------
(* The surroundings *)

\* The process or the board stops, while a log runs or later: of what was not
\* fsynced any part may be in the file.
Crash ==
  /\ kind = "log" /\ pc # "down"
  /\ \E k \in 0 .. Len(out) :
       (k >= synced \/ k = Len(out)) /\ out' = SubSeq(out, 1, k)
  /\ pc' = "down" /\ sent' = 0 /\ bounce' = <<>>
  /\ ended' = IF meta.state = "running" THEN "crash" ELSE "cut"
  /\ UNCHANGED <<hardware, runs, kind, first, count, last32, total, synced, meta,
                 barred>>

\* recover_logs, at the next start of the process; without a logger until the one
\* after that when it cannot write.
Recover ==
  /\ pc = "down"
  /\ IF meta.state = "running"
     THEN /\ Trimmed
          /\ \/ meta' = Described("interrupted") /\ pc' = "idle"
             \/ meta' = meta /\ pc' = "down"
     ELSE pc' = "idle" /\ UNCHANGED <<out, meta, ended>>
  /\ UNCHANGED <<hardware, runs, kind, first, count, last32, total, sent, bounce,
                 synced, barred>>

\* An operator's pause, or a core load's; a load resets the scope.
SwitchTraffic ==
  /\ barred' = ~barred
  /\ UNCHANGED <<hardware, runs, reader>>

CoreLoad ==
  /\ barred /\ port # "idle"
  /\ port' = "idle" /\ flight' = {} /\ written' = issued
  /\ UNCHANGED <<capture, issued, lost, memory, runs, reader, barred>>

-----------------------------------------------------------------------------

RingNext ==
  \/ Issue \/ Land \/ Answer \/ Drop \/ Restarted
  \/ \E k \in {"stream", "log"} : Start(k)
  \/ Arm \/ Await \/ Look \/ LookFails \/ Polled \/ CopyRecord
  \/ Send \/ Checked \/ WriteOut \/ CardFails \/ Stop \/ PausedOut \/ Off
  \/ Crash \/ Recover \/ SwitchTraffic \/ CoreLoad

RingSpec == RingInit /\ [][RingNext]_ringVars

-----------------------------------------------------------------------------
(* Properties *)

Records == Nat \X Int

RingTypeOK ==
  /\ port \in {"idle", "restart", "post"} /\ capture \in 0 .. MaxRuns
  /\ issued \in 0 .. MaxRecords /\ written \in 0 .. issued /\ lost \in -1 .. MaxRecords
  /\ memory \in [0 .. Slots - 1 -> (0 .. MaxRuns) \X (0 .. Slots + MaxRecords)]
  /\ flight \subseteq {capture} \X (written .. issued - 1)
  /\ Len(bounce) <= Chunk /\ InSession => sent <= Len(out)
  /\ count \in 0 .. Word - 1 /\ last32 \in 0 .. Word - 1
  /\ (InSession /\ pc \notin {"arm", "await"} /\ port = "post") => total <= written

\* What record i of the session should be: a point starts at the ring's record
\* 0, a stream at the scope's first sample.
Expected(i) == <<runs, (IF kind = "log" THEN 0 ELSE DeepStart) + i - 1>>

InOrderTo(k) == \A i \in 1 .. k : out[i] = Expected(i)

\* Each message a client of the stream gets is a run of whole records, in
\* order, nothing left out (the docstring of StreamServer): whatever the
\* writer and a slow client do, only the last message before an end that says
\* so may hold others.  The check after each message has to see every lap, by
\* a count that wraps, with records under way.
InOrder ==
  (kind = "stream" /\ pc # "idle") =>
    /\ InOrderTo(sent)
    /\ ended = "stopped" => Len(out) = sent

\* Whatever is in the file of a log is its points in order from the first, however
\* it ended and was recovered; and a description that says done, failed or interrupted
\* says how many whole points there are.  Excused is a card that fails when the file
\* is trimmed ("untrimmed"), and what a power cut takes later of a file that was not
\* fsynced ("cut"); one that fails at the description leaves it "running".
LogTrue ==
  (kind = "log" /\ pc = "idle") =>
    /\ InOrderTo(Len(out))
    /\ meta.state # "running" /\ ended \notin {"untrimmed", "cut"} =>
         Len(out) = meta.points * PointRecords
=============================================================================
