--------------------------- MODULE LineClientProofs ---------------------------
(***************************************************************************)
(* What holds of the connection of a line client, for any threads and      *)
(* requests, whatever the requests do: there is one line on it at most,    *)
(* and it is of the call that holds the lock.                              *)
(***************************************************************************)
EXTENDS LineClient, SequenceTheorems, TLAPS

Stray == [req : Request, mine : BOOLEAN]
Foreign == [req : Request, mine : {FALSE}]

\* The connection is empty, or holds the request or the answer of the call.
Wire ==
  \/ up = <<>> /\ down = <<>>
  \/ /\ Calling /\ call.at = "await" /\ conn = "open"
     /\ up = <<call.req>> /\ down = <<>>
  \/ /\ Calling /\ call.at = "await"
     /\ up = <<>> /\ \E a : down = <<[req |-> call.req, answer |-> a]>>

LinkInv ==
  /\ Wire
  /\ Calling => call \in Call
  /\ faults \in Nat
  /\ strays \in Seq(Stray)
  /\ ~ResendsLate => strays \in Seq(Foreign)

\* The steps of the client and of the server, and faults elsewhere.
LinkNext ==
  \/ \E t \in Thread, r \in Request : Begin(t, r)
  \/ Send \/ Retry \/ ClientEnds
  \/ \E t \in Thread : Raises(t) \/ Answered(t)
  \/ \E r \in Request : ServeStray(r) \/ \E a : Serve(r, a)
  \/ (Fault /\ ServerGone) \/ ServerBack
  \/ Fault /\ UNCHANGED <<serving, conn, up, down, strays, call>>

-------------------------------------------------------------------------------

LEMMA GivenUp ==
  ASSUME NEW s \in Seq(Stray), NEW u \in Seq(Request), NEW m \in BOOLEAN
  PROVE  s \o [i \in DOMAIN u |-> [req |-> u[i], mine |-> m]] \in Seq(Stray)
<1>1. DOMAIN u = 1 .. Len(u) /\ Len(u) \in Nat /\ \A i \in 1 .. Len(u) : u[i] \in Request
  OBVIOUS
<1>2. [i \in DOMAIN u |-> [req |-> u[i], mine |-> m]] \in [1 .. Len(u) -> Stray]
  BY <1>1 DEF Stray
<1>3. [i \in DOMAIN u |-> [req |-> u[i], mine |-> m]] \in Seq(Stray)
  BY <1>1, <1>2, SeqDef
<1> QED
  BY <1>3

LEMMA Remarked ==
  ASSUME NEW s \in Seq(Stray), NEW b \in BOOLEAN
  PROVE  /\ [i \in DOMAIN s |-> [s[i] EXCEPT !.mine = @ /\ b]] \in Seq(Stray)
         /\ ~b => [i \in DOMAIN s |-> [s[i] EXCEPT !.mine = @ /\ b]] \in Seq(Foreign)
<1>1. DOMAIN s = 1 .. Len(s) /\ Len(s) \in Nat /\ \A i \in 1 .. Len(s) : s[i] \in Stray
  OBVIOUS
<1>2. [i \in DOMAIN s |-> [s[i] EXCEPT !.mine = @ /\ b]] \in [1 .. Len(s) -> Stray]
  BY <1>1 DEF Stray
<1>3. ~b => [i \in DOMAIN s |-> [s[i] EXCEPT !.mine = @ /\ b]] \in [1 .. Len(s) -> Foreign]
  BY <1>1 DEF Stray, Foreign
<1> QED
  BY <1>1, <1>2, <1>3, SeqDef

LEMMA Released ==
  ASSUME NEW s \in Seq(Stray)
  PROVE  /\ [i \in DOMAIN s |-> [s[i] EXCEPT !.mine = FALSE]] \in Seq(Stray)
         /\ [i \in DOMAIN s |-> [s[i] EXCEPT !.mine = FALSE]] \in Seq(Foreign)
<1>1. DOMAIN s = 1 .. Len(s) /\ Len(s) \in Nat /\ \A i \in 1 .. Len(s) : s[i] \in Stray
  OBVIOUS
<1>2. [i \in DOMAIN s |-> [s[i] EXCEPT !.mine = FALSE]] \in [1 .. Len(s) -> Stray]
  BY <1>1 DEF Stray
<1>3. [i \in DOMAIN s |-> [s[i] EXCEPT !.mine = FALSE]] \in [1 .. Len(s) -> Foreign]
  BY <1>1 DEF Stray, Foreign
<1> QED
  BY <1>1, <1>2, <1>3, SeqDef

LEMMA Removed ==
  ASSUME NEW S, NEW s \in Seq(S), NEW i \in DOMAIN s
  PROVE  RemoveAt(s, i) \in Seq(S)
BY DEF RemoveAt

LEMMA UpRequests == LinkInv => up \in Seq(Request)
<1> SUFFICES ASSUME LinkInv PROVE up \in Seq(Request)
  OBVIOUS
<1>1. CASE up = <<>>
  BY <1>1
<1>2. CASE Calling /\ up = <<call.req>>
  <2>1. call.req \in Request
    BY <1>2 DEF LinkInv, Call
  <2> QED
    BY <1>2, <2>1
<1> QED
  BY <1>1, <1>2 DEF LinkInv, Wire

LEMMA FailureCounted == ASSUME LinkInv, Failure PROVE Calling /\ call \in Call /\ faults' \in Nat
<1>1. CASE Dropped
  BY <1>1 DEF Dropped, LinkInv
<1>2. CASE Late
  BY <1>2, ClientAssumption DEF Late, Fault, LinkInv
<1> QED
  BY <1>1, <1>2 DEF Failure

LEMMA LinkStarts == LinkInit => LinkInv
BY DEF LinkInit, LinkInv, Wire, Calling

\* A failure gives up the connection, and what was on it.
LEMMA Closed ==
  ASSUME LinkInv, NEW same \in BOOLEAN, Close(same)
  PROVE  /\ up' = <<>> /\ down' = <<>> /\ strays' \in Seq(Stray)
         /\ ~same => strays' \in Seq(Foreign)
         /\ (~ResendsLate /\ up = <<>>) => strays' \in Seq(Foreign)
<1> DEFINE sent == [i \in DOMAIN up |-> [req |-> up[i], mine |-> TRUE]]
           given == strays \o sent
<1>1. up \in Seq(Request)
  BY UpRequests
<1>2. given \in Seq(Stray)
  BY <1>1, GivenUp DEF LinkInv
<1>3. strays' = [i \in DOMAIN given |-> [given[i] EXCEPT !.mine = @ /\ same]]
  BY DEF Close
<1>4. strays' \in Seq(Stray) /\ (~same => strays' \in Seq(Foreign))
  <2> HIDE DEF given
  <2> QED
    BY <1>2, <1>3, Remarked
<1>5. ASSUME ~ResendsLate, up = <<>>
      PROVE  strays' \in Seq(Foreign)
  <2>1. given = strays
    <3>1. sent = <<>>
      BY <1>5
    <3> HIDE DEF sent
    <3> QED
      BY <3>1 DEF LinkInv
  <2>2. strays \in Seq(Foreign)
    BY <1>5 DEF LinkInv
  <2>3. Len(strays) \in Nat /\ DOMAIN strays = 1 .. Len(strays)
        /\ \A i \in 1 .. Len(strays) : strays[i] \in Foreign
    BY <2>2
  <2>4. strays' \in [1 .. Len(strays) -> Foreign]
    BY <1>3, <2>1, <2>3 DEF Foreign
  <2> QED
    BY <2>3, <2>4, SeqDef
<1> QED
  BY <1>4, <1>5 DEF Close

LEMMA LinkKept ==
  ASSUME LinkInv, [LinkNext]_link
  PROVE  LinkInv'
<1> USE ClientAssumption DEF Calling, Fault
<1>1. ASSUME NEW t \in Thread, NEW r \in Request, Begin(t, r)
      PROVE  LinkInv'
  BY <1>1 DEF Begin, LinkInv, Wire, Call
<1>2. CASE Send
  <2>1. up = <<>> /\ down = <<>> /\ call \in Call /\ call.req \in Request
    BY <1>2 DEF Send, LinkInv, Wire, Call
  <2>2. call' \in Call /\ call'.at = "await" /\ call'.req = call.req /\ up' = <<call.req>>
    BY <1>2, <2>1 DEF Send, Call
  <2>3. Wire'
    BY <1>2, <2>1, <2>2 DEF Send, Wire
  <2> QED
    BY <1>2, <2>2, <2>3 DEF Send, LinkInv
<1>3. CASE Retry
  <2>1. Close(TRUE) /\ call \in Call /\ faults' \in Nat
    BY <1>3, FailureCounted DEF Retry
  <2>2. ~ResendsLate => up = <<>>
    <3>1. ~ResendsLate => faults' = faults
      BY <1>3 DEF Retry, Resent
    <3>2. faults' = faults => Dropped
      BY <1>3 DEF Retry, Failure, Late, LinkInv
    <3>3. Dropped => up = <<>>
      BY DEF Dropped, LinkInv, Wire
    <3> QED
      BY <3>1, <3>2, <3>3
  <2>3. up' = <<>> /\ down' = <<>> /\ strays' \in Seq(Stray)
        /\ (~ResendsLate => strays' \in Seq(Foreign))
    BY <2>1, <2>2, Closed
  <2>4. call' \in Call
    BY <1>3, <2>1 DEF Retry, Call
  <2> QED
    BY <2>1, <2>3, <2>4 DEF LinkInv, Wire
<1>4. ASSUME NEW t \in Thread, Raises(t)
      PROVE  LinkInv'
  <2>1. Close(FALSE) /\ call' = NoCall /\ faults' \in Nat
    BY <1>4, FailureCounted DEF Raises
  <2> QED
    BY <2>1, Closed DEF LinkInv, Wire
<1>5. ASSUME NEW t \in Thread, Answered(t)
      PROVE  LinkInv'
  <2>1. strays' \in Seq(Stray) /\ strays' \in Seq(Foreign)
    BY <1>5, Released DEF Answered, LinkInv
  <2>2. PICK a : up = <<>> /\ down = <<[req |-> call.req, answer |-> a]>>
    BY <1>5 DEF Answered, LinkInv, Wire
  <2>3. Tail(down) = <<>>
    BY <2>2
  <2>4. up' = <<>> /\ down' = <<>>
    BY <1>5, <2>2, <2>3 DEF Answered
  <2> QED
    BY <1>5, <2>1, <2>4 DEF Answered, LinkInv, Wire
<1>6. CASE ClientEnds
  <2> DEFINE given == strays \o [i \in DOMAIN up |-> [req |-> up[i], mine |-> FALSE]]
  <2>1. up \in Seq(Request)
    BY UpRequests
  <2>2. given \in Seq(Stray)
    BY <2>1, GivenUp DEF LinkInv
  <2>3. strays' = [i \in DOMAIN given |-> [given[i] EXCEPT !.mine = FALSE]]
    BY <1>6 DEF ClientEnds
  <2>4. strays' \in Seq(Stray) /\ strays' \in Seq(Foreign)
    <3> HIDE DEF given
    <3> QED
      BY <2>2, <2>3, Released
  <2>5. up' = <<>> /\ down' = <<>> /\ call' = NoCall /\ faults' = faults + 1
    BY <1>6 DEF ClientEnds
  <2> HIDE DEF given
  <2> QED
    BY <2>4, <2>5 DEF LinkInv, Wire
<1>7. ASSUME NEW r \in Request, ServeStray(r)
      PROVE  LinkInv'
  <2>1. strays' \in Seq(Stray) /\ (~ResendsLate => strays' \in Seq(Foreign))
    BY <1>7, Removed DEF ServeStray, LinkInv
  <2> QED
    BY <1>7, <2>1 DEF ServeStray, LinkInv, Wire
<1>8. ASSUME NEW r \in Request, NEW a, Serve(r, a)
      PROVE  LinkInv'
  <2>1. up = <<call.req>> /\ down = <<>> /\ Calling /\ call.at = "await"
    BY <1>8 DEF Serve, LinkInv, Wire
  <2>2. up' = <<>> /\ down' = <<[req |-> call.req, answer |-> a]>>
    BY <1>8, <2>1 DEF Serve
  <2>3. Wire'
    BY <1>8, <2>1, <2>2 DEF Serve, Wire
  <2> QED
    BY <1>8, <2>3 DEF Serve, LinkInv
<1>9. CASE Fault /\ ServerGone
  <2>1. Wire'
    BY <1>9 DEF ServerGone, LinkInv, Wire
  <2>2. strays' = <<>>
    BY <1>9 DEF ServerGone
  <2> QED
    BY <1>9, <2>1, <2>2 DEF ServerGone, LinkInv
<1>10. CASE ServerBack \/ UNCHANGED link
  BY <1>10 DEF ServerBack, LinkInv, Wire, link
<1>11. CASE Fault /\ UNCHANGED <<serving, conn, up, down, strays, call>>
  BY <1>11 DEF LinkInv, Wire
<1> QED
  BY <1>1, <1>2, <1>3, <1>4, <1>5, <1>6, <1>7, <1>8, <1>9, <1>10, <1>11 DEF LinkNext

LEMMA LinkMeans == LinkInv => InStep /\ NeverTwice
<1> SUFFICES ASSUME LinkInv PROVE InStep /\ NeverTwice
  OBVIOUS
<1>1. InStep
  <2>1. CASE up = <<>> /\ down = <<>>
    BY <2>1 DEF InStep
  <2>2. CASE Calling /\ call.at = "await" /\ up = <<call.req>> /\ down = <<>>
    BY <2>2 DEF InStep
  <2>3. CASE /\ Calling /\ call.at = "await" /\ up = <<>>
             /\ \E a : down = <<[req |-> call.req, answer |-> a]>>
    BY <2>3 DEF InStep
  <2> QED
    BY <2>1, <2>2, <2>3 DEF LinkInv, Wire
<1>2. ASSUME ~ResendsLate, NEW i \in DOMAIN strays
      PROVE  ~strays[i].mine
  <2>1. strays[i] \in Foreign
    BY <1>2 DEF LinkInv
  <2> QED
    BY <2>1 DEF Foreign
<1>3. NeverTwice
  BY <1>2 DEF NeverTwice
<1> QED
  BY <1>1, <1>3

===============================================================================
