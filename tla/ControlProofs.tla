---------------------------- MODULE ControlProofs ----------------------------
(***************************************************************************)
(* The temperature control, for any modes, samples, gains, speeds and      *)
(* faults.                                                                 *)
(*                                                                         *)
(* ControlLink: the answers the page and the poller get are those of their *)
(* own requests, and the points they plot are in order and stay.           *)
(*                                                                         *)
(* FanLoop: its speeds and sums stay in their ranges, mode off leaves the  *)
(* fan alone, and the integrator does not wind up.                         *)
(***************************************************************************)
EXTENDS ControlLink, FanLoop, LineClientProofs

-----------------------------------------------------------------------------
(* The link (ControlLink).                                                   *)

LEMMA StepsLink == ASSUME Next PROVE [LinkNext]_link
<1> USE ThreadAssumption, RequestAssumption DEF LinkNext
<1>1. CASE Sample
  BY <1>1 DEF Sample
<1>2. CASE Handle \/ HandleStray
  BY <1>2 DEF Handle, HandleStray
<1>3. CASE Stops \/ Dies
  BY <1>3 DEF Stops, Dies
<1>4. CASE Starts
  BY <1>4 DEF Starts
<1>5. CASE PollBegins \/ PollSeeds
  BY <1>5 DEF PollBegins, PollSeeds
<1>6. CASE PollState \/ PollHistory \/ PollFails
  BY <1>6 DEF PollState, PollHistory, PollFails
<1>7. CASE PageSets
  BY <1>7 DEF PageSets
<1>8. CASE PageSet \/ PageFails
  BY <1>8 DEF PageSet, PageFails
<1>9. CASE Asks \/ Again \/ WebEnds
  BY <1>9 DEF Asks, Again, WebEnds
<1> QED
  BY <1>1, <1>2, <1>3, <1>4, <1>5, <1>6, <1>7, <1>8, <1>9
     DEF Next, Controller, Poller, Page

\* Threads that share ControlClient, which sends a request again after any failure,
\* never read each other's answer, nor a late one (temp_control.py, ControlClient).
THEOREM AnswersInStep == Spec => []InStep
<1>1. Init => LinkInv
  BY LinkStarts DEF Init
<1>2. LinkInv /\ [Next]_vars => LinkInv'
  BY StepsLink, LinkKept DEF vars, link
<1> QED
  BY <1>1, <1>2, LinkMeans, PTL DEF Spec

-------------------------------------------------------------------------------
(* The plot's points.                                                        *)

Rising(s) == \A i, j \in 1..Len(s) : i < j => s[i] < s[j]
Before(s, t) == \A i \in 1..Len(s) : s[i] <= t
Has(s, t) == \E i \in 1..Len(s) : s[i] = t

\* The samples the controller has: one after another, the last at t.
UpTo(s, t) == s \in Seq(Nat) /\ \A i \in 1..Len(s) : s[i] = t - Len(s) + i

AnyState == [boot : Nat, t : Nat, mode : Mode]

\* A sample, as the controller holds them or has them in its file, is none before now.
SamplesInv ==
  /\ boot \in Nat /\ now \in Nat /\ mode \in Mode
  /\ UpTo(samples, now)
  /\ file # Absent => UpTo(file, now) /\ serving = "down"
  /\ state \in AnyState /\ state.t <= now

\* The link's points are in order, and those on their way to it continue them.
HistoryInv ==
  /\ history \in Seq(Nat) /\ Rising(history) /\ Before(history, now)
  /\ poll \in [at : {"sleep", "state", "seed", "history"}, st : AnyState]
  /\ poll.st.t <= now

\* A thread's call is the one it is waiting for.
CallInv ==
  /\ Calling /\ call.by = "poll" => call.req.op = poll.at
  /\ Calling /\ call.by = "page" => call.req.op = "set"

\* An answer that has not been read is of a controller that has all points since.
Fits(r, a) ==
  /\ r.op = "state" => a \in AnyState /\ a.t <= now
  /\ r.op = "history" => \E m \in 0..now : UpTo(a, m) /\ Before(history, m)

AnswerInv == down # <<>> => Fits(Head(down).req, Head(down).answer)

PointsInv == SamplesInv /\ HistoryInv /\ CallInv /\ AnswerInv

-------------------------------------------------------------------------------
(* Sequences of points.                                                      *)

LEMMA UpToRises ==
  ASSUME NEW s, NEW t \in Nat, UpTo(s, t)
  PROVE  Rising(s) /\ Before(s, t)
<1>1. s \in Seq(Nat) /\ Len(s) \in Nat /\ \A i \in 1..Len(s) : s[i] \in Nat
  BY DEF UpTo
<1> QED
  BY <1>1 DEF UpTo, Rising, Before

LEMMA Appended ==
  ASSUME NEW s \in Seq(Nat), NEW t \in Nat, Rising(s), \A i \in 1..Len(s) : s[i] < t
  PROVE  /\ Append(s, t) \in Seq(Nat) /\ Rising(Append(s, t)) /\ Before(Append(s, t), t)
         /\ \A x : Has(s, x) => Has(Append(s, t), x)
<1>1. /\ Append(s, t) \in Seq(Nat) /\ Len(Append(s, t)) = Len(s) + 1 /\ Len(s) \in Nat
      /\ \A i \in 1..Len(s) : Append(s, t)[i] = s[i]
      /\ Append(s, t)[Len(s) + 1] = t
      /\ \A i \in 1..Len(s) : s[i] \in Nat
  OBVIOUS
<1> DEFINE r == Append(s, t)
<1> HIDE DEF r
<1>2. /\ r \in Seq(Nat) /\ Len(r) = Len(s) + 1 /\ Len(s) \in Nat
      /\ \A i \in 1..Len(s) : r[i] = s[i] /\ s[i] \in Nat
      /\ r[Len(s) + 1] = t
  BY <1>1 DEF r
<1>3. \A i \in 1..Len(r) : i \in 1..Len(s) \/ i = Len(s) + 1
  BY <1>2
<1>6. ASSUME NEW i \in 1..Len(r), NEW j \in 1..Len(r), i < j PROVE r[i] < r[j]
  <2>1. i \in 1..Len(s)
    BY <1>2, <1>3, <1>6
  <2> QED
    BY <1>2, <1>3, <1>6, <2>1 DEF Rising
<1>4. Rising(r) /\ Before(r, t)
  <2>1. Before(r, t)
    BY <1>2, <1>3 DEF Before
  <2> QED
    BY <1>6, <2>1 DEF Rising
<1>5. \A x : Has(s, x) => Has(r, x)
  BY <1>2 DEF Has
<1> QED
  BY <1>2, <1>4, <1>5 DEF r

LEMMA AddedRises ==
  ASSUME NEW s \in Seq(Nat), NEW st \in AnyState, NEW t \in Nat, st.t <= t,
         Rising(s), Before(s, t)
  PROVE  /\ Added(s, st) \in Seq(Nat) /\ Rising(Added(s, st)) /\ Before(Added(s, st), t)
         /\ \A x : Has(s, x) => Has(Added(s, st), x)
<1>1. st.t \in Nat
  BY DEF AnyState
<1>2. CASE s = <<>> \/ st.t > Last(s)
  <2>1. \A i \in 1..Len(s) : s[i] < st.t
    <3>1. CASE s = <<>>
      BY <3>1
    <3>2. CASE s # <<>> /\ st.t > Last(s)
      <4>1. Len(s) \in Nat /\ Len(s) >= 1 /\ Last(s) = s[Len(s)]
            /\ \A i \in 1..Len(s) : s[i] \in Nat
        BY <3>2 DEF Last
      <4> QED
        BY <1>1, <3>2, <4>1 DEF Rising
    <3> QED
      BY <1>2, <3>1, <3>2
  <2>2. Before(Append(s, st.t), st.t) => Before(Append(s, st.t), t)
    <3>1. Append(s, st.t) \in Seq(Nat) /\ \A i \in 1..Len(Append(s, st.t)) : Append(s, st.t)[i] \in Nat
      BY <1>1
    <3> QED
      BY <1>1, <3>1 DEF Before
  <2>3. Added(s, st) \in {Append(s, st.t), s}
    BY DEF Added
  <2> QED
    BY <1>1, <2>1, <2>2, <2>3, Appended
<1>3. CASE ~(s = <<>> \/ st.t > Last(s))
  BY <1>3 DEF Added
<1> QED
  BY <1>2, <1>3

\* The points kept, and the controller's after them.
LEMMA Merged ==
  ASSUME NEW m \in Nat, NEW n \in 0..Len(history), NEW a,
         history \in Seq(Nat), Rising(history), Before(history, m), UpTo(a, m), Kept(a, n)
  PROVE  LET s == SubSeq(history, 1, n) \o a
         IN /\ s \in Seq(Nat) /\ Rising(s) /\ Before(s, m)
            /\ \A x : Has(history, x) => Has(s, x)
<1> DEFINE k == SubSeq(history, 1, n)
           s == k \o a
<1>1. /\ a \in Seq(Nat) /\ Len(a) \in Nat /\ Len(history) \in Nat
      /\ \A i \in 1..Len(history) : history[i] \in Nat
      /\ \A i \in 1..Len(a) : a[i] \in Nat /\ a[i] = m - Len(a) + i
      /\ n \in Nat /\ n <= Len(history)
  BY DEF UpTo
<1>0. Len(history) \in Nat /\ n \in Nat /\ n <= Len(history)
  BY <1>1
<1>2. k \in Seq(Nat) /\ Len(k) = n /\ \A i \in 1..n : k[i] = history[i]
  BY <1>1
<1>3. /\ s \in Seq(Nat) /\ Len(s) = n + Len(a)
      /\ \A i \in 1..n : s[i] = history[i]
      /\ \A i \in 1..Len(a) : s[n + i] = a[i]
  <2> HIDE DEF k
  <2>1. s \in Seq(Nat) /\ Len(s) = Len(k) + Len(a)
    BY <1>1, <1>2, ConcatProperties
  <2>2. \A i \in 1..Len(k) + Len(a) : s[i] = IF i <= Len(k) THEN k[i] ELSE a[i - Len(k)]
    BY <1>1, <1>2, ConcatProperties
  <2>3. ASSUME NEW i \in 1..n PROVE s[i] = history[i]
    BY <1>1, <1>2, <2>2
  <2>4. ASSUME NEW i \in 1..Len(a) PROVE s[n + i] = a[i]
    <3>1. n + i \in 1..n + Len(a) /\ ~(n + i <= n) /\ (n + i) - n = i
      BY <1>1
    <3> QED
      BY <1>2, <2>2, <3>1
  <2> QED
    BY <1>2, <2>1, <2>3, <2>4
<1> HIDE DEF s
<1>4. \A i \in n + 1..Len(s) : i - n \in 1..Len(a) /\ s[i] = a[i - n]
  BY <1>1, <1>3
<1>5. CASE a = <<>>
  BY <1>1, <1>3, <1>5 DEF Kept, Rising, Before, Has
<1>6. CASE a # <<>>
  <2>1. Len(a) >= 1 /\ Head(a) = a[1] /\ a[1] = m - Len(a) + 1
    BY <1>1, <1>6
  <2>2. /\ \A i \in 1..n : history[i] < a[1]
        /\ \A i \in n + 1..Len(history) : history[i] >= a[1]
    BY <1>6, <2>1 DEF Kept
  <2>3. \A i, j \in 1..Len(s) : i < j => s[i] < s[j]
    <3> SUFFICES ASSUME NEW i \in 1..Len(s), NEW j \in 1..Len(s), i < j PROVE s[i] < s[j]
      OBVIOUS
    <3>1. CASE j <= n
      <4>0. i \in Nat /\ j \in Nat /\ 1 <= i /\ 1 <= j /\ i <= n
        BY <3>1, <1>0
      <4>1. i \in 1..n /\ j \in 1..n /\ i \in 1..Len(history) /\ j \in 1..Len(history)
        BY <1>0, <3>1, <4>0
      <4>2. history[i] < history[j]
        BY <4>1 DEF Rising
      <4> QED
        BY <1>3, <4>1, <4>2
    <3>2. CASE i <= n /\ j > n
      <4>5. i \in 1..n
        BY <1>0, <3>2
      <4>1. s[i] = history[i] /\ history[i] < a[1]
        BY <1>3, <2>2, <4>5
      <4>0. j \in n + 1..Len(s)
        BY <3>2
      <4>2. s[j] = a[j - n] /\ j - n \in 1..Len(a)
        BY <4>0, <1>4
      <4>3. a[j - n] = m - Len(a) + (j - n) /\ a[1] = m - Len(a) + 1
        BY <1>1, <2>1, <4>2
      <4>4. history[i] \in Nat
        <5>1. i \in 1..Len(history)
          BY <1>1, <3>2
        <5> QED
          BY <5>1
      <4> QED
        BY <1>1, <4>1, <4>2, <4>3, <4>4
    <3>3. CASE i > n
      <4>0. i \in n + 1..Len(s) /\ j \in n + 1..Len(s)
        BY <3>3
      <4>1. s[i] = a[i - n] /\ i - n \in 1..Len(a) /\ s[j] = a[j - n] /\ j - n \in 1..Len(a)
        BY <4>0, <1>4
      <4>2. a[i - n] = m - Len(a) + (i - n) /\ a[j - n] = m - Len(a) + (j - n)
        BY <1>1, <4>1
      <4> QED
        BY <1>1, <4>1, <4>2
    <3> QED
      BY <1>3, <3>1, <3>2, <3>3
  <2>4. Before(s, m)
    <3> SUFFICES ASSUME NEW i \in 1..Len(s) PROVE s[i] <= m
      BY DEF Before
    <3>1. CASE i <= n
      <4>1. i \in 1..n /\ i \in 1..Len(history)
        BY <1>1, <3>1
      <4> QED
        BY <1>3, <4>1 DEF Before
    <3>2. CASE i > n
      <4>0. i \in n + 1..Len(s)
        BY <3>2
      <4>1. s[i] = a[i - n] /\ i - n \in 1..Len(a)
        BY <4>0, <1>4
      <4>2. a[i - n] = m - Len(a) + (i - n)
        BY <1>1, <4>1
      <4> QED
        BY <1>1, <4>1, <4>2
    <3> QED
      BY <1>3, <3>1, <3>2
  <2>5. ASSUME NEW i \in 1..Len(history) PROVE Has(s, history[i])
    <3>1. CASE i <= n
      BY <1>3, <1>1, <3>1 DEF Has
    <3>2. CASE i > n
      <4>1. history[i] >= a[1] /\ history[i] <= m /\ history[i] \in Nat
        BY <1>1, <2>2, <3>2 DEF Before
      <4> DEFINE j == history[i] - a[1] + 1
      <4>2. m \in Int /\ Len(a) \in Nat /\ a[1] \in Nat /\ a[1] = m - Len(a) + 1
        BY <1>1, <2>1
      <4>3. j \in 1..Len(a) /\ m - Len(a) + j = history[i]
        <5>1. \A h, x, y, z \in Int : x = y - z + 1 /\ x <= h /\ h <= y =>
                h - x + 1 \in 1..z /\ y - z + (h - x + 1) = h
          OBVIOUS
        <5>2. /\ history[i] \in Int /\ a[1] \in Int /\ m \in Int /\ Len(a) \in Int
              /\ a[1] = m - Len(a) + 1 /\ a[1] <= history[i] /\ history[i] <= m
          BY <4>1, <4>2
        <5> QED
          BY <5>1, <5>2
      <4> HIDE DEF j
      <4>4. a[j] = history[i]
        BY <1>1, <4>3
      <4>5. n + j \in 1..Len(s) /\ s[n + j] = a[j]
        BY <1>1, <1>3, <4>3
      <4> QED
        BY <4>4, <4>5 DEF Has
    <3> QED
      BY <3>1, <3>2, <1>1
  <2>6. \A x : Has(history, x) => Has(s, x)
    BY <2>5 DEF Has
  <2>7. Rising(s)
    BY <2>3 DEF Rising
  <2> QED
    BY <1>3, <2>4, <2>6, <2>7 DEF s
<1> QED
  BY <1>5, <1>6 DEF s

-------------------------------------------------------------------------------
(* Each step.                                                                *)

LEMMA PointsInit == Init => PointsInv
<1> SUFFICES ASSUME Init PROVE PointsInv
  OBVIOUS
<1>1. UpTo(<<>>, 0) /\ Rising(<<>>) /\ Before(<<>>, 0)
  BY DEF UpTo, Rising, Before
<1>2. SamplesInv
  BY <1>1, LoopAssumption DEF Init, SamplesInv, AnyState
<1>3. HistoryInv
  BY <1>1, LoopAssumption DEF Init, HistoryInv, NoState, AnyState
<1> QED
  BY <1>2, <1>3 DEF Init, LinkInit, PointsInv, CallInv, AnswerInv, Calling

LEMMA SampleKeeps == ASSUME PointsInv, Sample PROVE PointsInv'
<1>1. now \in Nat /\ now' = now + 1 /\ file = Absent /\ file' = file /\ UpTo(samples, now)
  BY DEF Sample, PointsInv, SamplesInv
<1>2. UpTo(samples', now')
  <2>1. samples \in Seq(Nat) /\ Len(samples) \in Nat /\ samples' = Append(samples, now + 1)
    BY <1>1 DEF UpTo, Sample
  <2>2. samples' \in Seq(Nat) /\ Len(samples') = Len(samples) + 1
        /\ samples'[Len(samples) + 1] = now + 1
        /\ \A i \in 1..Len(samples) : samples'[i] = samples[i]
    BY <1>1, <2>1
  <2> QED
    BY <1>1, <2>1, <2>2 DEF UpTo
<1>3. SamplesInv'
  BY <1>1, <1>2 DEF Sample, PointsInv, SamplesInv, AnyState
<1>4. HistoryInv'
  <2>1. history \in Seq(Nat) /\ \A i \in 1..Len(history) : history[i] \in Nat
    BY DEF PointsInv, HistoryInv
  <2>2. poll.st.t \in Nat
    BY DEF PointsInv, HistoryInv, AnyState
  <2> QED
    BY <1>1, <2>1, <2>2 DEF Sample, view, PointsInv, HistoryInv, Before, Rising
<1>5. CallInv'
  BY DEF Sample, link, PointsInv, CallInv, Calling
<1>6. ASSUME NEW r, NEW a, Fits(r, a) PROVE Fits(r, a)'
  <2>1. history' = history /\ 0..now \subseteq 0..now'
    BY <1>1 DEF Sample, view
  <2>2. r.op = "state" => a \in AnyState /\ a.t <= now'
    BY <1>1, <1>6 DEF Fits, AnyState
  <2>3. r.op = "history" => \E m \in 0..now' : UpTo(a, m) /\ Before(history, m)
    BY <1>6, <2>1 DEF Fits
  <2> QED
    BY <2>1, <2>2, <2>3 DEF Fits, UpTo, Before
<1>7. AnswerInv'
  BY <1>6 DEF Sample, link, PointsInv, AnswerInv
<1> QED
  BY <1>3, <1>4, <1>5, <1>7 DEF PointsInv

\* A request changes no time, and its answer fits.
LEMMA CarriedOutKeeps ==
  ASSUME PointsInv, NEW r \in Request, CarriedOut(r), UNCHANGED serving
  PROVE  SamplesInv' /\ HistoryInv' /\ Fits(r, Answer(r)) /\ UNCHANGED <<now, history>>
<1>1. UNCHANGED <<boot, now, samples, file, history, poll>>
  BY DEF CarriedOut, view
<1>2. state' \in AnyState /\ state'.t = state.t /\ mode' \in Mode
  <2>1. CASE r.op = "set"
    <3>1. r.mode \in Mode
      BY <2>1, RequestAssumption
    <3> QED
      BY <2>1, <3>1 DEF CarriedOut, Answer, PointsInv, SamplesInv, AnyState
  <2>2. CASE r.op # "set"
    BY <2>2 DEF CarriedOut, PointsInv, SamplesInv
  <2> QED
    BY <2>1, <2>2
<1>3. Fits(r, Answer(r))
  BY DEF Fits, Answer, PointsInv, SamplesInv, HistoryInv
<1> QED
  BY <1>1, <1>2, <1>3 DEF PointsInv, SamplesInv, HistoryInv, Before, Rising, UpTo

LEMMA HandleKeeps == ASSUME PointsInv, LinkInv, Handle \/ HandleStray PROVE PointsInv'
<1>1. CASE HandleStray
  <2>1. PICK r \in Request : ServeStray(r) /\ CarriedOut(r)
    BY <1>1 DEF HandleStray
  <2>2. UNCHANGED <<call, down, poll, serving>>
    BY <2>1 DEF ServeStray, CarriedOut
  <2> QED
    BY <2>1, <2>2, CarriedOutKeeps
       DEF PointsInv, CallInv, AnswerInv, Calling, Fits, Before
<1>2. CASE Handle
  <2>1. PICK r \in Request : Serve(r, Answer(r)) /\ CarriedOut(r)
    BY <1>2 DEF Handle
  <2>2. UNCHANGED <<call, poll, serving>>
    BY <2>1 DEF Serve, CarriedOut
  <2>3. down = <<>> /\ down' = <<[req |-> r, answer |-> Answer(r)]>>
    <3>1. down = <<>>
      BY <2>1 DEF Serve, LinkInv, Wire
    <3>2. down' = Append(down, [req |-> r, answer |-> Answer(r)])
      BY <2>1 DEF Serve
    <3> HIDE DEF Answer
    <3> QED
      BY <3>1, <3>2
  <2>4. AnswerInv'
    <3>1. Head(down').req = r /\ Head(down').answer = Answer(r)
      BY <2>3
    <3>2. Fits(r, Answer(r)) /\ UNCHANGED <<now, history>>
      BY <2>1, <2>2, CarriedOutKeeps
    <3> HIDE DEF Answer
    <3> QED
      BY <3>1, <3>2 DEF AnswerInv, Fits, Before
  <2> QED
    BY <2>1, <2>2, <2>4, CarriedOutKeeps DEF PointsInv, CallInv, Calling
<1> QED
  BY <1>1, <1>2

\* A step that leaves the controller and the link's points alone.
LEMMA ViewKept ==
  ASSUME PointsInv, UNCHANGED <<controller, history, poll>>, CallInv', AnswerInv'
  PROVE  (serving' = serving \/ file = Absent) => PointsInv'
BY DEF controller, PointsInv, SamplesInv, HistoryInv, Before, Rising, UpTo

LEMMA AnswersLeft ==
  ASSUME PointsInv, UNCHANGED <<now, history>>, down' \in {down, <<>>}
  PROVE  AnswerInv'
BY DEF PointsInv, AnswerInv, Fits, Before

LEMMA ProcessKeeps == ASSUME PointsInv, Stops \/ Dies \/ Starts PROVE PointsInv'
<1>1. /\ UNCHANGED <<now, history, poll, call, down, mode>>
      /\ AnswerInv' /\ CallInv'
  BY AnswersLeft DEF Stops, Dies, Starts, ServerGone, ServerBack, controller, view, PointsInv,
                     CallInv, Calling
<1>2. HistoryInv'
  BY <1>1 DEF PointsInv, HistoryInv, Before, Rising
<1>3. CASE Stops
  BY <1>1, <1>2, <1>3 DEF Stops, ServerGone, PointsInv, SamplesInv, UpTo
<1>4. CASE Dies
  BY <1>1, <1>2, <1>4 DEF Dies, ServerGone, controller, PointsInv, SamplesInv, UpTo
<1>5. CASE Starts
  <2>1. UpTo(<<>>, now)
    BY DEF UpTo
  <2>2. UpTo(samples', now') /\ file' = Absent
    BY <1>1, <1>5, <2>1 DEF Starts, Taken, PointsInv, SamplesInv
  <2>3. state' \in AnyState /\ state'.t <= now' /\ boot' \in Nat
    BY <1>1, <1>5 DEF Starts, PointsInv, SamplesInv, AnyState
  <2> QED
    BY <1>1, <1>2, <2>2, <2>3 DEF PointsInv, SamplesInv
<1> QED
  BY <1>3, <1>4, <1>5

\* What a thread reads is the answer to its own request.
LEMMA ReadOwn ==
  ASSUME PointsInv, LinkInv, NEW t \in Thread, Answered(t)
  PROVE  /\ Fits(call.req, received) /\ call.req.op = IF t = "poll" THEN poll.at ELSE "set"
         /\ down' = <<>> /\ call' = NoCall /\ serving' = serving
<1>1. PICK a : down = <<[req |-> call.req, answer |-> a]>>
  BY DEF Answered, LinkInv, Wire
<1>2. Head(down).req = call.req /\ received = a /\ down' = <<>>
  BY <1>1 DEF received, Answered
<1>3. Fits(call.req, received)
  BY <1>1, <1>2 DEF PointsInv, AnswerInv, received
<1> QED
  BY <1>2, <1>3, ThreadAssumption DEF Answered, PointsInv, CallInv

\* With no answer on the wire and no call, the rest is what the poller has.
LEMMA PolledOK ==
  ASSUME PointsInv, UNCHANGED <<controller, serving>>, call' = NoCall, down' = <<>>, HistoryInv'
  PROVE  PointsInv'
BY DEF controller, PointsInv, SamplesInv, CallInv, AnswerInv, Calling, UpTo

\* The end of a poll: nothing is lost, and the order is kept.
LEMMA ShowsKeeps ==
  ASSUME PointsInv, UNCHANGED now, NEW h \in Seq(Nat), NEW st \in AnyState,
         Rising(h), Before(h, now), st.t <= now, \A x : Has(history, x) => Has(h, x),
         Shows(h, st)
  PROVE  HistoryInv' /\ \A x : Has(history, x) => Has(history', x)
<1>1. now \in Nat
  BY DEF PointsInv, SamplesInv
<1>2. /\ history' \in Seq(Nat) /\ Rising(history') /\ Before(history', now)
      /\ \A x : Has(h, x) => Has(history', x)
  BY <1>1, AddedRises DEF Shows
<1>3. poll' \in [at : {"sleep", "state", "seed", "history"}, st : AnyState] /\ poll'.st.t <= now
  BY <1>1, LoopAssumption DEF Shows, NoState, AnyState
<1> QED
  BY <1>2, <1>3 DEF HistoryInv, Before, Rising

LEMMA PollerKeeps ==
  ASSUME PointsInv, LinkInv, Poller
  PROVE  PointsInv' /\ \A x : Has(history, x) => Has(history', x)
<1> USE ThreadAssumption
<1>1. CASE PollBegins \/ PollSeeds
  <2>1. /\ UNCHANGED <<controller, history, down, serving>>
        /\ poll' \in {[poll EXCEPT !.at = a] : a \in {"state", "history"}}
        /\ call' \in {[by |-> "poll", req |-> [op |-> a], at |-> "send", attempt |-> 0] :
                        a \in {"state", "history"}}
        /\ call'.req.op = poll'.at
    BY <1>1 DEF PollBegins, PollSeeds, Begin, view, PointsInv, HistoryInv
  <2>2. SamplesInv'
    BY <2>1 DEF controller, PointsInv, SamplesInv, UpTo
  <2>3. HistoryInv'
    BY <2>1 DEF controller, PointsInv, HistoryInv, Before, Rising
  <2>4. CallInv'
    BY <2>1 DEF CallInv, Calling
  <2>5. AnswerInv'
    BY <2>1, AnswersLeft DEF controller
  <2> QED
    BY <2>1, <2>2, <2>3, <2>4, <2>5 DEF PointsInv, Has
<1>2. CASE PollState
  <2>1. /\ received \in AnyState /\ received.t <= now
        /\ down' = <<>> /\ call' = NoCall /\ serving' = serving
        /\ UNCHANGED controller /\ UNCHANGED now
    BY <1>2, ReadOwn DEF PollState, Fits, controller
  <2>2. CASE OtherRun(received)
    <3>1. history' = history /\ poll' = [at |-> "seed", st |-> received]
      BY <1>2, <2>2 DEF PollState
    <3>2. HistoryInv'
      BY <2>1, <3>1 DEF PointsInv, HistoryInv, Before, Rising
    <3> QED
      BY <2>1, <3>1, <3>2, PolledOK DEF Has
  <2>3. CASE ~OtherRun(received)
    <3>1. Shows(history, received)
      BY <1>2, <2>3 DEF PollState
    <3>2. HistoryInv' /\ \A x : Has(history, x) => Has(history', x)
      BY <2>1, <3>1, ShowsKeeps DEF PointsInv, HistoryInv
    <3> QED
      BY <2>1, <3>2, PolledOK
  <2> QED
    BY <2>2, <2>3
<1>3. CASE PollHistory
  <2>1. /\ Fits(call.req, received) /\ call.req.op = "history"
        /\ down' = <<>> /\ call' = NoCall /\ serving' = serving
        /\ UNCHANGED controller /\ UNCHANGED now
    BY <1>3, ReadOwn DEF PollHistory, controller
  <2>2. PICK m \in 0..now : UpTo(received, m) /\ Before(history, m)
    BY <2>1 DEF Fits
  <2>3. PICK n \in 0..Len(history) :
          Kept(received, n) /\ Shows(SubSeq(history, 1, n) \o received, poll.st)
    BY <1>3 DEF PollHistory
  <2> DEFINE h == SubSeq(history, 1, n) \o received
  <2>4. now \in Nat /\ m \in Nat /\ m <= now
    BY <2>2 DEF PointsInv, SamplesInv
  <2>5. h \in Seq(Nat) /\ Rising(h) /\ Before(h, m) /\ \A x : Has(history, x) => Has(h, x)
    BY <2>2, <2>3, <2>4, Merged DEF PointsInv, HistoryInv
  <2>6. Shows(h, poll.st) /\ poll.st \in AnyState /\ poll.st.t <= now
    BY <2>3 DEF PointsInv, HistoryInv
  <2> HIDE DEF h
  <2>7. Before(h, now)
    <3>1. \A i \in 1..Len(h) : h[i] \in Nat
      BY <2>5
    <3> QED
      BY <2>4, <2>5, <3>1 DEF Before
  <2>8. HistoryInv' /\ \A x : Has(history, x) => Has(history', x)
    BY <2>1, <2>5, <2>6, <2>7, ShowsKeeps
  <2> QED
    BY <2>1, <2>8, PolledOK
<1>4. CASE PollFails
  <2>1. /\ down' = <<>> /\ call' = NoCall /\ UNCHANGED <<serving, controller, history, now>>
        /\ poll' = [at |-> "sleep", st |-> NoState]
    BY <1>4 DEF PollFails, Raises, Close, controller
  <2>2. HistoryInv'
    BY <2>1, LoopAssumption
       DEF PointsInv, SamplesInv, HistoryInv, Before, Rising, NoState, AnyState
  <2> QED
    BY <2>1, <2>2, PolledOK DEF Has
<1> QED
  BY <1>1, <1>2, <1>3, <1>4 DEF Poller

LEMMA PageKeeps == ASSUME PointsInv, LinkInv, PageSets \/ Page PROVE PointsInv'
<1> USE ThreadAssumption
<1>1. CASE PageSets
  <2>1. PICK m \in Mode : Begin("page", [op |-> "set", mode |-> m])
    BY <1>1 DEF PageSets
  <2>2. UNCHANGED <<controller, history, poll, down, serving>>
        /\ call'.by = "page" /\ call'.req.op = "set"
    BY <1>1, <2>1 DEF PageSets, Begin, view
  <2>3. CallInv' /\ AnswerInv'
    BY <2>2, AnswersLeft DEF CallInv, controller
  <2> QED
    BY <2>2, <2>3, ViewKept
<1>2. CASE Page
  <2>1. /\ down' = <<>> /\ call' = NoCall /\ serving' = serving
        /\ UNCHANGED <<controller, history, poll>>
    BY <1>2, ReadOwn DEF Page, PageSet, PageFails, Raises, Close, view
  <2>2. CallInv' /\ AnswerInv'
    BY <2>1 DEF CallInv, AnswerInv, Calling
  <2> QED
    BY <2>1, <2>2, ViewKept
<1> QED
  BY <1>1, <1>2

LEMMA LinkKeeps == ASSUME PointsInv, LinkInv, Asks \/ Again PROVE PointsInv'
<1>1. /\ UNCHANGED <<controller, history, poll, serving>> /\ down' \in {down, <<>>}
      /\ Calling /\ call'.by = call.by /\ call'.req = call.req
  BY DEF Asks, Again, Send, Retry, Close, Failure, Dropped, Late, view, LinkInv, Call
<1>2. CallInv' /\ AnswerInv'
  BY <1>1, AnswersLeft DEF PointsInv, CallInv, controller
<1> QED
  BY <1>1, <1>2, ViewKept

LEMMA WebEndsKeeps == ASSUME PointsInv, WebEnds PROVE PointsInv'
<1>1. /\ down' = <<>> /\ call' = NoCall /\ UNCHANGED <<serving, controller, now>>
      /\ history' = <<>> /\ poll' = [at |-> "sleep", st |-> NoState]
  BY DEF WebEnds, ClientEnds, controller
<1>2. HistoryInv'
  BY <1>1, LoopAssumption DEF PointsInv, SamplesInv, HistoryInv, Before, Rising, NoState, AnyState
<1> QED
  BY <1>1, <1>2, PolledOK

LEMMA PointsNext == PointsInv /\ LinkInv /\ [Next]_vars => PointsInv'
<1> SUFFICES ASSUME PointsInv, LinkInv, [Next]_vars PROVE PointsInv'
  OBVIOUS
<1>1. CASE UNCHANGED vars
  <2>1. UNCHANGED <<controller, history, poll, serving>> /\ CallInv' /\ AnswerInv'
    BY <1>1, AnswersLeft DEF vars, view, link, controller, PointsInv, CallInv, Calling
  <2> QED
    BY <2>1, ViewKept
<1> QED
  BY <1>1, SampleKeeps, HandleKeeps, ProcessKeeps, PollerKeeps, PageKeeps, LinkKeeps,
     WebEndsKeeps DEF Next, Controller

LEMMA PointsAlways == Spec => [](PointsInv /\ LinkInv)
<1>1. Init => PointsInv /\ LinkInv
  BY PointsInit, LinkStarts DEF Init
<1>2. PointsInv /\ LinkInv /\ [Next]_vars => (PointsInv /\ LinkInv)'
  BY PointsNext, StepsLink, LinkKept DEF vars, link
<1> QED
  BY <1>1, <1>2, PTL DEF Spec

\* The plot's points stay in order and come once, over any restarts of the two processes,
\* timeouts and late answers (fpga_web.py ControlLink, temp_control.py load_history).
THEOREM PlotInOrder == Spec => []Ordered
<1>1. PointsInv => Ordered
  BY DEF PointsInv, HistoryInv, Rising, Ordered
<1> QED
  BY <1>1, PointsAlways, PTL

\* And none is lost but with the web server itself: what the link had comes back from
\* the controller, or is kept before its points (fpga_web.py ControlLink._seed).
THEOREM PlotKept == Spec => KeepsPoints
<1>1. ASSUME PointsInv, LinkInv, [Next]_vars
      PROVE  ToSet(history) \subseteq ToSet(history') \/ seen' = 0
  <2>1. ASSUME \A x : Has(history, x) => Has(history', x), history' \in Seq(Nat)
        PROVE  ToSet(history) \subseteq ToSet(history')
    BY <1>1, <2>1 DEF ToSet, Has, PointsInv, HistoryInv
  <2>2. CASE Poller
    BY <1>1, <2>1, <2>2, PollerKeeps DEF PointsInv, HistoryInv
  <2>3. CASE WebEnds
    BY <2>3 DEF WebEnds
  <2>4. CASE ~Poller /\ ~WebEnds
    <3>1. history' = history
      BY <1>1, <2>4 DEF Next, Controller, Sample, Handle, HandleStray, CarriedOut, Stops, Dies,
         Starts, PageSets, Page, PageSet, PageFails, Asks, Again, view, vars
    <3> QED
      BY <3>1
  <2> QED
    BY <2>2, <2>3, <2>4
<1>2. PointsInv /\ LinkInv /\ [Next]_vars =>
        [ToSet(history) \subseteq ToSet(history') \/ seen' = 0]_vars
  BY <1>1
<1> QED
  BY <1>2, PointsAlways, PTL DEF Spec, KeepsPoints

-----------------------------------------------------------------------------
(* The fan's loop (FanLoop): speeds and counts.                              *)

LEMMA SpeedSizes ==
  /\ KtachRpm \in Nat /\ KtachMax \in Nat /\ Lo \in Nat /\ Lo > 0 /\ Hi \in Nat
  /\ SafeRpm \in Nat /\ Kp \in Nat /\ Ki \in Nat
  /\ Lo <= SafeRpm /\ SafeRpm <= Hi
  /\ FaultSamples \in Nat /\ FaultSamples > 0 /\ MaxEnds \in Nat
  BY SpeedAssumption, BoundAssumption

LEMMA RoundedNat ==
  ASSUME NEW n \in Nat, NEW d \in Nat, d > 0
  PROVE  Rounded(n, d) \in Nat
<1>1. n \div d \in Nat
  OBVIOUS
<1> QED
  BY <1>1 DEF Rounded

LEMMA KtachIn ==
  ASSUME NEW rpm \in Nat
  PROVE  Ktach(rpm) \in 0 .. KtachMax
<1>1. CASE rpm = 0
  BY <1>1, SpeedSizes DEF Ktach
<1>2. CASE rpm > 0
  <2>1. Rounded(KtachRpm, rpm) \in Nat
    BY <1>2, SpeedSizes, RoundedNat
  <2> QED
    BY <1>2, <2>1, SpeedSizes DEF Ktach, Maximum, Minimum
<1> QED
  BY <1>1, <1>2

LEMMA RpmNat ==
  ASSUME NEW k \in 0 .. KtachMax
  PROVE  Rpm(k) \in Nat
  BY SpeedSizes, RoundedNat DEF Rpm

LEMMA Clamped ==
  ASSUME NEW x \in Int
  PROVE  /\ Clamp(x) \in Lo .. Hi
         /\ ClampMilli(x) \in 1000 * Lo .. 1000 * Hi
  BY SpeedSizes DEF Clamp, ClampMilli, Maximum, Minimum

\* What is within the limits is rounded to within them, and to one of them only when
\* it is no more than half a rpm from it.
LEMMA RoundedWithin ==
  ASSUME NEW x \in 1000 * Lo .. 1000 * Hi
  PROVE  /\ Rounded(x, 1000) \in Lo .. Hi
         /\ x < 1000 * Hi - 500 => Rounded(x, 1000) < Hi
         /\ x > 1000 * Lo + 500 => Rounded(x, 1000) > Lo
<1> DEFINE q == x \div 1000
           r == x % 1000
<1>1. q \in Int /\ r \in 0 .. 999 /\ x = 1000 * q + r
  BY SpeedSizes
<1>2. Rounded(x, 1000) = IF 2 * r > 1000 \/ (2 * r = 1000 /\ q % 2 = 1) THEN q + 1 ELSE q
  BY DEF Rounded
<1> HIDE DEF q, r
<1>3. \/ Rounded(x, 1000) = q /\ 2 * r <= 1000
      \/ Rounded(x, 1000) = q + 1 /\ 2 * r >= 1000
  BY <1>1, <1>2
<1>4. Lo <= q /\ q <= Hi /\ (q = Hi => r = 0)
  BY <1>1, SpeedSizes
<1> QED
  BY <1>1, <1>3, <1>4, SpeedSizes

LEMMA IntegralIn ==
  ASSUME NEW x \in Int, NEW e \in Int, NEW dt \in Nat
  PROVE  Integrated(x, e, dt) \in 1000 * Lo .. 1000 * Hi
<1>1. Ki * e * dt \in Int /\ Kp * e \in Int
  BY SpeedSizes
<1>2. x + Ki * e * dt \in Int
  BY <1>1
<1>3. \/ Integrated(x, e, dt) = ClampMilli(x)
      \/ Integrated(x, e, dt) = ClampMilli(x + Ki * e * dt)
  BY DEF Integrated
<1> QED
  BY <1>2, <1>3, Clamped

LEMMA ResetIn ==
  ASSUME NEW output \in Nat, NEW e \in Int
  PROVE  ResetTo(output, e) \in 1000 * Lo .. 1000 * Hi
<1>1. 1000 * output - Kp * e \in Int
  BY SpeedSizes
<1> QED
  BY <1>1, Clamped DEF ResetTo

\* A sample with a temperature, in mode auto.
LEMMA Sampled ==
  ASSUME LoopTypeOK, SampleAuto
  PROVE  /\ error \in Int /\ integral' \in 1000 * Lo .. 1000 * Hi
         /\ ClampMilli(Kp * error + integral') \in 1000 * Lo .. 1000 * Hi
         /\ want' = Rounded(ClampMilli(Kp * error + integral'), 1000)
<1>1. PICK dt \in Dts :
        integral' = Integrated(IF need_reset THEN ResetTo(target, error) ELSE integral,
                               error, dt)
  BY DEF SampleAuto
<1>2. error \in Int /\ dt \in Nat
  BY SpeedAssumption DEF SampleAuto, LoopTypeOK
<1>3. ResetTo(target, error) \in 1000 * Lo .. 1000 * Hi
  <2>1. target \in Nat
    BY RpmNat DEF target, LoopTypeOK
  <2> QED
    BY <1>2, <2>1, ResetIn
<1>4. integral \in Int /\ ResetTo(target, error) \in Int
  BY <1>3, SpeedSizes DEF LoopTypeOK
<1>5. integral' \in 1000 * Lo .. 1000 * Hi
  <2>1. PICK start \in Int : integral' = Integrated(start, error, dt)
    BY <1>1, <1>4
  <2>2. \A x \in Int, e \in Int, d \in Nat : Integrated(x, e, d) \in 1000 * Lo .. 1000 * Hi
    BY IntegralIn
  <2> QED
    BY <1>2, <2>1, <2>2
<1>6. Kp * error + integral' \in Int
  BY <1>2, <1>5, SpeedSizes
<1> QED
  BY <1>2, <1>5, <1>6, Clamped DEF SampleAuto

-----------------------------------------------------------------------------
(* The types, and mode off.                                                  *)

\* Only the modes that write are about to; a process that is down has no lease.
LoopInv ==
  /\ LoopTypeOK
  /\ access = "down" => lease = "none"
  /\ pc = "write" => loopMode # "off"
  /\ OffLeaves

LEMMA LoopBegins == LoopInit => LoopInv
<1> SUFFICES ASSUME LoopInit PROVE LoopInv
  OBVIOUS
<1>1. Ktach(Lo) \in 0 .. KtachMax
  BY SpeedSizes, KtachIn
<1>2. Clamp(SafeRpm) \in Lo .. Hi
  BY SpeedSizes, Clamped
<1>3. 1000 * Lo \in 1000 * Lo .. 1000 * Hi /\ Lo \in Nat
  BY SpeedSizes
<1> QED
  BY <1>1, <1>2, <1>3, SpeedSizes DEF LoopInit, LoopInv, LoopTypeOK, OffLeaves, Places, Modes

LEMMA LoopKept == LoopInv /\ [LoopNext]_loopVars => LoopInv'
<1> SUFFICES ASSUME LoopInv, [LoopNext]_loopVars PROVE LoopInv'
  OBVIOUS
<1> USE SpeedSizes DEF LoopInv, LoopTypeOK, OffLeaves, Places, Modes, fan, settings, law, sampled
<1>0. /\ Ktach(Lo) \in 0 .. KtachMax /\ Ktach(SafeRpm) \in 0 .. KtachMax
      /\ 1000 * Lo \in 1000 * Lo .. 1000 * Hi
  BY KtachIn
<1>01. Rpm(reg) \in Nat
  BY RpmNat
<1>1. CASE LoopStarts
  BY <1>1 DEF LoopStarts, LeaseReleased
<1>2. CASE Measure
  BY <1>2 DEF Measure, Failed, Minimum
<1>3. CASE ReadFails \/ SampleOff
  <2>1. /\ integral' = 1000 * Lo /\ need_reset' = TRUE /\ pc' = "idle" /\ error' = NoTemp
        /\ UNCHANGED <<access, reg, lease, dog, loopMode, manual, saved, fails, want,
                       pageMode, ends, leased>>
        /\ pc = "read"
    BY <1>3 DEF ReadFails, SampleOff, Reads, ToReset
  <2> QED
    BY <1>0, <2>1
<1>4. CASE SampleManual
  <2>1. Maximum(Lo, manual) \in Nat
    BY DEF Maximum
  <2> QED
    BY <1>0, <1>4, <2>1 DEF SampleManual, Reads, ToReset
<1>5. CASE SampleBlind
  <2>1. want' \in Nat
    BY <1>01, <1>5 DEF SampleBlind, Maximum, target
  <2> QED
    BY <1>0, <1>5, <2>1 DEF SampleBlind, Reads, ToReset
<1>6. CASE SampleAuto
  <2>1. integral' \in 1000 * Lo .. 1000 * Hi
    BY <1>6, Sampled
  <2>2. want' \in Nat
    <3>1. want' \in Lo .. Hi
      BY <1>6, Sampled, RoundedWithin
    <3> QED
      BY <3>1
  <2>3. /\ pc' = "write" /\ need_reset' = FALSE /\ error' = error /\ loopMode # "off"
        /\ UNCHANGED <<access, fan, settings, fails, pageMode, ends, leased>>
    BY <1>6 DEF SampleAuto, Reads
  <2>4. UNCHANGED <<access, reg, lease, dog, loopMode, manual, saved, fails, pageMode, ends, leased>>
    BY <2>3
  <2>5. error' \in Errors \cup {NoTemp} /\ need_reset' \in BOOLEAN /\ pc' \in Places
    <3>1. error' \in Errors \cup {NoTemp}
      BY <2>3
    <3>2. need_reset' \in BOOLEAN
      BY <2>3
    <3>3. pc' \in Places
      BY <2>3
    <3> QED
      BY <3>1, <3>2, <3>3
  <2>6. LoopTypeOK'
    BY <2>1, <2>2, <2>4, <2>5
  <2> QED
    BY <2>3, <2>4, <2>6
<1>7. CASE Write
  BY <1>7, KtachIn DEF Write, Answers
<1>8. ASSUME NEW m \in Modes, NEW rpm \in Lo .. Hi, Apply(m, rpm), pc = "idle",
             UNCHANGED <<access, reg, dog, pc, sampled>>,
             pageMode' \in Modes, ends < MaxEnds, ends' = ends + 1
      PROVE  LoopInv'
  <2>0. /\ loopMode' = m /\ manual' = rpm
        /\ UNCHANGED law \/ ToReset
    BY <1>8 DEF Apply
  <2>1. integral' \in 1000 * Lo .. 1000 * Hi /\ need_reset' \in BOOLEAN
    <3>1. CASE UNCHANGED law
      BY <3>1
    <3>2. CASE ToReset
      BY <1>0, <3>2 DEF ToReset
    <3> QED
      BY <2>0, <3>1, <3>2
  <2>2. saved' \in [mode : Modes, rpm : Lo .. Hi]
    BY <1>8 DEF Apply
  <2>3. /\ lease' \in {"none", "live", "due"} /\ leased' \in {"no", "yes", "lost"}
        /\ access' = "down" => lease' = "none"
        /\ loopMode' = "off" => lease' = "none"
    BY <1>8 DEF Apply, LeaseReleased
  <2>4. UNCHANGED <<access, reg, dog, pc, error, fails, want>>
    BY <1>8
  <2> QED
    BY <1>8, <2>0, <2>1, <2>2, <2>3, <2>4
<1>9. CASE Set
  BY <1>8, <1>9 DEF Set, Apply
<1>10. CASE PageFan
  <2>1. PICK rpm \in Manual : PageManual(rpm) \/ PageWrites(rpm)
    BY <1>10 DEF PageFan
  <2>2. rpm \in Nat
    BY SpeedAssumption
  <2>3. CASE PageManual(rpm)
    <3>1. Clamp(rpm) \in Lo .. Hi
      BY <2>2, Clamped
    <3> QED
      BY <1>8, <1>10, <2>3, <3>1 DEF PageFan, PageManual
  <2>4. CASE PageWrites(rpm)
    <3>1. Maximum(rpm, Lo) \in Nat
      BY <2>2 DEF Maximum
    <3>2. reg' \in 0 .. KtachMax
      BY <2>4, <3>1, KtachIn DEF PageWrites
    <3> QED
      BY <1>10, <2>4, <3>2 DEF PageFan, PageWrites
  <2> QED
    BY <2>1, <2>3, <2>4
<1>18. CASE ApiWrite
  BY <1>18, SpeedAssumption DEF ApiWrite
<1>11. CASE Killed \/ Crashes
  BY <1>11 DEF Killed, Crashes, Ends
<1>12. CASE CrashRead \/ CrashWrite
  BY <1>0, <1>12 DEF CrashRead, CrashWrite
<1>13. CASE Restarts
  BY <1>0, <1>13 DEF Restarts, ToReset
<1>17. CASE Poll
  BY <1>17 DEF Poll
<1>14. CASE LeaseExpires \/ Dog
  BY <1>0, <1>14 DEF LeaseExpires, Dog, DogSees, DogPops, DogDrops, DogRaises, Raised, Forgotten
<1>15. CASE Pause \/ Resume \/ AccessEnds \/ AccessStarts
  BY <1>15 DEF Pause, Resume, AccessEnds, AccessStarts, Forgotten
<1>19. CASE CoreLost \/ CoreBack
  BY <1>0, <1>19 DEF CoreLost, CoreBack, Forgotten
<1>16. CASE UNCHANGED loopVars
  BY <1>16 DEF loopVars
<1> QED
  BY <1>1, <1>2, <1>3, <1>4, <1>5, <1>6, <1>7, <1>9, <1>10, <1>11, <1>12, <1>13, <1>14,
     <1>15, <1>16, <1>17, <1>18, <1>19 DEF LoopNext, Loop, LoopSample

LEMMA LoopAlways == LoopSpec => []LoopInv
  BY LoopBegins, LoopKept, PTL DEF LoopSpec

\* The types of the loop, whoever writes the fan's target: the speed it is set to and
\* what it adds up stay between the least speed and the greatest, in its file too.
THEOREM LoopTypeCorrect == LoopSpec => []LoopTypeOK
<1>1. LoopInv => LoopTypeOK
  BY DEF LoopInv
<1> QED
  BY <1>1, LoopAlways, PTL

\* In mode off no lease is left, whatever the loop, the page and the access process
\* did before.
THEOREM OffIsLeft == LoopSpec => []OffLeaves
<1>1. LoopInv => OffLeaves
  BY DEF LoopInv
<1> QED
  BY <1>1, LoopAlways, PTL

\* The first sample so far below the setpoint that Kp makes more than half a rpm of it
\* takes the fan off its maximum, above it off its minimum, for any whole gains from 0,
\* any errors in thousandths of a degree and any times (with a Kp of 0 it says nothing).
THEOREM FanUnwound ==
  ASSUME Lo < Hi
  PROVE  LoopSpec => []NoWindup
<1>1. LoopInit => NoWindup
  BY DEF LoopInit, NoWindup
<1>2. LoopInv /\ NoWindup /\ [LoopNext]_loopVars => NoWindup'
  <2> SUFFICES ASSUME LoopInv, NoWindup, [LoopNext]_loopVars, pc' = "write"
               PROVE  NoWindup'
    BY DEF NoWindup
  <2> USE DEF fan, settings, law, sampled
  <2>1. CASE SampleAuto
    <3> DEFINE u == Kp * error
               x == ClampMilli(u + integral')
    <3>1. /\ error \in Int /\ integral' \in 1000 * Lo .. 1000 * Hi
          /\ x \in 1000 * Lo .. 1000 * Hi /\ want' = Rounded(x, 1000)
      BY <2>1, Sampled DEF LoopInv
    <3>2. u \in Int /\ 2 * Kp * error = 2 * u
      BY <3>1, SpeedSizes
    <3>3. error' = error
      BY <2>1 DEF SampleAuto
    <3> HIDE DEF u
    <3>4. /\ u < -500 => x < 1000 * Hi - 500
          /\ u > 500 => x > 1000 * Lo + 500
      <4>1. x = ClampMilli(u + integral')
        OBVIOUS
      <4>2. \A i \in 1000 * Lo .. 1000 * Hi, v \in Int :
              /\ v < -500 => ClampMilli(v + i) < 1000 * Hi - 500
              /\ v > 500 => ClampMilli(v + i) > 1000 * Lo + 500
        BY SpeedSizes DEF ClampMilli, Maximum, Minimum
      <4> HIDE DEF x
      <4> QED
        BY <3>1, <3>2, <4>1, <4>2
    <3> HIDE DEF x
    <3> QED
      BY <3>1, <3>2, <3>3, <3>4, RoundedWithin DEF NoWindup
  <2>2. CASE SampleManual \/ SampleBlind
    BY <2>2 DEF SampleManual, SampleBlind, Reads, NoWindup
  <2>3. CASE Poll \/ PageFan \/ ApiWrite
    BY <2>3 DEF Poll, PageFan, PageManual, PageWrites, ApiWrite, NoWindup
  <2>4. CASE LeaseExpires \/ Dog
    BY <2>4 DEF LeaseExpires, Dog, DogSees, DogPops, DogDrops, DogRaises, NoWindup
  <2>5. CASE Pause \/ Resume \/ CoreLost \/ CoreBack \/ AccessEnds \/ AccessStarts
    BY <2>5 DEF Pause, Resume, CoreLost, CoreBack, AccessEnds, AccessStarts, NoWindup
  <2>6. CASE UNCHANGED loopVars
    BY <2>6 DEF loopVars, NoWindup
  <2>7. CASE LoopStarts \/ Measure \/ ReadFails \/ SampleOff \/ Write \/ Set
    BY <2>7 DEF LoopStarts, Measure, ReadFails, SampleOff, Reads, Write, Set
  <2>8. CASE Killed \/ Crashes \/ CrashRead \/ CrashWrite \/ Restarts
    BY <2>8 DEF Killed, Crashes, Ends, CrashRead, CrashWrite, Restarts
  <2> QED
    BY <2>1, <2>2, <2>3, <2>4, <2>5, <2>6, <2>7, <2>8 DEF LoopNext, Loop, LoopSample
<1> QED
  BY <1>1, <1>2, LoopAlways, PTL DEF LoopSpec

=============================================================================
