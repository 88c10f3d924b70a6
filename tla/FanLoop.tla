-------------------------------- MODULE FanLoop --------------------------------
(***************************************************************************)
(* The die temperature loop (temp_control.py) and everybody else who       *)
(* writes the fan's target, register 9: the page's speed (fpga_web.py      *)
(* _fan) and its /api/write, which takes any count, the lease's watchdog   *)
(* (Access._watchdog, in FpgaAccess with its place among the other         *)
(* accesses) and core loads, which reset it.  The loop may crash, be       *)
(* killed and be started again, register traffic may be paused, a load may *)
(* leave the fabric without a core, and the access process, which keeps    *)
(* the lease, may end.  Speeds are rpm, the register holds a KTACH count:  *)
(* more is slower.  Temperatures are in thousandths of a degree and gains  *)
(* in whole rpm (per second) per degree, so what PI adds up is in          *)
(* thousandths of a rpm; its floats' own rounding is left out.             *)
(***************************************************************************)
EXTENDS Integers

CONSTANTS
  KtachRpm, KtachMax,    \* rpm = KtachRpm / (ktach + 1); the register's largest
  Lo, Hi, SafeRpm,       \* FAN_MIN_RPM, FAN_MAX_RPM, SAFE_FAN_RPM
  Kp, Ki, Dts,           \* the gains, and the times between samples (at most 5
                         \* periods)
  Errors, NoTemp,        \* what a sample may find: hottest minus setpoint, or nothing
  Manual, Counts,        \* speeds asked for; counts written by /api/write
  FaultSamples,          \* SENSOR_FAULT_SAMPLES
  MaxEnds                \* bound: ends of the two processes and the page's requests

NoLoop == "absent"

Maximum(a, b) == IF a >= b THEN a ELSE b
Minimum(a, b) == IF a <= b THEN a ELSE b
Clamp(x) == Minimum(Hi, Maximum(Lo, x))
ClampMilli(x) == Minimum(1000 * Hi, Maximum(1000 * Lo, x))

\* Python's round(n / d): a half goes to the even neighbour.
Rounded(n, d) ==
  LET q == n \div d
      r == 2 * (n % d)
  IN IF r > d \/ (r = d /\ q % 2 = 1) THEN q + 1 ELSE q

\* rpm_to_ktach and ktach_to_rpm, the latter as its callers round it.
Ktach(rpm) ==
  IF rpm <= 0 THEN KtachMax
  ELSE Maximum(0, Minimum(KtachMax, Rounded(KtachRpm, rpm) - 1))
Rpm(ktach) == Rounded(KtachRpm, ktach + 1)

ASSUME SpeedAssumption ==
  /\ {KtachRpm, KtachMax, Lo, Hi, SafeRpm} \subseteq Nat \ {0} /\ {Kp, Ki} \subseteq Nat
  /\ Lo <= SafeRpm /\ SafeRpm <= Hi
  /\ Errors \subseteq Int /\ Manual \subseteq Nat /\ Dts \subseteq Nat \ {0}
  /\ Counts \subseteq 0..KtachMax
  /\ NoTemp \notin Errors
\* A target that is read and written again stays what it is.
ASSUME RoundTripAssumption == \A k \in 0..KtachMax : Ktach(Rpm(k)) = k
ASSUME BoundAssumption ==
  FaultSamples \in Nat \ {0} /\ MaxEnds \in Nat

VARIABLES
  access,                 \* "up", "paused", "bare" (up, with no core in the fabric)
                          \* or "down"
  reg, lease, dog,        \* register 9; its lease; where the watchdog is with it
  pc,                     \* the loop: see Places
  loopMode, manual, saved, \* its settings, and those in control.json
  integral, need_reset,   \* the integrator (PI.i); start it from the register
  error, fails,           \* this sample's; samples without a temperature
  want,                   \* the speed it is about to write
  pageMode,               \* the mode the page last saw (ControlLink.latest)
  ends,                   \* counted against MaxEnds
  leased                  \* history: "yes", the last speed came from the loop, in
                          \* its modes; "lost", and its lease ended with the process
                          \* or in a load, with no core there to raise the fan of

fan == <<reg, lease, dog>>
settings == <<loopMode, manual, saved>>
law == <<integral, need_reset>>
sampled == <<error, fails, want>>
loopVars == <<access, fan, pc, settings, law, sampled, pageMode, ends, leased>>

Modes == {"auto", "manual", "off"}
Places == {"start", "idle", "read", "write", "crash", "crash_write", "dead"}

LoopTypeOK ==
  /\ access \in {"up", "paused", "bare", "down"}
  /\ reg \in 0..KtachMax /\ lease \in {"none", "live", "due"}
  /\ dog \in {"idle", "saw", "popped"}
  /\ pc \in Places
  /\ loopMode \in Modes /\ manual \in Lo..Hi /\ saved \in [mode : Modes, rpm : Lo..Hi]
  /\ integral \in 1000 * Lo .. 1000 * Hi /\ need_reset \in BOOLEAN
  /\ error \in Errors \cup {NoTemp} /\ fails \in 0..FaultSamples
  /\ want \in Nat
  /\ pageMode \in Modes \cup {NoLoop}
  /\ ends \in 0..MaxEnds /\ leased \in {"no", "yes", "lost"}

\* The board is up, with the fabric's reset speed.
LoopInit ==
  /\ access = "up" /\ reg = Ktach(Lo) /\ lease = "none" /\ dog = "idle"
  /\ pc = "start" /\ loopMode = "auto" /\ manual = Clamp(SafeRpm)
  /\ saved = [mode |-> "auto", rpm |-> manual]
  /\ integral = 1000 * Lo /\ need_reset = TRUE
  /\ error = NoTemp /\ fails = 0 /\ want = Lo
  /\ pageMode = NoLoop /\ ends = 0 /\ leased = "no"

-------------------------------------------------------------------------------
(* Controller: one sample a second, under its lock.                           *)

\* A request to the access process is answered (FpgaClient; not its release).
Answers == access = "up"

Alive == pc \notin {"dead", "start", "crash", "crash_write"}

\* (mutant: the release is refused like other requests)
ReleaseRefused == IF access # "up" THEN lease ELSE "none"

\* run(): a lease left by a previous run must not fire in mode off.
LeaseReleased == IF access = "down" THEN lease ELSE "none"

LoopStarts ==
  /\ pc = "start"
  /\ pc' = "idle"
  /\ lease' = IF loopMode = "off" THEN LeaseReleased ELSE lease
  /\ UNCHANGED <<access, reg, dog, settings, law, sampled, pageMode, ends, leased>>

Failed(f) == Minimum(f + 1, FaultSamples)

Measure ==
  /\ pc = "idle"
  /\ error' \in Errors \cup {NoTemp}
  /\ fails' = IF error' = NoTemp THEN Failed(fails) ELSE 0
  /\ pc' = "read"
  /\ UNCHANGED <<access, fan, settings, law, want, pageMode, ends, leased>>

\* What was added up is not used before the reset: forgotten.
ToReset == need_reset' = TRUE /\ integral' = 1000 * Lo

ReadFails ==
  /\ pc = "read" /\ ~Answers
  /\ ToReset
  /\ pc' = "idle" /\ error' = NoTemp
  /\ UNCHANGED <<access, fan, settings, fails, want, pageMode, ends, leased>>

\* The sample reads the register and decides, by mode.
Reads(next) ==
  /\ pc = "read" /\ Answers
  /\ pc' = next
  /\ UNCHANGED <<access, fan, settings, fails, pageMode, ends, leased>>

target == Rpm(reg)

SampleOff ==
  /\ loopMode = "off" /\ Reads("idle")
  /\ ToReset /\ error' = NoTemp
  /\ UNCHANGED want

SampleManual ==
  /\ loopMode = "manual" /\ Reads("write")
  /\ want' = Maximum(Lo, manual)
  /\ ToReset
  /\ UNCHANGED error

SampleBlind ==
  /\ loopMode = "auto" /\ error = NoTemp /\ Reads("write")
  /\ want' = IF fails >= FaultSamples THEN Maximum(target, SafeRpm) ELSE target
  /\ ToReset
  /\ UNCHANGED error

\* PI.reset: the next output is the register's target, as far as I may go.
ResetTo(output, e) == ClampMilli(1000 * output - Kp * e)

\* (mutant: neither the condition nor the clamp)
IntegratedFree(i0, e, dt) == i0 + Ki * e * dt

\* PI.step: integrate only when it does not push the output further into a limit.
Integrated(i0, e, dt) ==
  LET new == i0 + Ki * e * dt
      u == Kp * e + new
      further == (u > 1000 * Hi /\ e > 0) \/ (u < 1000 * Lo /\ e < 0)
  IN ClampMilli(IF further THEN i0 ELSE new)

SampleAuto ==
  /\ loopMode = "auto" /\ error # NoTemp /\ Reads("write")
  /\ \E dt \in Dts :
       integral' = Integrated(IF need_reset THEN ResetTo(target, error) ELSE integral,
                              error, dt)
  /\ want' = Rounded(ClampMilli(Kp * error + integral'), 1000)
  /\ need_reset' = FALSE /\ error' = error

Write ==
  /\ pc = "write"
  /\ pc' = "idle" /\ want' = Lo /\ error' = NoTemp      \* forgotten
  /\ IF Answers
     THEN reg' = Ktach(want) /\ lease' = "live" /\ leased' = "yes"
     ELSE UNCHANGED <<reg, lease, leased>>
  /\ UNCHANGED <<access, dog, settings, law, fails, pageMode, ends>>

LoopSample ==
  Measure \/ ReadFails \/ SampleOff \/ SampleManual \/ SampleBlind \/ SampleAuto \/ Write

\* _apply: new settings, between two samples; control.json is written when something
\* changed, and may fail to be.
Apply(m, rpm) ==
  /\ loopMode' = m /\ manual' = rpm
  /\ saved' \in {saved} \cup
       (IF m = loopMode /\ rpm = manual THEN {} ELSE {[mode |-> m, rpm |-> rpm]})
  /\ IF m = "auto" /\ loopMode # "auto" THEN ToReset ELSE UNCHANGED law
  /\ IF m = "off" /\ loopMode # "off"
     THEN lease' = LeaseReleased /\ leased' = "no"
     ELSE UNCHANGED <<lease, leased>>

Set ==
  /\ pc = "idle" /\ ends < MaxEnds
  /\ \E m \in Modes : Apply(m, manual)
  /\ pageMode' = loopMode'
  /\ ends' = ends + 1
  /\ UNCHANGED <<access, reg, dog, pc, sampled>>

-------------------------------------------------------------------------------
(* Its ends.  After an exception main() raises the fan itself.                *)

Ends(to) ==
  /\ Alive /\ ends < MaxEnds
  /\ pc' = to /\ ends' = ends + 1
  /\ UNCHANGED <<access, fan, settings, law, sampled, pageMode, leased>>

\* A stop by the supervisor, a kill, or a hang.
Killed == Ends("dead")
Crashes == Ends("crash")

CrashRead ==
  /\ pc = "crash"
  /\ pc' = IF Answers /\ loopMode # "off" /\ reg > Ktach(SafeRpm) THEN "crash_write" ELSE "dead"
  /\ UNCHANGED <<access, fan, settings, law, sampled, pageMode, ends, leased>>

CrashWrite ==
  /\ pc = "crash_write"
  /\ reg' = IF Answers THEN Ktach(SafeRpm) ELSE reg
  /\ pc' = "dead"
  /\ UNCHANGED <<access, lease, dog, settings, law, sampled, pageMode, ends, leased>>

\* The supervisor starts it again: settings from control.json.
Restarts ==
  /\ pc = "dead"
  /\ pc' = "start"
  /\ loopMode' = saved.mode /\ manual' = saved.rpm
  /\ ToReset /\ fails' = 0
  /\ want' = Lo /\ error' = NoTemp
  /\ UNCHANGED <<access, fan, saved, pageMode, ends, leased>>

-------------------------------------------------------------------------------
(* The page.  It polls the loop; a speed asked for goes by what it last saw.  *)

Poll ==
  /\ pageMode' = IF Alive THEN loopMode ELSE NoLoop
  /\ UNCHANGED <<access, fan, pc, settings, law, sampled, ends, leased>>

\* (mutant: the floor is left to the loop)
PageManualBare(rpm) ==
  /\ pageMode \in {"auto", "manual"} /\ pc = "idle"
  /\ Apply("manual", Minimum(Hi, rpm))
  /\ pageMode' = "manual"
  /\ reg' = reg

PageManual(rpm) ==
  /\ pageMode \in {"auto", "manual"} /\ pc = "idle"
  /\ Apply("manual", Clamp(rpm))
  /\ pageMode' = "manual"
  /\ reg' = reg

\* Off, or no loop there: the register, as is.
PageWrites(rpm) ==
  /\ pageMode \in {"off", NoLoop} /\ Answers
  /\ reg' = Ktach(Maximum(rpm, Lo))
  /\ leased' = "no"
  /\ UNCHANGED <<lease, settings, law, pageMode>>

PageFan ==
  /\ ends < MaxEnds /\ ends' = ends + 1
  /\ \E rpm \in Manual : PageManual(rpm) \/ PageWrites(rpm)
  /\ UNCHANGED <<access, dog, pc, sampled>>

\* /api/write: any count, whatever the loop does; a lease there is stays.
ApiWrite ==
  /\ ends < MaxEnds /\ ends' = ends + 1
  /\ Answers
  /\ reg' \in Counts /\ leased' = "no"
  /\ UNCHANGED <<access, lease, dog, pc, settings, law, sampled, pageMode>>

-------------------------------------------------------------------------------
(* The access process: pauses, the lease and its watchdog, its end.           *)

\* The lease's 10 s are over, not while a core loads.
LeaseExpires ==
  /\ lease = "live" /\ access # "down"
  /\ lease' = "due"
  /\ UNCHANGED <<access, reg, dog, pc, settings, law, sampled, pageMode, ends, leased>>

DogSees ==
  /\ dog = "idle" /\ lease = "due" /\ access \in {"up", "bare"}
  /\ dog' = "saw"
  /\ UNCHANGED <<access, reg, lease, pc, settings, law, sampled, pageMode, ends, leased>>

\* It takes away whatever lease there is by now.
DogPops ==
  /\ dog = "saw" /\ access # "bare"
  /\ dog' = "popped" /\ lease' = "none"
  /\ UNCHANGED <<access, reg, pc, settings, law, sampled, pageMode, ends, leased>>

Forgotten == IF leased = "yes" THEN "lost" ELSE leased

\* ... for good, when there is no core to raise the fan of.
DogDrops ==
  /\ dog = "saw" /\ access = "bare"
  /\ dog' = "idle" /\ lease' = "none" /\ leased' = Forgotten
  /\ UNCHANGED <<access, reg, pc, settings, law, sampled, pageMode, ends>>

\* (mutant: the counts compared as if they were speeds)
RaisedSwapped(k) == IF k < Ktach(SafeRpm) THEN Ktach(SafeRpm) ELSE k

\* Slower than safe: raise it.
Raised(k) == IF k > Ktach(SafeRpm) THEN Ktach(SafeRpm) ELSE k

DogRaises ==
  /\ dog = "popped"
  /\ dog' = "idle"
  /\ IF access = "bare" THEN leased' = Forgotten /\ reg' = reg
     ELSE reg' = Raised(reg) /\ leased' = leased
  /\ UNCHANGED <<access, lease, pc, settings, law, sampled, pageMode, ends>>

Dog == DogSees \/ DogPops \/ DogDrops \/ DogRaises

Pause ==
  /\ access = "up" /\ ends < MaxEnds
  /\ access' = "paused" /\ ends' = ends + 1
  /\ UNCHANGED <<fan, pc, settings, law, sampled, pageMode, leased>>

Resume ==
  /\ access = "paused"
  /\ access' = "up"
  /\ UNCHANGED <<fan, pc, settings, law, sampled, pageMode, ends, leased>>

\* What paused the traffic was a core load, and it failed; another one succeeds, and
\* puts back what was there before the first or the reset speed.
CoreLost ==
  /\ access = "paused"
  /\ access' = "bare"
  /\ UNCHANGED <<fan, pc, settings, law, sampled, pageMode, ends, leased>>

CoreBack ==
  /\ access = "bare"
  /\ access' = "up" /\ reg' \in {reg, Ktach(Lo)}
  /\ leased' = IF reg' # reg /\ lease = "none" THEN Forgotten ELSE leased
  /\ UNCHANGED <<lease, dog, pc, settings, law, sampled, pageMode, ends>>

AccessEnds ==
  /\ access # "down" /\ ends < MaxEnds
  /\ access' = "down" /\ lease' = "none" /\ dog' = "idle" /\ ends' = ends + 1
  /\ leased' = Forgotten
  /\ UNCHANGED <<reg, pc, settings, law, sampled, pageMode>>

AccessStarts ==
  /\ access = "down"
  /\ access' = "up"
  /\ UNCHANGED <<fan, pc, settings, law, sampled, pageMode, ends, leased>>

Loop == LoopStarts \/ LoopSample \/ CrashRead \/ CrashWrite

LoopNext ==
  \/ Loop \/ Set \/ Killed \/ Crashes \/ Restarts
  \/ Poll \/ PageFan \/ ApiWrite
  \/ LeaseExpires \/ Dog \/ Pause \/ Resume \/ CoreLost \/ CoreBack
  \/ AccessEnds \/ AccessStarts

LoopSpec == LoopInit /\ [][LoopNext]_loopVars

\* A lease's time passes, the watchdog looks twice a second, a pause has an end, and
\* a loop that runs goes on; nobody is bound to start it again.
FairLoopSpec ==
  LoopSpec /\ WF_loopVars(Loop) /\ WF_loopVars(LeaseExpires) /\ WF_loopVars(Dog)
       /\ WF_loopVars(Resume) /\ WF_loopVars(AccessStarts)

-------------------------------------------------------------------------------

\* "The lease above is the only net when this loop dies" (temp_control.py 40): a slow
\* fan that a dead loop has left has its lease, or the watchdog is about to raise it.
NetAlways ==
  pc = "dead" /\ leased # "no" /\ reg > Ktach(SafeRpm) => lease # "none" \/ dog = "popped"

\* "If this process dies, hangs or is killed, fpga_access.py raises the fan" (38),
\* unless the loop comes back, somebody else takes the fan, that process ends too, or
\* its watchdog finds no core in the fabric.
NetWorks ==
  (pc = "dead" /\ leased = "yes") ~> (reg <= Ktach(SafeRpm) \/ pc # "dead" \/ leased # "yes")

\* In mode off no lease is left that could move the fan ("the loop leaves the fan
\* alone"), whatever the loop did before.
OffLeaves == loopMode = "off" /\ pc \in {"idle", "read"} => lease = "none"

\* The integrator does not wind up: however long the fan has been at its maximum, the
\* first sample so far below the setpoint that Kp alone makes more than half a rpm of it
\* (0.002 C with the default) takes the fan off it; above it, off its minimum.
NoWindup ==
  loopMode = "auto" /\ pc = "write" /\ error # NoTemp =>
    /\ 2 * Kp * error < -1000 => want < Hi
    /\ 2 * Kp * error > 1000 => want > Lo

===============================================================================
