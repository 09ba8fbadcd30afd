---------------------------- MODULE DeviceProofs ----------------------------
(***************************************************************************)
(* Theorems about drivers and applications.  Of the cutebot's: its         *)
(* odometry makes up for every read that failed or was ignored             *)
(* (MotionMadeUp), a robot that found the marker stands (FinderStands) and *)
(* its find is not lost, nobody drives off before the others have been     *)
(* switched on (StartsTogether), and on a clear radio nothing keeps the    *)
(* start back for ever.  Of the Crazyflie's: the Lighthouse driver's jump  *)
(* gate is convinced by nothing that the other kind of fix interrupts      *)
(* (FlipFlopSeedsNothing), and the link to the radio processor is not      *)
(* given up early.  Of the serial transceivers: frames are heard after     *)
(* damage, a glitch costs so many and no more, and only peers' frames are  *)
(* queued (FramesGetThrough).                                              *)
(***************************************************************************)
EXTENDS Odometer, Finder, Barrier, FixGate, SerialLink, Handshake,
        FiniteSetTheorems, SequenceTheorems, TLAPS

-----------------------------------------------------------------------------
(* The odometry *)

Readings == [set : BOOLEAN, at : Int]

OdometerTypes ==
    /\ count \in Int /\ baseline \in Readings /\ accepted \in Int
    /\ streak \in Nat /\ estimate \in Int /\ origin \in Int
    /\ genuine \in BOOLEAN /\ sound \in BOOLEAN /\ rebased \in BOOLEAN
    /\ accepted >= Never

(* The estimate ends where the baseline is, and a genuine baseline is no   *)
(* farther behind the counter than the wheel turns in the time since.      *)
Telescopes ==
    /\ ~baseline.set => accepted = Never /\ estimate = 0
    /\ baseline.set /\ ~rebased => estimate = baseline.at - origin

Behind ==
    sound /\ accepted # Never =>
        /\ 0 <= count - baseline.at
        /\ count - baseline.at <= Turn * accepted

OdometerInv == OdometerTypes /\ Telescopes /\ Behind /\ MotionMadeUp

(* Products are monotone.                                                  *)
LEMMA Monotone ==
    ASSUME NEW t \in Nat, NEW r \in Nat, NEW n \in Nat, t <= r
    PROVE  t * n <= n * r
<1> DEFINE d == r - t
<1>1. d \in Nat /\ r = t + d
    BY SMT
<1>2. n * r = t * n + d * n
    BY <1>1, SMT
<1>3. d * n \in Nat
    BY <1>1, SMT
<1>. QED
    BY <1>2, <1>3, SMT

(* Products distribute.                                                    *)
LEMMA Distributes ==
    ASSUME NEW t \in Nat, NEW n \in Nat
    PROVE  t * (n + 1) = t * n + t /\ t * n \in Nat /\ t * (n + 1) \in Nat
<1>1. t * (n + 1) = t * n + t
    BY SMT
<1>2. t * n \in Nat
    BY SMT
<1>. QED
    BY <1>1, <1>2, SMT

(* A genuine reading over a genuine baseline is plausible.                 *)
LEMMA GenuineIsPlausible ==
    ASSUME OdometerTypes, Behind, sound, accepted # Never,
           NEW turn \in {0, Turn}
    PROVE  Plausible(count + turn - baseline.at)
<1> USE OdometerAssumption DEF OdometerTypes, Readings, Never
<1> DEFINE delta == count + turn - baseline.at
<1>1. accepted \in Nat /\ accepted + 1 \in Nat /\ delta \in Int
    BY SMT
<1>2. 0 <= delta /\ delta <= Turn * accepted + Turn
    BY <1>1, SMT DEF Behind
<1>3. Turn * accepted + Turn = Turn * (accepted + 1)
    BY <1>1, SMT
<1>4. Turn * (accepted + 1) <= (accepted + 1) * Rate
    BY <1>1, Monotone, SMT
<1>5. Span = accepted + 1
    BY DEF Span
<1>6. delta <= (accepted + 1) * Rate + Slack
    <2>1. (accepted + 1) * Rate \in Int /\ Turn * (accepted + 1) \in Int
        BY <1>1, SMT
    <2>. QED
        BY <1>1, <1>2, <1>3, <1>4, <2>1, SMT
<1>7. Magnitude(delta) = delta
    BY <1>1, <1>2, SMT DEF Magnitude
<1>. QED
    BY <1>5, <1>6, <1>7 DEF Plausible

(* What a read does, by its verdict.                                       *)
At(reading) == [set |-> TRUE, at |-> reading]

AsBaseline(reading) ==
    /\ ~baseline.set /\ baseline' = At(reading) /\ estimate' = estimate
    /\ streak' = streak /\ accepted' = Aged /\ sound' = genuine'
    /\ (~rebased' => ~rebased /\ genuine') /\ origin' = count'

AsMotion(reading) ==
    /\ baseline.set /\ baseline' = At(reading)
    /\ estimate' = estimate + reading - baseline.at
    /\ streak' = 0 /\ accepted' = 0 /\ sound' = genuine'
    /\ (~rebased' => ~rebased) /\ origin' = origin

Ignored(reading) ==
    /\ baseline.set /\ ~Plausible(reading - baseline.at)
    /\ baseline' = baseline /\ estimate' = estimate
    /\ streak' = streak + 1 /\ accepted' = Aged /\ sound' = sound
    /\ (~rebased' => ~rebased) /\ origin' = origin

AsReset(reading) ==
    /\ baseline.set /\ baseline' = At(reading) /\ estimate' = estimate
    /\ streak' = 0 /\ accepted' = 0 /\ sound' = genuine'
    /\ rebased' /\ origin' = origin

(* The filter of a reading has four verdicts: no baseline yet, an          *)
(* implausible count, a re-baseline, an accepted difference.               *)
LEMMA FourVerdicts ==
    ASSUME NEW turn, NEW reading, Reads(turn, reading)
    PROVE  \/ AsBaseline(reading) \/ AsMotion(reading)
           \/ Ignored(reading) \/ AsReset(reading)
<1>1. CASE Verdict(reading) = "BASELINE"
    <2>1. ~baseline.set
        BY <1>1 DEF Verdict
    <2>. QED
        BY <1>1, <2>1 DEF Reads, AsBaseline, At
<1>2. CASE Verdict(reading) = "OK"
    <2>1. baseline.set
        BY <1>2 DEF Verdict
    <2>. QED
        BY <1>2, <2>1 DEF Reads, AsMotion, At
<1>3. CASE Verdict(reading) = "REJECTED"
    <2>1. baseline.set /\ ~Plausible(reading - baseline.at)
        BY <1>3 DEF Verdict
    <2>. QED
        BY <1>3, <2>1 DEF Reads, Ignored
<1>4. CASE Verdict(reading) = "REBASED"
    <2>1. baseline.set
        BY <1>4 DEF Verdict
    <2>. QED
        BY <1>4, <2>1 DEF Reads, AsReset, At
<1>. QED
    BY <1>1, <1>2, <1>3, <1>4 DEF Verdict

(* The odometry invariant through a read, whatever its verdict.            *)
LEMMA ReadKeeps ==
    ASSUME OdometerInv, NEW turn \in {0, Turn}, NEW reading \in Int,
           Pass(turn), Reads(turn, reading)
    PROVE  OdometerInv'
<1> USE OdometerAssumption DEF Never
<1>0. OdometerTypes /\ Telescopes /\ Behind
    BY DEF OdometerInv
<1>1. count' = count + turn /\ turn \in Nat /\ count' \in Int
    BY <1>0, SMT DEF Pass, OdometerTypes
<1>2. genuine' \in BOOLEAN /\ rebased' \in BOOLEAN /\ (genuine' <=> reading = count')
    BY DEF Reads
<1>3. baseline \in Readings /\ baseline.at \in Int /\ baseline.set \in BOOLEAN
      /\ At(reading) \in Readings /\ At(reading).at = reading /\ At(reading).set
    BY <1>0 DEF OdometerTypes, Readings, At
<1>4. Aged \in Int /\ Aged >= Never /\ (accepted = Never => Aged = Never)
      /\ (accepted # Never => Aged = accepted + 1 /\ accepted \in Nat /\ Aged # Never)
    BY <1>0, SMT DEF OdometerTypes, Aged
<1>5. ASSUME AsBaseline(reading) PROVE OdometerInv'
    <2>1. accepted = Never /\ estimate = 0 /\ accepted' = Never
        BY <1>0, <1>4, <1>5 DEF Telescopes, AsBaseline
    <2>2. OdometerTypes'
        BY <1>0, <1>1, <1>2, <1>3, <1>4, <1>5 DEF OdometerTypes, AsBaseline
    <2>3. Telescopes'
        <3>1. baseline'.set /\ baseline'.at = reading
            BY <1>3, <1>5 DEF AsBaseline
        <3>2. ~rebased' => reading = origin'
            BY <1>2, <1>5 DEF AsBaseline
        <3>3. estimate' = 0
            BY <1>5, <2>1 DEF AsBaseline
        <3>. QED
            BY <3>1, <3>2, <3>3, SMT DEF Telescopes
    <2>. QED
        BY <2>1, <2>2, <2>3 DEF OdometerInv, Behind, MotionMadeUp
<1>6. ASSUME AsMotion(reading) PROVE OdometerInv'
    <2>1. OdometerTypes'
        BY <1>0, <1>1, <1>2, <1>3, <1>6, SMT DEF OdometerTypes, AsMotion
    <2>2. baseline'.set /\ baseline'.at = reading
        BY <1>3, <1>6 DEF AsMotion
    <2>3. ~rebased' => estimate' = reading - origin'
        <3>1. SUFFICES ASSUME ~rebased' PROVE estimate' = reading - origin'
            OBVIOUS
        <3>2. estimate = baseline.at - origin /\ origin' = origin
              /\ estimate' = estimate + reading - baseline.at
            BY <1>0, <1>6, <3>1 DEF AsMotion, Telescopes
        <3>3. estimate \in Int /\ origin \in Int
            BY <1>0 DEF OdometerTypes
        <3>. QED
            BY <1>3, <3>2, <3>3, SMT
    <2>4. Telescopes'
        BY <2>2, <2>3 DEF Telescopes
    <2>5. Behind'
        BY <1>1, <1>2, <1>6, <2>2, SMT DEF Behind, AsMotion
    <2>6. MotionMadeUp'
        BY <1>2, <2>3 DEF MotionMadeUp
    <2>. QED
        BY <2>1, <2>4, <2>5, <2>6 DEF OdometerInv
<1>7. ASSUME Ignored(reading) PROVE OdometerInv'
    <2>1. OdometerTypes'
        BY <1>0, <1>1, <1>2, <1>4, <1>7, SMT DEF OdometerTypes, Ignored
    <2>2. Telescopes'
        BY <1>0, <1>7 DEF Telescopes, Ignored
    <2>3. Behind'
        <3>1. SUFFICES ASSUME sound, accepted # Never
                       PROVE  /\ 0 <= count' - baseline.at
                              /\ count' - baseline.at <= Turn * (accepted + 1)
            BY <1>4, <1>7 DEF Behind, Ignored
        <3>2. Turn * (accepted + 1) = Turn * accepted + Turn
              /\ Turn * accepted \in Nat
            BY <1>4, <3>1, Distributes
        <3>3. 0 <= count - baseline.at /\ count - baseline.at <= Turn * accepted
            BY <1>0, <3>1 DEF Behind
        <3>4. count \in Int
            BY <1>0 DEF OdometerTypes
        <3>. QED
            BY <1>1, <1>3, <3>2, <3>3, <3>4, SMT
    <2>4. ~(genuine' /\ sound /\ accepted # Never)
        <3>1. SUFFICES ASSUME genuine', sound, accepted # Never PROVE FALSE
            OBVIOUS
        <3>2. reading - baseline.at = count + turn - baseline.at
            <4>1. reading = count'
                BY <1>2, <3>1
            <4>2. count' = count + turn
                BY <1>1
            <4>3. count \in Int /\ turn \in Int /\ baseline.at \in Int
                BY <1>0, <1>1, <1>3, SMT DEF OdometerTypes
            <4>4. reading = count + turn
                BY <4>1, <4>2
            <4>. QED
                BY <4>3, <4>4, SMT
        <3>3. Plausible(count + turn - baseline.at)
            BY <1>0, <3>1, GenuineIsPlausible
        <3>. QED
            BY <1>7, <3>2, <3>3 DEF Ignored
    <2>5. MotionMadeUp'
        BY <1>4, <1>7, <2>4 DEF MotionMadeUp, Ignored
    <2>. QED
        BY <2>1, <2>2, <2>3, <2>5 DEF OdometerInv
<1>8. ASSUME AsReset(reading) PROVE OdometerInv'
    <2>1. OdometerTypes'
        BY <1>0, <1>1, <1>2, <1>3, <1>8, SMT DEF OdometerTypes, AsReset
    <2>2. baseline'.set /\ baseline'.at = reading
        BY <1>3, <1>8 DEF AsReset
    <2>3. Telescopes' /\ MotionMadeUp'
        BY <1>8, <2>2 DEF Telescopes, MotionMadeUp, AsReset
    <2>4. Behind'
        BY <1>1, <1>2, <1>8, <2>2, SMT DEF Behind, AsReset
    <2>. QED
        BY <2>1, <2>3, <2>4 DEF OdometerInv
<1>. QED
    BY <1>5, <1>6, <1>7, <1>8, FourVerdicts

(* The odometry invariant through a failed read and a turn of the wheel.   *)
LEMMA NoReadKeeps ==
    ASSUME OdometerInv, NoRead
    PROVE  OdometerInv'
<1> USE OdometerAssumption DEF Never
<1>0. OdometerTypes /\ Telescopes /\ Behind
    BY DEF OdometerInv
<1>1. PICK turn \in {0, Turn} :
          /\ count' = count + turn /\ genuine' = FALSE /\ accepted' = Aged
          /\ UNCHANGED <<baseline, streak, estimate, sound, rebased, origin>>
    BY DEF NoRead, Pass
<1>a. Aged \in Int /\ Aged >= Never /\ (accepted = Never => Aged = Never)
    BY <1>0, SMT DEF OdometerTypes, Aged
<1>b. count' \in Int
    BY <1>0, <1>1, SMT DEF OdometerTypes
<1>2. OdometerTypes' /\ Telescopes'
    BY <1>0, <1>1, <1>a, <1>b DEF OdometerTypes, Telescopes
<1>3. Behind'
    <2>1. SUFFICES ASSUME sound, accepted # Never
                   PROVE  /\ 0 <= count' - baseline.at
                          /\ count' - baseline.at <= Turn * (accepted + 1)
        BY <1>1, SMT DEF Behind, Aged
    <2>2. accepted \in Nat
        BY <1>0, <2>1, SMT DEF OdometerTypes
    <2>3. Turn * (accepted + 1) = Turn * accepted + Turn /\ Turn * accepted \in Nat
        BY <2>2, Distributes
    <2>. QED
        BY <1>0, <1>1, <2>1, <2>2, <2>3, SMT DEF Behind, OdometerTypes, Readings
<1>. QED
    BY <1>1, <1>2, <1>3 DEF OdometerInv, MotionMadeUp

(* The guard never costs motion: with any nonsense between them, failed or *)
(* ignored reads are made up for by the next genuine one (main.c, the      *)
(* delta "spans everything since the last accepted read").                 *)
THEOREM MotionIsMadeUp == OdometerSpec => []MotionMadeUp
<1>1. OdometerInit => OdometerInv
    <2>1. SUFFICES ASSUME OdometerInit PROVE OdometerInv
        OBVIOUS
    <2>2. baseline \in Readings /\ baseline.at = 0
        <3>1. baseline = [set |-> FALSE, at |-> 0] \/ baseline = [set |-> TRUE, at |-> 0]
            BY <2>1 DEF OdometerInit, Unset
        <3>2. ASSUME NEW b \in BOOLEAN, baseline = [set |-> b, at |-> 0]
              PROVE  baseline \in Readings /\ baseline.at = 0
            <4>1. 0 \in Int
                BY SMT
            <4>. QED
                BY <3>2, <4>1 DEF Readings
        <3>. QED
            BY <3>1, <3>2
    <2>3. /\ count = 0 /\ accepted = -1 /\ streak = 0 /\ estimate = 0 /\ origin = 0
          /\ genuine = TRUE /\ sound = baseline.set /\ rebased = FALSE
        BY <2>1 DEF OdometerInit, Never
    <2>4. baseline.set \in BOOLEAN
        BY <2>2 DEF Readings
    <2>5. OdometerTypes
        <3>1. count \in Int /\ accepted \in Int /\ streak \in Nat /\ estimate \in Int
              /\ origin \in Int /\ accepted >= Never
            BY <2>3, SMT DEF Never
        <3>2. genuine \in BOOLEAN /\ sound \in BOOLEAN /\ rebased \in BOOLEAN
            BY <2>3, <2>4
        <3>. QED
            BY <2>2, <3>1, <3>2 DEF OdometerTypes
    <2>6. Telescopes
        BY <2>2, <2>3, SMT DEF Telescopes, Never
    <2>. QED
        BY <2>3, <2>5, <2>6 DEF OdometerInv, Behind, MotionMadeUp, Never
<1>2. OdometerInv /\ [OdometerNext]_odometerVars => OdometerInv'
    <2>1. SUFFICES ASSUME OdometerInv, [OdometerNext]_odometerVars PROVE OdometerInv'
        OBVIOUS
    <2>2. CASE GoodRead
        <3>1. PICK turn \in {0, Turn} : Pass(turn) /\ Reads(turn, count + turn)
            BY <2>2 DEF GoodRead
        <3>2. count + turn \in Int
            BY <2>1, OdometerAssumption, SMT DEF OdometerInv, OdometerTypes
        <3>. QED
            BY <2>1, <3>1, <3>2, ReadKeeps
    <2>3. CASE BadRead
        <3>1. PICK turn \in {0, Turn}, n \in Nonsense : Pass(turn) /\ Reads(turn, n)
            BY <2>3 DEF BadRead
        <3>2. n \in Int
            BY OdometerAssumption
        <3>. QED
            BY <2>1, <3>1, <3>2, ReadKeeps
    <2>4. CASE NoRead
        BY <2>1, <2>4, NoReadKeeps
    <2>5. CASE UNCHANGED odometerVars
        BY <2>1, <2>5
        DEF odometerVars, OdometerInv, OdometerTypes, Telescopes, Behind, MotionMadeUp
    <2>. QED
        BY <2>1, <2>2, <2>3, <2>4, <2>5 DEF OdometerNext
<1>. QED
    BY <1>1, <1>2, PTL DEF OdometerSpec, OdometerInv

-----------------------------------------------------------------------------
(* The finder of the marker *)

FinderTypes ==
    /\ step \in [Robots -> 1..Ringing] /\ directive \in [Robots -> 1..Ringing]
    /\ suspended \in [Robots -> BOOLEAN] /\ known \in [Robots -> BOOLEAN]
    /\ unsynced \in [Robots -> 0..SyncTicks] /\ polls \in [Robots -> Nat]
    /\ discovered \in [Robots -> BOOLEAN] /\ foundOn \in [Robots -> 0..Ringing]
    /\ pending \in [Robots -> BOOLEAN] /\ released \in [Robots -> {0, 1}]
    /\ driving \in [Robots -> 0..Ringing] /\ thawing \in [Robots -> BOOLEAN]
    /\ restarts \in Nat

(* The script never comes back to the step the marker was found on, and    *)
(* the tick of grace is only spent once it has left it.                    *)
LeftBehind == \A r \in Robots :
    /\ discovered[r] => foundOn[r] \in 1..step[r]
    /\ released[r] = 1 => discovered[r] /\ foundOn[r] < step[r]

FinderInv == FinderTypes /\ LeftBehind /\ FinderStands

(* There are four steps at least.                                          *)
LEMMA StepRange == Ringing \in Nat /\ Ringing >= 4
  BY FinderAssumption DEF Ringing, Searched, Found

(* The finder invariant, of the initial states.                            *)
LEMMA FinderStart == FinderInit => FinderInv
<1> SUFFICES ASSUME FinderInit PROVE FinderInv
  OBVIOUS
<1>1. FinderTypes
  <2>1. /\ suspended \in [Robots -> BOOLEAN] /\ known \in [Robots -> BOOLEAN]
        /\ discovered \in [Robots -> BOOLEAN] /\ pending \in [Robots -> BOOLEAN]
        /\ thawing \in [Robots -> BOOLEAN]
    <3>1. FALSE \in BOOLEAN
      OBVIOUS
    <3> QED
      BY <3>1, Zenon DEF FinderInit
  <2>2. 1 \in 1..Ringing /\ 0 \in 0..Ringing /\ SyncTicks \in 0..SyncTicks /\ 0 \in Nat
    BY StepRange, FinderAssumption
  <2>3. /\ step \in [Robots -> 1..Ringing] /\ directive \in [Robots -> 1..Ringing]
        /\ unsynced \in [Robots -> 0..SyncTicks] /\ polls \in [Robots -> Nat]
        /\ foundOn \in [Robots -> 0..Ringing] /\ driving \in [Robots -> 0..Ringing]
        /\ released \in [Robots -> {0, 1}] /\ restarts \in Nat
    BY <2>2 DEF FinderInit, NoLeg
  <2> QED
    BY <2>1, <2>3 DEF FinderTypes
<1>2. \A r \in Robots : ~discovered[r] /\ released[r] # 1
  <2>1. \A r \in Robots : discovered[r] = FALSE
    BY Zenon DEF FinderInit
  <2>2. \A r \in Robots : released[r] = 0
    BY Zenon DEF FinderInit
  <2>3. 0 # 1
    OBVIOUS
  <2> QED
    BY <2>1, <2>2, <2>3, Zenon
<1>3. LeftBehind /\ FinderStands
  BY <1>2, Zenon DEF LeftBehind, FinderStands
<1> QED
  BY <1>1, <1>3 DEF FinderInv

(* A script goes on or stays.                                              *)
LEMMA StepOn ==
    ASSUME FinderTypes, NEW r \in Robots, NEW knows, NEW timed
    PROVE  StepAfter(r, knows, timed) \in step[r]..Ringing
<1>1. step[r] \in 1..Ringing
  BY DEF FinderTypes
<1> QED
  BY <1>1, StepRange, FinderAssumption DEF StepAfter, Ringing, Found, Searched

(* The finder invariant through a loop of the application.                 *)
LEMMA LoopStands ==
    ASSUME FinderInv, NEW r \in Robots, NEW heard, NEW dark, NEW quorum \in BOOLEAN,
           NEW timed, Loop(r, heard, dark, quorum, timed)
    PROVE  FinderInv'
<1> DEFINE got    == known[r] \/ \E q \in heard : known[q]
           left   == IF heard # {} \/ unsynced[r] = 0 THEN 0 ELSE unsynced[r] - 1
           run    == PollsAfter(r, got, dark)
           found  == discovered[r] \/ run >= Confirm
           on     == IF found /\ ~discovered[r] THEN step[r] ELSE foundOn[r]
           wanted == pending[r] \/ (found /\ ~discovered[r])
           knows  == got \/ (wanted /\ left = 0)
           next   == StepAfter(r, knows, timed)
           dir    == DirectiveAfter(r)
           wheels == IF Tracks(next, quorum) /\ ~Stops(found, on, next, released[r])
                     THEN dir ELSE NoLeg
<1>1. /\ known' = [known EXCEPT ![r] = knows]
      /\ unsynced' = [unsynced EXCEPT ![r] = left]
      /\ polls' = [polls EXCEPT ![r] = run]
      /\ discovered' = [discovered EXCEPT ![r] = found]
      /\ foundOn' = [foundOn EXCEPT ![r] = on]
      /\ pending' = [pending EXCEPT ![r] = StillPending(wanted, left = 0)]
      /\ step' = [step EXCEPT ![r] = next]
      /\ directive' = [directive EXCEPT ![r] = dir]
      /\ suspended' = [suspended EXCEPT ![r] = ~quorum]
      /\ thawing' = [thawing EXCEPT ![r] = suspended[r]]
      /\ released' = [released EXCEPT ![r] = IF found /\ next # on THEN 1 ELSE @]
      /\ driving' = [driving EXCEPT ![r] = wheels]
      /\ UNCHANGED restarts
  BY Zenon DEF Loop
<1>2. /\ known \in [Robots -> BOOLEAN] /\ unsynced[r] \in 0..SyncTicks
      /\ discovered[r] \in BOOLEAN /\ pending[r] \in BOOLEAN /\ polls[r] \in Nat
      /\ step[r] \in 1..Ringing /\ directive[r] \in 1..Ringing
      /\ foundOn[r] \in 0..Ringing /\ released[r] \in {0, 1}
  BY DEF FinderInv, FinderTypes
<1>3. /\ knows \in BOOLEAN /\ found \in BOOLEAN /\ left \in 0..SyncTicks
      /\ StillPending(wanted, left = 0) \in BOOLEAN
  <2>1. left \in 0..SyncTicks
    BY <1>2, FinderAssumption
  <2> QED
    BY <2>1, Zenon DEF StillPending
<1>4. run \in Nat
  BY <1>2 DEF PollsAfter
<1>5. next \in step[r]..Ringing
  BY StepOn DEF FinderInv
<1>6. dir \in 1..Ringing /\ (~suspended[r] => dir = step[r])
  BY <1>2 DEF DirectiveAfter
<1>7. on \in 0..Ringing /\ wheels \in 0..Ringing
  BY <1>2, <1>6, StepRange DEF NoLeg
<1>8. found => on \in 1..step[r]
  BY <1>2 DEF FinderInv, LeftBehind
<1>9. released[r] = 1 => discovered[r] /\ foundOn[r] < step[r]
  BY DEF FinderInv, LeftBehind
<1>10. found /\ wheels = on => suspended[r]
  <2> SUFFICES ASSUME found, wheels = on, ~suspended[r] PROVE FALSE
    OBVIOUS
  <2>1. on # NoLeg
    BY <1>2, <1>8 DEF NoLeg
  <2>2. dir = on /\ ~Stops(found, on, next, released[r])
    BY <2>1
  <2>3. on = step[r] /\ released[r] = 1
    BY <1>2, <1>6, <2>2 DEF Stops
  <2> QED
    BY <1>2, <1>9, <2>3
<1> HIDE DEF got, left, run, found, on, wanted, knows, next, dir, wheels
<1>11. FinderTypes'
  BY <1>1, <1>2, <1>3, <1>4, <1>5, <1>6, <1>7 DEF FinderInv, FinderTypes
<1>12. LeftBehind'
  <2> SUFFICES ASSUME NEW q \in Robots
               PROVE  /\ discovered'[q] => foundOn'[q] \in 1..step'[q]
                      /\ released'[q] = 1 => discovered'[q] /\ foundOn'[q] < step'[q]
    BY DEF LeftBehind
  <2>1. CASE q = r
    <3>1. /\ discovered'[q] = found /\ foundOn'[q] = on /\ step'[q] = next
          /\ released'[q] = IF found /\ next # on THEN 1 ELSE released[r]
      BY <1>1, <2>1 DEF FinderInv, FinderTypes
    <3>2. found => on \in 1..next
      BY <1>2, <1>5, <1>8
    <3>3. released[r] = 1 => found /\ on < next
      BY <1>2, <1>5, <1>9 DEF found, on
    <3> QED
      BY <1>2, <1>5, <1>7, <3>1, <3>2, <3>3
  <2>2. CASE q # r
    BY <1>1, <2>2 DEF FinderInv, FinderTypes, LeftBehind
  <2> QED
    BY <2>1, <2>2
<1>13. FinderStands'
  BY <1>1, <1>10 DEF FinderInv, FinderTypes, FinderStands
<1> QED
  BY <1>11, <1>12, <1>13 DEF FinderInv

(* The finder invariant through a restart.                                 *)
LEMMA RestartStands ==
    ASSUME FinderInv, NEW r \in Robots, Restarts(r)
    PROVE  FinderInv'
<1>1. FinderTypes'
  BY StepRange, FinderAssumption DEF FinderInv, FinderTypes, Restarts, NoLeg
<1>2. LeftBehind' /\ FinderStands'
  BY DEF FinderInv, FinderTypes, LeftBehind, FinderStands, Restarts
<1> QED
  BY <1>1, <1>2 DEF FinderInv

(* The finder invariant through every step.                                *)
LEMMA FinderStep == FinderInv /\ [FinderNext]_finderVars => FinderInv'
<1> SUFFICES ASSUME FinderInv, [FinderNext]_finderVars PROVE FinderInv'
  OBVIOUS
<1>1. CASE UNCHANGED finderVars
  BY <1>1 DEF finderVars, FinderInv, FinderTypes, LeftBehind, FinderStands
<1>2. ASSUME NEW r \in Robots, Ticks(r) PROVE FinderInv'
  BY <1>2, LoopStands DEF Ticks, Hearing
<1> QED
  BY <1>1, <1>2, RestartStands DEF FinderNext

(* However many robots, legs and restarts: a robot that has confirmed the  *)
(* marker never drives on under the directive of the step it was found on, *)
(* the ticks that begin suspended excepted.                                *)
THEOREM FinderAlwaysStands == FinderSpec => []FinderStands
<1>1. FinderInv => FinderStands
  BY DEF FinderInv
<1> QED
  BY <1>1, FinderStart, FinderStep, PTL DEF FinderSpec

-----------------------------------------------------------------------------
(* What a find becomes *)

(* A find is a fact, or will be when the table is synchronised.            *)
FindKept == \A r \in Robots :
    /\ discovered[r] => known[r] \/ pending[r]
    /\ pending[r] => discovered[r] /\ unsynced[r] > 0

(* Of a find that waits every loop of its robot makes a fact or shortens   *)
(* the wait; who hears everybody learns what anybody knows; and what is    *)
(* known is forgotten by restarting only.                                  *)
FindSpreads ==
    [][\A r \in Robots :
         /\ Ticks(r) /\ pending[r] =>
                known'[r] \/ (pending'[r] /\ unsynced'[r] < unsynced[r])
         /\ Hears(r) /\ (\E q \in Robots : known[q]) => known'[r]
         /\ known[r] /\ ~known'[r] => Restarts(r)]_finderVars

LEMMA LoopKeepsFind ==
    ASSUME FinderInv, FindKept, NEW r \in Robots, NEW heard, NEW dark, NEW quorum,
           NEW timed, Loop(r, heard, dark, quorum, timed)
    PROVE  /\ FindKept'
           /\ pending[r] => known'[r] \/ (pending'[r] /\ unsynced'[r] < unsynced[r])
           /\ (\E q \in heard : known[q]) => known'[r]
           /\ \A q \in Robots : known[q] => known'[q]
<1> DEFINE got    == known[r] \/ \E q \in heard : known[q]
           left   == IF heard # {} \/ unsynced[r] = 0 THEN 0 ELSE unsynced[r] - 1
           run    == PollsAfter(r, got, dark)
           found  == discovered[r] \/ run >= Confirm
           wanted == pending[r] \/ (found /\ ~discovered[r])
           knows  == got \/ (wanted /\ left = 0)
<1>1. /\ known' = [known EXCEPT ![r] = knows]
      /\ unsynced' = [unsynced EXCEPT ![r] = left]
      /\ discovered' = [discovered EXCEPT ![r] = found]
      /\ pending' = [pending EXCEPT ![r] = wanted /\ ~(left = 0)]
  BY Zenon DEF Loop, StillPending
<1>2. /\ known \in [Robots -> BOOLEAN] /\ unsynced \in [Robots -> 0..SyncTicks]
      /\ discovered \in [Robots -> BOOLEAN] /\ pending \in [Robots -> BOOLEAN]
  BY DEF FinderInv, FinderTypes
<1>3. left \in Nat /\ (unsynced[r] > 0 => left < unsynced[r])
  BY <1>2, FinderAssumption
<1>4. knows = (got \/ (wanted /\ left = 0)) /\ got \in BOOLEAN
      /\ wanted = (pending[r] \/ (found /\ ~discovered[r])) /\ found \in BOOLEAN
      /\ (discovered[r] => found) /\ ((\E q \in heard : known[q]) => got) /\ (known[r] => got)
  OBVIOUS
<1> HIDE DEF got, left, run, found, wanted, knows
<1>5. /\ known'[r] = knows /\ unsynced'[r] = left /\ discovered'[r] = found
      /\ pending'[r] = (wanted /\ ~(left = 0))
      /\ \A q \in Robots \ {r} : /\ known'[q] = known[q] /\ unsynced'[q] = unsynced[q]
                                 /\ discovered'[q] = discovered[q] /\ pending'[q] = pending[q]
  BY <1>1, <1>2
<1>6. /\ discovered[r] => known[r] \/ pending[r]
      /\ pending[r] => discovered[r] /\ unsynced[r] > 0
  BY DEF FindKept
<1>7. /\ found => knows \/ (wanted /\ ~(left = 0))
      /\ wanted => found
      /\ pending[r] => wanted /\ left < unsynced[r]
      /\ known[r] => knows
      /\ (\E q \in heard : known[q]) => knows
  BY <1>3, <1>4, <1>6
<1>8. FindKept'
  <2> SUFFICES ASSUME NEW q \in Robots
               PROVE  /\ discovered'[q] => known'[q] \/ pending'[q]
                      /\ pending'[q] => discovered'[q] /\ unsynced'[q] > 0
    BY DEF FindKept
  <2>1. CASE q = r
    <3>1. ~(left = 0) => left > 0
      BY <1>3
    <3>2. /\ found => knows \/ (wanted /\ ~(left = 0))
          /\ wanted /\ ~(left = 0) => found /\ left > 0
      BY <1>7, <3>1
    <3> QED
      BY <1>5, <2>1, <3>2
  <2>2. CASE q # r
    BY <1>5, <2>2 DEF FindKept
  <2> QED
    BY <2>1, <2>2
<1> QED
  BY <1>5, <1>7, <1>8

LEMMA RestartKeepsFind ==
    ASSUME FinderInv, FindKept, NEW r \in Robots, Restarts(r)
    PROVE  FindKept' /\ \A q \in Robots \ {r} : known'[q] = known[q]
BY DEF FinderInv, FinderTypes, FindKept, Restarts

(* No find is lost: the robot that confirmed the marker holds the fact or  *)
(* still publishes it, however its table is refused, whatever it hears and *)
(* whoever restarts (main.c, target_pending).                              *)
THEOREM FindsAreKept == FinderSpec => []FindKept /\ FindSpreads
<1>1. FinderInit => FindKept
  <2> SUFFICES ASSUME FinderInit, NEW r \in Robots PROVE ~discovered[r] /\ ~pending[r]
    BY DEF FindKept
  <2> QED
    BY Zenon DEF FinderInit
<1>2. FinderInv /\ FindKept /\ [FinderNext]_finderVars => FindKept'
  <2> SUFFICES ASSUME FinderInv, FindKept, [FinderNext]_finderVars PROVE FindKept'
    OBVIOUS
  <2>1. CASE UNCHANGED finderVars
    BY <2>1 DEF finderVars, FindKept
  <2>2. ASSUME NEW r \in Robots, Ticks(r) PROVE FindKept'
    BY <2>2, LoopKeepsFind DEF Ticks, Hearing
  <2> QED
    BY <2>1, <2>2, RestartKeepsFind DEF FinderNext
<1>3. FinderInv /\ FindKept /\ [FinderNext]_finderVars =>
        [\A r \in Robots :
         /\ Ticks(r) /\ pending[r] =>
                known'[r] \/ (pending'[r] /\ unsynced'[r] < unsynced[r])
         /\ Hears(r) /\ (\E q \in Robots : known[q]) => known'[r]
         /\ known[r] /\ ~known'[r] => Restarts(r)]_finderVars
  <2> SUFFICES ASSUME FinderInv, FindKept, FinderNext, NEW r \in Robots
               PROVE  /\ Ticks(r) /\ pending[r] =>
                             known'[r] \/ (pending'[r] /\ unsynced'[r] < unsynced[r])
                      /\ Hears(r) /\ (\E q \in Robots : known[q]) => known'[r]
                      /\ known[r] /\ ~known'[r] => Restarts(r)
    OBVIOUS
  <2>1. Ticks(r) /\ pending[r] => known'[r] \/ (pending'[r] /\ unsynced'[r] < unsynced[r])
    BY LoopKeepsFind DEF Ticks, Hearing
  <2>2. Hears(r) /\ (\E q \in Robots : known[q]) => known'[r]
    <3> SUFFICES ASSUME Hears(r), NEW q \in Robots, known[q] PROVE known'[r]
      OBVIOUS
    <3>1. PICK dark \in Sights(r), timed \in Times(r), quorum \in BOOLEAN :
              Loop(r, Robots \ {r}, dark, quorum, timed)
      BY Zenon DEF Hears, Hearing
    <3>2. (\E p \in Robots \ {r} : known[p]) => known'[r]
      BY <3>1, LoopKeepsFind
    <3>3. known[r] => known'[r]
      BY <3>1, LoopKeepsFind
    <3> QED
      BY <3>2, <3>3
  <2>3. known[r] /\ ~known'[r] => Restarts(r)
    <3>1. ASSUME NEW q \in Robots, Ticks(q) PROVE known[r] => known'[r]
      BY <3>1, LoopKeepsFind DEF Ticks, Hearing
    <3>2. ASSUME NEW q \in Robots, Restarts(q), q # r PROVE known'[r] = known[r]
      BY <3>2, RestartKeepsFind
    <3> QED
      BY <3>1, <3>2 DEF FinderNext
  <2> QED
    BY <2>1, <2>2, <2>3
<1> QED
  BY <1>1, <1>2, <1>3, FinderStart, FinderStep, PTL DEF FinderSpec, FindSpreads

-----------------------------------------------------------------------------
(* The convergence hold *)

BarrierTypes ==
    /\ phase \in [Bots -> {"OFF", "BARRIER", "DRIVE"}]
    /\ age \in [Bots -> [Bots -> 0..Expire]]
    /\ ready \in [Bots -> Nat] /\ gone \in [Bots -> 0..Expire]

(* An entry is never younger than its robot's absence.                     *)
AgeTellsAbsence == \A r, q \in Bots : gone[q] <= age[r][q]

BarrierInv == BarrierTypes /\ AgeTellsAbsence

(* The invariant of the hold, of the initial states.                       *)
LEMMA BarrierStart == BarrierInit => BarrierInv
<1> SUFFICES ASSUME BarrierInit PROVE BarrierInv
  OBVIOUS
<1>1. Expire \in 0..Expire /\ 0 \in Nat
  BY BarrierAssumption
<1>2. BarrierTypes
  BY <1>1 DEF BarrierInit, BarrierTypes
<1>3. AgeTellsAbsence
  BY <1>1 DEF BarrierInit, AgeTellsAbsence
<1> QED
  BY <1>2, <1>3 DEF BarrierInv

(* A tick: what is heard comes from a robot that is on.                    *)
LEMMA TickTells ==
    ASSUME BarrierInv, NEW lost, Tick(lost)
    PROVE  BarrierInv'
<1>1. /\ Expire \in Nat /\ Settle \in Nat
      /\ \A r \in Bots : phase[r] \in {"OFF", "BARRIER", "DRIVE"}
      /\ \A r \in Bots : ready[r] \in Nat /\ gone[r] \in 0..Expire
      /\ \A r, q \in Bots : age[r][q] \in 0..Expire /\ gone[q] <= age[r][q]
  BY BarrierAssumption DEF BarrierInv, BarrierTypes, AgeTellsAbsence
<1>2. \A q \in Bots :
          gone'[q] = IF phase[q] # "OFF" THEN 0
                     ELSE IF gone[q] < Expire THEN gone[q] + 1 ELSE Expire
  BY DEF Tick
<1>3. \A r, q \in Bots :
          age'[r][q] = IF phase[r] # "BARRIER" \/ q = r THEN Expire
                       ELSE AgeAfter(r, q, q \in Awake /\ <<q, r>> \notin lost)
  BY Zenon DEF Tick
<1>4. \A r, q \in Bots : age'[r][q] \in 0..Expire /\ gone'[q] <= age'[r][q]
  <2> SUFFICES ASSUME NEW r \in Bots, NEW q \in Bots
               PROVE  age'[r][q] \in 0..Expire /\ gone'[q] <= age'[r][q]
    OBVIOUS
  <2>1. gone'[q] \in 0..Expire
    BY <1>1, <1>2
  <2>2. CASE age'[r][q] = Expire
    BY <1>1, <2>1, <2>2
  <2>3. CASE age'[r][q] = 0 /\ q \in Awake
    BY <1>1, <1>2, <2>3 DEF Awake
  <2>4. CASE age[r][q] < Expire /\ age'[r][q] = age[r][q] + 1
    BY <1>1, <1>2, <2>4
  <2> QED
    BY <1>3, <2>2, <2>3, <2>4, Zenon DEF AgeAfter
<1>5. age' \in [Bots -> [Bots -> 0..Expire]]
  <2>1. age' = [r \in Bots |-> [q \in Bots |-> age'[r][q]]]
    BY Zenon DEF Tick
  <2> QED
    BY <1>4, <2>1
<1>6. gone' \in [Bots -> 0..Expire]
  <2>1. \A q \in Bots : gone'[q] \in 0..Expire
    BY <1>1, <1>2
  <2>2. gone' = [q \in Bots |-> gone'[q]]
    BY Zenon DEF Tick
  <2> QED
    BY <2>1, <2>2
<1>7. phase' \in [Bots -> {"OFF", "BARRIER", "DRIVE"}]
  <2>1. \A r \in Bots : phase'[r] = "DRIVE" \/ phase'[r] = phase[r]
    BY DEF Tick
  <2>2. phase' = [r \in Bots |-> phase'[r]]
    BY Zenon DEF Tick
  <2> QED
    BY <1>1, <2>1, <2>2
<1>8. ready' \in [Bots -> Nat]
  <2>1. \A r \in Bots : ready'[r] = ReadyAfter(r) \/ ready'[r] = 0
    BY Zenon DEF Tick
  <2>2. \A r \in Bots : ready'[r] \in Nat
    BY <1>1, <2>1 DEF ReadyAfter
  <2>3. ready' = [r \in Bots |-> ready'[r]]
    BY Zenon DEF Tick
  <2> QED
    BY <2>2, <2>3
<1> QED
  BY <1>4, <1>5, <1>6, <1>7, <1>8 DEF BarrierInv, BarrierTypes, AgeTellsAbsence

(* The invariant of the hold through a robot being switched on or off.     *)
LEMMA SwitchTells ==
    ASSUME BarrierInv, NEW r \in Bots, SwitchOn(r) \/ SwitchOff(r)
    PROVE  BarrierInv'
<1>1. phase' \in [Bots -> {"OFF", "BARRIER", "DRIVE"}] /\ gone' = gone
  BY DEF BarrierInv, BarrierTypes, SwitchOn, SwitchOff
<1>2. /\ age' = age \/ age' = [age EXCEPT ![r] = [q \in Bots |-> Expire]]
      /\ ready' = ready \/ ready' = [ready EXCEPT ![r] = 0]
  BY Zenon DEF SwitchOn, SwitchOff
<1>3. Expire \in 0..Expire /\ Expire \in Nat
  BY BarrierAssumption
<1>4. age' \in [Bots -> [Bots -> 0..Expire]]
  <2>1. age \in [Bots -> [Bots -> 0..Expire]]
    BY DEF BarrierInv, BarrierTypes
  <2>2. [q \in Bots |-> Expire] \in [Bots -> 0..Expire]
    BY <1>3
  <2> QED
    BY <1>2, <2>1, <2>2
<1>5. ready' \in [Bots -> Nat] /\ gone' \in [Bots -> 0..Expire]
  <2>1. ready \in [Bots -> Nat] /\ gone \in [Bots -> 0..Expire] /\ 0 \in Nat
    BY DEF BarrierInv, BarrierTypes
  <2>2. [ready EXCEPT ![r] = 0] \in [Bots -> Nat]
    BY <2>1
  <2> QED
    BY <1>1, <1>2, <2>1, <2>2
<1>6. \A p, q \in Bots : gone'[q] <= age'[p][q]
  <2> SUFFICES ASSUME NEW p \in Bots, NEW q \in Bots PROVE gone'[q] <= age'[p][q]
    OBVIOUS
  <2>1. gone[q] <= age[p][q] /\ gone[q] \in 0..Expire
    BY DEF BarrierInv, BarrierTypes, AgeTellsAbsence
  <2>2. age'[p][q] = age[p][q] \/ age'[p][q] = Expire
    BY <1>2 DEF BarrierInv, BarrierTypes
  <2> QED
    BY <1>1, <1>3, <2>1, <2>2
<1> QED
  BY <1>1, <1>4, <1>5, <1>6 DEF BarrierInv, BarrierTypes, AgeTellsAbsence

(* The invariant of the hold through every step.                           *)
LEMMA BarrierStep == BarrierInv /\ [BarrierNext]_barrierVars => BarrierInv'
<1> SUFFICES ASSUME BarrierInv, [BarrierNext]_barrierVars PROVE BarrierInv'
  OBVIOUS
<1>1. CASE LossyTick \/ CalmTick
  BY <1>1, TickTells DEF LossyTick, CalmTick
<1>2. CASE \E r \in Bots : SwitchOn(r) \/ SwitchOff(r)
  BY <1>2, SwitchTells
<1>3. CASE Calms \/ UNCHANGED barrierVars
  <2>1. UNCHANGED <<phase, age, ready, gone>>
    BY <1>3, Zenon DEF Calms, barrierVars
  <2> QED
    BY <2>1 DEF BarrierInv, BarrierTypes, AgeTellsAbsence
<1> QED
  BY <1>1, <1>2, <1>3 DEF BarrierNext

(* As many fresh entries as there are others: all the others are fresh.    *)
LEMMA AllAreFresh ==
    ASSUME NEW r \in Bots, Fresh(r) >= Cardinality(Bots) - 1
    PROVE  \A q \in Bots \ {r} : age'[r][q] < Stale
<1> DEFINE F == {q \in Bots \ {r} : age'[r][q] < Stale}
           R == Bots \ {r}
<1>1. IsFiniteSet(Bots)
  BY BarrierAssumption
<1>2. IsFiniteSet(R) /\ Cardinality(R) = Cardinality(Bots) - 1
  BY <1>1, FS_RemoveElement
<1>3. F \subseteq R
  OBVIOUS
<1>4. Cardinality(F) <= Cardinality(R) /\ (Cardinality(F) = Cardinality(R) => F = R)
      /\ Cardinality(F) \in Nat /\ Cardinality(R) \in Nat /\ Cardinality(Bots) \in Nat
  BY <1>1, <1>2, <1>3, FS_Subset, FS_CardinalityType
<1>5. Cardinality(F) >= Cardinality(Bots) - 1
  BY DEF Fresh
<1>6. F = R
  <2> HIDE DEF F, R
  <2> QED
    BY <1>2, <1>4, <1>5
<1> QED
  BY <1>6

(* Who drives off has fresh entries of all others, and none of them has    *)
(* been off for longer than those are old.                                 *)
LEMMA DepartureTells ==
    ASSUME BarrierInv, BarrierNext, NEW r \in Bots,
           phase[r] = "BARRIER", phase'[r] = "DRIVE"
    PROVE  \A q \in Bots : gone'[q] < Stale
<1>1. PICK lost : Tick(lost)
  <2>1. ASSUME NEW q \in Bots, SwitchOn(q) \/ SwitchOff(q) PROVE FALSE
    BY <2>1 DEF SwitchOn, SwitchOff, BarrierInv, BarrierTypes
  <2> QED
    BY <2>1 DEF BarrierNext, LossyTick, CalmTick, Calms
<1>2. Fresh(r) >= Cardinality(Bots) - 1
  <2>1. ReadyAfter(r) >= Settle
    BY <1>1 DEF Tick
  <2> QED
    BY <2>1, BarrierAssumption DEF ReadyAfter
<1>3. BarrierInv'
  BY <1>1, TickTells
<1>4. gone'[r] = 0 /\ Stale \in Nat \ {0}
  BY <1>1, BarrierAssumption DEF Tick
<1>5. \A q \in Bots : gone'[q] <= age'[r][q] /\ gone'[q] \in Nat /\ age'[r][q] \in Nat
  BY <1>3 DEF BarrierInv, BarrierTypes, AgeTellsAbsence
<1>6. \A q \in Bots \ {r} : age'[r][q] < Stale
  BY <1>2, AllAreFresh
<1> QED
  BY <1>4, <1>5, <1>6

(* For every number of robots and posts and every loss of frames: who      *)
(* drives off has had every other robot on within the stale age.           *)
THEOREM AllStartTogether == BarrierSpec => StartsTogether
<1>1. BarrierInv /\ [BarrierNext]_barrierVars =>
          [\A r \in Bots : phase[r] = "BARRIER" /\ phase'[r] = "DRIVE" =>
               \A q \in Bots : gone'[q] < Stale]_barrierVars
  BY DepartureTells
<1> QED
  BY <1>1, BarrierStart, BarrierStep, PTL DEF BarrierSpec, StartsTogether

-----------------------------------------------------------------------------
(* How the hold opens *)

CalmAllOn == calm => Awake = Bots

(* On a clear radio a hindrance, an entry with a clock from before its     *)
(* peer's restart, only ages, which ends it; and who has none has all the  *)
(* others fresh, and is a tick nearer to driving off.                      *)
HoldRunsDown ==
    [][calm /\ CalmTick => \A r \in Bots : phase[r] = "BARRIER" =>
         /\ \A q \in Bots \ {r} : <<r, q>> \in past' =>
                <<r, q>> \in past /\ age[r][q] < age'[r][q]
         /\ (\A q \in Bots \ {r} : <<r, q>> \notin past) =>
                \/ phase'[r] = "DRIVE"
                \/ phase'[r] = "BARRIER" /\ ready'[r] = ready[r] + 1
                      /\ ready'[r] < Settle]_barrierVars

LEMMA CalmStays == BarrierInv /\ CalmAllOn /\ [BarrierNext]_barrierVars => CalmAllOn'
<1> SUFFICES ASSUME BarrierInv, CalmAllOn, [BarrierNext]_barrierVars PROVE CalmAllOn'
  OBVIOUS
<1>1. CASE LossyTick \/ CalmTick
  <2>1. PICK lost : Tick(lost)
    BY <1>1 DEF LossyTick, CalmTick
  <2>2. \A r \in Bots : phase[r] # "OFF" => phase'[r] # "OFF"
    BY <2>1 DEF Tick
  <2>3. calm' = calm
    BY <2>1, Zenon DEF Tick
  <2> QED
    BY <2>2, <2>3 DEF CalmAllOn, Awake
<1>2. CASE \E r \in Bots : SwitchOn(r) \/ SwitchOff(r)
  <2>1. ~calm /\ calm' = calm
    BY <1>2, Zenon DEF SwitchOn, SwitchOff
  <2> QED
    BY <2>1 DEF CalmAllOn
<1>3. CASE Calms
  <2>1. Awake = Bots /\ phase' = phase
    BY <1>3, Zenon DEF Calms
  <2> QED
    BY <2>1 DEF CalmAllOn, Awake
<1>4. CASE UNCHANGED barrierVars
  <2>1. calm' = calm /\ phase' = phase
    BY <1>4, Zenon DEF barrierVars
  <2> QED
    BY <2>1 DEF CalmAllOn, Awake
<1> QED
  BY <1>1, <1>2, <1>3, <1>4 DEF BarrierNext

LEMMA CalmCounts ==
    ASSUME BarrierInv, CalmAllOn, calm, CalmTick, NEW r \in Bots, phase[r] = "BARRIER"
    PROVE  /\ \A q \in Bots \ {r} : <<r, q>> \in past' =>
                  <<r, q>> \in past /\ age[r][q] < age'[r][q]
           /\ (\A q \in Bots \ {r} : <<r, q>> \notin past) =>
                  \/ phase'[r] = "DRIVE"
                  \/ phase'[r] = "BARRIER" /\ ready'[r] = ready[r] + 1
                        /\ ready'[r] < Settle
<1>1. /\ Expire \in Nat /\ Stale \in Nat /\ Stale > 0 /\ Settle \in Nat /\ Settle > 0
      /\ \A q \in Bots : age[r][q] \in 0..Expire
      /\ ready[r] \in Nat /\ IsFiniteSet(Bots)
  BY BarrierAssumption DEF BarrierInv, BarrierTypes
<1>2. \A q \in Bots \ {r} : age'[r][q] = AgeAfter(r, q, TRUE)
  <2>1. \A q \in Bots \ {r} : age'[r][q] = AgeAfter(r, q, q \in Awake /\ <<q, r>> \notin {})
    BY Zenon DEF CalmTick, Tick
  <2>2. \A q \in Bots \ {r} : (q \in Awake /\ <<q, r>> \notin {}) = TRUE
    BY DEF CalmAllOn
  <2> QED
    BY <2>1, <2>2
<1>3. \A q \in Bots \ {r} : Advances(q)
  BY DEF CalmAllOn, Awake, BarrierInv, BarrierTypes, Advances
<1>4. past' = {p \in past : age[p[1]][p[2]] < Expire}
  BY Zenon DEF CalmTick, Tick
<1>5. \A q \in Bots \ {r} : <<r, q>> \in past' =>
          <<r, q>> \in past /\ age[r][q] < age'[r][q]
  <2> SUFFICES ASSUME NEW q \in Bots \ {r}, <<r, q>> \in past'
               PROVE  <<r, q>> \in past /\ age[r][q] < age'[r][q]
    OBVIOUS
  <2>1. <<r, q>> \in past /\ age[r][q] < Expire
    BY <1>4
  <2>2. ~Renews(r, q)
    BY <1>1, <2>1 DEF Renews
  <2>3. age'[r][q] = age[r][q] + 1
    BY <1>2, <2>1, <2>2 DEF AgeAfter
  <2> QED
    BY <1>1, <2>1, <2>3
<1>6. ASSUME \A q \in Bots \ {r} : <<r, q>> \notin past
      PROVE  \/ phase'[r] = "DRIVE"
             \/ phase'[r] = "BARRIER" /\ ready'[r] = ready[r] + 1 /\ ready'[r] < Settle
  <2>1. \A q \in Bots \ {r} : age'[r][q] = 0
    BY <1>2, <1>3, <1>6 DEF AgeAfter, Renews
  <2>2. {q \in Bots \ {r} : age'[r][q] < Stale} = Bots \ {r}
    BY <1>1, <2>1
  <2>3. Cardinality(Bots \ {r}) = Cardinality(Bots) - 1 /\ Cardinality(Bots) \in Nat
    BY <1>1, FS_RemoveElement, FS_CardinalityType
  <2>4. Fresh(r) = Cardinality(Bots) - 1
    BY <2>2, <2>3 DEF Fresh
  <2>5. ReadyAfter(r) = ready[r] + 1
    BY <2>3, <2>4 DEF ReadyAfter
  <2>6. /\ ready'[r] = IF ReadyAfter(r) < Settle THEN ReadyAfter(r) ELSE 0
        /\ phase'[r] = IF ReadyAfter(r) >= Settle THEN "DRIVE" ELSE "BARRIER"
    BY DEF CalmTick, Tick
  <2> QED
    BY <1>1, <2>5, <2>6
<1> QED
  BY <1>5, <1>6

(* The hold opens: nothing hinders a robot for longer than an entry takes  *)
(* to expire, and unhindered it drives off after the settling time         *)
(* (main.c, the convergence hold; wm_receive_gossip).                      *)
THEOREM HoldAlwaysRunsDown == BarrierSpec => []CalmAllOn /\ HoldRunsDown
<1>1. BarrierInit => CalmAllOn
  BY DEF BarrierInit, CalmAllOn
<1>2. BarrierInv /\ CalmAllOn /\ [BarrierNext]_barrierVars =>
        [calm /\ CalmTick => \A r \in Bots : phase[r] = "BARRIER" =>
         /\ \A q \in Bots \ {r} : <<r, q>> \in past' =>
                <<r, q>> \in past /\ age[r][q] < age'[r][q]
         /\ (\A q \in Bots \ {r} : <<r, q>> \notin past) =>
                \/ phase'[r] = "DRIVE"
                \/ phase'[r] = "BARRIER" /\ ready'[r] = ready[r] + 1
                      /\ ready'[r] < Settle]_barrierVars
  BY CalmCounts
<1> QED
  BY <1>1, <1>2, CalmStays, BarrierStart, BarrierStep, PTL DEF BarrierSpec, HoldRunsDown

-----------------------------------------------------------------------------
(* The jump gate *)

GateTypes ==
    /\ place \in Int /\ fix \in Int /\ far \in Nat /\ quiet \in Nat
    /\ ghosts \in 0..RejectN /\ truths \in 0..RejectN
    /\ seeded \in BOOLEAN /\ fooled \in BOOLEAN
    /\ far < RejectN

(* Not fooled, the drone is within reach of the last accepted fix, and     *)
(* only phantoms have counted as far; fooled, every genuine fix has.       *)
InReach == seeded /\ ~fooled =>
               Distance(place, fix) <= Speed * quiet /\ far <= ghosts
Counted == (fooled => truths <= far) /\ (~seeded => ~fooled /\ far = 0)

GateInv == GateTypes /\ InReach /\ Counted

(* Distances are a metric.                                                *)
LEMMA Triangle ==
    ASSUME NEW p \in Int, NEW q \in Int, NEW r \in Int
    PROVE  /\ Distance(p, q) \in Nat /\ Distance(p, p) = 0
           /\ Distance(p, q) = Distance(q, p)
           /\ Distance(p, r) <= Distance(p, q) + Distance(q, r)
BY SMT DEF Distance

(* The gate never discards what the airframe can have flown.              *)
LEMMA LimitCovers ==
    ASSUME NEW n \in Nat
    PROVE  Limit(n) \in Nat /\ Speed * n <= Limit(n)
<1>1. Speed * n \in Nat
    BY FixGateAssumption, Distributes
<1>. QED
    BY <1>1, FixGateAssumption, SMT DEF Limit

(* Flying on, the drone stays within reach.                                *)
LEMMA FliesInReach ==
    ASSUME GateInv, Flies
    PROVE  /\ place' \in Int
           /\ seeded /\ ~fooled => Distance(place', fix) <= Speed * (quiet + 1)
<1> USE FixGateAssumption
<1>1. place' \in Int /\ Distance(place', place) <= 1
    BY DEF Flies
<1>2. place \in Int /\ fix \in Int /\ quiet \in Nat
    BY DEF GateInv, GateTypes
<1>3. SUFFICES ASSUME seeded, ~fooled
               PROVE  Distance(place', fix) <= Speed * (quiet + 1)
    BY <1>1
<1>4. Distance(place, fix) <= Speed * quiet
    BY <1>3 DEF GateInv, InReach
<1>5. Speed \in Nat /\ 1 <= Speed
    BY SMT
<1>6. Speed * (quiet + 1) = Speed * quiet + Speed /\ Speed * quiet \in Nat
    BY <1>2, <1>5, Distributes
<1>7. /\ Distance(place', place) \in Nat /\ Distance(place, fix) \in Nat
      /\ Distance(place', fix) \in Nat
      /\ Distance(place', fix) <= Distance(place', place) + Distance(place, fix)
    BY <1>1, <1>2, Triangle
<1>. QED
    BY <1>1, <1>4, <1>5, <1>6, <1>7, SMT

(* What a fix does, discarded or accepted.                                 *)
Dropped(m, phantom) ==
    /\ seeded /\ Far(m, quiet + 1) /\ far + 1 < RejectN
    /\ far' = far + 1 /\ seeded' = TRUE /\ fix' = fix /\ quiet' = quiet + 1
    /\ fooled' = fooled

Taken(m, phantom) ==
    /\ ~seeded \/ ~Far(m, quiet + 1) \/ far + 1 >= RejectN
    /\ far' = 0 /\ seeded' = TRUE /\ fix' = m /\ quiet' = 0
    /\ fooled' = phantom

(* A fix is dropped, or taken.                                             *)
LEMMA TwoWays ==
    ASSUME GateTypes, NEW m, NEW phantom, Publish(m, phantom)
    PROVE  Dropped(m, phantom) \/ Taken(m, phantom)
<1>1. CASE Discards(m, quiet + 1)
    BY <1>1 DEF Publish, Dropped, Discards, FarCount
<1>2. CASE ~Discards(m, quiet + 1)
    <2>1. far + 1 < RejectN \/ far + 1 >= RejectN
        BY FixGateAssumption, SMT DEF GateTypes
    <2>. QED
        BY <1>2, <2>1 DEF Publish, Taken, Discards, FarCount
<1>. QED
    BY <1>1, <1>2

(* What is promised of a step.                                             *)
Promise ==
    /\ seeded /\ ~fooled /\ fooled' =>
           \/ ghosts' = RejectN
           \/ Distance(fix, fix') <= Limit(quiet + 1)
    /\ truths' = RejectN => ~fooled'

(* A genuine fix.                                                          *)
LEMMA GenuineKeeps ==
    ASSUME GateInv, GenuineFix
    PROVE  GateInv' /\ Promise
<1> USE FixGateAssumption
<1>1. Flies /\ Publish(place', FALSE) /\ GateTypes
    BY DEF GenuineFix, GateInv
<1>2. place' \in Int /\ fix \in Int /\ quiet \in Nat /\ far \in Nat
    BY <1>1, FliesInReach DEF GateTypes
<1>3. /\ ghosts' = 0 /\ truths' = UpTo(truths, RejectN)
      /\ truths' \in 0..RejectN /\ ghosts' \in 0..RejectN /\ truths' <= truths + 1
    <2>1. ghosts' = 0 /\ truths' = UpTo(truths, RejectN)
        BY <1>1 DEF Publish
    <2>2. truths \in 0..RejectN
        BY <1>1 DEF GateTypes
    <2>. QED
        BY <2>1, <2>2, SMT DEF UpTo
<1>4. CASE Dropped(place', FALSE)
    <2>1. fooled
        <3>1. SUFFICES ASSUME ~fooled PROVE FALSE
            OBVIOUS
        <3>2. Distance(place', fix) <= Speed * (quiet + 1)
            BY <1>1, <1>4, <3>1, FliesInReach DEF Dropped
        <3>3. Distance(place', fix) > Limit(quiet + 1)
            BY <1>4 DEF Dropped, Far
        <3>4. /\ Limit(quiet + 1) \in Nat /\ Speed * (quiet + 1) <= Limit(quiet + 1)
              /\ Speed * (quiet + 1) \in Nat /\ Distance(place', fix) \in Nat
            <4>1. quiet + 1 \in Nat /\ Speed \in Nat
                BY <1>2, SMT
            <4>. QED
                BY <1>2, <4>1, LimitCovers, Distributes, Triangle
        <3>. QED
            BY <3>2, <3>3, <3>4, SMT
    <2>2. truths <= far
        BY <2>1 DEF GateInv, Counted
    <2>3. truths' <= far' /\ far' < RejectN /\ far' \in Nat
        BY <1>1, <1>2, <1>3, <1>4, <2>2, SMT DEF Dropped, GateTypes
    <2>4. GateTypes'
        BY <1>1, <1>2, <1>3, <1>4, <2>3 DEF Dropped, GateTypes
    <2>5. InReach' /\ Counted'
        <3>1. seeded' /\ fooled'
            BY <1>4, <2>1 DEF Dropped
        <3>. QED
            BY <2>3, <3>1 DEF InReach, Counted
    <2>6. truths' # RejectN
        BY <1>3, <2>3, SMT
    <2>7. GateInv'
        BY <2>4, <2>5 DEF GateInv
    <2>8. Promise
        BY <2>1, <2>6, Zenon DEF Promise
    <2>. QED
        BY <2>7, <2>8
<1>5. CASE Taken(place', FALSE)
    <2>4. 0 \in Nat /\ 0 < RejectN
        BY SMT
    <2>1. GateTypes'
        BY <1>2, <1>3, <1>5, <2>4 DEF Taken, GateTypes
    <2>2. Distance(place', fix') <= Speed * quiet'
        <3>1. Distance(place', place') = 0 /\ Speed * 0 = 0
            BY <1>2, Triangle, SMT
        <3>. QED
            BY <1>5, <3>1, SMT DEF Taken
    <2>3. InReach' /\ Counted'
        BY <1>3, <1>5, <2>2, SMT DEF Taken, InReach, Counted
    <2>. QED
        BY <1>5, <2>1, <2>3 DEF GateInv, Promise, Taken
<1>. QED
    BY <1>1, <1>4, <1>5, TwoWays

(* A phantom.                                                              *)
LEMMA PhantomKeeps ==
    ASSUME GateInv, PhantomFix
    PROVE  GateInv' /\ Promise
<1> USE FixGateAssumption
<1>1. PICK m \in Ghosts : Publish(m, TRUE)
    BY DEF PhantomFix
<1>2. Flies /\ GateTypes /\ m \in Int
    BY DEF PhantomFix, GateInv
<1>3. place' \in Int /\ fix \in Int /\ quiet \in Nat /\ far \in Nat
    BY <1>2, FliesInReach DEF GateTypes
<1>4. /\ truths' = 0 /\ truths' \in 0..RejectN /\ truths' # RejectN
      /\ ghosts' \in 0..RejectN
      /\ ghosts' = RejectN \/ ghosts' = ghosts + 1
    <2>1. truths' = 0 /\ ghosts' = UpTo(ghosts, RejectN)
        BY <1>1 DEF Publish
    <2>2. ghosts \in 0..RejectN
        BY <1>2 DEF GateTypes
    <2>. QED
        BY <2>1, <2>2, SMT DEF UpTo
<1>5. CASE Dropped(m, TRUE)
    <2>1. far' < RejectN /\ far' \in Nat /\ far' = far + 1
        BY <1>3, <1>5, SMT DEF Dropped
    <2>2. GateTypes'
        BY <1>2, <1>3, <1>4, <1>5, <2>1, SMT DEF Dropped, GateTypes
    <2>3. ~fooled => far' <= ghosts'
        <3>1. SUFFICES ASSUME ~fooled PROVE far' <= ghosts'
            OBVIOUS
        <3>2. far <= ghosts
            BY <1>5, <3>1 DEF GateInv, InReach, Dropped
        <3>3. ghosts \in Nat
            BY <1>2, SMT DEF GateTypes
        <3>. QED
            BY <1>3, <1>4, <2>1, <3>2, <3>3, SMT
    <2>4. InReach'
        BY <1>2, <1>5, <2>3, FliesInReach DEF InReach, Dropped
    <2>5. Counted'
        BY <1>4, <1>5, <2>1, SMT DEF Counted, Dropped
    <2>. QED
        BY <1>4, <1>5, <2>2, <2>4, <2>5 DEF GateInv, Promise, Dropped
<1>6. CASE Taken(m, TRUE)
    <2>1. GateTypes'
        BY <1>2, <1>3, <1>4, <1>6, SMT DEF Taken, GateTypes
    <2>2. InReach' /\ Counted'
        BY <1>4, <1>6, SMT DEF InReach, Counted, Taken
    <2>3. ASSUME seeded, ~fooled
          PROVE  ghosts' = RejectN \/ Distance(fix, fix') <= Limit(quiet + 1)
        <3>1. far <= ghosts /\ ghosts \in 0..RejectN
            BY <1>2, <2>3 DEF GateInv, InReach, GateTypes
        <3>2. CASE far + 1 >= RejectN
            BY <1>3, <1>4, <3>1, <3>2, SMT
        <3>3. CASE ~Far(m, quiet + 1)
            <4>1. ~(Distance(m, fix) > Limit(quiet + 1))
                BY <3>3 DEF Far
            <4>2. Distance(m, fix) \in Nat /\ Distance(fix, m) = Distance(m, fix)
                BY <1>2, <1>3, Triangle
            <4>3. Limit(quiet + 1) \in Nat
                BY <1>3, LimitCovers
            <4>4. fix' = m
                BY <1>6 DEF Taken
            <4>5. Distance(m, fix) <= Limit(quiet + 1)
                BY <4>1, <4>2, <4>3, SMT
            <4>. QED
                BY <4>2, <4>4, <4>5
        <3>. QED
            BY <1>6, <2>3, <3>2, <3>3 DEF Taken
    <2>. QED
        BY <1>4, <2>1, <2>2, <2>3 DEF GateInv, Promise
<1>. QED
    BY <1>1, <1>2, <1>5, <1>6, TwoWays

(* No fix.                                                                 *)
LEMMA NoFixKeeps ==
    ASSUME GateInv, NoFix
    PROVE  GateInv' /\ Promise
<1>1. /\ Flies /\ quiet' = quiet + 1 /\ seeded' = seeded /\ fix' = fix
      /\ far' = far /\ fooled' = fooled /\ ghosts' = ghosts /\ truths' = truths
    BY DEF NoFix
<1>2. GateTypes /\ place' \in Int
    BY <1>1, FliesInReach DEF GateInv
<1>3. quiet + 1 \in Nat
    BY <1>2, SMT DEF GateTypes
<1>4. GateTypes' /\ Counted'
    BY <1>1, <1>2, <1>3 DEF GateTypes, GateInv, Counted
<1>5. InReach'
    <2>1. SUFFICES ASSUME seeded, ~fooled
                   PROVE  Distance(place', fix) <= Speed * (quiet + 1) /\ far <= ghosts
        BY <1>1 DEF InReach
    <2>. QED
        BY <1>1, <2>1, FliesInReach DEF GateInv, InReach
<1>6. truths' = RejectN => ~fooled'
    <2>1. SUFFICES ASSUME fooled PROVE truths # RejectN
        BY <1>1
    <2>2. truths <= far
        BY <2>1 DEF GateInv, Counted
    <2>. QED
        BY <1>2, <2>2, FixGateAssumption, SMT DEF GateTypes
<1>. QED
    BY <1>1, <1>4, <1>5, <1>6 DEF GateInv, Promise

(* A phantom takes over only from within reach or after RejectN phantoms   *)
(* with no genuine fix between; RejectN genuine fixes in a row always      *)
(* bring the driver back.                                                  *)
THEOREM GateIsSteady == GateSpec => FlipFlopSeedsNothing
<1>1. GateInit => GateInv
    <2>1. SUFFICES ASSUME GateInit PROVE GateInv
        OBVIOUS
    <2>4. place \in Int
        BY <2>1, FixGateAssumption DEF GateInit
    <2>5. /\ 0 \in Nat /\ 0 \in Int /\ 0 < RejectN
          /\ 0 \in 0..RejectN
        BY FixGateAssumption, SMT
    <2>2. GateTypes
        BY <2>1, <2>4, <2>5 DEF GateInit, GateTypes
    <2>3. InReach /\ Counted
        BY <2>1, SMT DEF GateInit, InReach, Counted
    <2>. QED
        BY <2>2, <2>3 DEF GateInv
<1>2. GateInv /\ [GateNext]_gateVars => GateInv'
    <2>1. SUFFICES ASSUME GateInv, [GateNext]_gateVars PROVE GateInv'
        OBVIOUS
    <2>2. CASE UNCHANGED gateVars
        BY <2>1, <2>2 DEF gateVars, GateInv, GateTypes, InReach, Counted
    <2>. QED
        BY <2>1, <2>2, GenuineKeeps, PhantomKeeps, NoFixKeeps DEF GateNext
<1>3. GateInv /\ [GateNext]_gateVars => [Promise]_gateVars
    BY GenuineKeeps, PhantomKeeps, NoFixKeeps DEF GateNext
<1>. QED
    BY <1>1, <1>2, <1>3, PTL DEF GateSpec, FlipFlopSeedsNothing, Promise

-----------------------------------------------------------------------------
(* The serial parsers *)

(* What a check byte is of, and bytes. *)
Tokens == Nat \cup {"A", "B"}
Items  == [v : Nat, of : Seq(Tokens)]

AllPayloads == Payloads \cup {OwnPayload}

(* What the checks of a frame with this payload sum up. *)
Summed(payload) == Head_(bus) \o payload

IsBus == bus \in {"UART", "SYSLINK"}

(* Sequences one after the other. *)
LEMMA ConcatAt ==
    ASSUME NEW X, NEW s \in Seq(X), NEW t \in Seq(X)
    PROVE  /\ s \o t \in Seq(X) /\ Len(s \o t) = Len(s) + Len(t)
           /\ Len(s) \in Nat /\ Len(t) \in Nat
           /\ \A i \in 1..Len(s) : (s \o t)[i] = s[i]
           /\ \A i \in 1..Len(t) : (s \o t)[Len(s) + i] = t[i]
<1> DEFINE m == Len(s)
           n == Len(t)
<1>1. /\ s \o t \in Seq(X) /\ Len(s \o t) = m + n /\ m \in Nat /\ n \in Nat
      /\ \A i \in 1..(m + n) : (s \o t)[i] = IF i <= m THEN s[i] ELSE t[i - m]
  BY ConcatProperties
<1> HIDE DEF m, n
<1>2. \A i \in 1..m : i \in 1..(m + n) /\ i <= m
  BY <1>1
<1>3. \A i \in 1..n : m + i \in 1..(m + n) /\ ~(m + i <= m) /\ (m + i) - m = i
  BY <1>1
<1>4. \A i \in 1..n : (s \o t)[m + i] = t[i]
  BY <1>1, <1>3
<1> QED
  BY <1>1, <1>2, <1>4 DEF m, n

LEMMA PayloadIsSeq ==
    ASSUME NEW payload \in AllPayloads
    PROVE  /\ payload \in Seq(Nat) /\ Len(payload) = Wire
           /\ Wire \in Nat \ {0} /\ MaxByte \in Nat
BY SerialAssumption DEF AllPayloads

LEMMA HeadIsSeq ==
    ASSUME IsBus
    PROVE  /\ Head_(bus) \in Seq(Nat)
           /\ Len(Head_(bus)) = IF bus = "UART" THEN 1 ELSE 2
BY SerialAssumption DEF Head_, IsBus, P2P

LEMMA SummedIsSeq ==
    ASSUME IsBus, NEW payload \in AllPayloads
    PROVE  LET S == Summed(payload)
           IN /\ S \in Seq(Nat) /\ Len(S) = Wire + (IF bus = "UART" THEN 1 ELSE 2)
              /\ bus = "UART" => S[1] = Wire
              /\ bus = "SYSLINK" => S[1] = P2P /\ S[2] = Wire
<1> DEFINE h == Head_(bus)
<1>1. /\ h \in Seq(Nat) /\ payload \in Seq(Nat) /\ Len(payload) = Wire
      /\ Wire \in Nat \ {0} /\ Len(h) = IF bus = "UART" THEN 1 ELSE 2
  BY HeadIsSeq, PayloadIsSeq
<1>2. /\ h \o payload \in Seq(Nat) /\ Len(h \o payload) = Len(h) + Len(payload)
      /\ \A i \in 1..(Len(h) + Len(payload)) :
             (h \o payload)[i] = IF i <= Len(h) THEN h[i] ELSE payload[i - Len(h)]
  <2> HIDE DEF h
  <2> QED
    BY <1>1, ConcatProperties
<1>3. (bus = "UART" => h[1] = Wire) /\ (bus = "SYSLINK" => h[1] = P2P /\ h[2] = Wire)
  BY DEF Head_
<1> HIDE DEF h
<1>4. bus = "UART" => Summed(payload)[1] = Wire
  BY <1>1, <1>2, <1>3 DEF Summed, h
<1>5. bus = "SYSLINK" => Summed(payload)[1] = P2P /\ Summed(payload)[2] = Wire
  BY <1>1, <1>2, <1>3 DEF Summed, h
<1> QED
  BY <1>1, <1>2, <1>4, <1>5 DEF Summed, h, IsBus

(* The bytes of a frame, one by one. *)
LEMMA FrameBytes ==
    ASSUME IsBus, NEW payload \in AllPayloads, NEW last \in Nat
    PROVE  LET S == Summed(payload)
               F == Framed(bus, payload, last)
           IN /\ F \in Seq(Items) /\ Len(F) = Len(S) + 4
              /\ F[1] = Plain(Magic0) /\ F[2] = Plain(Magic1)
              /\ \A i \in 1..Len(S) : F[i + 2] = Plain(S[i])
              /\ F[Len(S) + 3] = Check(<<"A">> \o S, 0)
              /\ F[Len(S) + 4] = Check(<<"B">> \o S, last)
<1> DEFINE S == Summed(payload)
           F == Framed(bus, payload, last)
           pre  == <<Plain(Magic0), Plain(Magic1)>>
           mid  == [i \in 1..Len(S) |-> Plain(S[i])]
           post == <<Check(<<"A">> \o S, 0), Check(<<"B">> \o S, last)>>
<1>1. S \in Seq(Nat) /\ Len(S) \in Nat
  BY SummedIsSeq
<1>2. F = pre \o mid \o post
  BY DEF Framed, Summed
<1>3. S \in Seq(Tokens) /\ <<"A">> \in Seq(Tokens) /\ <<"B">> \in Seq(Tokens) /\ <<>> \in Seq(Tokens)
  <2>1. Nat \subseteq Tokens /\ "A" \in Tokens /\ "B" \in Tokens
    BY DEF Tokens
  <2>2. S \in Seq(Tokens)
    BY <1>1, <2>1, SeqMonotonic
  <2> QED
    BY <2>1, <2>2
<1> HIDE DEF S
<1>4. <<"A">> \o S \in Seq(Tokens) /\ <<"B">> \o S \in Seq(Tokens)
  BY <1>3, ConcatProperties
<1>5. \A v \in Nat : Plain(v) \in Items
  BY <1>3 DEF Plain, Items
<1>6. Check(<<"A">> \o S, 0) \in Items /\ Check(<<"B">> \o S, last) \in Items
  BY <1>4 DEF Check, Items
<1>7. pre \in Seq(Items) /\ Len(pre) = 2 /\ pre[1] = Plain(Magic0) /\ pre[2] = Plain(Magic1)
  BY <1>5 DEF Magic0, Magic1
<1>8. /\ post \in Seq(Items) /\ Len(post) = 2
      /\ post[1] = Check(<<"A">> \o S, 0) /\ post[2] = Check(<<"B">> \o S, last)
  BY <1>6
<1>9. mid \in Seq(Items) /\ Len(mid) = Len(S) /\ \A i \in 1..Len(S) : mid[i] = Plain(S[i])
  <2>1. \A i \in 1..Len(S) : S[i] \in Nat
    BY <1>1
  <2>2. \A i \in 1..Len(S) : Plain(S[i]) \in Items
    BY <1>5, <2>1
  <2>3. mid \in [1..Len(S) -> Items]
    BY <2>2
  <2> QED
    BY <1>1, <2>3
<1> HIDE DEF pre, mid, post, F
<1> DEFINE pm == pre \o mid
<1>10. /\ pm \in Seq(Items) /\ Len(pm) = 2 + Len(S)
       /\ \A i \in 1..2 : pm[i] = pre[i]
       /\ \A i \in 1..Len(S) : pm[2 + i] = mid[i]
  <2>1. /\ pm \in Seq(Items) /\ Len(pm) = Len(pre) + Len(mid)
        /\ \A i \in 1..Len(pre) : pm[i] = pre[i]
        /\ \A i \in 1..Len(mid) : pm[Len(pre) + i] = mid[i]
    <3>1. pre \in Seq(Items) /\ mid \in Seq(Items)
      BY <1>7, <1>9
    <3> QED
      BY <3>1, ConcatAt
  <2>2. Len(pre) = 2 /\ Len(mid) = Len(S)
    BY <1>7, <1>9
  <2> HIDE DEF pm
  <2> QED
    BY <2>1, <2>2
<1> HIDE DEF pm
<1>11. /\ F \in Seq(Items) /\ Len(F) = (2 + Len(S)) + 2
       /\ \A i \in 1..(2 + Len(S)) : F[i] = pm[i]
       /\ \A i \in 1..2 : F[(2 + Len(S)) + i] = post[i]
  <2>1. F = pm \o post
    BY <1>2 DEF pm
  <2>2. /\ F \in Seq(Items) /\ Len(F) = Len(pm) + Len(post)
        /\ \A i \in 1..Len(pm) : F[i] = pm[i]
        /\ \A i \in 1..Len(post) : F[Len(pm) + i] = post[i]
    <3>1. pm \in Seq(Items) /\ post \in Seq(Items)
      BY <1>8, <1>10
    <3> QED
      BY <2>1, <3>1, ConcatAt
  <2>3. Len(pm) = 2 + Len(S) /\ Len(post) = 2
    BY <1>8, <1>10
  <2> QED
    BY <2>2, <2>3
<1>12. F[1] = Plain(Magic0) /\ F[2] = Plain(Magic1)
  <2>1. \A i \in 1..2 : i \in 1..(2 + Len(S))
    BY <1>1
  <2> QED
    BY <1>7, <1>10, <1>11, <2>1
<1>13. ASSUME NEW i \in 1..Len(S) PROVE F[i + 2] = Plain(S[i])
  <2>1. 2 + i \in 1..(2 + Len(S)) /\ i + 2 = 2 + i
    BY <1>1
  <2>2. F[2 + i] = pm[2 + i] /\ pm[2 + i] = mid[i] /\ mid[i] = Plain(S[i])
    BY <1>9, <1>10, <1>11, <2>1
  <2> QED
    BY <2>1, <2>2
<1>14. F[Len(S) + 3] = post[1] /\ F[Len(S) + 4] = post[2] /\ Len(F) = Len(S) + 4
  <2>1. /\ Len(S) + 3 = (2 + Len(S)) + 1 /\ Len(S) + 4 = (2 + Len(S)) + 2
        /\ 1 \in 1..2 /\ 2 \in 1..2
    BY <1>1
  <2> QED
    BY <1>11, <2>1
<1> QED
  BY <1>8, <1>11, <1>12, <1>13, <1>14 DEF S, F

(* A check byte tells its kind and its sum. *)
LEMMA ChecksTell ==
    ASSUME NEW s \in Seq(Nat), NEW t \in Seq(Nat)
    PROVE  /\ <<"B">> \o s # <<>> /\ <<"B">> \o s # <<"A">> \o t
           /\ <<"B">> \o s = <<"B">> \o t => s = t
<1>1. /\ s \in Seq(Tokens) /\ t \in Seq(Tokens)
      /\ <<"A">> \in Seq(Tokens) /\ <<"B">> \in Seq(Tokens)
  <2>1. Nat \subseteq Tokens /\ "A" \in Tokens /\ "B" \in Tokens
    BY DEF Tokens
  <2>2. s \in Seq(Tokens) /\ t \in Seq(Tokens)
    BY <2>1, SeqMonotonic
  <2> QED
    BY <2>1, <2>2
<1>2. /\ Len(<<"B">> \o s) = 1 + Len(s) /\ (<<"B">> \o s)[1] = "B"
      /\ (<<"A">> \o t)[1] = "A" /\ Len(s) \in Nat /\ Len(t) \in Nat
  BY <1>1, ConcatProperties
<1>3. <<"B">> \o s = <<"B">> \o t => s = t
  BY <1>1, ConcatSimplifications
<1> QED
  BY <1>2, <1>3

(* What the handler takes out of a frame is its payload. *)
LEMMA BodyIsPayload ==
    ASSUME IsBus, NEW payload \in AllPayloads, NEW p,
           p.sum = Summed(payload), p.len = Wire
    PROVE  Body(p) = payload
<1> DEFINE h == Head_(bus)
<1>1. /\ h \in Seq(Nat) /\ payload \in Seq(Nat) /\ Len(payload) = Wire
      /\ Wire \in Nat \ {0} /\ Len(h) \in Nat
      /\ Len(p.sum) = Len(h) + Wire /\ p.sum = h \o payload
  BY HeadIsSeq, PayloadIsSeq, SummedIsSeq DEF Summed
<1> HIDE DEF h
<1>2. SubSeq(h \o payload, Len(h) + 1, Len(h) + Wire) = SubSeq(payload, 1, Wire)
  <2>1. SubSeq(h \o payload, Len(h) + 1, Len(h) + Wire)
          = SubSeq(payload, (Len(h) + 1) - Len(h), (Len(h) + Wire) - Len(h))
    BY <1>1, SubSeqOfConcat2
  <2> QED
    BY <1>1, <2>1
<1>3. SubSeq(payload, 1, Wire) = payload
  BY <1>1, SubSeqFull
<1>4. Len(p.sum) - p.len + 1 = Len(h) + 1
  BY <1>1
<1> QED
  BY <1>1, <1>2, <1>3, <1>4 DEF Body
-----------------------------------------------------------------------------
(* The parser *)

IsParser(p) ==
    /\ DOMAIN p = {"at", "type", "len", "sum", "cka"}
    /\ p.at \in {"MAGIC1", "MAGIC2", "TYPE", "LEN", "DATA", "CKA", "CKB"}
    /\ p.sum \in Seq(Nat)
    /\ bus = "SYSLINK" =>
          /\ p.at = "LEN" => p.sum = <<p.type>>
          /\ p.at \in {"DATA", "CKA", "CKB"} =>
                Len(p.sum) >= 2 /\ p.sum[1] = p.type /\ p.sum[2] = p.len

LEMMA HuntingIsParser == IsParser(Hunting)
BY DEF Hunting, IsParser

LEMMA ParsedIsParser ==
    ASSUME IsBus, NEW p, IsParser(p), NEW b, b.v \in Nat
    PROVE  IsParser(Parsed(p, b))
<1>1. CASE p.at = "MAGIC1"
  BY <1>1 DEF IsParser, Parsed
<1>2. CASE p.at = "MAGIC2"
  BY <1>2, HuntingIsParser DEF IsParser, Parsed, AfterMagic1, Hunting, IsBus
<1>3. CASE p.at = "TYPE"
  <2> DEFINE s == <<b.v>>
             q == [p EXCEPT !.type = b.v, !.sum = s, !.at = "LEN"]
  <2>1. Parsed(p, b) = q
    BY <1>3 DEF Parsed
  <2>2. s \in Seq(Nat)
    OBVIOUS
  <2>3. DOMAIN q = DOMAIN p /\ q.type = b.v /\ q.sum = s /\ q.at = "LEN"
    BY DEF IsParser
  <2> HIDE DEF q
  <2> QED
    BY <2>1, <2>2, <2>3 DEF IsParser
<1>4. CASE p.at = "LEN"
  <2> DEFINE s == Append(p.sum, b.v)
             q == [p EXCEPT !.len = b.v, !.sum = s, !.at = IF b.v = 0 THEN "CKA" ELSE "DATA"]
  <2>1. Parsed(p, b) \in {q, Hunting}
    BY <1>4 DEF Parsed, AfterLen
  <2>2. s \in Seq(Nat) /\ (bus = "SYSLINK" => Len(s) = 2 /\ s[1] = p.type /\ s[2] = b.v)
    <3>1. /\ p.sum \in Seq(Nat) /\ Len(s) = Len(p.sum) + 1 /\ s \in Seq(Nat)
          /\ \A i \in 1..Len(p.sum) : s[i] = p.sum[i]
          /\ s[Len(p.sum) + 1] = b.v
      BY AppendProperties DEF IsParser
    <3> HIDE DEF s
    <3>2. ASSUME bus = "SYSLINK" PROVE Len(s) = 2 /\ s[1] = p.type /\ s[2] = b.v
      <4>1. p.sum = <<p.type>>
        BY <1>4, <3>2 DEF IsParser
      <4>2. Len(p.sum) = 1 /\ p.sum[1] = p.type
        BY <4>1
      <4>3. 1 \in 1..Len(p.sum) /\ Len(p.sum) + 1 = 2
        BY <4>2
      <4> QED
        BY <3>1, <4>2, <4>3
    <3> QED
      BY <3>1, <3>2
  <2> HIDE DEF s
  <2>3. IsParser(q)
    BY <1>4, <2>2 DEF IsParser
  <2> QED
    BY <2>1, <2>3, HuntingIsParser
<1>5. CASE p.at = "DATA"
  <2> DEFINE s == Append(p.sum, b.v)
             q == [p EXCEPT !.sum = s]
             r == [q EXCEPT !.at = "CKA"]
  <2>1. Parsed(p, b) \in {q, r}
    BY <1>5 DEF Parsed, AfterData
  <2>2. s \in Seq(Nat)
    BY DEF IsParser
  <2>3. bus = "SYSLINK" => Len(s) >= 2 /\ s[1] = p.type /\ s[2] = p.len
    BY <1>5 DEF IsParser
  <2> HIDE DEF s
  <2>4. IsParser(q) /\ IsParser(r)
    BY <1>5, <2>2, <2>3 DEF IsParser
  <2> QED
    BY <2>1, <2>4
<1>6. CASE p.at = "CKA"
  BY <1>6 DEF IsParser, Parsed
<1>7. CASE p.at = "CKB"
  BY <1>7, HuntingIsParser DEF Parsed
<1> QED
  BY <1>1, <1>2, <1>3, <1>4, <1>5, <1>6, <1>7 DEF IsParser

(* The parser when k bytes of a frame have come over the bus. *)
Aligned(p, payload, k) ==
    LET S == Summed(payload)
    IN /\ k = 1 => p.at = "MAGIC2"
       /\ k = 2 => p.at = "LEN" /\ p.sum = <<>>
       /\ k \in 3..(Wire + 2) => p.at = "DATA" /\ p.len = Wire /\ p.sum = SubSeq(S, 1, k - 2)
       /\ k = Wire + 3 => p.at = "CKA" /\ p.len = Wire /\ p.sum = S
       /\ k = Wire + 4 => p.at = "CKB" /\ p.len = Wire /\ p.sum = S /\ p.cka = <<"A">> \o S

LEMMA SubSeqGrows ==
    ASSUME NEW S \in Seq(Nat), NEW m \in Nat, m < Len(S)
    PROVE  Append(SubSeq(S, 1, m), S[m + 1]) = SubSeq(S, 1, m + 1)
<1>1. Len(S) \in Nat /\ m + 1 \in 1..Len(S)
  OBVIOUS
<1>2. SubSeq(S, 1, m + 1) = SubSeq(S, 1, (m + 1) - 1) \o <<S[m + 1]>>
  <2>1. 1 \in 1..Len(S) /\ m + 1 \in 1..Len(S)
    BY <1>1
  <2> QED
    BY <2>1, SubSeqRecursiveSecond
<1>3. (m + 1) - 1 = m
  OBVIOUS
<1>4. SubSeq(S, 1, m) \in Seq(Nat) /\ S[m + 1] \in Nat
  <2>1. \A i \in 1..m : S[i] \in Nat
    BY <1>1
  <2> QED
    BY <1>1, <2>1, SubSeqProperties
<1>5. Append(SubSeq(S, 1, m), S[m + 1]) = SubSeq(S, 1, m) \o <<S[m + 1]>>
  BY <1>4, AppendIsConcat
<1> QED
  BY <1>2, <1>3, <1>5

(* Each byte of a frame takes the parser a step further. *)
LEMMA AlignedStep ==
    ASSUME bus = "UART", NEW payload \in AllPayloads, NEW last \in Nat,
           NEW p, IsParser(p), NEW k \in 0..(Wire + 3),
           IF k = 0 THEN p = Hunting ELSE Aligned(p, payload, k)
    PROVE  Aligned(Parsed(p, Framed(bus, payload, last)[k + 1]), payload, k + 1)
<1> DEFINE S == Summed(payload)
           F == Framed(bus, payload, last)
           q == Parsed(p, F[k + 1])
<1>1. /\ S \in Seq(Nat) /\ Len(S) = Wire + 1 /\ S[1] = Wire
      /\ Wire \in Nat \ {0} /\ Wire <= Mtu /\ Mtu \in Nat
      /\ F[1] = Plain(Magic0) /\ F[2] = Plain(Magic1)
      /\ \A i \in 1..(Wire + 1) : F[i + 2] = Plain(S[i])
      /\ F[Wire + 4] = Check(<<"A">> \o S, 0)
  <2>1. IsBus
    BY DEF IsBus
  <2>2. S \in Seq(Nat) /\ Len(S) = Wire + 1 /\ S[1] = Wire
    BY <2>1, SummedIsSeq
  <2>3. Wire \in Nat \ {0} /\ Wire <= Mtu /\ Mtu \in Nat
    BY SerialAssumption
  <2>4. /\ F[1] = Plain(Magic0) /\ F[2] = Plain(Magic1)
        /\ \A i \in 1..Len(S) : F[i + 2] = Plain(S[i])
        /\ F[Len(S) + 3] = Check(<<"A">> \o S, 0)
    BY <2>1, FrameBytes
  <2>5. Len(S) + 3 = Wire + 4
    BY <2>2, <2>3
  <2> HIDE DEF S, F
  <2> QED
    BY <2>2, <2>3, <2>4, <2>5
<1> HIDE DEF F
<1>2. CASE k = 0
  <2>1. q.at = "MAGIC2"
    BY <1>1, <1>2 DEF Parsed, Hunting, Plain
  <2> HIDE DEF q
  <2>2. k + 1 = 1
    BY <1>2
  <2> QED
    BY <1>1, <2>1, <2>2 DEF Aligned, q, F
<1>3. CASE k = 1
  <2>1. q.at = "LEN" /\ q.sum = <<>>
    BY <1>1, <1>3 DEF Aligned, Parsed, AfterMagic1, Hunting, Plain
  <2> HIDE DEF q
  <2>2. k + 1 = 2
    BY <1>3
  <2> QED
    BY <1>1, <2>1, <2>2 DEF Aligned, q, F
<1>4. CASE k = 2
  <2>1. F[k + 1] = Plain(Wire)
    BY <1>1, <1>4
  <2>a. p.at = "LEN" /\ p.sum = <<>>
    BY <1>4 DEF Aligned
  <2>b. q = [p EXCEPT !.len = Wire, !.sum = Append(@, Wire), !.at = "DATA"]
    BY <1>1, <2>1, <2>a DEF Parsed, AfterLen, Plain
  <2>c. Append(<<>>, Wire) = <<Wire>>
    BY <1>1
  <2>2. q.at = "DATA" /\ q.len = Wire /\ q.sum = <<Wire>>
    BY <2>a, <2>b, <2>c DEF IsParser
  <2>3. SubSeq(S, 1, 1) = <<Wire>>
    <3>1. SubSeq(S, 1, 0) = <<>> /\ S[0 + 1] = Wire /\ 0 < Len(S) /\ 0 + 1 = 1
      BY <1>1, SubSeqEmpty
    <3>2. Append(SubSeq(S, 1, 0), S[0 + 1]) = SubSeq(S, 1, 0 + 1)
      BY <1>1, <3>1, SubSeqGrows
    <3> HIDE DEF S
    <3> QED
      BY <2>c, <3>1, <3>2
  <2> HIDE DEF q, S
  <2>4. k + 1 = 3 /\ (k + 1) - 2 = 1
    BY <1>4
  <2> QED
    BY <1>1, <2>2, <2>3, <2>4 DEF Aligned, q, F, S
<1>5. CASE k \in 3..(Wire + 2)
  <2> DEFINE m == k - 2
  <2>0. m \in Nat /\ m < Len(S) /\ k + 1 = (m + 1) + 2 /\ m + 1 \in 1..(Wire + 1) /\ m >= 1
    BY <1>1, <1>5
  <2>1. F[k + 1] = Plain(S[m + 1])
    BY <1>1, <2>0
  <2>2. p.at = "DATA" /\ p.len = Wire /\ p.sum = SubSeq(S, 1, m)
    BY <1>5 DEF Aligned
  <2>3. Append(p.sum, S[m + 1]) = SubSeq(S, 1, m + 1)
    BY <1>1, <2>0, <2>2, SubSeqGrows
  <2>4. Len(SubSeq(S, 1, m + 1)) = m + 1
    BY <1>1, <2>0
  <2> HIDE DEF S, m
  <2> DEFINE r == [p EXCEPT !.sum = SubSeq(S, 1, m + 1)]
  <2>5. q = IF m >= Wire THEN [r EXCEPT !.at = "CKA"] ELSE r
    <3>1. q = AfterData(p, F[k + 1]) /\ F[k + 1].v = S[m + 1]
      BY <2>1, <2>2 DEF Parsed, Plain
    <3>2. r.len = Wire /\ r.sum = SubSeq(S, 1, m + 1)
      BY <2>2 DEF IsParser
    <3>3. Collected(r) = m
      BY <2>0, <2>4, <3>2 DEF Collected
    <3>4. [p EXCEPT !.sum = Append(@, F[k + 1].v)] = r
      BY <2>3, <3>1 DEF r
    <3> HIDE DEF r
    <3>5. AfterData(p, F[k + 1]) = IF Collected(r) >= p.len THEN [r EXCEPT !.at = "CKA"] ELSE r
      BY <3>4 DEF AfterData
    <3> QED
      BY <2>2, <3>1, <3>3, <3>5
  <2>6. /\ q.sum = SubSeq(S, 1, m + 1) /\ q.len = Wire
        /\ q.at = IF m >= Wire THEN "CKA" ELSE "DATA"
    BY <2>2, <2>5 DEF IsParser
  <2> HIDE DEF q, r
  <2>7. CASE m >= Wire
    <3>1. m + 1 = Len(S) /\ k + 1 = Wire + 3
      BY <1>1, <2>0, <2>7
    <3>2. SubSeq(S, 1, Len(S)) = S
      BY <1>1, SubSeqFull
    <3>3. q.at = "CKA" /\ q.len = Wire /\ q.sum = S
      BY <2>6, <2>7, <3>1, <3>2
    <3>4. k + 1 # 1 /\ k + 1 # 2 /\ k + 1 \notin 3..(Wire + 2) /\ k + 1 # Wire + 4
      BY <1>1, <3>1
    <3> QED
      BY <3>1, <3>3, <3>4 DEF Aligned, q, F, S
  <2>8. CASE ~(m >= Wire)
    <3>1. k + 1 \in 3..(Wire + 2) /\ (k + 1) - 2 = m + 1
      BY <1>1, <2>0, <2>8
    <3>3. q.at = "DATA" /\ q.len = Wire /\ q.sum = SubSeq(S, 1, (k + 1) - 2)
      BY <2>6, <2>8, <3>1
    <3>4. k + 1 # 1 /\ k + 1 # 2 /\ k + 1 # Wire + 3 /\ k + 1 # Wire + 4
      BY <1>1, <3>1
    <3> QED
      BY <3>3, <3>4 DEF Aligned, q, F, S
  <2> QED
    BY <2>7, <2>8
<1>6. CASE k = Wire + 3
  <2>1. F[k + 1] = Check(<<"A">> \o S, 0)
    BY <1>1, <1>6
  <2>2. p.at = "CKA" /\ p.len = Wire /\ p.sum = S
    <3>1. k # 0
      BY <1>1, <1>6
    <3> QED
      BY <1>6, <3>1 DEF Aligned
  <2> HIDE DEF S
  <2>3. q.at = "CKB" /\ q.len = Wire /\ q.sum = S /\ q.cka = <<"A">> \o S
    <3>1. q = [p EXCEPT !.cka = F[k + 1].of, !.at = "CKB"]
      BY <2>2 DEF Parsed
    <3>2. F[k + 1].of = <<"A">> \o S
      BY <2>1 DEF Check
    <3> QED
      BY <2>2, <3>1, <3>2 DEF IsParser
  <2> HIDE DEF q
  <2>4. k + 1 = Wire + 4
    BY <1>1, <1>6
  <2>5. k + 1 # 1 /\ k + 1 # 2 /\ k + 1 \notin 3..(Wire + 2) /\ k + 1 # Wire + 3
    BY <1>1, <1>6
  <2> QED
    BY <2>3, <2>4, <2>5 DEF Aligned, q, F, S
<1> QED
  BY <1>1, <1>2, <1>3, <1>4, <1>5, <1>6
-----------------------------------------------------------------------------
(* The invariant *)

(* k bytes of a frame have passed.  The element's own is in the echo ring; *)
(* one that follows a silence has its bytes taken for what they are.       *)
Midway(payload, last, k) ==
    LET F == Framed(bus, payload, last)
    IN /\ k < Len(F) /\ wire = SubSeq(F, k + 1, Len(F))
       /\ payload = OwnPayload =>
             /\ bus = "UART" /\ 1 \in DOMAIN echo
             /\ echo[1].of = OwnPayload /\ echo[1].recent
       /\ bus = "UART" /\ passing.whole /\ passing.after =>
             IF k = 0 THEN silent ELSE ~silent /\ Aligned(parser, payload, k)

Echoes == [of : AllPayloads, recent : BOOLEAN]

SerialInv ==
    /\ IsBus /\ IsParser(parser) /\ rxq \in Seq(Payloads) /\ echo \in Seq(Echoes)
    /\ wire # <<>> =>
          \E payload \in AllPayloads, last \in Nat, k \in Nat : Midway(payload, last, k)
    /\ BusHears

LEMMA InitSerialInv == SerialInit => SerialInv
BY HuntingIsParser DEF SerialInit, SerialInv, IsBus, BusHears, IsParser

(* The next byte of a frame, and what is left of it. *)
LEMMA NextByte ==
    ASSUME IsBus, NEW payload \in AllPayloads, NEW last \in Nat, NEW k \in Nat,
           Midway(payload, last, k)
    PROVE  LET F == Framed(bus, payload, last)
           IN /\ wire # <<>> /\ Head(wire) = F[k + 1] /\ k + 1 \in 1..Len(F)
              /\ Tail(wire) = SubSeq(F, k + 2, Len(F))
              /\ Tail(wire) = <<>> <=> k + 1 = Len(F)
              /\ Head(wire).v \in Nat
<1> DEFINE F == Framed(bus, payload, last)
<1>1. F \in Seq(Items) /\ Len(F) \in Nat
  <2>1. F \in Seq(Items)
    BY FrameBytes
  <2> HIDE DEF F
  <2> QED
    BY <2>1
<1>2. k < Len(F) /\ wire = SubSeq(F, k + 1, Len(F))
  BY DEF Midway
<1> HIDE DEF F
<1>3. k + 1 \in 1..Len(F) /\ Len(F) \in (k + 1)..Len(F) /\ (k + 1) + 1 = k + 2
  BY <1>1, <1>2
<1>4. Head(wire) = F[k + 1] /\ Tail(wire) = SubSeq(F, k + 2, Len(F))
  BY <1>1, <1>2, <1>3, HeadTailOfSubSeq
<1>5. \A m \in Nat : m >= 1 => Len(SubSeq(F, m, Len(F))) = IF m <= Len(F) THEN Len(F) - m + 1 ELSE 0
  <2> SUFFICES ASSUME NEW m \in Nat, m >= 1
               PROVE  Len(SubSeq(F, m, Len(F))) = IF m <= Len(F) THEN Len(F) - m + 1 ELSE 0
    OBVIOUS
  <2>1. \A i \in m..Len(F) : F[i] \in Items
    BY <1>1
  <2> QED
    BY <1>1, <2>1, SubSeqProperties
<1>6. wire # <<>>
  <2>1. Len(wire) = Len(F) - (k + 1) + 1
    BY <1>2, <1>3, <1>5
  <2>2. Len(wire) > 0
    BY <1>1, <1>3, <2>1
  <2> QED
    BY <2>2
<1>7. Tail(wire) = <<>> <=> k + 1 = Len(F)
  <2>1. CASE k + 1 = Len(F)
    BY <1>1, <1>4, <2>1, SubSeqEmpty
  <2>2. CASE k + 1 # Len(F)
    <3>1. k + 2 <= Len(F)
      BY <1>1, <1>3, <2>2
    <3>2. Len(Tail(wire)) = Len(F) - (k + 2) + 1
      BY <1>4, <1>5, <3>1
    <3>3. Len(Tail(wire)) > 0
      BY <1>1, <3>1, <3>2
    <3>4. ASSUME Tail(wire) = <<>> PROVE FALSE
      <4>1. Len(<<>>) > 0
        BY <3>3, <3>4
      <4> QED
        BY <4>1
    <3> QED
      BY <2>2, <3>4
  <2> QED
    BY <2>1, <2>2
<1>8. F[k + 1].v \in Nat
  <2>1. F[k + 1] \in Items
    BY <1>1, <1>3, ElementOfSeq
  <2> QED
    BY <2>1 DEF Items
<1> QED
  BY <1>3, <1>4, <1>6, <1>7, <1>8 DEF F

(* What adds up is the frame that passes. *)
LEMMA WhatAddsUp ==
    ASSUME IsBus, NEW payload \in AllPayloads, NEW last \in Nat,
           NEW p, IsParser(p), NEW b, Complete(p, b), Gossip(p),
           \/ b.of = <<>>
           \/ \E j \in 1..Len(Framed(bus, payload, last)) : b = Framed(bus, payload, last)[j]
    PROVE  p.sum = Summed(payload) /\ p.len = Wire
<1> DEFINE S == Summed(payload)
           F == Framed(bus, payload, last)
<1>1. p.sum \in Seq(Nat) /\ S \in Seq(Nat) /\ Len(S) \in Nat
  <2>1. S \in Seq(Nat)
    BY SummedIsSeq
  <2> HIDE DEF S
  <2> QED
    BY <2>1 DEF IsParser
<1>2. /\ Len(F) = Len(S) + 4
      /\ F[1] = Plain(Magic0) /\ F[2] = Plain(Magic1)
      /\ \A i \in 1..Len(S) : F[i + 2] = Plain(S[i])
      /\ F[Len(S) + 3] = Check(<<"A">> \o S, 0)
      /\ F[Len(S) + 4] = Check(<<"B">> \o S, last)
  BY FrameBytes
<1>3. p.at = "CKB" /\ b.of = <<"B">> \o p.sum
  BY DEF Complete
<1> HIDE DEF S, F
<1>4. b.of \in {<<>>, <<"A">> \o S, <<"B">> \o S}
  <2>1. CASE b.of = <<>>
    BY <2>1
  <2>2. ASSUME NEW j \in 1..Len(F), b = F[j] PROVE b.of \in {<<>>, <<"A">> \o S, <<"B">> \o S}
    <3>1. CASE j = 1 \/ j = 2
      BY <1>2, <2>2, <3>1 DEF Plain
    <3>2. CASE j = Len(S) + 3 \/ j = Len(S) + 4
      BY <1>2, <2>2, <3>2 DEF Check
    <3>3. CASE j \in 3..(Len(S) + 2)
      <4>1. j - 2 \in 1..Len(S) /\ (j - 2) + 2 = j
        BY <1>1, <3>3
      <4>2. b = Plain(S[j - 2])
        BY <1>2, <2>2, <4>1
      <4> QED
        BY <4>2 DEF Plain
    <3>4. j \in 1..(Len(S) + 4)
      BY <1>2
    <3>5. j \in {1, 2, Len(S) + 3, Len(S) + 4} \cup 3..(Len(S) + 2)
      BY <1>1, <3>4
    <3> QED
      BY <3>1, <3>2, <3>3, <3>5
  <2> QED
    BY <2>1, <2>2 DEF F
<1>5. p.sum = S
  BY <1>1, <1>3, <1>4, ChecksTell
<1>6. CASE bus = "UART"
  BY <1>5, <1>6 DEF Gossip, S
<1>7. CASE bus = "SYSLINK"
  <2>1. S[2] = Wire
    BY <1>7, SummedIsSeq DEF S
  <2>2. p.sum[2] = p.len
    BY <1>3, <1>7 DEF IsParser
  <2> QED
    BY <1>5, <2>1, <2>2 DEF S
<1> QED
  BY <1>6, <1>7 DEF IsBus

(* A byte, damaged or not, is parsed, and only a peer's frame is queued. *)
LEMMA ArrivalQueues ==
    ASSUME SerialInv, NEW b, b.v \in Nat, wire # <<>>, b.of = <<>> \/ b = Head(wire),
           Arrives(b)
    PROVE  IsParser(parser') /\ rxq' \in Seq(Payloads)
<1> DEFINE p == Resynced(parser, silent)
<1>1. PICK payload \in AllPayloads, last \in Nat, k \in Nat : Midway(payload, last, k)
  BY DEF SerialInv
<1>2. IsBus /\ IsParser(p)
  BY HuntingIsParser DEF SerialInv, Resynced
<1>3. IsParser(parser')
  <2>1. parser' = Parsed(p, b) /\ bus' = bus
    BY DEF Arrives
  <2>2. IsParser(Parsed(p, b))
    BY <1>2, ParsedIsParser
  <2> QED
    BY <2>1, <2>2 DEF IsParser
<1>4. CASE rxq' = rxq
  BY <1>3, <1>4 DEF SerialInv
<1>5. CASE rxq' # rxq
  <2>1. /\ rxq' = Append(rxq, Body(p)) /\ Complete(p, b) /\ Gossip(p)
        /\ ~(bus = "UART" /\ EchoMatch(p))
    BY <1>5 DEF Arrives
  <2>2. \/ b.of = <<>>
        \/ \E j \in 1..Len(Framed(bus, payload, last)) : b = Framed(bus, payload, last)[j]
    BY <1>1, <1>2, NextByte
  <2>3. p.sum = Summed(payload) /\ p.len = Wire
    BY <1>2, <2>1, <2>2, WhatAddsUp
  <2>4. Body(p) = payload
    BY <1>2, <2>3, BodyIsPayload
  <2>5. payload # OwnPayload
    BY <1>1, <2>1, <2>4 DEF Midway, EchoMatch
  <2>6. payload \in Payloads
    BY <2>5 DEF AllPayloads
  <2> QED
    BY <1>3, <2>1, <2>4, <2>6, AppendProperties DEF SerialInv
<1> QED
  BY <1>3, <1>4, <1>5

(* The last byte of a frame that was taken for what it is. *)
LEMMA LastByteIsHeard ==
    ASSUME bus = "UART", NEW payload \in AllPayloads, NEW last \in Nat,
           NEW p, Aligned(p, payload, Wire + 4)
    PROVE  Complete(p, Framed(bus, payload, last)[Wire + 5]) /\ Gossip(p)
<1> DEFINE S == Summed(payload)
           F == Framed(bus, payload, last)
<1>1. Len(S) = Wire + 1 /\ Wire \in Nat \ {0}
  BY SummedIsSeq, PayloadIsSeq DEF IsBus
<1>2. F[Len(S) + 4] = Check(<<"B">> \o S, last)
  BY FrameBytes DEF IsBus
<1> HIDE DEF S, F
<1>3. Len(S) + 4 = Wire + 5
  BY <1>1
<1>4. p.at = "CKB" /\ p.len = Wire /\ p.sum = S /\ p.cka = <<"A">> \o S
  BY DEF Aligned, S
<1>5. F[Wire + 5].of = <<"B">> \o S
  BY <1>2, <1>3 DEF Check
<1> QED
  BY <1>4, <1>5 DEF Complete, Gossip, F

LEMMA ByteKeeps == ASSUME SerialInv, Byte PROVE SerialInv'
<1> DEFINE p == Resynced(parser, silent)
           b == Head(wire)
<1>1. PICK payload \in AllPayloads, last \in Nat, k \in Nat : Midway(payload, last, k)
  BY DEF SerialInv, Byte
<1> DEFINE F == Framed(bus, payload, last)
<1>2. /\ wire # <<>> /\ b = F[k + 1] /\ k + 1 \in 1..Len(F)
      /\ Tail(wire) = SubSeq(F, k + 2, Len(F))
      /\ Tail(wire) = <<>> <=> k + 1 = Len(F)
      /\ b.v \in Nat
  BY <1>1, NextByte DEF SerialInv
<1>3. /\ Arrives(b) /\ passing' = passing /\ bus' = bus /\ echo' = echo /\ wire' = Tail(wire)
      /\ silent' = FALSE /\ parser' = Parsed(p, b)
  BY DEF Byte, Arrives
<1>4. IsBus' /\ IsParser(parser') /\ rxq' \in Seq(Payloads)
  BY <1>2, <1>3, ArrivalQueues DEF SerialInv, IsBus
<1>5. bus = "UART" => Len(F) = Wire + 5 /\ Wire \in Nat
  <2>1. Len(F) = Len(Summed(payload)) + 4
    BY FrameBytes DEF SerialInv
  <2>2. bus = "UART" => Len(Summed(payload)) = Wire + 1 /\ Wire \in Nat
    BY SummedIsSeq, PayloadIsSeq DEF SerialInv
  <2> HIDE DEF F
  <2> QED
    BY <2>1, <2>2
<1> HIDE DEF F
<1>6. ASSUME bus = "UART", passing.whole, passing.after
      PROVE  /\ k + 1 < Len(F) => Aligned(parser', payload, k + 1)
             /\ k + 1 = Len(F) => fate' # "PASSING"
  <2>1. IF k = 0 THEN p = Hunting ELSE Aligned(p, payload, k)
    BY <1>1, <1>6 DEF Midway, Resynced
  <2>2. IsParser(p)
    BY HuntingIsParser DEF SerialInv, Resynced
  <2> HIDE DEF p, b
  <2>3. CASE k + 1 < Len(F)
    <3>1. k \in 0..(Wire + 3)
      BY <1>2, <1>5, <1>6, <2>3
    <3>2. Aligned(Parsed(p, F[k + 1]), payload, k + 1)
      BY <1>6, <2>1, <2>2, <3>1, AlignedStep DEF F
    <3> QED
      BY <1>2, <1>3, <2>3, <3>2
  <2>4. CASE k + 1 = Len(F)
    <3>1. k = Wire + 4 /\ k # 0 /\ k + 1 = Wire + 5
      BY <1>5, <1>6, <2>4
    <3>2. Complete(p, b) /\ Gossip(p)
      BY <1>2, <1>6, <2>1, <3>1, LastByteIsHeard DEF F
    <3>3. fate' # "PASSING"
      BY <1>3, <3>2 DEF Arrives, p
    <3> QED
      BY <2>4, <3>3
  <2> QED
    BY <1>2, <2>3, <2>4
<1>7. BusHears'
  BY <1>2, <1>3, <1>6 DEF BusHears
<1>8. ASSUME wire' # <<>> PROVE Midway(payload, last, k + 1)'
  <2>1. k + 1 < Len(F) /\ (k + 1) + 1 = k + 2 /\ k + 1 # 0
    BY <1>2, <1>3, <1>8
  <2>2. wire' = SubSeq(F, (k + 1) + 1, Len(F))
    BY <1>2, <1>3, <2>1
  <2>3. F' = F /\ \A n \in Nat : Aligned(parser, payload, n)' = Aligned(parser', payload, n)
    BY <1>3 DEF F, Framed, Aligned, Summed
  <2>4. bus' = "UART" /\ passing'.whole /\ passing'.after
          => ~silent' /\ Aligned(parser', payload, k + 1)
    BY <1>3, <1>6, <2>1
  <2> QED
    BY <1>1, <1>3, <2>1, <2>2, <2>3, <2>4 DEF Midway, F
<1>9. IsParser(parser)' /\ echo' \in Seq(Echoes)
  BY <1>3, <1>4 DEF IsParser, SerialInv
<1>10. wire' # <<>> => \E q \in AllPayloads, l \in Nat, n \in Nat : Midway(q, l, n)'
  BY <1>8
<1> QED
  BY <1>4, <1>7, <1>9, <1>10 DEF SerialInv, AllPayloads, Echoes
LEMMA DamagedKeeps == ASSUME SerialInv, Damaged PROVE SerialInv'
<1>1. PICK payload \in AllPayloads, last \in Nat, k \in Nat : Midway(payload, last, k)
  BY DEF SerialInv, Damaged
<1>2. PICK v \in 0..MaxByte : Arrives(Plain(v))
  BY DEF Damaged
<1> DEFINE F == Framed(bus, payload, last)
<1>3. /\ wire # <<>> /\ k + 1 \in 1..Len(F) /\ Tail(wire) = SubSeq(F, k + 2, Len(F))
      /\ Tail(wire) = <<>> <=> k + 1 = Len(F)
  BY <1>1, NextByte DEF SerialInv
<1> HIDE DEF F
<1>4. /\ passing'.whole = FALSE /\ bus' = bus /\ echo' = echo /\ wire' = Tail(wire)
  BY <1>2 DEF Damaged, Arrives
<1>5. IsParser(parser') /\ rxq' \in Seq(Payloads)
  <2>1. Plain(v).v \in Nat /\ Plain(v).of = <<>>
    BY SerialAssumption DEF Plain
  <2> QED
    BY <1>2, <1>3, <2>1, ArrivalQueues
<1>6. IsBus' /\ IsParser(parser)' /\ BusHears' /\ echo' \in Seq(Echoes)
  BY <1>4, <1>5 DEF SerialInv, IsBus, IsParser, BusHears
<1>7. ASSUME wire' # <<>> PROVE Midway(payload, last, k + 1)'
  <2>1. k + 1 < Len(F) /\ (k + 1) + 1 = k + 2
    BY <1>3, <1>4, <1>7
  <2>2. wire' = SubSeq(F, (k + 1) + 1, Len(F))
    BY <1>3, <1>4, <2>1
  <2>3. F' = F
    BY <1>4 DEF F, Framed
  <2> QED
    BY <1>1, <1>4, <2>1, <2>2, <2>3 DEF Midway, F
<1>8. wire' # <<>> => \E q \in AllPayloads, l \in Nat, n \in Nat : Midway(q, l, n)'
  BY <1>7
<1> QED
  BY <1>5, <1>6, <1>8 DEF SerialInv, AllPayloads, Echoes

(* A frame that begins to pass. *)
LEMMA PassingKeeps ==
    ASSUME SerialInv, NEW payload \in AllPayloads, Passing(payload),
           echo' \in Seq(Echoes),
           payload = OwnPayload =>
               /\ bus = "UART" /\ 1 \in DOMAIN echo'
               /\ echo'[1].of = OwnPayload /\ echo'[1].recent
    PROVE  SerialInv'
<1>1. PICK last \in {0, Magic0} : wire' = Framed(bus, payload, last)
  BY DEF Passing
<1>2. last \in Nat
  BY DEF Magic0
<1> DEFINE F == Framed(bus, payload, last)
<1>3. /\ bus' = bus /\ parser' = parser /\ silent' = silent /\ rxq' = rxq
      /\ passing'.after = silent
  BY DEF Passing
<1>4. F \in Seq(Items) /\ Len(F) \in Nat /\ Len(F) > 0 /\ SubSeq(F, 0 + 1, Len(F)) = F
  <2>1. F \in Seq(Items) /\ Len(F) = Len(Summed(payload)) + 4
    BY <1>2, FrameBytes DEF SerialInv
  <2>2. Len(Summed(payload)) \in Nat
    BY SummedIsSeq, PayloadIsSeq DEF SerialInv, IsBus
  <2> HIDE DEF F
  <2> QED
    BY <2>1, <2>2, SubSeqFull
<1>5. F' = F
  BY <1>3 DEF Framed
<1> HIDE DEF F
<1>6. Midway(payload, last, 0)'
  BY <1>1, <1>3, <1>4, <1>5 DEF Midway, F
<1>7. wire' # <<>>
  BY <1>1, <1>4 DEF F
<1>8. BusHears'
  BY <1>7 DEF BusHears
<1>9. \E q \in AllPayloads, l \in Nat, n \in Nat : Midway(q, l, n)'
  BY <1>2, <1>6
<1> QED
  BY <1>3, <1>8, <1>9 DEF SerialInv, IsBus, IsParser, AllPayloads, Echoes

LEMMA PeerKeeps ==
    ASSUME SerialInv, NEW payload \in Payloads, PeerSends(payload)
    PROVE  SerialInv'
BY PassingKeeps, SerialAssumption DEF PeerSends, AllPayloads, SerialInv

(* What this element sends is in the echo ring before its first byte is on *)
(* the bus.                                                                *)
LEMMA OwnKeeps ==
    ASSUME SerialInv, OwnSends
    PROVE  SerialInv'
<1> DEFINE new == [of |-> OwnPayload, recent |-> TRUE]
           all == <<new>> \o echo
           m == IF Len(all) > EchoDepth THEN EchoDepth ELSE Len(all)
<1>1. new \in Echoes /\ <<new>> \in Seq(Echoes) /\ echo \in Seq(Echoes)
  BY DEF AllPayloads, SerialInv, Echoes
<1> HIDE DEF new
<1>2. all \in Seq(Echoes) /\ Len(all) \in Nat /\ Len(all) >= 1 /\ all[1] = new
  <2>1. /\ all \in Seq(Echoes) /\ Len(all) = Len(<<new>>) + Len(echo) /\ Len(echo) \in Nat
        /\ \A i \in 1..Len(<<new>>) : all[i] = <<new>>[i]
    BY <1>1, ConcatAt
  <2>2. Len(<<new>>) = 1 /\ <<new>>[1] = new
    OBVIOUS
  <2> HIDE DEF all
  <2> QED
    BY <2>1, <2>2
<1>3. m \in 1..Len(all)
  BY <1>2, SerialAssumption
<1>4. echo' = SubSeq(all, 1, m)
  BY DEF OwnSends, EchoRecorded, new
<1> HIDE DEF all, m
<1>5. 1 \in DOMAIN echo' /\ echo'[1] = new /\ echo' \in Seq(Echoes)
  <2>1. \A i \in 1..m : all[i] \in Echoes
    BY <1>2, <1>3
  <2>2. /\ echo' \in Seq(Echoes) /\ Len(echo') = m
        /\ \A i \in 1..(m - 1 + 1) : echo'[i] = all[1 + i - 1]
    BY <1>2, <1>3, <1>4, <2>1, SubSeqProperties
  <2> QED
    BY <1>2, <1>3, <2>2
<1>6. new.of = OwnPayload /\ new.recent
  BY DEF new
<1> QED
  BY <1>5, <1>6, PassingKeeps DEF OwnSends, AllPayloads
LEMMA RestKeeps ==
    ASSUME SerialInv, CutShort \/ Silence \/ Receive \/ UNCHANGED serialVars
    PROVE  SerialInv'
<1>1. CASE CutShort
  BY <1>1 DEF CutShort, SerialInv, IsBus, IsParser, BusHears, AllPayloads, Echoes
<1>2. CASE Silence
  <2>1. echo' \in Seq(Echoes)
    <3>1. CASE echo' = echo
      BY <3>1 DEF SerialInv
    <3>2. CASE echo' = [i \in DOMAIN echo |-> [echo[i] EXCEPT !.recent = FALSE]]
      <4>1. echo \in [1..Len(echo) -> Echoes] /\ DOMAIN echo = 1..Len(echo) /\ Len(echo) \in Nat
        BY LenProperties DEF SerialInv
      <4>2. \A i \in 1..Len(echo) : [echo[i] EXCEPT !.recent = FALSE] \in Echoes
        BY <4>1 DEF Echoes
      <4>3. echo' \in [1..Len(echo) -> Echoes]
        BY <3>2, <4>1, <4>2
      <4> QED
        BY <4>1, <4>3
    <3> QED
      BY <1>2, <3>1, <3>2 DEF Silence
  <2> QED
    BY <1>2, <2>1 DEF Silence, SerialInv, IsBus, IsParser, BusHears, AllPayloads, Echoes
<1>3. CASE Receive
  <2>1. rxq' \in Seq(Payloads)
    BY <1>3, HeadTailProperties DEF Receive, SerialInv
  <2>2. ASSUME NEW payload, NEW last, NEW k, Midway(payload, last, k)
        PROVE  Midway(payload, last, k)'
    BY <1>3, <2>2 DEF Receive, Midway, Framed, Aligned, Summed
  <2>3. /\ wire' = wire /\ IsBus' /\ IsParser(parser)' /\ BusHears' /\ echo' = echo
    BY <1>3 DEF Receive, SerialInv, IsBus, IsParser, BusHears
  <2> QED
    BY <2>1, <2>2, <2>3 DEF SerialInv, AllPayloads, Echoes
<1>4. CASE UNCHANGED serialVars
  <2>1. ASSUME NEW payload, NEW last, NEW k, Midway(payload, last, k)
        PROVE  Midway(payload, last, k)'
    BY <1>4, <2>1 DEF serialVars, Midway, Framed, Aligned, Summed
  <2>2. /\ wire' = wire /\ IsBus' /\ IsParser(parser)' /\ BusHears' /\ echo' = echo
        /\ rxq' = rxq
    BY <1>4 DEF serialVars, SerialInv, IsBus, IsParser, BusHears
  <2> QED
    BY <2>1, <2>2 DEF SerialInv, AllPayloads, Echoes
<1> QED
  BY <1>1, <1>2, <1>3, <1>4

LEMMA SerialInvariance == SerialSpec => []SerialInv
<1>1. SerialInit => SerialInv
  BY InitSerialInv
<1>2. SerialInv /\ [SerialNext]_serialVars => SerialInv'
  BY ByteKeeps, DamagedKeeps, PeerKeeps, OwnKeeps, RestKeeps DEF SerialNext
<1> QED
  BY <1>1, <1>2, PTL DEF SerialSpec

(* For every length of frames, whatever the payloads look like and however *)
(* many transmissions are damaged or cut short: a frame that passes whole  *)
(* after a silence on the bus is heard (bus_rx_byte).                      *)
THEOREM BusAlwaysHears == SerialSpec => []BusHears
BY SerialInvariance, PTL DEF SerialInv

(* No damage and no echo puts anything in the queue but what a peer sent   *)
(* whole, on either link (bus_rx_byte, syslink_rx_byte).                   *)
THEOREM PeersAreQueued == SerialSpec => []PeersQueued
<1>1. SerialInv => PeersQueued
  BY DEF SerialInv, PeersQueued
<1> QED
  BY <1>1, SerialInvariance, PTL

-----------------------------------------------------------------------------
(* What a glitch costs on syslink *)

Clean            == Payloads \ Odd
LinkSum(payload) == Head_("SYSLINK") \o payload
LinkFrame(payload) == Framed("SYSLINK", payload, 0)
FrameLength      == Wire + 6

(* The parser does not collect more than the length it has read. *)
Bounded(p) == p.at = "DATA" => p.len \in 1..MaxByte /\ Len(p.sum) \in 2..(p.len + 1)

(* How many bytes p takes for its own before it hunts again, when k bytes  *)
(* of a frame have come.                                                   *)
Left(p, k) ==
    CASE p.at = "MAGIC1" -> 0
      [] p.at = "MAGIC2" -> 1
      [] p.at = "TYPE"   -> 10
      [] p.at = "LEN"    -> IF k = 1 THEN 9 ELSE 8
      [] p.at = "DATA"   -> p.len - Len(p.sum) + 4
      [] p.at = "CKA"    -> 2
      [] p.at = "CKB"    -> 1

(* The faults pay for what was lost and for the frames in which so many    *)
(* more bytes are not parsed for what they are.                            *)
Owed(f, lost, over) == \E n \in Nat : lost + n <= Reach * f /\ over <= n * FrameLength

(* The parser takes the k bytes that came for what they are; or for parts  *)
(* of a phantom, of whose state only so much can be.                       *)
InStep(p, payload, k) ==
    LET S == LinkSum(payload)
    IN /\ k = 1 => p.at = "MAGIC2"
       /\ k = 2 => p.at = "TYPE"
       /\ k = 3 => p.at = "LEN" /\ p.sum = <<P2P>>
       /\ k \in 4..(Wire + 3) => p.at = "DATA" /\ p.len = Wire /\ p.sum = SubSeq(S, 1, k - 2)
       /\ k = Wire + 4 => p.at = "CKA" /\ p.len = Wire /\ p.sum = S
       /\ k = Wire + 5 => p.at = "CKB" /\ p.len = Wire /\ p.sum = S /\ p.cka = <<"A">> \o S

Astray(p, payload, k) ==
    /\ p.at # "TYPE"
    /\ p.at = "LEN" => k = 1
    /\ p.at = "MAGIC2" => k >= 3 /\ LinkFrame(payload)[k].v = Magic0

Whole(payload, k) ==
    /\ missed <= Reach * faults
    /\ k = 0 => Owed(faults, missed, Left(parser, 0))
    /\ k # 0 => \/ InStep(parser, payload, k)
                \/ /\ Astray(parser, payload, k)
                   /\ Owed(faults, missed + 1, Left(parser, k) - (FrameLength - k))

Under(payload, k) ==
    /\ wire = SubSeq(LinkFrame(payload), k + 1, FrameLength)
    /\ IF passing.whole THEN Whole(payload, k) ELSE missed + Reach <= Reach * faults

LinkInv ==
    bus = "SYSLINK" =>
      /\ missed \in Nat /\ faults \in Nat /\ Bounded(parser)
      /\ missed <= Reach * faults
      /\ wire = <<>> => Owed(faults, missed, Left(parser, 0))
      /\ wire # <<>> => \E payload \in Clean, k \in 0..(FrameLength - 1) : Under(payload, k)

LEMMA ReachOfPhantom ==
    /\ FrameLength \in Nat /\ FrameLength >= 7 /\ Reach \in Nat
    /\ MaxByte \in Nat /\ MaxByte + 2 <= Reach * FrameLength
<1> DEFINE L == FrameLength
           a == MaxByte + 2 + L - 1
<1>1. Wire \in Nat \ {0} /\ MaxByte \in Nat /\ L \in Nat /\ L >= 7 /\ a \in Nat
  BY SerialAssumption DEF FrameLength
<1>2. Reach = a \div L
  BY DEF Reach, FrameLength
<1> HIDE DEF L, a
<1>3. \A x \in Nat, y \in Nat \ {0} :
          /\ x \div y \in Nat /\ x % y \in 0..(y - 1)
          /\ x = y * (x \div y) + (x % y)
  OBVIOUS
<1>4. L \in Nat \ {0}
  BY <1>1
<1>5. a \div L \in Nat /\ a % L \in 0..(L - 1) /\ a = L * (a \div L) + (a % L)
  BY <1>1, <1>3, <1>4
<1>6. L * (a \div L) >= MaxByte + 2
  <2> DEFINE w == L * (a \div L)
             r == a % L
  <2>1. w \in Int /\ r \in 0..(L - 1) /\ a = w + r
    BY <1>1, <1>5
  <2>2. a = MaxByte + 2 + L - 1
    BY DEF a
  <2> HIDE DEF w, r, a
  <2>3. w >= MaxByte + 2
    BY <1>1, <2>1, <2>2
  <2> QED
    BY <2>3 DEF w
<1>7. L * (a \div L) = (a \div L) * L
  BY <1>1, <1>5
<1> QED
  BY <1>1, <1>2, <1>5, <1>6, <1>7 DEF L

LEMMA OwedLess ==
    ASSUME NEW f \in Nat, NEW lost \in Nat, NEW x \in Int, NEW y \in Int,
           Owed(f, lost, x), y <= x
    PROVE  Owed(f, lost, y)
<1>1. PICK n \in Nat : lost + n <= Reach * f /\ x <= n * FrameLength
  BY DEF Owed
<1>2. n * FrameLength \in Int
  BY ReachOfPhantom
<1>3. y <= n * FrameLength
  BY <1>1, <1>2
<1> QED
  BY <1>1, <1>3 DEF Owed

(* A frame lost is a frame's length less to lose. *)
LEMMA OwedPays ==
    ASSUME NEW f \in Nat, NEW lost \in Nat, NEW x \in Int, Owed(f, lost, x), x >= 1
    PROVE  Owed(f, lost + 1, x - FrameLength)
<1>1. PICK n \in Nat : lost + n <= Reach * f /\ x <= n * FrameLength
  BY DEF Owed
<1>2. FrameLength \in Nat /\ Reach * f \in Int
  BY ReachOfPhantom
<1>3. n # 0
  BY <1>1, <1>2
<1>4. n - 1 \in Nat /\ (n - 1) * FrameLength = n * FrameLength - FrameLength
  BY <1>2, <1>3
<1>5. (lost + 1) + (n - 1) <= Reach * f
  BY <1>1, <1>2, <1>4
<1>6. x - FrameLength <= (n - 1) * FrameLength
  <2> DEFINE w == n * FrameLength
  <2>1. w \in Int /\ x <= w /\ (n - 1) * FrameLength = w - FrameLength
    BY <1>1, <1>2, <1>4
  <2> HIDE DEF w
  <2> QED
    BY <1>2, <2>1
<1> QED
  BY <1>4, <1>5, <1>6 DEF Owed

LEMMA OwedBounds ==
    ASSUME NEW f \in Nat, NEW lost \in Nat, NEW x, Owed(f, lost, x)
    PROVE  lost <= Reach * f
<1>1. PICK n \in Nat : lost + n <= Reach * f
  BY DEF Owed
<1>2. Reach * f \in Int
  BY ReachOfPhantom
<1> QED
  BY <1>1, <1>2

(* One more glitch pays for as far as a phantom reaches. *)
LEMMA GlitchPays ==
    ASSUME NEW f \in Nat, NEW lost \in Nat, lost + Reach <= Reach * f,
           NEW x \in Int, x <= MaxByte + 2
    PROVE  Owed(f, lost, x)
<1>1. Reach \in Nat /\ MaxByte \in Nat /\ Reach * FrameLength \in Int
  BY ReachOfPhantom
<1>2. x <= Reach * FrameLength
  BY <1>1, ReachOfPhantom
<1> QED
  BY <1>1, <1>2 DEF Owed

LEMMA AnotherGlitch ==
    ASSUME NEW f \in Nat, NEW lost \in Nat, lost <= Reach * f
    PROVE  lost + Reach <= Reach * (f + 1)
<1>1. Reach \in Nat /\ Reach * (f + 1) = Reach * f + Reach /\ Reach * f \in Int
  BY ReachOfPhantom
<1> QED
  BY <1>1

(* The bytes of a frame no byte of which looks like a preamble's. *)
LEMMA LinkBytes ==
    ASSUME bus = "SYSLINK", NEW payload \in Clean
    PROVE  LET S == LinkSum(payload)
               F == LinkFrame(payload)
           IN /\ S = Summed(payload) /\ S \in Seq(Nat) /\ Len(S) = Wire + 2
              /\ F \in Seq(Items) /\ Len(F) = FrameLength
              /\ F[1] = Plain(Magic0) /\ F[2] = Plain(Magic1)
              /\ \A i \in 1..(Wire + 2) : F[i + 2] = Plain(S[i])
              /\ F[Wire + 5] = Check(<<"A">> \o S, 0) /\ F[Wire + 6] = Check(<<"B">> \o S, 0)
              /\ S[1] = P2P /\ S[2] = Wire
              /\ \A i \in 1..Wire : S[i + 2] = payload[i]
<1> DEFINE S == LinkSum(payload)
           F == LinkFrame(payload)
<1>1. IsBus /\ payload \in AllPayloads /\ Wire \in Nat
  BY SerialAssumption DEF IsBus, AllPayloads, Clean
<1>2. S = Summed(payload) /\ F = Framed(bus, payload, 0)
  BY DEF LinkSum, LinkFrame, Summed
<1>3. /\ S \in Seq(Nat) /\ Len(S) = Wire + 2 /\ S[1] = P2P /\ S[2] = Wire
  BY <1>1, <1>2, SummedIsSeq
<1>4. /\ F \in Seq(Items) /\ Len(F) = Len(S) + 4
      /\ F[1] = Plain(Magic0) /\ F[2] = Plain(Magic1)
      /\ \A i \in 1..Len(S) : F[i + 2] = Plain(S[i])
      /\ F[Len(S) + 3] = Check(<<"A">> \o S, 0)
      /\ F[Len(S) + 4] = Check(<<"B">> \o S, 0)
  BY <1>1, <1>2, FrameBytes
<1>5. \A i \in 1..Wire : S[i + 2] = payload[i]
  <2> DEFINE h == Head_("SYSLINK")
  <2>1. h \in Seq(Nat) /\ Len(h) = 2 /\ payload \in Seq(Nat) /\ Len(payload) = Wire
    BY <1>1, HeadIsSeq, PayloadIsSeq
  <2>2. S = h \o payload
    BY DEF LinkSum
  <2> HIDE DEF h, S
  <2>3. \A i \in 1..Len(payload) : S[Len(h) + i] = payload[i]
    <3>1. \A i \in 1..Len(payload) : (h \o payload)[Len(h) + i] = payload[i]
      <4>1. h \in Seq(Nat) /\ payload \in Seq(Nat)
        BY <2>1
      <4> QED
        BY <4>1, ConcatAt
    <3> QED
      BY <2>2, <3>1
  <2>4. \A i \in 1..Wire : 2 + i = i + 2
    BY <1>1
  <2> QED
    BY <2>1, <2>3, <2>4
<1> HIDE DEF S, F
<1>6. Len(S) + 3 = Wire + 5 /\ Len(S) + 4 = Wire + 6 /\ FrameLength = Wire + 6
  BY <1>1, <1>3 DEF FrameLength
<1>7. F[Wire + 5] = Check(<<"A">> \o S, 0) /\ F[Wire + 6] = Check(<<"B">> \o S, 0)
  BY <1>4, <1>6
<1>8. Len(F) = FrameLength /\ \A i \in 1..(Wire + 2) : F[i + 2] = Plain(S[i])
  BY <1>3, <1>4, <1>6
<1> QED
  BY <1>2, <1>3, <1>4, <1>5, <1>7, <1>8 DEF S, F

(* Two bytes of it that follow each other are no preamble, but the first. *)
LEMMA NoPreamble ==
    ASSUME bus = "SYSLINK", NEW payload \in Clean
    PROVE  LET F == LinkFrame(payload)
           IN /\ F[3].v # Magic0 /\ F[FrameLength].v # Magic0
              /\ \A k \in 3..(FrameLength - 1) : F[k].v = Magic0 => F[k + 1].v # Magic1
<1> DEFINE S == LinkSum(payload)
           F == LinkFrame(payload)
<1>1. /\ \A i \in 1..(Wire + 2) : F[i + 2] = Plain(S[i])
      /\ F[Wire + 5] = Check(<<"A">> \o S, 0) /\ F[Wire + 6] = Check(<<"B">> \o S, 0)
      /\ S[1] = P2P /\ S[2] = Wire
      /\ \A i \in 1..Wire : S[i + 2] = payload[i]
  BY LinkBytes
<1>2. Wire \in Nat \ {0} /\ FrameLength = Wire + 6
  BY SerialAssumption DEF FrameLength
<1>3. \A i \in 1..Wire : ~(S[i + 1] = Magic0 /\ S[i + 2] = Magic1)
  <2> DEFINE bytes == <<Wire>> \o payload
  <2>1. \A i \in 1..Wire : ~(bytes[i] = Magic0 /\ bytes[i + 1] = Magic1)
    BY SerialAssumption DEF Clean
  <2>2. /\ \A i \in 1..1 : bytes[i] = <<Wire>>[i]
        /\ \A i \in 1..Wire : bytes[1 + i] = payload[i]
    <3>1. <<Wire>> \in Seq(Nat) /\ payload \in Seq(Nat)
      BY <1>2, PayloadIsSeq DEF Clean, AllPayloads
    <3>2. Len(<<Wire>>) = 1 /\ Len(payload) = Wire
      BY PayloadIsSeq DEF Clean, AllPayloads
    <3>3. /\ \A i \in 1..Len(<<Wire>>) : bytes[i] = <<Wire>>[i]
          /\ \A i \in 1..Len(payload) : bytes[Len(<<Wire>>) + i] = payload[i]
      BY <3>1, ConcatAt
    <3> HIDE DEF bytes
    <3> QED
      BY <3>2, <3>3
  <2>3. bytes[1] = Wire
    BY <2>2
  <2> HIDE DEF bytes, S, F
  <2>4. \A i \in 1..(Wire + 1) : bytes[i] = S[i + 1]
    <3> SUFFICES ASSUME NEW i \in 1..(Wire + 1) PROVE bytes[i] = S[i + 1]
      OBVIOUS
    <3>1. CASE i = 1
      BY <1>1, <2>3, <3>1
    <3>2. CASE i # 1
      <4>1. i - 1 \in 1..Wire /\ 1 + (i - 1) = i /\ (i - 1) + 2 = i + 1
        BY <1>2, <3>2
      <4>2. bytes[1 + (i - 1)] = payload[i - 1] /\ S[(i - 1) + 2] = payload[i - 1]
        BY <1>1, <2>2, <4>1
      <4> QED
        BY <4>1, <4>2
    <3> QED
      BY <3>1, <3>2
  <2>5. \A i \in 1..Wire : i \in 1..(Wire + 1) /\ i + 1 \in 1..(Wire + 1) /\ (i + 1) + 1 = i + 2
    BY <1>2
  <2> QED
    BY <2>1, <2>4, <2>5
<1> HIDE DEF S, F
<1>4. F[3].v # Magic0
  <2>1. 1 \in 1..(Wire + 2) /\ 1 + 2 = 3
    BY <1>2
  <2>2. F[3] = Plain(P2P)
    BY <1>1, <2>1
  <2> QED
    BY <2>2 DEF Plain, P2P, Magic0
<1>5. F[Wire + 5].v = 0 /\ F[Wire + 6].v = 0
  BY <1>1 DEF Check
<1>6. ASSUME NEW k \in 3..(Wire + 5), F[k].v = Magic0 PROVE F[k + 1].v # Magic1
  <2>1. k # 3 /\ k # Wire + 5
    BY <1>4, <1>5, <1>6 DEF Magic0
  <2>2. CASE k = Wire + 4
    <3>1. k + 1 = Wire + 5
      BY <1>2, <2>2
    <3> QED
      BY <1>5, <3>1 DEF Magic1
  <2>3. CASE k # Wire + 4
    <3> DEFINE i == k - 3
    <3>1. /\ i \in 1..Wire /\ (i + 1) + 2 = k /\ (i + 2) + 2 = k + 1
          /\ i + 1 \in 1..(Wire + 2) /\ i + 2 \in 1..(Wire + 2)
      BY <1>2, <2>1, <2>3
    <3> HIDE DEF i
    <3>2. F[k] = Plain(S[i + 1]) /\ F[k + 1] = Plain(S[i + 2])
      BY <1>1, <3>1
    <3> QED
      BY <1>3, <1>6, <3>1, <3>2 DEF Plain
  <2> QED
    BY <2>2, <2>3
<1>7. FrameLength - 1 = Wire + 5
  BY <1>2
<1> QED
  BY <1>2, <1>4, <1>5, <1>6, <1>7 DEF F, Magic0

LEMMA LinkBytesSmall ==
    ASSUME bus = "SYSLINK", NEW payload \in Clean, NEW k \in 1..FrameLength
    PROVE  LinkFrame(payload)[k].v \in 0..MaxByte
<1> DEFINE S == LinkSum(payload)
           F == LinkFrame(payload)
<1>1. /\ F[1] = Plain(Magic0) /\ F[2] = Plain(Magic1)
      /\ \A i \in 1..(Wire + 2) : F[i + 2] = Plain(S[i])
      /\ F[Wire + 5] = Check(<<"A">> \o S, 0) /\ F[Wire + 6] = Check(<<"B">> \o S, 0)
      /\ S[1] = P2P /\ S[2] = Wire
      /\ \A i \in 1..Wire : S[i + 2] = payload[i]
  BY LinkBytes
<1>2. /\ Wire \in Nat \ {0} /\ FrameLength = Wire + 6
      /\ MaxByte \in Nat /\ Wire <= MaxByte /\ MaxByte >= 8
  BY SerialAssumption DEF FrameLength, Magic1
<1>3. \A i \in 1..Wire : payload[i] \in 0..MaxByte
  BY SerialAssumption DEF Clean
<1> HIDE DEF S, F
<1>4. \A i \in 1..(Wire + 2) : S[i] \in 0..MaxByte
  <2> SUFFICES ASSUME NEW i \in 1..(Wire + 2) PROVE S[i] \in 0..MaxByte
    OBVIOUS
  <2>1. CASE i \in {1, 2}
    BY <1>1, <1>2, <2>1 DEF P2P
  <2>2. CASE i \notin {1, 2}
    <3>1. i - 2 \in 1..Wire /\ (i - 2) + 2 = i
      BY <1>2, <2>2
    <3> QED
      BY <1>1, <1>3, <3>1
  <2> QED
    BY <2>1, <2>2
<1>5. CASE k \in {1, 2}
  BY <1>1, <1>2, <1>5 DEF Plain, Magic0, Magic1, F
<1>6. CASE k \in {Wire + 5, Wire + 6}
  BY <1>1, <1>2, <1>6 DEF Check, F
<1>7. CASE k \notin {1, 2, Wire + 5, Wire + 6}
  <2>1. k - 2 \in 1..(Wire + 2) /\ (k - 2) + 2 = k
    BY <1>2, <1>7
  <2>2. F[k] = Plain(S[k - 2])
    BY <1>1, <2>1
  <2> QED
    BY <1>4, <2>1, <2>2 DEF Plain, F
<1> QED
  BY <1>5, <1>6, <1>7

(* The parser keeps within the length it has read. *)
LEMMA ParsedIsBounded ==
    ASSUME bus = "SYSLINK", NEW p, IsParser(p), Bounded(p), NEW b, b.v \in 0..MaxByte
    PROVE  Bounded(Parsed(p, b))
<1>1. MaxByte \in Nat /\ b.v \in Nat
  BY SerialAssumption
<1>2. CASE p.at \in {"MAGIC1", "MAGIC2", "TYPE", "CKA", "CKB"}
  BY <1>2 DEF IsParser, Parsed, AfterMagic1, Hunting, Bounded
<1>3. CASE p.at = "LEN"
  <2> DEFINE s == Append(p.sum, b.v)
             q == [p EXCEPT !.len = b.v, !.sum = s, !.at = IF b.v = 0 THEN "CKA" ELSE "DATA"]
  <2>1. Parsed(p, b) = q
    BY <1>3 DEF Parsed, AfterLen
  <2>2. Len(s) = 2
    <3>1. p.sum \in Seq(Nat) /\ p.sum = <<p.type>>
      BY <1>3 DEF IsParser
    <3>2. Len(p.sum) = 1 /\ Len(s) = Len(p.sum) + 1
      BY <3>1
    <3> QED
      BY <3>2
  <2> HIDE DEF s
  <2>3. q.len = b.v /\ q.sum = s /\ (q.at = "DATA" => b.v # 0)
    BY DEF IsParser
  <2> HIDE DEF q
  <2>4. Len(q.sum) = 2 /\ (q.at = "DATA" => q.len \in 1..MaxByte)
    BY <1>1, <2>2, <2>3
  <2>5. q.at = "DATA" => 2 \in 2..(q.len + 1)
    BY <2>4
  <2>6. Bounded(q)
    BY <2>4, <2>5 DEF Bounded
  <2> QED
    BY <2>1, <2>6
<1>4. CASE p.at = "DATA"
  <2> DEFINE s == Append(p.sum, b.v)
             q == [p EXCEPT !.sum = s]
             r == [q EXCEPT !.at = "CKA"]
  <2>0. p.len \in 1..MaxByte /\ Len(p.sum) \in 2..(p.len + 1)
    BY <1>4 DEF Bounded
  <2>1. Len(s) = Len(p.sum) + 1
    BY DEF IsParser
  <2>2. Collected(q) = Len(q.sum) - 2 /\ q.sum = s /\ q.len = p.len /\ r.at = "CKA"
    BY DEF Collected, IsParser
  <2>3. Parsed(p, b) = IF Collected(q) >= p.len THEN r ELSE q
    BY <1>4 DEF Parsed, AfterData
  <2> HIDE DEF q, r, s
  <2>4. Bounded(r)
    BY <2>2 DEF Bounded
  <2>5. ~(Collected(q) >= p.len) => Bounded(q)
    BY <1>1, <2>0, <2>1, <2>2 DEF Bounded
  <2> QED
    BY <2>3, <2>4, <2>5
<1> QED
  BY <1>2, <1>3, <1>4 DEF IsParser

LEMMA LeftIsSmall ==
    ASSUME bus = "SYSLINK", NEW p, IsParser(p), Bounded(p), NEW k \in Nat
    PROVE  Left(p, k) \in Nat /\ Left(p, k) <= MaxByte + 2
           /\ (p.at # "MAGIC1" => Left(p, k) >= 1)
<1>1. MaxByte \in Nat /\ MaxByte >= 8
  BY SerialAssumption DEF Magic1
<1>2. CASE p.at = "DATA"
  <2>1. p.len \in 1..MaxByte /\ Len(p.sum) \in 2..(p.len + 1)
    BY <1>2 DEF Bounded
  <2>2. Left(p, k) = p.len - Len(p.sum) + 4
    BY <1>2 DEF Left
  <2> QED
    BY <1>1, <2>1, <2>2
<1>3. CASE p.at # "DATA"
  <2>1. Left(p, k) \in {0, 1, 2, 8, 9, 10} /\ (p.at # "MAGIC1" => Left(p, k) # 0)
    BY <1>3 DEF IsParser, Left
  <2> QED
    BY <1>1, <2>1
<1> QED
  BY <1>2, <1>3

-----------------------------------------------------------------------------
(* A byte of a frame taken for what it is *)

LEMMA InStepStep ==
    ASSUME bus = "SYSLINK", NEW payload \in Clean,
           NEW p, IsParser(p), NEW k \in 0..(Wire + 4),
           IF k = 0 THEN p.at = "MAGIC1" ELSE InStep(p, payload, k)
    PROVE  InStep(Parsed(p, LinkFrame(payload)[k + 1]), payload, k + 1)
<1> DEFINE S == LinkSum(payload)
           F == LinkFrame(payload)
           q == Parsed(p, F[k + 1])
<1>1. /\ S \in Seq(Nat) /\ Len(S) = Wire + 2 /\ S[1] = P2P /\ S[2] = Wire
      /\ Wire \in Nat \ {0}
      /\ F[1] = Plain(Magic0) /\ F[2] = Plain(Magic1)
      /\ \A i \in 1..(Wire + 2) : F[i + 2] = Plain(S[i])
      /\ F[Wire + 5] = Check(<<"A">> \o S, 0)
  BY LinkBytes, SerialAssumption
<1> HIDE DEF F
<1>2. CASE k = 0
  <2>1. q.at = "MAGIC2"
    BY <1>1, <1>2 DEF Parsed, Plain, IsParser
  <2> HIDE DEF q
  <2>2. k + 1 = 1
    BY <1>2
  <2> QED
    BY <1>1, <2>1, <2>2 DEF InStep, q, F
<1>3. CASE k = 1
  <2>1. q.at = "TYPE"
    BY <1>1, <1>3 DEF InStep, Parsed, AfterMagic1, Hunting, Plain
  <2> HIDE DEF q
  <2>2. k + 1 = 2
    BY <1>3
  <2> QED
    BY <1>1, <2>1, <2>2 DEF InStep, q, F
<1>4. CASE k = 2
  <2>1. F[k + 1] = Plain(P2P)
    BY <1>1, <1>4
  <2>2. q.at = "LEN" /\ q.sum = <<P2P>>
    <3>1. p.at = "TYPE"
      BY <1>4 DEF InStep
    <3>2. q = [p EXCEPT !.type = P2P, !.sum = <<P2P>>, !.at = "LEN"]
      BY <2>1, <3>1 DEF Parsed, Plain
    <3> QED
      BY <3>2 DEF IsParser
  <2> HIDE DEF q
  <2>3. k + 1 = 3
    BY <1>4
  <2> QED
    BY <1>1, <2>2, <2>3 DEF InStep, q, F
<1>5. CASE k = 3
  <2>1. F[k + 1] = Plain(Wire)
    <3>1. 2 \in 1..(Wire + 2) /\ 2 + 2 = k + 1
      BY <1>1, <1>5
    <3> QED
      BY <1>1, <3>1
  <2>a. p.at = "LEN" /\ p.sum = <<P2P>>
    BY <1>5 DEF InStep
  <2>b. q = [p EXCEPT !.len = Wire, !.sum = Append(@, Wire), !.at = "DATA"]
    BY <1>1, <2>1, <2>a DEF Parsed, AfterLen, Plain
  <2>2. q.at = "DATA" /\ q.len = Wire /\ q.sum = Append(<<P2P>>, Wire)
    BY <2>a, <2>b DEF IsParser
  <2>3. SubSeq(S, 1, 2) = Append(<<P2P>>, Wire)
    <3>1. /\ SubSeq(S, 1, 0) = <<>> /\ 0 < Len(S) /\ 0 + 1 = 1 /\ 1 < Len(S) /\ 1 + 1 = 2
          /\ Append(<<>>, P2P) = <<P2P>>
      BY <1>1, SubSeqEmpty DEF P2P
    <3>2. Append(SubSeq(S, 1, 0), S[0 + 1]) = SubSeq(S, 1, 0 + 1)
      BY <1>1, <3>1, SubSeqGrows
    <3>3. Append(SubSeq(S, 1, 1), S[1 + 1]) = SubSeq(S, 1, 1 + 1)
      BY <1>1, <3>1, SubSeqGrows
    <3> HIDE DEF S
    <3> QED
      BY <1>1, <3>1, <3>2, <3>3
  <2> HIDE DEF q, S
  <2>4. k + 1 = 4 /\ (k + 1) - 2 = 2
    BY <1>5
  <2>5. /\ k + 1 # 1 /\ k + 1 # 2 /\ k + 1 # 3 /\ k + 1 # Wire + 4 /\ k + 1 # Wire + 5
    BY <1>1, <2>4
  <2>6. q.sum = SubSeq(S, 1, (k + 1) - 2)
    BY <2>2, <2>3, <2>4
  <2> QED
    BY <2>2, <2>5, <2>6 DEF InStep, q, F, S
<1>6. CASE k \in 4..(Wire + 3)
  <2> DEFINE m == k - 2
  <2>0. m \in Nat /\ m < Len(S) /\ k + 1 = (m + 1) + 2 /\ m + 1 \in 1..(Wire + 2) /\ m >= 2
    BY <1>1, <1>6
  <2>1. F[k + 1] = Plain(S[m + 1])
    BY <1>1, <2>0
  <2>2. p.at = "DATA" /\ p.len = Wire /\ p.sum = SubSeq(S, 1, m)
    BY <1>6 DEF InStep
  <2>3. Append(p.sum, S[m + 1]) = SubSeq(S, 1, m + 1)
    BY <1>1, <2>0, <2>2, SubSeqGrows
  <2>4. Len(SubSeq(S, 1, m + 1)) = m + 1
    BY <1>1, <2>0
  <2> HIDE DEF S, m
  <2> DEFINE r == [p EXCEPT !.sum = SubSeq(S, 1, m + 1)]
  <2>5. q = IF m - 1 >= Wire THEN [r EXCEPT !.at = "CKA"] ELSE r
    <3>1. q = AfterData(p, F[k + 1]) /\ F[k + 1].v = S[m + 1]
      BY <2>1, <2>2 DEF Parsed, Plain
    <3>2. r.len = Wire /\ r.sum = SubSeq(S, 1, m + 1)
      BY <2>2 DEF IsParser
    <3>3. Collected(r) = m - 1
      BY <2>0, <2>4, <3>2 DEF Collected
    <3>4. [p EXCEPT !.sum = Append(@, F[k + 1].v)] = r
      BY <2>3, <3>1 DEF r
    <3> HIDE DEF r
    <3>5. AfterData(p, F[k + 1]) = IF Collected(r) >= p.len THEN [r EXCEPT !.at = "CKA"] ELSE r
      BY <3>4 DEF AfterData
    <3> QED
      BY <2>2, <3>1, <3>3, <3>5
  <2>6. /\ q.sum = SubSeq(S, 1, m + 1) /\ q.len = Wire
        /\ q.at = IF m - 1 >= Wire THEN "CKA" ELSE "DATA"
    BY <2>2, <2>5 DEF IsParser
  <2> HIDE DEF q, r
  <2>7. CASE m - 1 >= Wire
    <3>1. m + 1 = Len(S) /\ k + 1 = Wire + 4
      BY <1>1, <2>0, <2>7
    <3>2. SubSeq(S, 1, Len(S)) = S
      BY <1>1, SubSeqFull
    <3>3. q.at = "CKA" /\ q.len = Wire /\ q.sum = S
      BY <2>6, <2>7, <3>1, <3>2
    <3>4. /\ k + 1 # 1 /\ k + 1 # 2 /\ k + 1 # 3
          /\ k + 1 \notin 4..(Wire + 3) /\ k + 1 # Wire + 5
      BY <1>1, <3>1
    <3> QED
      BY <3>1, <3>3, <3>4 DEF InStep, q, F, S
  <2>8. CASE ~(m - 1 >= Wire)
    <3>1. k + 1 \in 4..(Wire + 3) /\ (k + 1) - 2 = m + 1
      BY <1>1, <2>0, <2>8
    <3>3. q.at = "DATA" /\ q.len = Wire /\ q.sum = SubSeq(S, 1, (k + 1) - 2)
      BY <2>6, <2>8, <3>1
    <3>4. /\ k + 1 # 1 /\ k + 1 # 2 /\ k + 1 # 3 /\ k + 1 # Wire + 4 /\ k + 1 # Wire + 5
      <4> DEFINE i == k + 1
      <4>1. i \in 4..(Wire + 3) /\ Wire \in Nat
        BY <1>1, <3>1
      <4> HIDE DEF i
      <4>2. i # 1 /\ i # 2 /\ i # 3 /\ i # Wire + 4 /\ i # Wire + 5
        BY <4>1
      <4> QED
        BY <4>2 DEF i
    <3> QED
      BY <3>3, <3>4 DEF InStep, q, F, S
  <2> QED
    BY <2>7, <2>8
<1>7. CASE k = Wire + 4
  <2>1. F[k + 1] = Check(<<"A">> \o S, 0)
    <3>1. k + 1 = Wire + 5
      BY <1>1, <1>7
    <3> QED
      BY <1>1, <3>1
  <2>2. p.at = "CKA" /\ p.len = Wire /\ p.sum = S
    <3>1. k # 0
      BY <1>1, <1>7
    <3> QED
      BY <1>7, <3>1 DEF InStep
  <2> HIDE DEF S
  <2>3. q.at = "CKB" /\ q.len = Wire /\ q.sum = S /\ q.cka = <<"A">> \o S
    <3>1. q = [p EXCEPT !.cka = F[k + 1].of, !.at = "CKB"]
      BY <2>2 DEF Parsed
    <3>2. F[k + 1].of = <<"A">> \o S
      BY <2>1 DEF Check
    <3> QED
      BY <2>2, <3>1, <3>2 DEF IsParser
  <2> HIDE DEF q
  <2>4. k + 1 = Wire + 5
    BY <1>1, <1>7
  <2>5. /\ k + 1 # 1 /\ k + 1 # 2 /\ k + 1 # 3
        /\ k + 1 \notin 4..(Wire + 3) /\ k + 1 # Wire + 4
    BY <1>1, <1>7
  <2> QED
    BY <2>3, <2>4, <2>5 DEF InStep, q, F, S
<1>8. k \in {0, 1, 2, 3, Wire + 4} \cup 4..(Wire + 3)
  BY <1>1
<1> QED
  BY <1>2, <1>3, <1>4, <1>5, <1>6, <1>7, <1>8

LEMMA LastInStepIsHeard ==
    ASSUME bus = "SYSLINK", NEW payload \in Clean,
           NEW p, IsParser(p), InStep(p, payload, Wire + 5)
    PROVE  LET b == LinkFrame(payload)[FrameLength]
           IN Complete(p, b) /\ Gossip(p) /\ Parsed(p, b) = Hunting
<1> DEFINE S == LinkSum(payload)
           F == LinkFrame(payload)
<1>1. /\ S[1] = P2P /\ S[2] = Wire /\ Wire \in Nat
      /\ F[Wire + 6] = Check(<<"B">> \o S, 0)
  BY LinkBytes, SerialAssumption
<1>2. p.at = "CKB" /\ p.len = Wire /\ p.sum = S /\ p.cka = <<"A">> \o S
  <2>1. Wire + 5 \notin {1, 2, 3}
    BY <1>1
  <2> QED
    BY <2>1 DEF InStep
<1> HIDE DEF S, F
<1>3. p.type = P2P
  BY <1>1, <1>2 DEF IsParser
<1>4. F[FrameLength] = Check(<<"B">> \o S, 0)
  BY <1>1 DEF FrameLength
<1>5. Gossip(p)
  BY <1>1, <1>2, <1>3 DEF Gossip
<1> QED
  BY <1>2, <1>4, <1>5 DEF Complete, Parsed, Check, F

(* A byte of a frame taken for another: a parser that hunts at its start   *)
(* is in step, and any other is a byte nearer to hunting, or will be when  *)
(* the frame ends.                                                         *)
LEMMA DataGoesOn ==
    ASSUME bus = "SYSLINK", NEW p, IsParser(p), Bounded(p), p.at = "DATA",
           NEW b, b.v \in Nat, NEW j \in Nat, NEW k \in Nat
    PROVE  LET q == Parsed(p, b)
           IN q.at \in {"DATA", "CKA"} /\ Left(q, k) <= Left(p, j) - 1
<1> DEFINE s == Append(p.sum, b.v)
           q == [p EXCEPT !.sum = s]
           r == [q EXCEPT !.at = "CKA"]
<1>1. p.len \in Nat /\ Len(p.sum) \in 2..(p.len + 1)
  BY SerialAssumption DEF Bounded
<1>2. Len(s) = Len(p.sum) + 1
  BY DEF IsParser
<1>3. /\ Collected(q) = Len(q.sum) - 2 /\ q.sum = s /\ q.len = p.len
      /\ q.at = "DATA" /\ r.at = "CKA"
  BY DEF Collected, IsParser
<1>4. Parsed(p, b) = IF Collected(q) >= p.len THEN r ELSE q
  BY DEF Parsed, AfterData
<1> HIDE DEF q, r, s
<1>5. /\ Left(p, j) = p.len - Len(p.sum) + 4
      /\ Left(q, k) = q.len - Len(q.sum) + 4
      /\ Left(r, k) = 2
  BY <1>3 DEF Left
<1>a. Len(q.sum) = Len(p.sum) + 1 /\ q.len = p.len
  BY <1>2, <1>3
<1>6. Left(q, k) <= Left(p, j) - 1 /\ Left(r, k) <= Left(p, j) - 1
  <2> DEFINE n == Len(p.sum)
             l == p.len
  <2>1. n \in 2..(l + 1) /\ l \in Nat
    BY <1>1
  <2>2. Left(p, j) = l - n + 4 /\ Left(q, k) = l - (n + 1) + 4 /\ Left(r, k) = 2
    BY <1>5, <1>a
  <2> HIDE DEF n, l
  <2> QED
    BY <2>1, <2>2
<1> QED
  BY <1>3, <1>4, <1>6

LEMMA FirstAstray ==
    ASSUME bus = "SYSLINK", NEW payload \in Clean,
           NEW p, IsParser(p), Bounded(p), p.at # "MAGIC1"
    PROVE  LET q == Parsed(p, LinkFrame(payload)[1])
           IN Astray(q, payload, 1) /\ Left(q, 1) <= Left(p, 0) - 1
<1> DEFINE q == Parsed(p, LinkFrame(payload)[1])
<1>1. LinkFrame(payload)[1] = Plain(Magic0) /\ Plain(Magic0).v = 5
  BY LinkBytes DEF Plain, Magic0
<1>2. q = Parsed(p, Plain(Magic0))
  BY <1>1
<1> HIDE DEF q
<1>3. CASE p.at = "MAGIC2"
  <2>1. q = Hunting
    BY <1>1, <1>2, <1>3 DEF Parsed, AfterMagic1, Magic1
  <2> QED
    BY <1>3, <2>1 DEF Astray, Left, Hunting, q
<1>4. CASE p.at = "TYPE"
  <2>1. q.at = "LEN"
    BY <1>2, <1>4 DEF Parsed, IsParser
  <2>2. Left(q, 1) = 9 /\ Left(p, 0) = 10
    BY <1>4, <2>1 DEF Left
  <2> QED
    BY <2>1, <2>2 DEF Astray, q
<1>5. CASE p.at = "LEN"
  <2> DEFINE s == Append(p.sum, 5)
  <2>1. q = [p EXCEPT !.len = 5, !.sum = s, !.at = "DATA"]
    BY <1>1, <1>2, <1>5 DEF Parsed, AfterLen
  <2>2. Len(s) = 2
    <3>1. p.sum \in Seq(Nat) /\ p.sum = <<p.type>>
      BY <1>5 DEF IsParser
    <3>2. Len(p.sum) = 1 /\ Len(s) = Len(p.sum) + 1
      BY <3>1
    <3> QED
      BY <3>2
  <2> HIDE DEF s
  <2>3. q.at = "DATA" /\ q.len = 5 /\ q.sum = s
    BY <2>1 DEF IsParser
  <2> HIDE DEF q
  <2>4. Left(q, 1) = q.len - Len(q.sum) + 4
    BY <2>3 DEF Left
  <2>5. Left(p, 0) = 8
    BY <1>5 DEF Left
  <2>6. Len(q.sum) = 2 /\ q.len = 5
    BY <2>2, <2>3
  <2>7. Left(q, 1) <= Left(p, 0) - 1
    BY <2>4, <2>5, <2>6
  <2>8. Astray(q, payload, 1)
    BY <2>3 DEF Astray
  <2> QED
    BY <2>7, <2>8 DEF q
<1>6. CASE p.at = "DATA"
  <2>1. /\ q.at \in {"DATA", "CKA"}
        /\ Left(q, 1) <= Left(p, 0) - 1
    <3>1. Plain(Magic0).v \in Nat
      BY <1>1
    <3> QED
      BY <1>2, <1>6, <3>1, DataGoesOn
  <2> QED
    BY <2>1 DEF Astray, q
<1>7. CASE p.at = "CKA"
  <2>1. q.at = "CKB"
    BY <1>2, <1>7 DEF Parsed, IsParser
  <2>2. Left(q, 1) = 1 /\ Left(p, 0) = 2
    BY <1>7, <2>1 DEF Left
  <2> QED
    BY <2>1, <2>2 DEF Astray, q
<1>8. CASE p.at = "CKB"
  <2>1. q = Hunting
    BY <1>2, <1>8 DEF Parsed
  <2> QED
    BY <1>8, <2>1 DEF Astray, Left, Hunting, q
<1> QED
  BY <1>3, <1>4, <1>5, <1>6, <1>7, <1>8 DEF IsParser

LEMMA NextAstray ==
    ASSUME bus = "SYSLINK", NEW payload \in Clean,
           NEW p, IsParser(p), Bounded(p), NEW k \in 1..(FrameLength - 1),
           Astray(p, payload, k)
    PROVE  LET q == Parsed(p, LinkFrame(payload)[k + 1])
           IN /\ Astray(q, payload, k + 1)
              /\ \/ Left(q, k + 1) <= Left(p, k) - 1
                 \/ Left(q, k + 1) <= FrameLength - (k + 1)
<1> DEFINE b == LinkFrame(payload)[k + 1]
           q == Parsed(p, b)
<1>1. /\ FrameLength \in Nat /\ k + 1 \in 1..FrameLength /\ FrameLength - (k + 1) \in Nat
      /\ b.v \in Nat /\ k + 1 # 1
  <2>1. FrameLength \in Nat
    BY ReachOfPhantom
  <2>2. k + 1 \in 1..FrameLength /\ FrameLength - (k + 1) \in Nat /\ k + 1 # 1
    BY <2>1
  <2>3. b.v \in 0..MaxByte
    BY <2>2, LinkBytesSmall
  <2>4. MaxByte \in Nat
    BY SerialAssumption
  <2> HIDE DEF b
  <2> QED
    BY <2>1, <2>2, <2>3, <2>4
<1> HIDE DEF b
<1>2. CASE p.at = "MAGIC1"
  <2>1. CASE b.v = Magic0
    <3>1. q.at = "MAGIC2"
      BY <1>2, <2>1 DEF Parsed, IsParser
    <3>2. k + 1 >= 3 /\ k + 1 # FrameLength
      <4>1. k + 1 # 2
        BY <2>1, LinkBytes DEF b, Plain, Magic0, Magic1
      <4>2. k + 1 # FrameLength
        BY <2>1, NoPreamble DEF b
      <4> QED
        BY <1>1, <4>1, <4>2
    <3>3. Left(q, k + 1) = 1
      BY <3>1 DEF Left
    <3>4. Left(q, k + 1) <= FrameLength - (k + 1)
      BY <1>1, <3>2, <3>3
    <3> HIDE DEF q
    <3>5. Astray(q, payload, k + 1)
      BY <2>1, <3>1, <3>2 DEF Astray, b
    <3> QED
      BY <3>4, <3>5 DEF q, b
  <2>2. CASE b.v # Magic0
    <3>1. q.at = "MAGIC1"
      BY <1>2, <2>2 DEF Parsed
    <3> HIDE DEF q
    <3>2. Left(q, k + 1) = 0 /\ Astray(q, payload, k + 1)
      BY <3>1 DEF Left, Astray
    <3> QED
      BY <1>1, <3>2 DEF q, b
  <2> QED
    BY <2>1, <2>2
<1>3. CASE p.at = "MAGIC2"
  <2>1. b.v # Magic1
    BY <1>3, NoPreamble DEF Astray, b
  <2>2. q.at = "MAGIC1"
    BY <1>3, <2>1 DEF Parsed, AfterMagic1, Hunting
  <2> HIDE DEF q
  <2>3. Left(q, k + 1) = 0 /\ Astray(q, payload, k + 1)
    BY <2>2 DEF Left, Astray
  <2> QED
    BY <1>1, <2>3 DEF q, b
<1>4. CASE p.at = "LEN"
  <2>1. k = 1 /\ k + 1 = 2
    BY <1>4 DEF Astray
  <2>2. b.v = 6
    BY <2>1, LinkBytes DEF b, Plain, Magic1
  <2> DEFINE s == Append(p.sum, 6)
  <2>3. q = [p EXCEPT !.len = 6, !.sum = s, !.at = "DATA"]
    BY <1>4, <2>2 DEF Parsed, AfterLen
  <2>4. Len(s) = 2
    <3>1. p.sum \in Seq(Nat) /\ p.sum = <<p.type>>
      BY <1>4 DEF IsParser
    <3>2. Len(p.sum) = 1 /\ Len(s) = Len(p.sum) + 1
      BY <3>1
    <3> QED
      BY <3>2
  <2> HIDE DEF s
  <2>5. q.at = "DATA" /\ q.len = 6 /\ q.sum = s
    BY <2>3 DEF IsParser
  <2> HIDE DEF q
  <2>6. Left(q, k + 1) = q.len - Len(q.sum) + 4
    BY <2>5 DEF Left
  <2>7. Left(p, k) = 9
    BY <1>4, <2>1 DEF Left
  <2>a. Len(q.sum) = 2 /\ q.len = 6
    BY <2>4, <2>5
  <2>8. Left(q, k + 1) <= Left(p, k) - 1
    BY <2>6, <2>7, <2>a
  <2>9. Astray(q, payload, k + 1)
    BY <2>5 DEF Astray
  <2> QED
    BY <2>8, <2>9 DEF q, b
<1>5. CASE p.at = "DATA"
  <2>1. q.at \in {"DATA", "CKA"} /\ Left(q, k + 1) <= Left(p, k) - 1
    BY <1>1, <1>5, DataGoesOn
  <2> HIDE DEF q
  <2>2. Astray(q, payload, k + 1)
    BY <2>1 DEF Astray
  <2> QED
    BY <2>1, <2>2 DEF q, b
<1>6. CASE p.at = "CKA"
  <2>1. q.at = "CKB"
    BY <1>6 DEF Parsed, IsParser
  <2> HIDE DEF q
  <2>2. Left(q, k + 1) = 1 /\ Left(p, k) = 2 /\ Astray(q, payload, k + 1)
    BY <1>6, <2>1 DEF Left, Astray
  <2> QED
    BY <2>2 DEF q, b
<1>7. CASE p.at = "CKB"
  <2>1. q.at = "MAGIC1"
    BY <1>7 DEF Parsed, Hunting
  <2> HIDE DEF q
  <2>2. Left(q, k + 1) = 0 /\ Left(p, k) = 1 /\ Astray(q, payload, k + 1)
    BY <1>7, <2>1 DEF Left, Astray
  <2> QED
    BY <2>2 DEF q, b
<1>8. p.at # "TYPE"
  BY DEF Astray
<1> QED
  BY <1>2, <1>3, <1>4, <1>5, <1>6, <1>7, <1>8 DEF IsParser

(* The next byte of a frame on the link. *)
LEMMA NextLinkByte ==
    ASSUME bus = "SYSLINK", NEW payload \in Clean, NEW k \in 0..(FrameLength - 1),
           wire = SubSeq(LinkFrame(payload), k + 1, FrameLength)
    PROVE  /\ wire # <<>> /\ Head(wire) = LinkFrame(payload)[k + 1]
           /\ Tail(wire) = SubSeq(LinkFrame(payload), k + 2, FrameLength)
           /\ Tail(wire) = <<>> <=> k + 1 = FrameLength
           /\ Head(wire).v \in 0..MaxByte
<1>1. IsBus /\ payload \in AllPayloads /\ payload # OwnPayload /\ k \in Nat
  BY SerialAssumption, ReachOfPhantom DEF IsBus, AllPayloads, Clean
<1>2. /\ LinkFrame(payload) = Framed(bus, payload, 0)
      /\ Len(LinkFrame(payload)) = FrameLength /\ FrameLength \in Nat
  BY LinkBytes, ReachOfPhantom DEF LinkFrame
<1>3. Midway(payload, 0, k)
  <2>1. k < FrameLength
    BY <1>2
  <2> QED
    BY <1>1, <1>2, <2>1 DEF Midway
<1>4. /\ wire # <<>> /\ Head(wire) = LinkFrame(payload)[k + 1]
      /\ Tail(wire) = SubSeq(LinkFrame(payload), k + 2, FrameLength)
      /\ Tail(wire) = <<>> <=> k + 1 = FrameLength
  <2> DEFINE F == Framed(bus, payload, 0)
  <2>1. /\ wire # <<>> /\ Head(wire) = F[k + 1]
        /\ Tail(wire) = SubSeq(F, k + 2, Len(F))
        /\ Tail(wire) = <<>> <=> k + 1 = Len(F)
    <3>1. 0 \in Nat
      OBVIOUS
    <3> QED
      BY <1>1, <1>3, <3>1, NextByte
  <2>2. LinkFrame(payload) = F /\ Len(F) = FrameLength
    BY <1>2
  <2> HIDE DEF F
  <2> QED
    BY <2>1, <2>2
<1>5. k + 1 \in 1..FrameLength
  BY <1>2
<1> QED
  BY <1>4, <1>5, LinkBytesSmall

(* The byte after k bytes of a whole frame. *)
LEMMA WholeGoesOn ==
    ASSUME bus = "SYSLINK", IsParser(parser), Bounded(parser), missed \in Nat, faults \in Nat,
           NEW payload \in Clean, NEW k \in 0..(FrameLength - 1), Whole(payload, k)
    PROVE  LET b == LinkFrame(payload)[k + 1]
               q == Parsed(parser, b)
           IN \/ k + 1 # FrameLength /\ InStep(q, payload, k + 1)
              \/ k + 1 = FrameLength /\ Complete(parser, b) /\ Gossip(parser) /\ q = Hunting
              \/ /\ Astray(q, payload, k + 1)
                 /\ Owed(faults, missed + 1, Left(q, k + 1) - (FrameLength - (k + 1)))
<1> DEFINE b == LinkFrame(payload)[k + 1]
           q == Parsed(parser, b)
<1>1. FrameLength \in Nat /\ FrameLength = Wire + 6 /\ FrameLength >= 7 /\ Wire \in Nat
  BY ReachOfPhantom, SerialAssumption DEF FrameLength
<1>2. IsParser(q) /\ Bounded(q)
  <2>1. k + 1 \in 1..FrameLength
    BY <1>1
  <2>2. b.v \in 0..MaxByte /\ MaxByte \in Nat
    BY <2>1, LinkBytesSmall, SerialAssumption
  <2> HIDE DEF b
  <2>3. b.v \in Nat
    BY <2>2
  <2> QED
    BY <2>2, <2>3, ParsedIsParser, ParsedIsBounded DEF IsBus
<1>3. Left(q, k + 1) \in Int /\ Left(parser, k) \in Int /\ Left(parser, 0) \in Int
  <2>1. k \in Nat /\ k + 1 \in Nat
    BY <1>1
  <2> HIDE DEF q
  <2> QED
    BY <1>2, <2>1, LeftIsSmall
<1>4. ASSUME IF k = 0 THEN parser.at = "MAGIC1" ELSE InStep(parser, payload, k)
      PROVE  \/ k + 1 # FrameLength /\ InStep(q, payload, k + 1)
             \/ k + 1 = FrameLength /\ Complete(parser, b) /\ Gossip(parser) /\ q = Hunting
  <2>1. CASE k + 1 # FrameLength
    <3>1. k \in 0..(Wire + 4)
      BY <1>1, <2>1
    <3>2. InStep(q, payload, k + 1)
      BY <1>4, <3>1, InStepStep
    <3> QED
      BY <2>1, <3>2
  <2>2. CASE k + 1 = FrameLength
    <3>1. k = Wire + 5 /\ k # 0
      BY <1>1, <2>2
    <3>2. Complete(parser, b) /\ Gossip(parser) /\ q = Hunting
      BY <1>4, <2>2, <3>1, LastInStepIsHeard
    <3> QED
      BY <2>2, <3>2
  <2> QED
    BY <2>1, <2>2
<1>5. ASSUME k = 0, parser.at # "MAGIC1"
      PROVE  /\ Astray(q, payload, k + 1)
             /\ Owed(faults, missed + 1, Left(q, k + 1) - (FrameLength - (k + 1)))
  <2>1. Astray(q, payload, k + 1) /\ Left(q, k + 1) <= Left(parser, 0) - 1
    <3>1. k + 1 = 1
      BY <1>5
    <3> QED
      BY <1>5, <3>1, FirstAstray
  <2>2. Owed(faults, missed, Left(parser, 0)) /\ Left(parser, 0) >= 1
    BY <1>5, LeftIsSmall DEF Whole
  <2>3. Owed(faults, missed + 1, Left(parser, 0) - FrameLength)
    BY <1>3, <2>2, OwedPays
  <2> HIDE DEF q
  <2> DEFINE x == Left(parser, 0) - FrameLength
             y == Left(q, k + 1) - (FrameLength - (k + 1))
  <2>4. x \in Int /\ y \in Int /\ y <= x /\ missed + 1 \in Nat
    BY <1>1, <1>3, <1>5, <2>1
  <2> HIDE DEF x, y
  <2>5. Owed(faults, missed + 1, x)
    BY <2>3 DEF x
  <2>6. Owed(faults, missed + 1, y)
    BY <2>4, <2>5, OwedLess
  <2> QED
    BY <2>1, <2>6 DEF y
<1>6. ASSUME k # 0, Astray(parser, payload, k),
             Owed(faults, missed + 1, Left(parser, k) - (FrameLength - k))
      PROVE  /\ Astray(q, payload, k + 1)
             /\ Owed(faults, missed + 1, Left(q, k + 1) - (FrameLength - (k + 1)))
  <2>1. k \in 1..(FrameLength - 1)
    BY <1>1, <1>6
  <2>2. /\ Astray(q, payload, k + 1)
        /\ \/ Left(q, k + 1) <= Left(parser, k) - 1
           \/ Left(q, k + 1) <= FrameLength - (k + 1)
    BY <1>6, <2>1, NextAstray
  <2> HIDE DEF q
  <2> DEFINE x == Left(parser, k) - (FrameLength - k)
             y == Left(q, k + 1) - (FrameLength - (k + 1))
  <2>3. x \in Int /\ y \in Int /\ (y <= x \/ y <= 0) /\ missed + 1 \in Nat
    BY <1>1, <1>3, <2>1, <2>2
  <2> HIDE DEF x, y
  <2>4. Owed(faults, missed + 1, x)
    BY <1>6 DEF x
  <2>5. Owed(faults, missed + 1, 0)
    <3>1. PICK n \in Nat : missed + 1 + n <= Reach * faults
      BY <2>4 DEF Owed
    <3>2. 0 <= n * FrameLength
      BY <1>1
    <3> QED
      BY <3>1, <3>2 DEF Owed
  <2>6. Owed(faults, missed + 1, y)
    BY <2>3, <2>4, <2>5, OwedLess
  <2> QED
    BY <2>2, <2>6 DEF y
<1> HIDE DEF q, b
<1>7. CASE k = 0
  BY <1>4, <1>5, <1>7 DEF q, b
<1>8. CASE k # 0
  BY <1>4, <1>6, <1>8 DEF Whole, q, b
<1> QED
  BY <1>7, <1>8

LEMMA LinkByteKeeps ==
    ASSUME SerialInv, LinkInv, bus = "SYSLINK", Byte
    PROVE  LinkInv'
<1>1. PICK payload \in Clean, k \in 0..(FrameLength - 1) : Under(payload, k)
  BY DEF LinkInv, Byte
<1> DEFINE F == LinkFrame(payload)
           b == F[k + 1]
           q == Parsed(parser, b)
<1>2. /\ wire # <<>> /\ Head(wire) = b /\ b.v \in 0..MaxByte
      /\ Tail(wire) = SubSeq(F, k + 2, FrameLength)
      /\ Tail(wire) = <<>> <=> k + 1 = FrameLength
  BY <1>1, NextLinkByte DEF Under
<1>3. FrameLength \in Nat /\ FrameLength >= 7 /\ k \in Nat /\ k + 1 \in Nat
  BY ReachOfPhantom
<1>4. /\ IsParser(parser) /\ missed \in Nat /\ faults \in Nat /\ Bounded(parser)
      /\ missed <= Reach * faults
  BY DEF SerialInv, LinkInv
<1>5. IsParser(q) /\ Bounded(q)
  <2>1. b.v \in Nat
    BY <1>2, SerialAssumption
  <2> HIDE DEF b
  <2> QED
    BY <1>2, <1>4, <2>1, ParsedIsParser, ParsedIsBounded DEF IsBus
<1> HIDE DEF F, b, q
<1>6. Left(q, k + 1) \in Int /\ Left(q, 0) \in Int /\ Left(q, 0) <= MaxByte + 2
  BY <1>3, <1>5, LeftIsSmall
<1>7. /\ parser' = q /\ wire' = Tail(wire) /\ passing' = passing /\ faults' = faults
      /\ bus' = "SYSLINK"
      /\ missed' = IF Tail(wire) # <<>> \/ ~passing.whole THEN missed
                    ELSE IF fate' = "PASSING" THEN missed + 1 ELSE 0
      /\ Complete(parser, b) /\ Gossip(parser) => fate' # "PASSING"
  BY <1>2 DEF Byte, Arrives, Resynced, b, q
<1>8. CASE ~passing.whole
  <2>1. missed' = missed /\ missed + Reach <= Reach * faults
    BY <1>1, <1>7, <1>8 DEF Under
  <2>2. Owed(faults, missed, Left(q, 0))
    BY <1>4, <1>6, <2>1, GlitchPays
  <2>3. ASSUME wire' # <<>> PROVE k + 1 \in 0..(FrameLength - 1) /\ Under(payload, k + 1)'
    <3>1. k + 1 \in 0..(FrameLength - 1) /\ (k + 1) + 1 = k + 2
      BY <1>2, <1>3, <1>7, <2>3
    <3>2. wire' = SubSeq(LinkFrame(payload), (k + 1) + 1, FrameLength)
      BY <1>2, <1>7, <3>1 DEF F
    <3> QED
      BY <1>7, <1>8, <2>1, <3>1, <3>2 DEF Under
  <2>4. wire' # <<>> => \E r \in Clean, j \in 0..(FrameLength - 1) : Under(r, j)'
    BY <2>3
  <2> QED
    BY <1>4, <1>5, <1>7, <2>1, <2>2, <2>4 DEF LinkInv, Clean
<1>9. CASE passing.whole
  <2>1. Whole(payload, k)
    BY <1>1, <1>9 DEF Under
  <2>2. \/ k + 1 # FrameLength /\ InStep(q, payload, k + 1)
        \/ k + 1 = FrameLength /\ Complete(parser, b) /\ Gossip(parser) /\ q = Hunting
        \/ /\ Astray(q, payload, k + 1)
           /\ Owed(faults, missed + 1, Left(q, k + 1) - (FrameLength - (k + 1)))
    BY <1>4, <2>1, WholeGoesOn DEF F, b, q
  <2>3. CASE k + 1 # FrameLength
    <3>1. k + 1 \in 0..(FrameLength - 1) /\ (k + 1) + 1 = k + 2 /\ k + 1 # 0
      BY <1>3, <2>3
    <3>2. wire' = SubSeq(LinkFrame(payload), (k + 1) + 1, FrameLength) /\ missed' = missed
      BY <1>2, <1>7, <2>3, <3>1 DEF F
    <3>3. Whole(payload, k + 1)'
      BY <1>4, <1>7, <2>2, <2>3, <3>1, <3>2 DEF Whole
    <3>4. Under(payload, k + 1)'
      BY <1>7, <1>9, <3>2, <3>3 DEF Under
    <3>5. \E r \in Clean, j \in 0..(FrameLength - 1) : Under(r, j)'
      BY <3>1, <3>4
    <3>6. wire' # <<>>
      BY <1>2, <1>7, <2>3
    <3> QED
      BY <1>4, <1>5, <1>7, <3>2, <3>5, <3>6 DEF LinkInv, Clean
  <2>4. CASE k + 1 = FrameLength
    <3>1. wire' = <<>>
      BY <1>2, <1>7, <2>4
    <3>2. /\ missed' \in Nat /\ missed' <= Reach * faults
          /\ Owed(faults, missed', Left(q, 0))
      <4>0. Reach * faults \in Nat
        BY <1>4, ReachOfPhantom
      <4>1. CASE Complete(parser, b) /\ Gossip(parser) /\ q = Hunting
        <5>1. missed' = 0
          BY <1>2, <1>7, <1>9, <2>4, <4>1
        <5>2. Left(q, 0) = 0
          BY <4>1 DEF Left, Hunting
        <5>3. 0 <= 0 * FrameLength /\ 0 + 0 <= Reach * faults
          BY <1>3, <4>0
        <5>4. Owed(faults, 0, 0)
          BY <5>3 DEF Owed
        <5> QED
          BY <4>0, <5>1, <5>2, <5>4
      <4>2. CASE Astray(q, payload, k + 1)
                 /\ Owed(faults, missed + 1, Left(q, k + 1) - (FrameLength - (k + 1)))
        <5>1. k + 1 # 1 /\ Left(q, k + 1) - (FrameLength - (k + 1)) = Left(q, k + 1)
          BY <1>3, <1>6, <2>4
        <5>2. Left(q, k + 1) = Left(q, 0)
          BY <5>1 DEF Left
        <5>3. PICK n \in Nat : missed + 1 + n <= Reach * faults /\ Left(q, 0) <= n * FrameLength
          BY <4>2, <5>1, <5>2 DEF Owed
        <5>4. missed' \in {0, missed + 1}
          BY <1>2, <1>7, <1>9, <2>4
        <5>5. missed' \in Nat /\ missed' + n <= Reach * faults /\ missed' <= Reach * faults
          BY <1>4, <4>0, <5>3, <5>4
        <5> QED
          BY <5>3, <5>5 DEF Owed
      <4> QED
        BY <2>2, <2>4, <4>1, <4>2
    <3> QED
      BY <1>4, <1>5, <1>7, <3>1, <3>2 DEF LinkInv, Clean
  <2> QED
    BY <2>3, <2>4
<1> QED
  BY <1>8, <1>9

LEMMA LinkDamagedKeeps ==
    ASSUME SerialInv, LinkInv, bus = "SYSLINK", Damaged
    PROVE  LinkInv'
<1>1. PICK payload \in Clean, k \in 0..(FrameLength - 1) : Under(payload, k)
  BY DEF LinkInv, Damaged
<1>2. PICK v \in 0..MaxByte : Arrives(Plain(v))
  BY DEF Damaged
<1> DEFINE F == LinkFrame(payload)
           q == Parsed(parser, Plain(v))
<1>3. /\ wire # <<>>
      /\ Tail(wire) = SubSeq(F, k + 2, FrameLength)
      /\ Tail(wire) = <<>> <=> k + 1 = FrameLength
  BY <1>1, NextLinkByte DEF Under
<1>4. FrameLength \in Nat /\ FrameLength >= 7 /\ k \in Nat /\ k + 1 \in Nat
  BY ReachOfPhantom
<1>5. /\ IsParser(parser) /\ missed \in Nat /\ faults \in Nat /\ Bounded(parser)
      /\ missed <= Reach * faults
  BY DEF SerialInv, LinkInv
<1>6. IsParser(q) /\ Bounded(q)
  <2>1. Plain(v).v \in 0..MaxByte /\ Plain(v).v \in Nat
    BY SerialAssumption DEF Plain
  <2> QED
    BY <1>5, <2>1, ParsedIsParser, ParsedIsBounded DEF IsBus
<1> HIDE DEF F, q
<1>7. Left(q, 0) \in Int /\ Left(q, 0) <= MaxByte + 2
  BY <1>6, LeftIsSmall
<1>8. /\ parser' = q /\ wire' = Tail(wire) /\ ~passing'.whole /\ faults' = faults + 1
      /\ bus' = "SYSLINK" /\ missed' = missed
  BY <1>2 DEF Damaged, Arrives, Resynced, q
<1>9. faults' \in Nat /\ missed + Reach <= Reach * faults'
  BY <1>5, <1>8, AnotherGlitch
<1>10. missed <= Reach * faults'
  <2>1. Reach \in Nat /\ Reach * faults' \in Int
    BY <1>9, ReachOfPhantom
  <2>2. \A w \in Int : missed + Reach <= w => missed <= w
    BY <1>5, <2>1
  <2> QED
    BY <1>9, <2>1, <2>2
<1>11. Owed(faults', missed, Left(q, 0))
  BY <1>5, <1>7, <1>9, GlitchPays
<1>12. ASSUME wire' # <<>> PROVE k + 1 \in 0..(FrameLength - 1) /\ Under(payload, k + 1)'
  <2>1. k + 1 \in 0..(FrameLength - 1) /\ (k + 1) + 1 = k + 2
    BY <1>3, <1>4, <1>8, <1>12
  <2>2. wire' = SubSeq(LinkFrame(payload), (k + 1) + 1, FrameLength)
    BY <1>3, <1>8, <2>1 DEF F
  <2> QED
    BY <1>8, <1>9, <2>1, <2>2 DEF Under
<1>13. wire' # <<>> => \E r \in Clean, j \in 0..(FrameLength - 1) : Under(r, j)'
  BY <1>12
<1> QED
  BY <1>5, <1>6, <1>8, <1>9, <1>10, <1>11, <1>13 DEF LinkInv, Clean

LEMMA LinkCutKeeps ==
    ASSUME SerialInv, LinkInv, bus = "SYSLINK", CutShort
    PROVE  LinkInv'
<1>1. /\ IsParser(parser) /\ missed \in Nat /\ faults \in Nat /\ Bounded(parser)
      /\ missed <= Reach * faults
  BY DEF SerialInv, LinkInv
<1>2. /\ wire' = <<>> /\ faults' = faults + 1 /\ parser' = parser /\ missed' = missed
      /\ bus' = bus
  BY DEF CutShort
<1>3. Left(parser, 0) \in Int /\ Left(parser, 0) <= MaxByte + 2
  BY <1>1, LeftIsSmall
<1>4. faults' \in Nat /\ missed + Reach <= Reach * faults'
  BY <1>1, <1>2, AnotherGlitch
<1>5. missed <= Reach * faults'
  <2>1. Reach \in Nat /\ Reach * faults' \in Int
    BY <1>4, ReachOfPhantom
  <2>2. \A w \in Int : missed + Reach <= w => missed <= w
    BY <1>1, <2>1
  <2> QED
    BY <1>4, <2>1, <2>2
<1>6. Owed(faults', missed, Left(parser, 0))
  BY <1>1, <1>3, <1>4, GlitchPays
<1> QED
  BY <1>1, <1>2, <1>4, <1>5, <1>6 DEF LinkInv

LEMMA LinkPeerKeeps ==
    ASSUME SerialInv, LinkInv, bus = "SYSLINK", NEW payload \in Payloads, PeerSends(payload)
    PROVE  LinkInv'
<1>1. payload \in Clean /\ wire' = LinkFrame(payload) /\ passing'.whole /\ wire = <<>>
  BY DEF PeerSends, Passing, Clean, LinkFrame
<1>2. /\ bus' = bus /\ parser' = parser /\ missed' = missed /\ faults' = faults
  BY DEF PeerSends, Passing
<1>3. LinkFrame(payload) = SubSeq(LinkFrame(payload), 0 + 1, FrameLength)
      /\ FrameLength \in Nat /\ FrameLength >= 7
  <2> DEFINE F == LinkFrame(payload)
  <2>1. F \in Seq(Items) /\ Len(F) = FrameLength /\ FrameLength \in Nat /\ FrameLength >= 7
    BY <1>1, LinkBytes, ReachOfPhantom
  <2> HIDE DEF F
  <2>2. SubSeq(F, 0 + 1, FrameLength) = F
    BY <2>1, SubSeqFull
  <2> QED
    BY <2>1, <2>2 DEF F
<1>4. missed <= Reach * faults /\ Owed(faults, missed, Left(parser, 0))
  BY <1>1 DEF LinkInv
<1>5. Whole(payload, 0)'
  BY <1>2, <1>4 DEF Whole
<1>6. Under(payload, 0)'
  BY <1>1, <1>3, <1>5 DEF Under
<1>7. 0 \in 0..(FrameLength - 1)
  BY <1>3
<1>8. \E r \in Clean, j \in 0..(FrameLength - 1) : Under(r, j)'
  BY <1>1, <1>6, <1>7
<1>9. wire' # <<>>
  BY <1>1, <1>2, <1>3, NextLinkByte, <1>7
<1> QED
  BY <1>2, <1>4, <1>8, <1>9 DEF LinkInv, Clean

LEMMA LinkRestKeeps ==
    ASSUME LinkInv, Silence \/ Receive \/ UNCHANGED serialVars
    PROVE  LinkInv'
<1>1. /\ bus' = bus /\ parser' = parser /\ missed' = missed /\ faults' = faults
      /\ wire' = wire /\ passing' = passing
  BY DEF Silence, Receive, serialVars
<1>2. ASSUME NEW payload, NEW k, Under(payload, k) PROVE Under(payload, k)'
  BY <1>1, <1>2 DEF Under, Whole
<1> QED
  BY <1>1, <1>2 DEF LinkInv, Clean

LEMMA LinkInvariance == SerialSpec => []LinkInv
<1>1. SerialInit => LinkInv
  <2> SUFFICES ASSUME SerialInit, bus = "SYSLINK" PROVE LinkInv
    BY DEF LinkInv
  <2>1. /\ missed = 0 /\ faults = 0 /\ parser = Hunting /\ wire = <<>>
    BY DEF SerialInit
  <2>2. Bounded(parser) /\ Left(parser, 0) = 0
    BY <2>1 DEF Bounded, Left, Hunting
  <2>3. 0 <= Reach * 0 /\ 0 + 0 <= Reach * 0 /\ 0 <= 0 * FrameLength
    BY ReachOfPhantom
  <2>4. Owed(0, 0, 0)
    BY <2>3 DEF Owed
  <2> QED
    BY <2>1, <2>2, <2>3, <2>4 DEF LinkInv
<1>2. SerialInv /\ LinkInv /\ [SerialNext]_serialVars => LinkInv'
  <2> SUFFICES ASSUME SerialInv, LinkInv, [SerialNext]_serialVars PROVE LinkInv'
    OBVIOUS
  <2>1. CASE bus # "SYSLINK"
    <3>1. bus' = bus
      BY DEF SerialNext, Byte, Damaged, Arrives, CutShort, Silence, Receive, OwnSends,
             PeerSends, Passing, serialVars
    <3> QED
      BY <2>1, <3>1 DEF LinkInv
  <2>2. CASE bus = "SYSLINK"
    <3>1. ~OwnSends
      BY <2>2 DEF OwnSends
    <3> QED
      BY <2>2, <3>1, LinkByteKeeps, LinkDamagedKeeps, LinkCutKeeps, LinkPeerKeeps,
         LinkRestKeeps DEF SerialNext
  <2> QED
    BY <2>1, <2>2
<1> QED
  BY <1>1, <1>2, SerialInvariance, PTL DEF SerialSpec

(* Whatever the payloads and however many transmissions are damaged or cut *)
(* short, the link gives the gossip layer what it promises: on the bus a   *)
(* frame after a silence is heard; on syslink each glitch costs no more    *)
(* frames in a row than a phantom reaches into; and only what a peer sent  *)
(* whole is queued (bus_rx_byte, syslink_rx_byte).                         *)
THEOREM LinkKeepsItsPromise == SerialSpec => []FramesGetThrough
<1>1. LinkInv => GlitchesEatFew
  BY DEF LinkInv, GlitchesEatFew
<1>2. BusHears /\ GlitchesEatFew /\ PeersQueued => FramesGetThrough
  BY DEF FramesGetThrough
<1> QED
  BY <1>1, <1>2, LinkInvariance, BusAlwaysHears, PeersAreQueued, PTL

-----------------------------------------------------------------------------
(* The handshake *)

HandshakeInv ==
    /\ booting \in Nat /\ tries \in Nat /\ wasted \in Nat /\ late \in Nat
    /\ kick \in 0..Off
    /\ handshake \in BOOLEAN /\ chanOk \in BOOLEAN /\ vbat \in BOOLEAN
    /\ ~chanOk /\ tries <= Tries => tries <= wasted + late
    /\ ~chanOk /\ tries > Tries => wasted + late >= Tries
    /\ ~handshake => chanOk \/ wasted + late >= Tries

(* The driver gives up only for cause: the handshake when the echo has     *)
(* come or as many messages as there are tries were lost, and the request  *)
(* for the battery when a packet has come.                                 *)
GivesUpForCause ==
    /\ ~handshake => chanOk \/ wasted + late >= Tries
    /\ kick = Off => vbat

LEMMA HandshakeStep ==
    ASSUME HandshakeInv, kick = Off => vbat, [HandshakeNext]_handshakeVars
    PROVE  HandshakeInv' /\ (kick = Off => vbat)'
<1>1. CASE UNCHANGED handshakeVars
  BY <1>1 DEF HandshakeInv, handshakeVars, Off
<1>2. CASE HandshakeNext
  <2>1. PICK there \in BOOLEAN, back \in BOOLEAN, asked \in BOOLEAN, heard \in BOOLEAN :
            Tick250(there, back, asked, heard)
    BY <1>2, Zenon DEF HandshakeNext
  <2>2. /\ Tries \in Nat /\ Tries > 0 /\ KickEvery \in Nat /\ KickEvery > 0 /\ Off = KickEvery + 1
    BY HandshakeAssumption DEF Off
  <2>3. kick' \in 0..Off /\ (kick' = Off => vbat')
    BY <2>1, <2>2 DEF Tick250, Kick, HandshakeInv
  <2>4. vbat' \in BOOLEAN /\ booting' \in Nat
    <3>1. vbat' = (vbat \/ (reporting /\ heard))
      BY <2>1 DEF Tick250
    <3>2. booting' = IF booting > 0 THEN booting - 1 ELSE 0
      BY <2>1 DEF Tick250
    <3> QED
      BY <3>1, <3>2 DEF HandshakeInv
  <2>5. /\ tries' \in Nat /\ wasted' \in Nat /\ late' \in Nat
        /\ handshake' \in BOOLEAN /\ chanOk' \in BOOLEAN
        /\ ~chanOk' /\ tries' <= Tries => tries' <= wasted' + late'
        /\ ~chanOk' /\ tries' > Tries => wasted' + late' >= Tries
        /\ ~handshake' => chanOk' \/ wasted' + late' >= Tries
    <3>1. CASE ~handshake
      BY <2>1, <3>1 DEF Tick250, HandshakeInv
    <3>2. CASE handshake /\ ~Again
      BY <2>1, <2>2, <3>2 DEF Tick250, HandshakeInv, Channel, Again
    <3>3. CASE handshake /\ Again
      <4>1. /\ handshake' = TRUE /\ tries' = tries + 1
            /\ chanOk' = (chanOk \/ (booting = 0 /\ there /\ back))
            /\ wasted' = IF booting = 0 /\ ~(there /\ back) THEN wasted + 1 ELSE wasted
            /\ late' = IF booting > 0 THEN late + 1 ELSE late
        BY <2>1, <3>3 DEF Tick250, Channel, Again
      <4>2. /\ chanOk = FALSE /\ tries < Tries /\ tries <= wasted + late
            /\ booting \in Nat /\ tries \in Nat /\ wasted \in Nat /\ late \in Nat
        BY <2>2, <3>3 DEF HandshakeInv, Again
      <4>3. wasted' \in Nat /\ late' \in Nat /\ tries' \in Nat /\ tries' <= Tries
        BY <2>2, <4>1, <4>2
      <4>4. ~chanOk' => tries' <= wasted' + late'
        <5>1. CASE booting > 0
          BY <4>1, <4>2, <5>1
        <5>2. CASE booting = 0
          BY <4>1, <4>2, <5>2
        <5> QED
          BY <4>2, <5>1, <5>2
      <4>5. chanOk' \in BOOLEAN
        BY <4>1, <4>2
      <4> QED
        BY <2>2, <4>1, <4>3, <4>4, <4>5
    <3> QED
      BY <3>1, <3>2, <3>3
  <2> QED
    BY <2>3, <2>4, <2>5 DEF HandshakeInv
<1> QED
  BY <1>1, <1>2

(* "This resends until the echo arrives rather than guessing at a safe     *)
(* boot delay" (handshake_fn, pm_kick_fn): for every boot delay, number of *)
(* tries and loss, the driver stops asking for cause only.                 *)
THEOREM NobodyGivesUpEarly == HandshakeSpec => []GivesUpForCause
<1>1. HandshakeInit => HandshakeInv /\ (kick = Off => vbat)
  <2> SUFFICES ASSUME HandshakeInit PROVE HandshakeInv /\ (kick = Off => vbat)
    OBVIOUS
  <2>1. /\ booting \in 0..MaxBoot /\ tries = 0 /\ handshake = TRUE /\ kick = 0
        /\ chanOk = FALSE /\ vbat = FALSE /\ wasted = 0 /\ late = 0
    BY DEF HandshakeInit
  <2>2. KickEvery \in Nat /\ Tries \in Nat /\ Tries > 0 /\ MaxBoot \in Nat /\ Off = KickEvery + 1
    BY HandshakeAssumption DEF Off
  <2>3. kick \in 0..Off /\ booting \in Nat /\ kick # Off
    BY <2>1, <2>2
  <2>4. /\ tries \in Nat /\ wasted \in Nat /\ late \in Nat /\ tries <= wasted + late
        /\ ~(tries > Tries)
    BY <2>1, <2>2
  <2>5. handshake \in BOOLEAN /\ chanOk \in BOOLEAN /\ vbat \in BOOLEAN /\ handshake
    BY <2>1
  <2> QED
    BY <2>3, <2>4, <2>5, Zenon DEF HandshakeInv
<1>2. HandshakeInv /\ (kick = Off => vbat) => GivesUpForCause
  BY DEF HandshakeInv, GivesUpForCause
<1>3. HandshakeInv /\ (kick = Off => vbat) /\ [HandshakeNext]_handshakeVars
         => HandshakeInv' /\ (kick = Off => vbat)'
  BY HandshakeStep
<1> QED
  BY <1>1, <1>2, <1>3, PTL DEF HandshakeSpec
=============================================================================
