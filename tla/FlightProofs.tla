---------------------------- MODULE FlightProofs ----------------------------
(***************************************************************************)
(* Theorems about the flight application over its flight controller: in    *)
(* the air only a tumble or a blind landing stops the motors, the home is  *)
(* one for a flight, an outage has one brake pulse, a coast ends inside    *)
(* the fence, a critical battery keeps the drone down, and each tick of a  *)
(* hung application's flight controller brings it nearer to the ground.    *)
(***************************************************************************)
EXTENDS Flight, TLAPS

-----------------------------------------------------------------------------
OnGround == {"PREP", "SYNC", "GROUNDED"}
Aloft == {"RAMPING", "FLYING", "LANDING"}

FlightTypes ==
    /\ z \in 0..Top /\ sp \in 0..Top /\ alt \in 1..Top /\ zset \in 1..Top
    /\ landing \in 0..LandForce /\ settle \in 0..LandSettle
    /\ dist \in 0..MaxDist /\ seen \in 0..MaxDist /\ blind \in 0..(Grace + 1)
    /\ descent \in [ref : 0..(Top + 1), still : Nat]
    /\ state \in OnGround \cup Aloft \cup {"LANDED"}

(* The descent sinks in every window but the one it begins with, unless it *)
(* is on the ground.                                                       *)
Sinks ==
    descent # NoDescent =>
        /\ descent.ref \in 0..Top
        /\ \/ z = 0
           \/ descent.ref = z /\ descent.still = 0
           \/ descent.ref > z /\ descent.still <= 1

(* Down is down: at the sentinel, once latched, once landed.               *)
Grounding ==
    /\ state \in OnGround => ~armed /\ sp = Idle
    /\ state \in Aloft => armed
    /\ sp = Idle => z = 0
    /\ landed => z = 0
    /\ state = "LANDED" => request /\ (gate # "BLIND" => z = 0)

(* A landing sinks with every tick of the application.                     *)
InTime ==
    /\ state \notin {"LANDING", "LANDED"} => landing = 0
    /\ state = "LANDING" /\ z > 0 => z + landing <= Top + 1
    /\ state = "LANDING" /\ landing > 0 =>
           request /\ sp # Idle /\ (z > 0 => descent # NoDescent)

Cuts ==
    /\ cut \in {"NO", "TUMBLE", "COMMAND"}
    /\ cut = "COMMAND" => state = "LANDED" /\ gate = "BLIND"

FlightInv == FlightTypes /\ Sinks /\ Grounding /\ InTime /\ Cuts

(* The constants, as the proofs use them.                                  *)
LEMMA Figures ==
    /\ Top \in Nat /\ Top > 0 /\ MaxDist \in Nat /\ Base \in 1..Top /\ Heights \subseteq 1..Top
    /\ Fence \in Nat /\ Grace \in Nat /\ LandSettle \in Nat /\ LandSettle > 0
    /\ LandForce \in Nat /\ LandForce >= Top + 2 /\ SettleTicks \in Nat /\ SettleTicks > 0
BY StabilizerAssumption, FlightAssumption, DescentIsInTime

(* The flight invariant, of the initial states.                            *)
LEMMA FlightStart == Init => FlightInv
<1> SUFFICES ASSUME Init PROVE FlightInv
  OBVIOUS
<1>1. /\ z = 0 /\ dist = 0 /\ sp = 0 /\ zset = Base /\ alt = 1 /\ seen = 0 /\ blind = 0
      /\ settle = 0 /\ landing = 0 /\ state = "PREP" /\ gate = "NONE" /\ cut = "NO"
      /\ descent = NoDescent
  BY DEF Init, StabilizerInit, Idle
<1>2. ~armed /\ ~landed
  BY DEF Init, StabilizerInit
<1>3. NoDescent \in [ref : 0..(Top + 1), still : Nat]
  BY Figures DEF NoDescent
<1>4. FlightTypes
  BY <1>1, <1>3, Figures DEF FlightTypes, OnGround
<1> QED
  BY <1>1, <1>2, <1>4 DEF FlightInv, Sinks, Grounding, InTime, Cuts, OnGround, Aloft, Idle

(* What the application's setpoint becomes.                                *)
LEMMA Effects ==
    /\ Effective = Idle \/ Effective = sp'
    /\ Effective # Idle => sp' # Idle /\ ~tumbled /\ ~(landed /\ ForceLand)
    /\ landed /\ ForceLand => Effective = Idle
    /\ sp' = Idle => Effective = Idle
BY DEF Effective

(* One tick of the flight controller.                                      *)
LEMMA ControlMoves ==
    ASSUME FlightInv, sp' \in 0..Top, NEW flat, Control(flat)
    PROVE  /\ z' \in 0..Top
           /\ ~armed' \/ Effective = Idle => z' = 0
           /\ descent' \in [ref : 0..(Top + 1), still : Nat] /\ Sinks'
           /\ landed' => z' = 0
           /\ ForceLand /\ z' > 0 => /\ descent' # NoDescent /\ z' <= z
                                     /\ descent # NoDescent => z' = z - 1
<1>1. FlightTypes /\ Sinks /\ Grounding
  BY DEF FlightInv
<1>2. /\ z \in 0..Top /\ Top \in Nat /\ descent \in [ref : 0..(Top + 1), still : Nat]
      /\ SettleTicks \in Nat /\ SettleTicks > 0
  BY <1>1, Figures DEF FlightTypes
<1>3. /\ z' = Altitude /\ descent' = (IF Touchdown THEN NoDescent ELSE Descent)
      /\ landed' = (Touchdown \/ (landed /\ ForceLand))
  BY DEF Control
<1>4. Sunk \in 0..Top /\ Sunk <= z /\ (z > 0 => Sunk = z - 1) /\ (z = 0 => Sunk = 0)
  BY <1>2 DEF Sunk
<1>5. z' \in 0..Top
  BY <1>2, <1>3, <1>4 DEF Altitude
<1>6. ~armed' \/ Effective = Idle => z' = 0
  BY <1>3 DEF Altitude, Spinning
<1>7. Descending => z' = 0 \/ (descent = NoDescent /\ z' = z) \/ (descent # NoDescent /\ z' = Sunk)
  BY <1>3 DEF Altitude
<1>8. Touchdown => z = 0
  <2> SUFFICES ASSUME Touchdown, z # 0 PROVE FALSE
    OBVIOUS
  <2>1. descent # NoDescent /\ StillAfter > SettleTicks
    BY DEF Touchdown
  <2>2. /\ descent.ref \in 0..Top /\ descent.still \in Nat
        /\ (descent.ref = z /\ descent.still = 0) \/ (descent.ref > z /\ descent.still <= 1)
    BY <1>1, <1>2, <2>1 DEF Sinks
  <2> QED
    BY <1>2, <2>1, <2>2 DEF StillAfter
<1>9. Touchdown => z' = 0
  BY <1>4, <1>7, <1>8 DEF Touchdown
<1>10. landed' => z' = 0
  <2>1. landed' => Touchdown \/ (landed /\ ForceLand)
    BY <1>3
  <2> QED
    BY <1>6, <1>9, <2>1, Effects
<1>11. StillAfter \in Nat
  BY <1>2 DEF StillAfter
<1>12. /\ NoDescent \in [ref : 0..(Top + 1), still : Nat]
       /\ [ref |-> z, still |-> 0] \in [ref : 0..(Top + 1), still : Nat]
       /\ [ref |-> z, still |-> StillAfter] \in [ref : 0..(Top + 1), still : Nat]
  BY <1>2, <1>11 DEF NoDescent
<1>13. descent' \in [ref : 0..(Top + 1), still : Nat]
  BY <1>3, <1>12 DEF Descent
<1>14. Sinks'
  <2> SUFFICES ASSUME descent' # NoDescent
               PROVE  /\ descent'.ref \in 0..Top
                      /\ \/ z' = 0
                         \/ descent'.ref = z' /\ descent'.still = 0
                         \/ descent'.ref > z' /\ descent'.still <= 1
    BY DEF Sinks
  <2>1. Descending
    BY <1>3 DEF Descent
  <2>2. CASE descent = NoDescent
    <3>1. descent'.ref = z /\ descent'.still = 0
      BY <1>3, <2>1, <2>2 DEF Descent
    <3> QED
      BY <1>2, <1>7, <2>1, <2>2, <3>1
  <2>3. CASE descent # NoDescent
    <3>1. descent'.ref = z /\ descent'.still = StillAfter
      BY <1>3, <2>1, <2>3 DEF Descent
    <3>2. CASE z = 0
      BY <1>2, <1>4, <1>7, <2>1, <2>3, <3>1, <3>2
    <3>3. CASE z > 0
      <4>1. /\ descent.ref \in 0..Top /\ descent.still \in Nat
            /\ (descent.ref = z /\ descent.still = 0) \/ (descent.ref > z /\ descent.still <= 1)
        BY <1>1, <1>2, <2>3, <3>3 DEF Sinks
      <4>2. StillAfter <= 1
        BY <1>2, <3>3, <4>1 DEF StillAfter
      <4>3. z' = 0 \/ z' < z
        BY <1>2, <1>4, <1>7, <2>1, <2>3, <3>3
      <4> QED
        BY <1>2, <3>1, <4>2, <4>3
    <3> QED
      BY <1>2, <3>2, <3>3
  <2> QED
    BY <2>2, <2>3
<1>15. ASSUME ForceLand, z' > 0
       PROVE  /\ descent' # NoDescent /\ z' <= z
              /\ descent # NoDescent => z' = z - 1
  <2>1. Effective # Idle /\ Descending
    BY <1>6, <1>15 DEF Descending
  <2>2. ~Touchdown
    BY <1>9, <1>15
  <2>3. descent'.ref = z
    BY <1>3, <2>1, <2>2 DEF Descent
  <2>4. NoDescent.ref = Top + 1
    BY DEF NoDescent
  <2>5. descent' # NoDescent
    BY <1>2, <2>3, <2>4
  <2> QED
    BY <1>2, <1>4, <1>7, <1>15, <2>1, <2>5
<1> QED
  BY <1>5, <1>6, <1>10, <1>13, <1>14, <1>15

(* Why the motors stop: never for the touchdown latch, which finds them on *)
(* the ground, and for the application only where it says so.              *)
LEMMA CutMoves ==
    ASSUME FlightInv, NEW flat, Control(flat)
    PROVE  /\ cut' \in {"NO", "TUMBLE", "COMMAND"}
           /\ cut # "NO" => cut' = cut
           /\ cut = "NO" /\ cut' = "COMMAND" => z > 0 /\ (~armed' \/ sp' = Idle)
<1>1. cut \in {"NO", "TUMBLE", "COMMAND"} /\ z \in 0..Top /\ (landed => z = 0)
  BY DEF FlightInv, Cuts, FlightTypes, Grounding
<1>2. cut' = IF cut # "NO" \/ Spinning \/ z = 0 THEN cut
             ELSE IF tumbled THEN "TUMBLE"
             ELSE IF landed /\ ForceLand THEN "TOUCHDOWN"
             ELSE "COMMAND"
  BY DEF Control
<1>3. Top \in Nat
  BY Figures
<1>4. CASE cut # "NO" \/ Spinning \/ z = 0
  BY <1>1, <1>2, <1>4
<1>5. CASE cut = "NO" /\ ~Spinning /\ z # 0
  <2>1. z > 0
    BY <1>1, <1>3, <1>5
  <2>2. ~landed
    BY <1>1, <1>5
  <2>3. cut' \in {"TUMBLE", "COMMAND"} /\ (cut' = "COMMAND" => ~tumbled)
    BY <1>2, <1>5, <2>2
  <2>4. ~tumbled => ~armed' \/ sp' = Idle
    BY <1>5, <2>2 DEF Spinning, Effective
  <2> QED
    BY <1>5, <2>1, <2>3, <2>4
<1> QED
  BY <1>4, <1>5

(* The commanded height stays in range as it approaches the one asked for, *)
(* and so does the distance last measured.                                 *)
LEMMA Approaches ==
    ASSUME FlightTypes
    PROVE  /\ Ramped \in 1..Top
           /\ Moves => dist' \in 0..MaxDist /\ Measured \in 0..MaxDist
<1>1. Ramped \in 1..Top
  BY Figures DEF FlightTypes, Ramped
<1>2. Moves => dist' \in 0..MaxDist
  BY DEF FlightTypes, Moves
<1> QED
  BY <1>1, <1>2 DEF FlightTypes, Measured

(* The sum a landing is in time by, from a tick to the next.               *)
LEMMA Sum ==
    ASSUME Top \in Nat, NEW x \in 0..Top, NEW y \in 0..Top, NEW n \in Nat, NEW m \in Nat
    PROVE  /\ n = 0 => x + n <= Top + 1
           /\ n <= 1 => x + n <= Top + 1
           /\ x <= y /\ n = m /\ y + m <= Top + 1 => x + n <= Top + 1
           /\ x = y - 1 /\ n <= m + 1 /\ y + m <= Top + 1 => x + n <= Top + 1
OBVIOUS

(* What is left to show of a tick of the application.                      *)
LEMMA Ticks ==
    ASSUME FlightInv, NEW flat, Control(flat), sp' \in 0..Top,
           Moves, alt' \in 1..Top, zset' \in 1..Top, landing' \in 0..LandForce,
           settle' \in 0..LandSettle, seen' \in 0..MaxDist, blind' \in 0..(Grace + 1),
           state' \in OnGround \cup Aloft \cup {"LANDED"},
           Grounding', InTime',
           cut = "COMMAND" => state' = "LANDED" /\ gate' = "BLIND",
           z > 0 /\ (~armed' \/ sp' = Idle) => state' = "LANDED" /\ gate' = "BLIND"
    PROVE  FlightInv'
<1>1. z' \in 0..Top /\ descent' \in [ref : 0..(Top + 1), still : Nat] /\ Sinks'
  BY ControlMoves
<1>2. dist' \in 0..MaxDist
  BY Approaches DEF FlightInv
<1>3. FlightTypes'
  BY <1>1, <1>2 DEF FlightTypes
<1>4. /\ cut' \in {"NO", "TUMBLE", "COMMAND"}
      /\ cut # "NO" => cut' = cut
      /\ cut = "NO" /\ cut' = "COMMAND" => z > 0 /\ (~armed' \/ sp' = Idle)
  BY CutMoves
<1>5. Cuts'
  BY <1>4 DEF Cuts
<1> QED
  BY <1>1, <1>3, <1>5 DEF FlightInv

(* On the ground, before the flight or instead of it.                      *)
LEMMA GroundTick ==
    ASSUME FlightInv, Moves, NEW flat, Control(flat),
           (\E late \in BOOLEAN : Prepare(late))
              \/ (\E heldEnough \in BOOLEAN : Sync(heldEnough)) \/ Grounded
    PROVE  FlightInv'
<1>1. FlightTypes /\ Grounding /\ InTime /\ Cuts
  BY DEF FlightInv
<1>2. state \in OnGround /\ state # "LANDED"
  BY DEF Prepare, Sync, Grounded, OnGround
<1>3. sp = Idle /\ z = 0 /\ landing = 0 /\ ~armed
  BY <1>1, <1>2 DEF Grounding, InTime, OnGround
<1>4. sp' = Idle /\ zset' = zset /\ alt' = alt /\ blind' = blind /\ settle' = settle
      /\ landing' = 0 /\ gate' = gate
  BY <1>3 DEF Prepare, Sync, Grounded, NoSetpoint, app
<1>5. seen' \in 0..MaxDist
  BY <1>1, Approaches DEF Prepare, Sync, Grounded, FlightTypes, app
<1>6. /\ state' \in OnGround \cup {"RAMPING"}
      /\ state' \in OnGround => ~armed'
      /\ state' = "RAMPING" => armed'
  <2>1. CASE \E late \in BOOLEAN : Prepare(late)
    BY <1>3, <2>1 DEF Prepare, OnGround
  <2>2. CASE \E heldEnough \in BOOLEAN : Sync(heldEnough)
    BY <2>2 DEF Sync, OnGround
  <2>3. CASE Grounded
    BY <2>3 DEF Grounded, OnGround, app
  <2> QED
    BY <2>1, <2>2, <2>3
<1>7. z' = 0
  BY <1>4, ControlMoves, Effects, Figures DEF Idle
<1>8. landed' => z' = 0
  BY <1>7
<1>9. Grounding'
  BY <1>4, <1>6, <1>7 DEF Grounding, OnGround, Aloft
<1>10. InTime'
  BY <1>4, <1>6, <1>7 DEF InTime, OnGround
<1>11. cut # "COMMAND"
  BY <1>1, <1>2 DEF Cuts
<1>12. sp' \in 0..Top
  BY <1>4, Figures DEF Idle
<1>13. /\ alt' \in 1..Top /\ zset' \in 1..Top /\ landing' \in 0..LandForce
       /\ settle' \in 0..LandSettle /\ blind' \in 0..(Grace + 1)
  BY <1>1, <1>4, Figures DEF FlightTypes
<1> QED
  BY <1>3, <1>5, <1>6, <1>9, <1>10, <1>11, <1>12, <1>13, Ticks DEF Aloft

(* Flying: the application holds a height, and the motors are on.          *)
LEMMA FlyTick ==
    ASSUME FlightInv, Moves, NEW flat, Control(flat),
           Ramp \/ FlyBlind \/ \E over \in BOOLEAN, height \in Heights : FlyOn(over, height)
    PROVE  FlightInv'
<1>1. FlightTypes /\ Grounding /\ InTime /\ Cuts
  BY DEF FlightInv
<1>2. state \in {"RAMPING", "FLYING"}
  BY DEF Ramp, FlyBlind, FlyOn
<1>3. armed /\ landing = 0
  BY <1>1, <1>2 DEF Grounding, InTime, Aloft
<1>4. Ramped \in 1..Top /\ dist' \in 0..MaxDist /\ Measured \in 0..MaxDist
  BY <1>1, Approaches
<1>5. state' \in {"RAMPING", "FLYING", "LANDING"}
  BY <1>2 DEF Ramp, FlyBlind, FlyOn
<1>6. armed' /\ landing' = 0 /\ settle' = settle
  BY <1>3 DEF Ramp, FlyBlind, FlyOn
<1>7. alt' \in 1..Top /\ sp' \in 1..Top
  BY <1>4, Figures DEF Ramp, FlyBlind, FlyOn, SetSetpoint
<1>8. zset' \in 1..Top
  BY <1>1, Figures DEF Ramp, FlyBlind, FlyOn, FlightTypes
<1>9. seen' \in 0..MaxDist
  BY <1>1, <1>4 DEF Ramp, FlyBlind, FlyOn, FlightTypes
<1>10. blind' \in 0..(Grace + 1)
  <2>1. blind \in 0..(Grace + 1) /\ Grace \in Nat
    BY <1>1, Figures DEF FlightTypes
  <2>2. BlindAfter \in 0..(Grace + 1)
    BY <2>1 DEF BlindAfter, Capped
  <2>3. blind' \in {0, blind, BlindAfter}
    BY DEF Ramp, FlyBlind, FlyOn
  <2> QED
    BY <2>1, <2>2, <2>3
<1>11. sp' \in 0..Top /\ sp' # Idle
  BY <1>7, Figures DEF Idle
<1>12. z' \in 0..Top /\ (landed' => z' = 0)
  BY <1>11, ControlMoves
<1>13. Grounding'
  BY <1>5, <1>6, <1>11, <1>12 DEF Grounding, OnGround, Aloft
<1>14. InTime'
  <2>1. z' + landing' <= Top + 1
    BY <1>6, <1>12, Figures, Sum
  <2> QED
    BY <1>6, <2>1, Figures DEF InTime
<1>15. cut # "COMMAND"
  BY <1>1, <1>2 DEF Cuts
<1>16. landing' \in 0..LandForce /\ settle' \in 0..LandSettle
  BY <1>1, <1>6, Figures DEF FlightTypes
<1>17. state' \in OnGround \cup Aloft \cup {"LANDED"}
  BY <1>5 DEF Aloft
<1> QED
  BY <1>6, <1>7, <1>8, <1>9, <1>10, <1>11, <1>13, <1>14, <1>15, <1>16, <1>17, Ticks

(* Landing: the flight controller descends, and what the application takes *)
(* for the ground without a measurement is the one thing that may not be.  *)
LEMMA LandTick ==
    ASSUME FlightInv, Moves, NEW flat, Control(flat), Land
    PROVE  FlightInv'
<1>1. FlightTypes /\ Grounding /\ InTime /\ Cuts
  BY DEF FlightInv
<1>2. /\ state = "LANDING" /\ request' /\ sp' = Base /\ landing' = Capped(landing, LandForce)
      /\ settle' = SettleAfter /\ seen' = Measured
      /\ zset' = zset /\ alt' = alt /\ blind' = blind /\ armed' = armed
  BY DEF Land, SetSetpoint
<1>3. /\ z \in 0..Top /\ landing \in 0..LandForce /\ settle \in 0..LandSettle
      /\ Top \in Nat /\ LandForce \in Nat /\ LandForce >= Top + 2
      /\ LandSettle \in Nat /\ LandSettle > 0
  BY <1>1, Figures DEF FlightTypes
<1>4. armed /\ (landed => z = 0) /\ (z > 0 => z + landing <= Top + 1)
      /\ (landing > 0 /\ z > 0 => descent # NoDescent)
  BY <1>1, <1>2 DEF Grounding, InTime, Aloft
<1>5. sp' \in 0..Top /\ sp' # Idle
  BY <1>2, Figures DEF Idle
<1>6. ForceLand
  BY <1>2, <1>5 DEF ForceLand
<1>7. /\ z' \in 0..Top /\ (landed' => z' = 0)
      /\ z' > 0 => descent' # NoDescent /\ z' <= z /\ (descent # NoDescent => z' = z - 1)
  BY <1>5, <1>6, ControlMoves
<1>8. settle' \in 0..LandSettle
  BY <1>2, <1>3 DEF SettleAfter, Capped
<1>9. landing' \in 0..LandForce /\ landing' <= landing + 1
  BY <1>2, <1>3 DEF Capped
<1>10. /\ state' \in {"LANDING", "LANDED"}
       /\ state' = "LANDED" /\ gate' # "BLIND" => z = 0
  <2>1. CASE landed \/ settle' >= LandSettle
    <3>1. /\ state' = "LANDED"
          /\ gate' = IF landed THEN "SETTLED"
                     ELSE IF ~Down THEN "FORCED"
                     ELSE IF fix' THEN "MEASURED" ELSE "BLIND"
      BY <2>1 DEF Land
    <3>2. CASE landed
      BY <1>4, <3>1, <3>2
    <3>3. CASE ~landed /\ ~Down
      <4>1. z > 0
        BY <1>3, <3>3 DEF Down
      <4>2. ~(landing + 1 >= LandForce)
        BY <1>3, <1>4, <4>1
      <4>3. SettleAfter = 0
        BY <3>3, <4>2 DEF SettleAfter
      <4> QED
        BY <1>2, <1>3, <2>1, <3>3, <4>3
    <3>4. CASE ~landed /\ Down
      <4>1. gate' # "BLIND" => fix'
        BY <3>1, <3>4
      <4>2. fix' => z <= 0
        BY <3>4 DEF Down
      <4> QED
        BY <1>3, <3>1, <4>1, <4>2
    <3> QED
      BY <3>2, <3>3, <3>4
  <2>2. CASE ~(landed \/ settle' >= LandSettle)
    <3>1. state' = "LANDING"
      BY <1>2, <2>2 DEF Land
    <3> QED
      BY <3>1
  <2> QED
    BY <2>1, <2>2
<1>11. Grounding'
  <2>1. z = 0 => z' = 0
    BY <1>3, <1>7
  <2> QED
    BY <1>2, <1>4, <1>5, <1>7, <1>10, <2>1 DEF Grounding, OnGround, Aloft
<1>12. z' > 0 => z' + landing' <= Top + 1
  <2> SUFFICES ASSUME z' > 0 PROVE z' + landing' <= Top + 1
    OBVIOUS
  <2>1. z > 0 /\ z' <= z
    BY <1>3, <1>7
  <2>2. landing \in Nat /\ landing' \in Nat
    BY <1>3, <1>9
  <2>3. CASE landing = 0
    <3>1. landing' <= 1
      BY <1>3, <1>9, <2>2, <2>3
    <3> QED
      BY <1>3, <1>7, <2>2, <3>1, Sum
  <2>4. CASE landing > 0
    <3>1. z' = z - 1 /\ z + landing <= Top + 1
      BY <1>4, <1>7, <2>1, <2>4
    <3> QED
      BY <1>3, <1>7, <1>9, <2>2, <3>1, Sum
  <2> QED
    BY <2>2, <2>3, <2>4
<1>13. InTime'
  BY <1>2, <1>5, <1>7, <1>10, <1>12 DEF InTime
<1>14. cut # "COMMAND"
  BY <1>1, <1>2 DEF Cuts
<1>15. /\ alt' \in 1..Top /\ zset' \in 1..Top /\ blind' \in 0..(Grace + 1)
       /\ seen' \in 0..MaxDist
  BY <1>1, <1>2, Approaches DEF FlightTypes
<1>16. state' \in OnGround \cup Aloft \cup {"LANDED"}
  BY <1>10 DEF Aloft
<1> QED
  BY <1>2, <1>4, <1>5, <1>8, <1>9, <1>11, <1>13, <1>14, <1>15, <1>16, Ticks

(* After the landing the sentinel stays, and a drone that is down is down. *)
LEMMA RestTick ==
    ASSUME FlightInv, Moves, NEW flat, Control(flat), Rest
    PROVE  FlightInv'
<1>1. FlightTypes /\ Grounding /\ InTime /\ Cuts
  BY DEF FlightInv
<1>2. state = "LANDED" /\ sp' = Idle /\ UNCHANGED app /\ request' = request
  BY DEF Rest, SetSetpoint
<1>3. /\ state' = state /\ zset' = zset /\ alt' = alt /\ seen' = seen /\ blind' = blind
      /\ settle' = settle /\ landing' = landing /\ gate' = gate
  BY <1>2 DEF app
<1>4. sp' \in 0..Top
  BY <1>2, Figures DEF Idle
<1>5. z' = 0
  BY <1>2, <1>4, ControlMoves, Effects
<1>6. Grounding'
  BY <1>1, <1>2, <1>3, <1>5 DEF Grounding, OnGround, Aloft
<1>7. InTime'
  BY <1>2, <1>3 DEF InTime
<1>8. z > 0 \/ cut = "COMMAND" => gate' = "BLIND"
  <2>1. z > 0 => z # 0
    BY <1>1 DEF FlightTypes
  <2> QED
    BY <1>1, <1>2, <1>3, <2>1 DEF Grounding, Cuts
<1>9. /\ alt' \in 1..Top /\ zset' \in 1..Top /\ landing' \in 0..LandForce
      /\ settle' \in 0..LandSettle /\ blind' \in 0..(Grace + 1) /\ seen' \in 0..MaxDist
      /\ state' \in OnGround \cup Aloft \cup {"LANDED"}
  BY <1>1, <1>3 DEF FlightTypes
<1> QED
  BY <1>2, <1>3, <1>4, <1>6, <1>7, <1>8, <1>9, Ticks

(* A tick without the application: the flight controller goes on with what *)
(* it was last told.                                                       *)
LEMMA StuckTick ==
    ASSUME FlightInv, Moves, NEW flat, Control(flat), Stuck
    PROVE  FlightInv'
<1>1. FlightTypes /\ Grounding /\ InTime /\ Cuts
  BY DEF FlightInv
<1>2. /\ sp' = sp /\ state' = state /\ zset' = zset /\ alt' = alt /\ seen' = seen
      /\ settle' = settle /\ landing' = landing /\ gate' = gate
      /\ request' = request /\ armed' = armed
      /\ blind' = IF blind = 0 THEN 0 ELSE BlindAfter
  BY DEF Stuck, NoSetpoint
<1>3. /\ z \in 0..Top /\ landing \in 0..LandForce /\ Top \in Nat /\ LandForce \in Nat
      /\ blind \in 0..(Grace + 1) /\ Grace \in Nat /\ sp' \in 0..Top
  BY <1>1, <1>2, Figures DEF FlightTypes
<1>4. blind' \in 0..(Grace + 1)
  <2>1. BlindAfter \in 0..(Grace + 1)
    BY <1>3 DEF BlindAfter, Capped
  <2> QED
    BY <1>2, <1>3, <2>1
<1>5. /\ z' \in 0..Top /\ (landed' => z' = 0)
      /\ ForceLand /\ z' > 0 => descent' # NoDescent /\ z' <= z
      /\ ForceLand /\ z' > 0 => (descent # NoDescent => z' = z - 1)
  BY <1>3, ControlMoves
<1>6. sp' = Idle => z' = 0
  BY <1>3, ControlMoves, Effects
<1>7. request /\ sp # Idle => ForceLand
  BY <1>2 DEF ForceLand
<1>8. state = "LANDED" /\ z = 0 => z' = 0
  <2> SUFFICES ASSUME state = "LANDED", z = 0, sp # Idle PROVE z' = 0
    BY <1>2, <1>6
  <2>1. ForceLand
    BY <1>1, <1>7 DEF Grounding
  <2> QED
    BY <1>3, <1>5, <2>1
<1>9. Grounding'
  BY <1>1, <1>2, <1>5, <1>6, <1>8 DEF Grounding
<1>10. InTime'
  <2>1. state' \notin {"LANDING", "LANDED"} => landing' = 0
    BY <1>1, <1>2 DEF InTime
  <2>2. ASSUME state' = "LANDING", landing' > 0
        PROVE  request' /\ sp' # Idle /\ (z' > 0 => descent' # NoDescent /\ z' <= z)
    <3>1. request /\ sp # Idle
      BY <1>1, <1>2, <2>2 DEF InTime
    <3> QED
      BY <1>2, <1>5, <1>7, <3>1
  <2>3. ASSUME state' = "LANDING", z' > 0
        PROVE  z' + landing' <= Top + 1
    <3>1. CASE landing' > 0
      <4>1. z' <= z /\ z > 0
        BY <1>3, <1>5, <2>2, <2>3, <3>1
      <4>2. z + landing <= Top + 1
        BY <1>1, <1>2, <2>3, <4>1 DEF InTime
      <4>3. landing \in Nat /\ landing' \in Nat
        BY <1>2, <1>3
      <4> QED
        BY <1>2, <1>3, <1>5, <4>1, <4>2, <4>3, Sum
    <3>2. CASE ~(landing' > 0)
      <4>1. landing' = 0
        BY <1>2, <1>3, <3>2
      <4> QED
        BY <1>3, <1>5, <4>1, Sum
    <3> QED
      BY <3>1, <3>2
  <2> QED
    BY <2>1, <2>2, <2>3 DEF InTime
<1>11. cut = "COMMAND" => state' = "LANDED" /\ gate' = "BLIND"
  BY <1>1, <1>2 DEF Cuts
<1>12. ASSUME z > 0, ~armed' \/ sp' = Idle
       PROVE  state' = "LANDED" /\ gate' = "BLIND"
  <2>1. z # 0 /\ sp' # Idle /\ ~armed
    BY <1>1, <1>2, <1>3, <1>12 DEF Grounding
  <2>2. state \notin OnGround /\ state \notin Aloft
    BY <1>1, <1>2, <2>1 DEF Grounding
  <2>3. state = "LANDED"
    BY <1>1, <2>2 DEF FlightTypes
  <2> QED
    BY <1>1, <1>2, <2>1, <2>3 DEF Grounding
<1>13. /\ alt' \in 1..Top /\ zset' \in 1..Top /\ landing' \in 0..LandForce
       /\ settle' \in 0..LandSettle /\ seen' \in 0..MaxDist
       /\ state' \in OnGround \cup Aloft \cup {"LANDED"}
  BY <1>1, <1>2 DEF FlightTypes
<1> QED
  BY <1>3, <1>4, <1>9, <1>10, <1>11, <1>12, <1>13, Ticks

(* Every tick keeps the flight invariant.                                  *)
LEMMA FlightStep == FlightInv /\ [Next]_vars => FlightInv'
<1> SUFFICES ASSUME FlightInv, [Next]_vars PROVE FlightInv'
  OBVIOUS
<1>1. CASE Next
  <2>1. PICK v \in Voltages, flat \in BOOLEAN : Tick(v, flat)
    BY <1>1 DEF Next
  <2>2. Moves /\ Control(flat) /\ (Loop \/ Stuck)
    BY <2>1 DEF Tick
  <2>3. CASE Stuck
    BY <2>2, <2>3, StuckTick
  <2>4. CASE Loop
    <3>1. CASE (\E late \in BOOLEAN : Prepare(late))
                 \/ (\E heldEnough \in BOOLEAN : Sync(heldEnough)) \/ Grounded
      BY <2>2, <3>1, GroundTick
    <3>2. CASE Ramp \/ FlyBlind \/ \E over \in BOOLEAN, height \in Heights : FlyOn(over, height)
      BY <2>2, <3>2, FlyTick
    <3>3. CASE Land
      BY <2>2, <3>3, LandTick
    <3>4. CASE Rest
      BY <2>2, <3>4, RestTick
    <3> QED
      BY <2>4, <3>1, <3>2, <3>3, <3>4 DEF Loop
  <2> QED
    BY <2>2, <2>3, <2>4
<1>2. CASE UNCHANGED vars
  BY <1>2 DEF vars, world, battery, command, control, app, FlightInv, FlightTypes,
              Sinks, Grounding, InTime, Cuts
<1> QED
  BY <1>1, <1>2

(* In the air only a tumble stops the motors, or a landing that had no     *)
(* measured height to go by: whichever trigger began a descent, and        *)
(* wherever the application was interrupted in it.                         *)
THEOREM OnlyBlindCutsAloft == Spec => []CutAloftOnlyBlind
<1>1. FlightInv => CutAloftOnlyBlind
  BY DEF FlightInv, Cuts, CutAloftOnlyBlind
<1> QED
  BY <1>1, FlightStart, FlightStep, PTL DEF Spec

-----------------------------------------------------------------------------
(* What a step is, as the action properties use it.                        *)
LEMMA Steps ==
    ASSUME Next
    PROVE  /\ Moves /\ critical' = CriticalAfter
           /\ \E flat \in BOOLEAN : Control(flat)
           /\ (Loop /\ tracked' = (fix' \/ (tracked /\ state = "FLYING"))) \/ ~tracked'
BY DEF Next, Tick, BatteryPacket

(* The home the position loop and the return refer to is one for a flight: *)
(* nothing that happens in the air moves it, a loss of the fix neither.    *)
THEOREM HomeAlwaysHeld == Spec => HomeHeld
<1>1. [Next]_vars => (z > 0 /\ z' > 0 /\ home # NoHome => home' = home)
  <2> SUFFICES ASSUME [Next]_vars, z > 0, z' > 0, home # NoHome PROVE home' = home
    OBVIOUS
  <2>1. CASE Next
    <3>1. PICK flat \in BOOLEAN : Control(flat)
      BY <2>1, Steps
    <3>2. z' = Altitude /\ home' = HomeAfter
      BY <3>1 DEF Control, PositionHold
    <3>3. Effective # Idle
      BY <3>2 DEF Altitude, Spinning
    <3> QED
      BY <3>2, <3>3 DEF HomeAfter
  <2>2. CASE UNCHANGED vars
    BY <2>2 DEF vars, control
  <2> QED
    BY <2>1, <2>2
<1> QED
  BY <1>1, PTL DEF Spec, HomeHeld

(* An outage that has had its pulse is remembered as long as it lasts.     *)
OutageInv ==
    /\ brake \in 0..BrakeTicks
    /\ ~fix /\ home # NoHome => lost

(* The outage invariant, of the initial states and every tick.             *)
LEMMA OutageKept ==
    /\ Init => OutageInv
    /\ OutageInv /\ [Next]_vars => OutageInv'
<1>1. Init => OutageInv
  BY StabilizerAssumption DEF Init, StabilizerInit, OutageInv
<1>2. ASSUME OutageInv, [Next]_vars PROVE OutageInv'
  <2>1. CASE Next
    <3>1. PICK flat \in BOOLEAN : Control(flat)
      BY <2>1, Steps
    <3>2. /\ home' = HomeAfter
          /\ lost' = (Effective # Idle /\ ~fix' /\ (lost \/ BrakeBegins))
          /\ brake' = IF Effective = Idle THEN 0
                      ELSE IF BrakeBegins THEN BrakeTicks
                      ELSE IF ~fix' /\ brake > 0 THEN brake - 1 ELSE brake
      BY <3>1 DEF Control, PositionHold
    <3>3. brake' \in 0..BrakeTicks
      BY <1>2, <3>2, StabilizerAssumption DEF OutageInv
    <3>4. ASSUME ~fix', home' # NoHome PROVE lost'
      <4>1. Effective # Idle /\ home # NoHome
        BY <3>2, <3>4 DEF HomeAfter
      <4>2. lost \/ BrakeBegins
        BY <3>4, <4>1 DEF BrakeBegins
      <4> QED
        BY <3>2, <3>4, <4>1, <4>2
    <3> QED
      BY <3>3, <3>4 DEF OutageInv
  <2>2. CASE UNCHANGED vars
    BY <1>2, <2>2 DEF vars, world, control, OutageInv
  <2> QED
    BY <1>2, <2>1, <2>2
<1> QED
  BY <1>1, <1>2

(* One outage has one brake pulse: while the fix stays away it runs down.  *)
THEOREM BrakeAlwaysRunsDown == Spec => BrakeRunsDown
<1>1. OutageInv /\ Next => (~fix /\ ~fix' => brake' < brake \/ brake' = 0)
  <2> SUFFICES ASSUME OutageInv, Next, ~fix, ~fix' PROVE brake' < brake \/ brake' = 0
    OBVIOUS
  <2>1. PICK flat \in BOOLEAN : Control(flat)
    BY Steps
  <2>2. brake' = IF Effective = Idle THEN 0
                 ELSE IF BrakeBegins THEN BrakeTicks
                 ELSE IF ~fix' /\ brake > 0 THEN brake - 1 ELSE brake
    BY <2>1 DEF Control, PositionHold
  <2>3. ~BrakeBegins
    BY DEF BrakeBegins, OutageInv
  <2>4. brake' \in {0, IF brake > 0 THEN brake - 1 ELSE brake}
    BY <2>2, <2>3
  <2> QED
    BY <2>4, StabilizerAssumption DEF OutageInv
<1>2. OutageInv /\ [Next]_vars
        => [~fix /\ ~fix' => brake' < brake \/ brake' = 0]_vars
  BY <1>1
<1> QED
  BY <1>2, OutageKept, PTL DEF Spec, BrakeRunsDown

(* Down with a critical battery is down: the critical state is left by     *)
(* nothing, and with it nor is the touchdown latch.                        *)
THEOREM CriticalAlwaysDown == Spec => CriticalStaysDown
<1>1. [Next]_vars => (critical /\ landed /\ z = 0 => z' = 0)
  <2> SUFFICES ASSUME [Next]_vars, critical, landed, z = 0 PROVE z' = 0
    OBVIOUS
  <2>1. CASE Next
    <3>1. PICK flat \in BOOLEAN : Control(flat)
      BY <2>1, Steps
    <3>2. z' = Altitude /\ critical' = CriticalAfter
      BY <2>1, <3>1, Steps DEF Control
    <3>3. critical'
      BY <3>2 DEF CriticalAfter
    <3>4. Effective = Idle
      BY <3>3 DEF Effective, ForceLand
    <3> QED
      BY <3>2, <3>4 DEF Altitude, Spinning
  <2>2. CASE UNCHANGED vars
    BY <2>2 DEF vars, world
  <2> QED
    BY <2>1, <2>2
<1> QED
  BY <1>1, PTL DEF Spec, CriticalStaysDown

(* How far a coast can have gone since the distance was last measured.     *)
CoastInv ==
    /\ FlightInv
    /\ tracked /\ state = "FLYING" => dist <= seen + blind

(* What a tick of the loop does to a tracked flight.                       *)
LEMMA CoastTick ==
    ASSUME CoastInv, Moves, Loop, tracked' = (fix' \/ (tracked /\ state = "FLYING")),
           tracked', state' = "FLYING"
    PROVE  /\ dist' <= seen' + blind'
           /\ state = "FLYING" => dist' <= Fence
<1>1. /\ dist \in 0..MaxDist /\ seen \in 0..MaxDist /\ blind \in 0..(Grace + 1)
      /\ MaxDist \in Nat /\ Grace \in Nat /\ Fence \in Nat
  BY Figures DEF CoastInv, FlightInv, FlightTypes
<1>2. dist' \in 0..MaxDist /\ dist' <= dist + 1
  <2>1. CASE z > 0
    BY <1>1, <2>1 DEF Moves
  <2>2. CASE ~(z > 0)
    BY <1>1, <2>2 DEF Moves
  <2> QED
    BY <2>1, <2>2
<1>3. Ramp \/ FlyBlind \/ \E over \in BOOLEAN, height \in Heights : FlyOn(over, height)
  BY DEF Loop, Prepare, Sync, Land, Rest, Grounded, app
<1>4. CASE Ramp
  <2>1. state # "FLYING" /\ fix' /\ seen' = dist' /\ blind' = blind
    BY <1>4 DEF Ramp, Measured
  <2>2. \A d, b \in Nat : d <= d + b
    OBVIOUS
  <2>3. dist' \in Nat /\ blind \in Nat
    BY <1>1, <1>2
  <2> QED
    BY <2>1, <2>2, <2>3
<1>5. CASE FlyBlind
  <2>1. ~CoastTooFar /\ seen' = seen /\ blind' = BlindAfter /\ state = "FLYING" /\ tracked
    BY <1>5 DEF FlyBlind
  <2>2. blind <= Grace /\ seen + blind < Fence /\ dist <= seen + blind
    BY <1>1, <2>1 DEF CoastTooFar, TimeUp, CoastInv
  <2>3. blind' = blind + 1
    BY <1>1, <2>1, <2>2 DEF BlindAfter, Capped
  <2> QED
    BY <1>1, <1>2, <2>1, <2>2, <2>3
<1>6. CASE \E over \in BOOLEAN, height \in Heights : FlyOn(over, height)
  <2>1. seen' = dist' /\ blind' = 0 /\ ~(dist' > Fence)
    BY <1>6 DEF FlyOn
  <2>2. \A d, f \in Nat : d <= d + 0 /\ (~(d > f) => d <= f)
    OBVIOUS
  <2>3. dist' \in Nat
    BY <1>1, <1>2
  <2> QED
    BY <1>1, <2>1, <2>2, <2>3
<1> QED
  BY <1>3, <1>4, <1>5, <1>6

(* The application does not fly on beyond the fence, seen or blind, if it  *)
(* has not been stuck since it last had a fix.                             *)
THEOREM CoastAlwaysInFence == Spec => CoastStaysInFence
<1>1. Init => CoastInv
  BY FlightStart DEF Init, CoastInv
<1>2. CoastInv /\ [Next]_vars => CoastInv'
  <2> SUFFICES ASSUME CoastInv, [Next]_vars PROVE CoastInv'
    OBVIOUS
  <2>1. FlightInv'
    BY FlightStep DEF CoastInv
  <2>2. CASE Next
    <3>1. tracked' /\ state' = "FLYING" => dist' <= seen' + blind'
      BY <2>2, Steps, CoastTick
    <3> QED
      BY <2>1, <3>1 DEF CoastInv
  <2>3. CASE UNCHANGED vars
    BY <2>1, <2>3 DEF vars, world, app, CoastInv
  <2> QED
    BY <2>2, <2>3
<1>3. CoastInv /\ Next => (state = "FLYING" /\ state' = "FLYING" /\ tracked' => dist' <= Fence)
  BY Steps, CoastTick
<1>4. CoastInv /\ [Next]_vars
        => [state = "FLYING" /\ state' = "FLYING" /\ tracked' => dist' <= Fence]_vars
  BY <1>3
<1> QED
  BY <1>1, <1>2, <1>4, PTL DEF Spec, CoastStaysInFence

-----------------------------------------------------------------------------
(* The age of a setpoint is within its type.                               *)
AgeInv == FlightInv /\ age \in 0..(StaleTicks + 1)

LEMMA AgeStep == AgeInv /\ [Next]_vars => AgeInv'
<1> SUFFICES ASSUME AgeInv, [Next]_vars PROVE AgeInv'
  OBVIOUS
<1>1. FlightInv'
  BY FlightStep DEF AgeInv
<1>2. StaleTicks \in Nat /\ age \in 0..(StaleTicks + 1)
  BY StabilizerAssumption DEF AgeInv
<1>3. CASE Next
  <2>1. Loop \/ Stuck
    BY <1>3 DEF Next, Tick
  <2>2. age' = 0 \/ age' = Capped(age, StaleTicks + 1) \/ age' = age
    <3>1. Stuck => age' = Capped(age, StaleTicks + 1)
      BY DEF Stuck, NoSetpoint
    <3>2. CASE Loop
      BY <3>2 DEF Loop, Prepare, Sync, Ramp, FlyBlind, FlyOn, Land, Rest, Grounded,
         NoSetpoint, SetSetpoint
    <3> QED
      BY <2>1, <3>1, <3>2
  <2>3. age' \in 0..(StaleTicks + 1)
    BY <1>2, <2>2 DEF Capped
  <2> QED
    BY <1>1, <2>3 DEF AgeInv
<1>4. CASE UNCHANGED vars
  <2>1. age' = age
    BY <1>4 DEF vars, command
  <2> QED
    BY <1>1, <1>2, <2>1 DEF AgeInv
<1> QED
  BY <1>3, <1>4

(* What a tick without the application does: first the setpoint ages; once *)
(* it is stale it stays so, and the drone is down, or a descent is begun   *)
(* that no tick abandons and each tick brings one step lower.              *)
HungSinks ==
    [][Stuck =>
          /\ age <= StaleTicks => age' = age + 1
          /\ age > StaleTicks =>
                 /\ age' > StaleTicks
                 /\ z' > 0 => /\ z' <= z /\ descent' # NoDescent
                              /\ descent # NoDescent => z' = z - 1]_vars

(* An application that hangs cannot keep the drone in the air: the flight  *)
(* controller sinks with every tick from the one its setpoint is stale at, *)
(* whatever the fix, the battery and the attitude do meanwhile.  That the  *)
(* drone is down in the end (HungComesDown) is this and that ticks come.   *)
THEOREM HungAlwaysSinks == Spec => HungSinks
<1>1. Init => AgeInv
  BY FlightStart, StabilizerAssumption DEF Init, StabilizerInit, AgeInv
<1>2. ASSUME AgeInv, [Next]_vars
      PROVE  [Stuck =>
          /\ age <= StaleTicks => age' = age + 1
          /\ age > StaleTicks =>
                 /\ age' > StaleTicks
                 /\ z' > 0 => /\ z' <= z /\ descent' # NoDescent
                              /\ descent # NoDescent => z' = z - 1]_vars
  <2> SUFFICES ASSUME Next, Stuck
               PROVE  /\ age <= StaleTicks => age' = age + 1
                      /\ age > StaleTicks =>
                           /\ age' > StaleTicks
                           /\ z' > 0 => /\ z' <= z /\ descent' # NoDescent
                                        /\ descent # NoDescent => z' = z - 1
    BY <1>2
  <2>1. StaleTicks \in Nat /\ age \in 0..(StaleTicks + 1) /\ FlightInv
    BY <1>2, StabilizerAssumption DEF AgeInv
  <2>2. sp' = sp /\ age' = Capped(age, StaleTicks + 1)
    BY DEF Stuck, NoSetpoint
  <2>3. age <= StaleTicks => age' = age + 1
    BY <2>1, <2>2 DEF Capped
  <2>4. age > StaleTicks => age' > StaleTicks
    BY <2>1, <2>2 DEF Capped
  <2>5. PICK flat \in BOOLEAN : Control(flat)
    BY Steps
  <2>6. sp' \in 0..Top
    BY <2>1, <2>2 DEF FlightInv, FlightTypes
  <2>7. /\ z' \in 0..Top
        /\ Effective = Idle => z' = 0
        /\ ForceLand /\ z' > 0 => /\ descent' # NoDescent /\ z' <= z
                                  /\ descent # NoDescent => z' = z - 1
    BY <2>1, <2>5, <2>6, ControlMoves
  <2>8. ASSUME age > StaleTicks, z' > 0
        PROVE  z' <= z /\ descent' # NoDescent /\ (descent # NoDescent => z' = z - 1)
    <3>1. Effective # Idle
      BY <2>7, <2>8
    <3>2. sp' # Idle
      BY <3>1, Effects
    <3>3. ForceLand
      BY <2>4, <2>8, <3>2 DEF ForceLand
    <3> QED
      BY <2>7, <2>8, <3>3
  <2> QED
    BY <2>3, <2>4, <2>8
<1> QED
  BY <1>1, <1>2, AgeStep, PTL DEF Spec, HungSinks
=============================================================================
