------------------------------- MODULE Flight -------------------------------
(***************************************************************************)
(* The flight application of the Crazyflie (examples/cf21bl-formation)     *)
(* above its flight controller: from the wait for a position fix to the    *)
(* landing, whatever ends the flight.  Once a tick the world moves, the    *)
(* application runs its loop, unless it is stuck, and the flight           *)
(* controller runs in any case.                                            *)
(*                                                                         *)
(* What choreography says (choreo.c) is an input here: it commands a       *)
(* height, or ends the flight.  Reasons, wire flags and lights are left    *)
(* out.                                                                    *)
(***************************************************************************)
EXTENDS Stabilizer

CONSTANTS
    Base,        \* ALT_BASE_M
    Heights,     \* the heights choreography commands
    Fence,       \* GEOFENCE_RADIUS_M
    Grace,       \* FIX_LOSS_GRACE_MS
    LandSettle,  \* LAND_SETTLE_MS
    LandForce    \* LAND_FORCE_DISARM_MS

ASSUME FlightAssumption ==
    /\ Base \in 1..Top /\ Heights \subseteq 1..Top
    /\ Fence \in Nat /\ Fence < MaxDist
    /\ Grace \in Nat
    /\ LandSettle \in Nat \ {0} /\ LandForce \in Nat

(* The descent is over long before the backstops take over: the windows    *)
(* that must pass without sinking begin with one of lag, and the seconds   *)
(* after which the application stops waiting (10 s) suffice to sink from   *)
(* any height that is commanded (3 m, which nothing in the code enforces). *)
ASSUME DescentIsInTime ==
    SettleTicks > 0 /\ LandForce >= Top + 2

VARIABLES
    state,      \* flight_state_t, and before it "PREP", "SYNC"; "GROUNDED"
    zset, alt,  \* z_setpoint_m, alt_cmd_m
    seen,       \* own_pos_m: the distance last measured
    blind,      \* the age of fix_lost_since_ms at the next tick; 0: not blind
    settle,     \* land_settle_ms
    landing,    \* land_zero_ms
    gate,       \* history: what ended the landing
    tracked     \* history: see CoastStaysInFence

app == <<state, zset, alt, seen, blind, settle, landing, gate>>
vars == <<world, battery, command, control, cut, app, tracked>>

-----------------------------------------------------------------------------
(* The world: the drone drifts while it flies, and the lighthouse comes    *)
(* and goes.                                                               *)
Moves ==
    /\ fix' \in BOOLEAN
    /\ dist' \in IF z > 0 THEN {d \in 0..MaxDist : d <= dist + 1 /\ dist <= d + 1}
                 ELSE {dist}

-----------------------------------------------------------------------------
(* The parts of the loop. *)
Measured == IF fix' THEN dist' ELSE seen

(* Before the flight: a fix within half a minute, the countdown, and the   *)
(* hold for the peers, which ends when they are heard or after a while.    *)
Prepare(late) ==
    /\ state = "PREP"
    /\ state' = IF fix' THEN "SYNC" ELSE IF late THEN "GROUNDED" ELSE state
    /\ NoSetpoint
    /\ seen' = Measured
    /\ UNCHANGED <<zset, alt, blind, settle, landing, gate, request, armed>>

Sync(heldEnough) ==
    /\ state = "SYNC"
    /\ state' = IF heldEnough THEN "RAMPING" ELSE state
    /\ armed' = heldEnough
    /\ NoSetpoint
    /\ seen' = Measured
    /\ UNCHANGED <<zset, alt, blind, settle, landing, gate, request>>

(* The commanded height approaches the one asked for. *)
Ramped == IF alt < zset THEN alt + 1 ELSE IF alt > zset THEN alt - 1 ELSE alt

Ramp ==
    /\ state = "RAMPING"
    /\ alt' = Ramped
    /\ state' = IF Ramped >= zset THEN "FLYING" ELSE state
    /\ SetSetpoint(alt')
    /\ seen' = Measured
    /\ UNCHANGED <<zset, blind, settle, landing, gate, request, armed>>

(* FLIGHT_FLYING without a fix: the distance a coast could have covered    *)
(* from where it was last measured (fix_lost_origin_dist_m), and the time. *)
(* Variant: only the time.                                                 *)
TimeUp == blind > Grace
CoastTooFar == TimeUp \/ seen + blind >= Fence

BlindAfter == Capped(blind, Grace + 1)

FlyBlind ==
    /\ state = "FLYING" /\ ~fix'
    /\ alt' = Ramped /\ seen' = seen
    /\ blind' = IF CoastTooFar THEN 0 ELSE BlindAfter
    /\ IF CoastTooFar
       THEN state' = "LANDING" /\ SetSetpoint(Base)
       ELSE state' = state /\ SetSetpoint(alt')
    /\ UNCHANGED <<zset, settle, landing, gate, request, armed>>

(* FLIGHT_FLYING with a fix: the fence, the battery, and what ends a flight *)
(* by itself (its duration, the end of the script, a departure); else       *)
(* choreography commands a height.                                          *)
FlyOn(over, height) ==
    /\ state = "FLYING" /\ fix'
    /\ alt' = Ramped /\ seen' = dist'
    /\ blind' = 0
    /\ IF dist' > Fence \/ over \/ BatteryLow'
       THEN state' = "LANDING" /\ SetSetpoint(Base) /\ zset' = zset
       ELSE state' = state /\ SetSetpoint(alt') /\ zset' = height
    /\ UNCHANGED <<settle, landing, gate, request, armed>>

(* FLIGHT_LANDING: the flight controller brings the drone down; a measured *)
(* height, or time, is the second opinion.  No measurement counts as down. *)
Down == ~fix' \/ z <= 0

SettleAfter == IF Down \/ landing + 1 >= LandForce THEN Capped(settle, LandSettle) ELSE 0

Land ==
    /\ state = "LANDING"
    /\ request' = TRUE
    /\ SetSetpoint(Base)
    /\ landing' = Capped(landing, LandForce)
    /\ settle' = SettleAfter
    /\ IF landed \/ settle' >= LandSettle
       THEN /\ state' = "LANDED"
            /\ gate' = IF landed THEN "SETTLED"
                       ELSE IF ~Down THEN "FORCED"
                       ELSE IF fix' THEN "MEASURED" ELSE "BLIND"
       ELSE state' = state /\ gate' = gate
    /\ seen' = Measured
    /\ UNCHANGED <<zset, alt, blind, armed>>

(* FLIGHT_LANDED: the sentinel, and half a second later the motors off.    *)
Rest ==
    /\ state = "LANDED"
    /\ SetSetpoint(Idle)
    /\ armed' = (armed /\ sp # Idle)
    /\ UNCHANGED <<app, request>>

Grounded ==
    /\ state = "GROUNDED"
    /\ NoSetpoint
    /\ armed' = FALSE
    /\ UNCHANGED <<app, request>>

Loop ==
    \/ \E late \in BOOLEAN : Prepare(late)
    \/ \E heldEnough \in BOOLEAN : Sync(heldEnough)
    \/ Ramp
    \/ FlyBlind
    \/ \E over \in BOOLEAN, height \in Heights : FlyOn(over, height)
    \/ Land
    \/ Rest
    \/ Grounded

(* The application does not return from a call; the clock goes on.         *)
Stuck ==
    /\ NoSetpoint
    /\ blind' = IF blind = 0 THEN 0 ELSE BlindAfter
    /\ UNCHANGED <<state, zset, alt, seen, settle, landing, gate>>
    /\ UNCHANGED <<request, armed>>

Tick(v, flat) ==
    /\ Moves
    /\ BatteryPacket(v)
    /\ \/ Loop /\ tracked' = (fix' \/ (tracked /\ state = "FLYING"))
       \/ Stuck /\ tracked' = FALSE
    /\ Control(flat)

Voltages == {"OK", "LOW", "CRITICAL"}

Next == \E v \in Voltages, flat \in BOOLEAN : (flat => z > 0) /\ Tick(v, flat)

Init ==
    /\ StabilizerInit
    /\ state = "PREP"
    /\ zset = Base /\ alt = 1
    /\ seen = dist /\ blind = 0
    /\ settle = 0 /\ landing = 0
    /\ gate = "NONE"
    /\ tracked = FALSE

Spec == Init /\ [][Next]_vars

(* The loops run: each tick comes.                                         *)
FairSpec == Spec /\ WF_vars(Next)

-----------------------------------------------------------------------------
(* Every variable has its type.                                            *)
FlightTypeOK ==
    /\ StabilizerTypeOK
    /\ state \in {"PREP", "SYNC", "GROUNDED", "RAMPING", "FLYING", "LANDING", "LANDED"}
    /\ zset \in 1..Top /\ alt \in 1..Top /\ seen \in 0..MaxDist
    /\ blind \in 0..(Grace + 1)
    /\ settle \in 0..LandSettle /\ landing \in 0..LandForce
    /\ gate \in {"NONE", "SETTLED", "FORCED", "MEASURED", "BLIND"}
    /\ tracked \in BOOLEAN

(* In the air only a tumble stops the motors, or a landing that has no     *)
(* measured height to go by: the closed-loop descent never does, whichever *)
(* trigger began it and wherever it interrupted the application.           *)
CutAloftOnlyBlind == cut \in {"NO", "TUMBLE"} \/ (cut = "COMMAND" /\ gate = "BLIND")

(* The motors stop in the air only for a tumble.                           *)
MotorsStopOnTheGround == cut \in {"NO", "TUMBLE"}

(* The home the position loop and the return refer to is one for a flight: *)
(* no loss of the fix, landing or recovery from one moves it in the air.   *)
HomeHeld == [][z > 0 /\ z' > 0 /\ home # NoHome => home' = home]_vars

(* One outage has one brake pulse: while the fix stays away it runs down,  *)
(* and the drone is level after it, however long the outage lasts.         *)
BrakeRunsDown == [][~fix /\ ~fix' => brake' < brake \/ brake' = 0]_vars

(* The application does not fly on beyond the fence, seen or blind, if it  *)
(* has not been stuck since it last had a fix, and had one since the       *)
(* flight began (tracked).                                                 *)
CoastStaysInFence ==
    [][state = "FLYING" /\ state' = "FLYING" /\ tracked' => dist' <= Fence]_vars

(* Down with a critical battery is down, whatever the voltage recovers to  *)
(* with the motors off.                                                    *)
CriticalStaysDown == [][critical /\ landed /\ z = 0 => z' = 0]_vars

(* An application that hangs does not keep the drone in the air, nor does  *)
(* a later tick of the flight controller take it up again.                 *)
HungComesDown == <>[][Stuck]_vars => <>[](z = 0)
=============================================================================
