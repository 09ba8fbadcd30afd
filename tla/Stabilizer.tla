----------------------------- MODULE Stabilizer -----------------------------
(***************************************************************************)
(* The flight controller of the Crazyflie (boards/crazyflie21bl): the loop *)
(* that turns the last setpoint into motor commands, with what can take    *)
(* the drone out of the application's hands: stale setpoints, a request to *)
(* land, a critical battery, a tumble; and the battery monitor it asks.    *)
(*                                                                         *)
(* A tick is a stall window (CF21BL_LAND_STALL_WINDOW_MS): a thousandth of *)
(* the loop's iterations see something the others do not.  Heights are in  *)
(* what a drone descends in a tick, distances in what it can drift in one. *)
(* The estimators are taken at their word: the drone is where they say.    *)
(* The PIDs are what they are for: the drone follows its target.           *)
(***************************************************************************)
EXTENDS Naturals

CONSTANTS
    Top,          \* the greatest height anybody commands
    MaxDist,      \* bound: the greatest distance from the origin modelled
    StaleTicks,   \* CF21BL_SP_STALE_MS
    SettleTicks,  \* CF21BL_LAND_SETTLE_MS
    BrakeTicks,   \* CF21BL_BRAKE_MS
    TumbleTicks,  \* CF21BL_TUMBLE_COUNT
    Sustain       \* PM_LOW_SUSTAIN_MS and PM_CRITICAL_SUSTAIN_MS

ASSUME StabilizerAssumption ==
    /\ Top \in Nat \ {0} /\ MaxDist \in Nat
    /\ StaleTicks \in Nat /\ SettleTicks \in Nat
    /\ BrakeTicks \in Nat \ {0} /\ TumbleTicks \in Nat \ {0}
    /\ Sustain \in Nat

VARIABLES
    z,          \* the height of the drone
    dist,       \* distance from the origin of the lighthouse frame
    fix,        \* the lighthouse has a position
    underLow, underCritical,   \* ticks below the two thresholds
    critical,   \* g_critical
    sp, age,    \* g_setpoint's height (Idle, the sentinel) and its age
    request,    \* g_land_requested
    armed,      \* g_armed of crazyflie21bl.c
    landed,     \* g_landed
    tilted,     \* g_tumble_count
    tumbled,    \* g_tumbled
    home,       \* the distance g_pos_home was captured at, or NoHome
    lost,       \* g_lh_lost_logged
    brake,      \* ticks g_brake_t0_ms has left to run
    descent,    \* the altitude a window began at and the windows stalled
    cut         \* history: why the motors first stopped in the air

world == <<z, dist, fix>>
battery == <<underLow, underCritical, critical>>
command == <<sp, age, request, armed>>
control == <<landed, tilted, tumbled, home, lost, brake, descent>>

Idle == 0
NoHome == MaxDist + 1
NoDescent == [ref |-> Top + 1, still |-> 0]

Capped(n, max) == IF n < max THEN n + 1 ELSE max

-----------------------------------------------------------------------------
(* cf21bl_pm_syslink_input, on the filtered voltage of a tick.  Variant:   *)
(* the critical state is left again.                                       *)
CriticalWhileBelow == underCritical' > Sustain
CriticalAfter == critical \/ underCritical' > Sustain

BatteryPacket(v) ==
    /\ underLow' = IF v = "OK" THEN 0 ELSE Capped(underLow, Sustain + 1)
    /\ underCritical' = IF v = "CRITICAL" THEN Capped(underCritical, Sustain + 1) ELSE 0
    /\ critical' = CriticalAfter

BatteryLow == underLow > Sustain    \* cf21bl_pm_battery_low

-----------------------------------------------------------------------------
(* The forced-landing triggers, and the setpoint they, the touchdown latch *)
(* and the tumble lockout leave.                                           *)
(* Variant: setpoints do not go stale.                                     *)
ForceOnDemand == sp' # Idle /\ (request' \/ critical')

ForceLand == sp' # Idle /\ (age' > StaleTicks \/ request' \/ critical')

Effective == IF (landed /\ ForceLand) \/ tumbled THEN Idle ELSE sp'

(* Position hold: the home of this flight, and one brake pulse for each    *)
(* outage.  Variant: a lost fix forgets the home, as it once did.          *)
HomeForgottenBlind ==
    IF ~fix' \/ Effective = Idle THEN NoHome ELSE IF home = NoHome THEN dist' ELSE home

HomeAfter ==
    IF Effective = Idle THEN NoHome
    ELSE IF fix' /\ home = NoHome THEN dist' ELSE home

(* Variant: nothing remembers that this outage has had its pulse.          *)
BrakeAgain == home # NoHome /\ ~fix'

BrakeBegins == home # NoHome /\ ~fix' /\ ~lost

PositionHold ==
    /\ home' = HomeAfter
    /\ lost' = (Effective # Idle /\ ~fix' /\ (lost \/ BrakeBegins))
    /\ brake' = IF Effective = Idle THEN 0
                ELSE IF BrakeBegins THEN BrakeTicks
                ELSE IF ~fix' /\ brake > 0 THEN brake - 1 ELSE brake

(* Tumble supervisor: flat does not last TumbleTicks in normal flight.     *)
TumbleWatch(flat) ==
    /\ tilted' = IF Effective = Idle \/ ~flat THEN 0 ELSE Capped(tilted, TumbleTicks)
    /\ tumbled' = (tumbled \/ tilted' = TumbleTicks)

(* The closed-loop descent: it goes down until it no longer does.          *)
(* Variant: it is over after a fixed time.                                 *)
StillByTheClock == descent.still + 1

StillAfter == IF descent.ref <= z THEN descent.still + 1 ELSE 0

Descending == ForceLand /\ Effective # Idle

Descent ==
    IF ~Descending THEN NoDescent
    ELSE IF descent = NoDescent THEN [ref |-> z, still |-> 0]
    ELSE [ref |-> z, still |-> StillAfter]

Touchdown == Descending /\ descent # NoDescent /\ StillAfter > SettleTicks

Spinning == armed' /\ Effective # Idle

(* Where the motors and gravity take the drone; a descent starts with a    *)
(* lag.                                                                    *)
Sunk == IF z > 0 THEN z - 1 ELSE 0

Altitude ==
    IF ~Spinning THEN 0
    ELSE IF Descending THEN IF descent = NoDescent THEN z ELSE Sunk
    ELSE IF sp' > z THEN z + 1
    ELSE IF sp' < z THEN Sunk
    ELSE z

(* One tick of the loop, after what the application did in it.             *)
Control(flat) ==
    /\ PositionHold
    /\ TumbleWatch(flat)
    /\ descent' = IF Touchdown THEN NoDescent ELSE Descent
    /\ landed' = (Touchdown \/ (landed /\ ForceLand))
    /\ z' = Altitude
    /\ cut' = IF cut # "NO" \/ Spinning \/ z = 0 THEN cut
              ELSE IF tumbled THEN "TUMBLE"
              ELSE IF landed /\ ForceLand THEN "TOUCHDOWN"
              ELSE "COMMAND"

(* cf21bl_stabilizer_set_setpoint, or none in this tick.                   *)
SetSetpoint(h) == sp' = h /\ age' = 0
NoSetpoint == sp' = sp /\ age' = Capped(age, StaleTicks + 1)

StabilizerInit ==
    /\ z = 0 /\ dist = 0 /\ fix \in BOOLEAN
    /\ underLow = 0 /\ underCritical = 0 /\ critical = FALSE
    /\ sp = Idle /\ age = 0 /\ request = FALSE /\ armed = FALSE
    /\ landed = FALSE /\ tilted = 0 /\ tumbled = FALSE
    /\ home = NoHome /\ lost = FALSE /\ brake = 0 /\ descent = NoDescent
    /\ cut = "NO"

StabilizerTypeOK ==
    /\ z \in 0..Top /\ dist \in 0..MaxDist /\ fix \in BOOLEAN
    /\ underLow \in 0..(Sustain + 1) /\ underCritical \in 0..(Sustain + 1)
    /\ critical \in BOOLEAN
    /\ sp \in 0..Top /\ age \in 0..(StaleTicks + 1)
    /\ request \in BOOLEAN /\ armed \in BOOLEAN
    /\ landed \in BOOLEAN /\ tilted \in 0..TumbleTicks /\ tumbled \in BOOLEAN
    /\ home \in 0..NoHome /\ lost \in BOOLEAN /\ brake \in 0..BrakeTicks
    /\ descent.ref \in 0..(Top + 1) /\ descent.still \in 0..SettleTicks
    /\ cut \in {"NO", "TUMBLE", "TOUCHDOWN", "COMMAND"}
=============================================================================
