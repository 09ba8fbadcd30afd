------------------------------ MODULE Runtime ------------------------------
(***************************************************************************)
(* The element runtime (L2, runtime/runtime.c and runtime/power.c): what   *)
(* one call of tapestry_runtime_tick does around the coordination cycle of *)
(* Scr, in its order.  The abort L5 reports becomes a HARD_RT frame, the   *)
(* gossip interval is counted, a change of leader is noted, and the power  *)
(* policy reads the quorum.                                                *)
(*                                                                         *)
(* The directive frames polled after the drain are modelled in Directive,  *)
(* choreo_tick, the hook of scr_tick, in Choreo.  update_seq and the       *)
(* telemetry are left out: nothing reads them here.  The election counter  *)
(* is kept as the event of its increment.                                  *)
(***************************************************************************)
EXTENDS Scr

CONSTANTS
    GossipTicks,   \* GOSSIP_INTERVAL_MS in cycles
    GraceTicks     \* CONFIG_TAPESTRY_POWER_SLEEP_GRACE_CYCLES

ASSUME RuntimeAssumption ==
    /\ GossipTicks \in Nat /\ GossipTicks > 1
    /\ GraceTicks \in Nat /\ GraceTicks > 0

VARIABLES
    lastAbort,   \* s_last_abort_state
    lastLeader,  \* s_last_leader
    accum,       \* s_gossip_accum_ms, in cycles
    sent,        \* the tier of the frame the last tick sent, "NOTHING" if none
    counted,     \* whether the last tick counted an election
    power,       \* s_state of power.c
    lost         \* s_quorum_lost_cyc, which is only compared with GraceTicks

loop == <<lastAbort, lastLeader, accum, sent, counted, power, lost>>
runtimeVars == <<vars, loop>>

Powers == {"ACTIVE", "IDLE", "SLEEP", "HARVEST"}

-----------------------------------------------------------------------------
(* Steps of the tick after scr_tick; abort, quorum and leader are new. *)

(* Step 4b: the edge. Variant: the level. *)
AbortLevel == abort' = "TRIGGERED"
AbortEdge  == abort' = "TRIGGERED" /\ lastAbort # "TRIGGERED"

(* Step 5: the leader changed (both invalid is no change). *)
TrackLeader ==
    /\ counted' = (leader' # lastLeader)
    /\ lastLeader' = leader'

(* Steps 4b and 6: what is sent, and the interval that restarts with it.   *)
Gossip ==
    LET n == (IF AbortEdge THEN 0 ELSE accum) + 1
    IN /\ sent' = IF AbortEdge THEN "HARD_RT"
                  ELSE IF n >= GossipTicks THEN "SOFT_RT" ELSE "NOTHING"
       /\ accum' = IF n >= GossipTicks THEN 0 ELSE n

(* Step 8: tapestry_power_tick. *)
LostAfter == IF quorum' # "LOST" THEN 0
             ELSE IF lost < GraceTicks THEN lost + 1 ELSE lost

(* Variant: a state the application asked for is overridden. *)
PowerOverriding ==
    IF quorum' = "LOST"
    THEN IF LostAfter >= GraceTicks THEN "IDLE" ELSE power
    ELSE "ACTIVE"

PowerAfter ==
    IF quorum' = "LOST"
    THEN IF LostAfter >= GraceTicks /\ power = "ACTIVE" THEN "IDLE" ELSE power
    ELSE IF power = "IDLE" THEN "ACTIVE" ELSE power

PowerTick ==
    /\ lost' = LostAfter
    /\ power' = PowerAfter

-----------------------------------------------------------------------------

RuntimeTypeOK ==
    /\ TypeOK
    /\ lastAbort \in Aborts
    /\ lastLeader \in Elements \cup {NoLeader}
    /\ accum \in 0..(GossipTicks - 1)
    /\ sent \in {"NOTHING", "SOFT_RT", "HARD_RT"}
    /\ counted \in BOOLEAN
    /\ power \in Powers
    /\ lost \in 0..GraceTicks

(* tapestry_runtime_init *)
RuntimeInit ==
    /\ Init
    /\ lastAbort = "NONE"
    /\ lastLeader = NoLeader
    /\ accum = 0
    /\ sent = "NOTHING"
    /\ counted = FALSE
    /\ power = "ACTIVE"
    /\ lost = 0

(* tapestry_runtime_tick; the drain before it is Hear. *)
Tick ==
    /\ Cycle
    /\ Gossip
    /\ TrackLeader
    /\ lastAbort' = abort'
    /\ PowerTick

(* tapestry_power_request, by the application between two ticks.  A state  *)
(* below IDLE stops the processor; waking leaves the ticks as they were.   *)
PowerRequest(s) ==
    /\ s # power
    /\ power' = s
    /\ UNCHANGED <<vars, lastAbort, lastLeader, accum, sent, counted, lost>>

Between ==
    /\ \/ ClearAllAnomalies
       \/ \E p \in Peers :
             \/ ReportAnomaly(p)
             \/ ClearAnomaly(p)
             \/ \E d \in BOOLEAN : Hear(p, d)
    /\ UNCHANGED loop

RuntimeNext ==
    \/ Tick
    \/ Between
    \/ \E s \in Powers : PowerRequest(s)

RuntimeSpec == RuntimeInit /\ [][RuntimeNext]_runtimeVars

(* The application calls the tick every WM_CYCLE_MS for ever. *)
RuntimeFairSpec == RuntimeSpec /\ WF_runtimeVars(Tick)

-----------------------------------------------------------------------------
(* Every loss of a held quorum is announced to the peers by one HARD_RT    *)
(* frame, in the tick that finds it, and by no second one however long the *)
(* outage lasts or the reading flickers below the hold; no HARD_RT frame   *)
(* goes out for anything else (runtime.c step 4b over scr.c step 3).       *)
OneAnnouncementPerLoss ==
    [][Tick => (sent' = "HARD_RT" <=> (quorum # "LOST" /\ quorum' = "LOST"))]_runtimeVars

(* The policy and the application share one power state.  A tick with      *)
(* quorum never leaves the element idle, a quorum lost for the whole grace *)
(* never leaves it active, whatever was requested in between; and the      *)
(* policy never wakes an element put to SLEEP or HARVEST (power.c:116).    *)
PowerFollowsQuorum ==
    [][Tick => /\ quorum' # "LOST" => power' # "IDLE"
               /\ lost' = GraceTicks => power' # "ACTIVE"
               /\ quorum' # "LOST" => lost' = 0
               /\ power \in {"SLEEP", "HARVEST"} => power' = power]_runtimeVars
=============================================================================
