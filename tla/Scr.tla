-------------------------------- MODULE Scr --------------------------------
(***************************************************************************)
(* L5, the swarm coordination runtime of one element (scr/scr.c): quorum   *)
(* with a recovery hold, the abort signal, leader, task slot and role,     *)
(* recomputed once per cycle from the peer table, plus the anomaly filter  *)
(* an application may set between two cycles.                              *)
(*                                                                         *)
(* _prev_quorum_state is always assigned together with quorum_state and    *)
(* initialised alike: the variable quorum stands for both.                 *)
(***************************************************************************)
EXTENDS PeerTable, FiniteSets

CONSTANTS
    Self,                     \* own_id
    NoLeader,                 \* ELEMENT_ID_INVALID: leader_valid is false
    QuorumMin, QuorumTarget,  \* thresholds, in peers
    HoldTicks,                \* quorum_hold_ms in cycles, rounded up; 0 disables
    Whitelist,                \* peer_whitelist_mask; {} allows every peer
    Capabilities              \* own capability bits

ASSUME ScrAssumption ==
    /\ Peers \subseteq Nat /\ IsFiniteSet(Peers)
    /\ Self \in Nat \ Peers
    /\ NoLeader \in Nat \ (Peers \cup {Self})
    /\ QuorumMin \in Nat /\ QuorumTarget \in Nat
    /\ HoldTicks \in Nat
    /\ Whitelist \subseteq Peers
    /\ Capabilities \subseteq {"RELAY", "SENSOR", "ACTUATOR"}

VARIABLES
    anomalies,  \* anomaly_mask
    quorum, recovery, abort,
    leader, slot, size, role

scr  == <<quorum, recovery, abort, leader, slot, size, role>>
vars == <<table, anomalies, scr>>

Elements == Peers \cup {Self}

-----------------------------------------------------------------------------
(* Step 1: the peers that count. *)

Trusted(p) == (Whitelist = {} \/ p \in Whitelist) /\ p \notin anomalies

Known(t)      == {p \in Peers : Trusted(p) /\ Active(t, p)}
Gone(t)       == {p \in Known(t) : t[p].departed}
FreshPeers(t) == {p \in Known(t) : ~t[p].departed /\ Fresh(t, p)}
Candidates(t) == {Self} \cup FreshPeers(t)

(* Step 2: the instantaneous classification.                               *)
VacuousSolo(t) == Gone(t) # {} /\ Known(t) = Gone(t)

RawQuorum(t) ==
    LET n == Cardinality(FreshPeers(t))
    IN IF VacuousSolo(t) \/ n >= QuorumTarget THEN "HEALTHY"
       ELSE IF n >= QuorumMin THEN "DEGRADED"
       ELSE "LOST"

(* Step 2.5: the recovery counter after this cycle's reading, before it is *)
(* consumed, and the quorum that is reported.                              *)
Recovering(raw) == HoldTicks > 0 /\ raw # "LOST" /\ quorum = "LOST"

Counted == IF recovery < HoldTicks THEN recovery + 1 ELSE recovery

(* Variant: the hold satisfied one cycle too late, that is never. *)
ReportedNever(raw) == IF Recovering(raw) /\ Counted <= HoldTicks THEN "LOST" ELSE raw

Reported(raw) == IF Recovering(raw) /\ Counted < HoldTicks THEN "LOST" ELSE raw

(* Variant: a bad reading does not interrupt the hold.                     *)
RecoveryKept(raw) ==
    IF HoldTicks = 0 \/ raw = "LOST" \/ quorum # "LOST" THEN recovery
    ELSE IF Counted < HoldTicks THEN Counted ELSE 0

RecoveryAfter(raw) ==
    IF HoldTicks = 0 THEN recovery
    ELSE IF raw = "LOST" THEN 0
    ELSE IF quorum # "LOST" THEN recovery
    ELSE IF Counted < HoldTicks THEN Counted
    ELSE 0

(* Step 3: the abort signal.                                               *)
(* Variant: CLEARED expires instead of being expired before the test.     *)
AbortResetFirst(new) ==
    IF abort = "CLEARED" THEN "NONE"
    ELSE IF quorum # "LOST" /\ new = "LOST" THEN "TRIGGERED"
    ELSE IF abort = "TRIGGERED" /\ quorum = "LOST" /\ new # "LOST" THEN "CLEARED"
    ELSE abort

AbortAfter(new) ==
    IF quorum # "LOST" /\ new = "LOST" THEN "TRIGGERED"
    ELSE IF abort = "TRIGGERED" /\ quorum = "LOST" /\ new # "LOST" THEN "CLEARED"
    ELSE IF abort = "CLEARED" THEN "NONE"
    ELSE abort

(* Steps 5 to 7: the lowest candidate leads; an element's slot is its      *)
(* place among the sorted candidates.                                      *)
Lowest(C)    == CHOOSE i \in C : \A j \in C : i <= j
SlotInclusive(C, i) == Cardinality({j \in C : j <= i})  \* variant: off by one
SlotIn(C, i) == Cardinality({j \in C : j < i})

FollowerRole ==
    IF "RELAY" \in Capabilities THEN "RELAY"
    ELSE IF "SENSOR" \in Capabilities THEN "SENSOR"
    ELSE IF "ACTUATOR" \in Capabilities THEN "ACTUATOR"
    ELSE "FOLLOWER"

Elect(C) ==
    /\ leader' = Lowest(C)
    /\ slot' = SlotIn(C, Self)
    /\ size' = Cardinality(C)
    /\ role' = IF Lowest(C) = Self THEN "LEADER" ELSE FollowerRole

(* Step 4. *)
NoElection ==
    /\ leader' = NoLeader
    /\ slot' = 0
    /\ size' = 0
    /\ role' = "NONE"

-----------------------------------------------------------------------------

Quorums == {"LOST", "DEGRADED", "HEALTHY"}
Aborts  == {"NONE", "TRIGGERED", "CLEARED"}
Roles   == {"NONE", "LEADER", "FOLLOWER", "RELAY", "SENSOR", "ACTUATOR"}

TypeOK ==
    /\ TableTypeOK
    /\ anomalies \subseteq Peers
    /\ quorum \in Quorums
    /\ recovery \in 0..HoldTicks
    /\ abort \in Aborts
    /\ leader \in Elements \cup {NoLeader}
    /\ slot \in Nat
    /\ size \in Nat
    /\ role \in Roles

(* wm_init, scr_init and the setters called right after it. *)
Init ==
    /\ TableInit
    /\ anomalies = {}
    /\ quorum = "LOST"
    /\ recovery = 0
    /\ abort = "NONE"
    /\ leader = NoLeader
    /\ slot = 0
    /\ size = 0
    /\ role = "NONE"

(* scr_tick over the table t. *)
ScrTick(t) ==
    LET raw == RawQuorum(t)
        new == Reported(raw)
    IN /\ recovery' = RecoveryAfter(raw)
       /\ abort' = AbortAfter(new)
       /\ quorum' = new
       /\ IF new = "LOST" THEN NoElection ELSE Elect(Candidates(t))

(* One cycle of the element: wm_tick, then scr_tick on what it left.       *)
Cycle ==
    /\ Age
    /\ ScrTick(table')
    /\ UNCHANGED anomalies

(* A frame drained before the next cycle.                                  *)
Hear(p, d) ==
    /\ Accept(p, d)
    /\ UNCHANGED <<anomalies, scr>>

ReportAnomaly(p) ==
    /\ anomalies' = anomalies \cup {p}
    /\ UNCHANGED <<table, scr>>

ClearAnomaly(p) ==
    /\ anomalies' = anomalies \ {p}
    /\ UNCHANGED <<table, scr>>

ClearAllAnomalies ==
    /\ anomalies' = {}
    /\ UNCHANGED <<table, scr>>

Next ==
    \/ Cycle
    \/ ClearAllAnomalies
    \/ \E p \in Peers :
          \/ ReportAnomaly(p)
          \/ ClearAnomaly(p)
          \/ \E d \in BOOLEAN : Hear(p, d)

Spec == Init /\ [][Next]_vars

(* The main loop calls the tick every WM_CYCLE_MS for ever; nothing else   *)
(* is promised.                                                            *)
FairSpec == Spec /\ WF_vars(Cycle)

-----------------------------------------------------------------------------
(* Safety *)

(* Once quorum has been held, a lost quorum and a raised abort are the     *)
(* same thing: L6 and L7, which read one or the other, never see a         *)
(* contradiction; before that no loss is reported (scr_tick, step 3).      *)
AbortAgreesWithQuorum ==
    /\ abort = "TRIGGERED" => quorum = "LOST"
    /\ abort = "CLEARED" => quorum # "LOST"

(* The outputs are those of one and the same election: either all of them  *)
(* valid or none (scr_tick, steps 4 to 7, read by L6 one by one).          *)
ElectionConsistent ==
    \/ /\ quorum = "LOST" /\ leader = NoLeader
       /\ role = "NONE" /\ slot = 0 /\ size = 0
    \/ /\ quorum # "LOST" /\ leader # NoLeader
       /\ slot < size
       /\ (slot = 0) <=> (leader = Self)
       /\ (leader = Self) <=> (role = "LEADER")

(* The recovery timer gives no partial credit: it runs only while quorum   *)
(* is reported lost, and starts from zero (step 2.5).                      *)
NoPartialCredit ==
    /\ quorum # "LOST" => recovery = 0
    /\ HoldTicks > 0 => recovery < HoldTicks

(* Action properties *)

(* Every loss is announced by an abort in the very cycle, and a recovery   *)
(* by CLEARED exactly when an abort was raised: no abort is left without   *)
(* its all-clear, no all-clear comes without its abort (step 3).           *)
AbortPaired ==
    [][/\ quorum # "LOST" /\ quorum' = "LOST" => abort' = "TRIGGERED"
       /\ abort # "CLEARED" /\ abort' = "CLEARED" <=>
             abort = "TRIGGERED" /\ abort' # "TRIGGERED"
       /\ abort' = "CLEARED" => quorum = "LOST" /\ quorum' # "LOST"]_<<quorum, recovery, abort>>

(* Liveness *)

(* A raw quorum that stays good is reported in the end, whatever the hold. *)
Recovers ==
    (<>[](RawQuorum(Older(table)) # "LOST")) => <>[](quorum # "LOST")

-----------------------------------------------------------------------------
(* The abstract signal *)

Need == IF HoldTicks = 0 THEN 1 ELSE HoldTicks

Signal == INSTANCE QuorumSignal WITH
              run  <- IF quorum = "LOST" THEN recovery ELSE Need,
              ever <- quorum # "LOST" \/ abort = "TRIGGERED"

(* Every cycle is a reading: a good one whenever the classification is     *)
(* better than LOST, a bad one, which leaves no credit, whenever it is not *)
(* (scr_tick, step 2.5).                                                   *)
EveryCycleReads ==
    [][Cycle => IF RawQuorum(table') = "LOST" THEN Signal!Bad ELSE Signal!Good]_vars

(* The hold, the abort machine and the flicker in between amount to: the   *)
(* signal is up when the last Need readings were good and until the next   *)
(* bad one, and what has been up once is never forgotten; and no cycle     *)
(* goes without its reading, so nothing good is kept of a hold that was    *)
(* interrupted.                                                            *)
ImplementsSignal == Signal!SignalSpec /\ EveryCycleReads
=============================================================================
