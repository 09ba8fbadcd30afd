----------------------------- MODULE WorldModel -----------------------------
(***************************************************************************)
(* L4, the collective state manager, of one element: the entries it keeps  *)
(* for its peers (csm/world_model.c), the peers that gossip to it once per *)
(* cycle at most (runtime.c), and a radio that loses, delays, duplicates   *)
(* and reorders frames.  Peers crash and reboot; a rebooted peer's logical *)
(* clock starts again from zero.                                           *)
(*                                                                         *)
(* The owner's and the peers' cycles have the same period: a Tick is one   *)
(* cycle of all of them.  The fields named "life" are history: they tell   *)
(* the frames of one life of a peer from those of another and no guard     *)
(* reads them.  So are ended, heard and caught.                            *)
(***************************************************************************)
EXTENDS Naturals, FiniteSets

CONSTANTS
    Peers, StaleAge, ExpireAge,
    MaxDelay,    \* cycles a frame may spend in the radio and in relay queues
    BiasNum, BiasDen,  \* consistency_bias, a fraction of [0, 1]
    MaxClock,    \* bound: how far a peer's logical clock runs
    MaxLives,    \* bound: how often a peer boots
    MaxInFlight  \* bound: frames in the radio at once

ASSUME WorldModelAssumption ==
    /\ IsFiniteSet(Peers)
    /\ StaleAge \in Nat \ {0}
    /\ ExpireAge \in Nat
    /\ StaleAge < ExpireAge
    /\ MaxDelay \in Nat
    /\ MaxClock \in Nat
    /\ MaxLives \in Nat \ {0}
    /\ MaxInFlight \in Nat
    /\ BiasNum \in Nat /\ BiasDen \in Nat \ {0} /\ BiasNum <= BiasDen

VARIABLES
    entries,   \* wm->entries[], without the owner's own
    metric,    \* wm->metric, as last recomputed
    up, clock, life, gone,  \* the peers: running, own clock, boots, departed
    radio,     \* frames on their way to the owner
    ended,     \* cycles since the peer's last crash
    heard,     \* cycles in a row in which the peer's latest frame arrived
    caught     \* the peer's latest frame arrived in this cycle

peerVars == <<up, clock, life, gone>>
history  == <<ended, heard, caught>>
vars     == <<entries, metric, peerVars, radio, history>>

Frame == [src: Peers, clk: 1..MaxClock, departed: BOOLEAN, life: 1..MaxLives,
          left: 0..MaxDelay]

Entry == [known: BOOLEAN, active: BOOLEAN, stale: BOOLEAN, age: 0..ExpireAge,
          clk: 0..(MaxClock + 1), departed: BOOLEAN, life: 0..MaxLives]

(* A slot whose state.id is ELEMENT_ID_INVALID. *)
Unpopulated == [known |-> FALSE, active |-> FALSE, stale |-> FALSE, age |-> 0,
                clk |-> 0, departed |-> FALSE, life |-> 0]

(* recompute_metric.  The ratio test is cross-multiplied: quorum_threshold *)
(* is consistency_bias * WM_QUORUM_FRACTION, a half.                       *)
Metric(E) ==
    LET active == {p \in Peers : E[p].known /\ E[p].active}
        fresh  == {p \in active : ~E[p].stale}
        nActive == Cardinality(active)
        nFresh  == Cardinality(fresh)
    IN [fresh |-> nFresh,
        stale |-> nActive - nFresh,
        inactive |-> Cardinality({p \in Peers : E[p].known /\ ~E[p].active}),
        degraded |-> nActive > 0 /\ 2 * BiasDen * nFresh < BiasNum * nActive]

(* wm_receive_gossip: only a strictly newer clock replaces an active       *)
(* entry; any clock replaces a missing or an inactive one.                 *)
AcceptsNewerOnly(e, f) == e.known => f.clk > e.clk  \* variant: no is_inactive
Accepts(e, f) == e.known /\ e.active => f.clk > e.clk

Larger(a, b) == IF a > b THEN a ELSE b

(* Variant: the age is not reset. *)
ReceivedKeepingAge(e, f) ==
    [known |-> TRUE, active |-> TRUE, stale |-> FALSE, age |-> e.age,
     clk |-> Larger(e.clk, f.clk) + 1, departed |-> f.departed, life |-> f.life]

Received(e, f) ==
    LET localClock == IF e.known /\ e.active THEN e.clk ELSE 0
    IN [known |-> TRUE, active |-> TRUE, stale |-> FALSE, age |-> 0,
        clk |-> Larger(localClock, f.clk) + 1,
        departed |-> f.departed, life |-> f.life]

(* Variant: the stale age off by one.                                      *)
AgedLate(e) ==
    IF ~e.known \/ ~e.active THEN e
    ELSE [e EXCEPT !.age = @ + 1, !.active = e.age + 1 < ExpireAge,
                   !.stale = e.stale \/ e.age + 1 > StaleAge]

(* The ageing of one entry in wm_tick. *)
Aged(e) ==
    IF ~e.known \/ ~e.active THEN e
    ELSE LET age == e.age + 1
         IN [e EXCEPT !.age = age,
                      !.active = age < ExpireAge,
                      !.stale = e.stale \/ age >= StaleAge]

AgedEntries == [p \in Peers |-> Aged(entries[p])]

MetricAfterTick   == Metric(AgedEntries)

-----------------------------------------------------------------------------

TypeOK ==
    /\ entries \in [Peers -> Entry]
    /\ metric \in [fresh: Nat, stale: Nat, inactive: Nat, degraded: BOOLEAN]
    /\ up \in [Peers -> BOOLEAN]
    /\ clock \in [Peers -> 0..MaxClock]
    /\ life \in [Peers -> 1..MaxLives]
    /\ gone \in [Peers -> BOOLEAN]
    /\ radio \in SUBSET Frame
    /\ ended \in [Peers -> 0..(StaleAge + MaxDelay)]
    /\ heard \in [Peers -> Nat]
    /\ caught \in [Peers -> BOOLEAN]

(* wm_init of the owner; every peer has just booted. *)
Init ==
    /\ entries = [p \in Peers |-> Unpopulated]
    /\ metric = Metric(entries)
    /\ up = [p \in Peers |-> TRUE]
    /\ clock = [p \in Peers |-> 0]
    /\ life = [p \in Peers |-> 1]
    /\ gone = [p \in Peers |-> FALSE]
    /\ radio = {}
    /\ ended = [p \in Peers |-> 0]
    /\ heard = [p \in Peers |-> 0]
    /\ caught = [p \in Peers |-> FALSE]

(* A peer's cycle ends with a gossip frame: the soft one of the gossip     *)
(* interval, or the HARD_RT one of a quorum loss, which may follow it in   *)
(* the very next cycle.  The frame carries the clock wm_update_self gave   *)
(* the cycle.                                                              *)
Send(p) ==
    /\ up[p] /\ clock[p] > 0
    /\ Cardinality(radio) < MaxInFlight
    /\ radio' = radio \cup {[src |-> p, clk |-> clock[p], departed |-> gone[p],
                             life |-> life[p], left |-> MaxDelay]}
    /\ UNCHANGED <<entries, metric, peerVars, history>>

(* The element declares itself departed: it has landed, and keeps          *)
(* gossiping with ELEMENT_HEALTH_DEPARTED set.                             *)
Depart(p) ==
    /\ up[p] /\ ~gone[p]
    /\ gone' = [gone EXCEPT ![p] = TRUE]
    /\ UNCHANGED <<entries, metric, up, clock, life, radio, history>>

Crash(p) ==
    /\ up[p]
    /\ up' = [up EXCEPT ![p] = FALSE]
    /\ ended' = [ended EXCEPT ![p] = 0]
    /\ heard' = [heard EXCEPT ![p] = 0]
    /\ UNCHANGED <<entries, metric, clock, life, gone, radio, caught>>

Boot(p) ==
    /\ ~up[p] /\ life[p] < MaxLives
    /\ up' = [up EXCEPT ![p] = TRUE]
    /\ clock' = [clock EXCEPT ![p] = 0]
    /\ life' = [life EXCEPT ![p] = @ + 1]
    /\ gone' = [gone EXCEPT ![p] = FALSE]
    /\ heard' = [heard EXCEPT ![p] = 0]
    /\ caught' = [caught EXCEPT ![p] = FALSE]
    /\ UNCHANGED <<entries, metric, radio, ended>>

(* A frame reaches the drain loop and is handed to wm_receive_gossip; the  *)
(* radio may keep another copy of it (advertised again, or relayed).       *)
Receive(f) ==
    /\ entries' = IF Accepts(entries[f.src], f)
                  THEN [entries EXCEPT ![f.src] = Received(entries[f.src], f)]
                  ELSE entries
    /\ radio' \in {radio, radio \ {f}}
    /\ caught' = [caught EXCEPT ![f.src] =
                    @ \/ (f.life = life[f.src] /\ f.clk = clock[f.src])]
    /\ UNCHANGED <<metric, peerVars, ended, heard>>

Lose(f) ==
    /\ radio' = radio \ {f}
    /\ UNCHANGED <<entries, metric, peerVars, history>>

(* A cycle: the owner runs wm_tick, which ages the entries and recomputes  *)
(* the metric; every running peer advances its clock; a frame that has     *)
(* spent MaxDelay cycles in the radio is gone.                             *)
Tick ==
    /\ \A p \in Peers : up[p] => clock[p] < MaxClock
    /\ entries' = AgedEntries
    /\ metric' = MetricAfterTick
    /\ clock' = [p \in Peers |-> IF up[p] THEN clock[p] + 1 ELSE clock[p]]
    /\ radio' = {[f EXCEPT !.left = @ - 1] : f \in {g \in radio : g.left > 0}}
    /\ ended' = [p \in Peers |-> IF ended[p] < StaleAge + MaxDelay
                                  THEN ended[p] + 1 ELSE ended[p]]
    /\ heard' = [p \in Peers |-> IF caught[p] /\ up[p] THEN heard[p] + 1 ELSE 0]
    /\ caught' = [p \in Peers |-> FALSE]
    /\ UNCHANGED <<up, life, gone>>

Next ==
    \/ Tick
    \/ \E p \in Peers : Send(p) \/ Depart(p) \/ Crash(p) \/ Boot(p)
    \/ \E f \in radio : Receive(f) \/ Lose(f)

Spec == Init /\ [][Next]_vars

-----------------------------------------------------------------------------
(* Safety *)

Populated(p) == entries[p].known
IsFresh(p)   == entries[p].known /\ entries[p].active /\ ~entries[p].stale

(* The flags the code keeps agree with the age it keeps: an entry is       *)
(* active before the expiry age, stale from the stale age on.  L5 and L6   *)
(* read the flags, never the age.                                          *)
FlagsFollowAge ==
    \A p \in Peers : Populated(p) =>
        /\ entries[p].active <=> entries[p].age < ExpireAge
        /\ entries[p].stale <=> entries[p].age >= StaleAge

(* The merged clock (wm_receive_gossip, max + 1) never runs more than one  *)
(* ahead of the sender in the life the entry comes from, so that a running *)
(* peer is shut out for one cycle at most.                                 *)
ClockLead ==
    \A p \in Peers :
        Populated(p) /\ entries[p].life = life[p] => entries[p].clk <= clock[p] + 1

(* Completeness of the failure detector: once a life of a peer has been    *)
(* over for the stale age and the longest radio delay, no frame of that    *)
(* life is held fresh, however its last frames were delayed, repeated or   *)
(* reordered, and whether or not the peer has rebooted (wm_tick).          *)
PastLifeFades ==
    \A p \in Peers :
        ended[p] >= StaleAge + MaxDelay /\ IsFresh(p) =>
            up[p] /\ entries[p].life = life[p]

(* Accuracy across a reboot: the entry of the previous life, with its      *)
(* larger clock, blocks the new life only until it expires; once the       *)
(* peer's latest frame has arrived in enough cycles in a row the peer is   *)
(* held fresh (wm_receive_gossip, the inactive case).                      *)
BlindnessBounded ==
    \A p \in Peers : heard[p] > ExpireAge + MaxDelay => IsFresh(p)

(* Frames that arrive between two ticks can only make entries fresher than *)
(* the metric says: it never overstates (recompute_metric, which only      *)
(* wm_tick calls), and a degraded consistency is never hidden.             *)
MetricConservative ==
    /\ metric.fresh <= Metric(entries).fresh
    /\ metric.inactive >= Metric(entries).inactive
    /\ Metric(entries).degraded => metric.degraded

-----------------------------------------------------------------------------
(* Action properties *)

(* "Reject if received clock is not strictly newer than what we hold"      *)
(* (world_model.c): what is held is the state of a frame whose clock was   *)
(* one less than the stored one, and a frame newer than that is taken.     *)
NewerFrameTaken ==
    [][\A f \in radio :
         /\ Receive(f)
         /\ Populated(f.src) /\ entries[f.src].active
         /\ f.life = entries[f.src].life
         /\ f.clk > entries[f.src].clk - 1
         => entries'[f.src].age = 0 /\ entries'[f.src].clk > entries[f.src].clk]_vars

-----------------------------------------------------------------------------
(* The abstract table *)

(* What L5 sees of an entry. *)
RowOf(e) == [known |-> e.known, age |-> e.age, departed |-> e.departed]

Abstract == INSTANCE PeerTable WITH
                table <- [p \in Peers |-> RowOf(entries[p])]

(* The entries, with clocks, radio and reboots, behave as the table L5 is  *)
(* specified over.                                                         *)
ImplementsTable == Abstract!TableSpec
=============================================================================
