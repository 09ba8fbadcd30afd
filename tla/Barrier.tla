------------------------------ MODULE Barrier ------------------------------
(***************************************************************************)
(* The start of examples/cutebot-formation: after auto-ID a robot waits,   *)
(* without a bound, until every robot it expects has been fresh in its     *)
(* world model for DEMO_SYNC_SETTLE_MS, and only then drives.  It gossips  *)
(* meanwhile.  A tick is one gossip interval of every robot that is on;    *)
(* the radio may lose what a robot sends, or one reception.  Sensor posts  *)
(* gossip too, are heard by all, and do not count.                         *)
(*                                                                         *)
(* World-model entries are reduced to their age: Expire stands for an      *)
(* entry that is not active.  While a robot drives its entries no longer   *)
(* matter here.                                                            *)
(***************************************************************************)
EXTENDS Naturals, FiniteSets

CONSTANTS
    Bots,      \* the robots auto-ID counted
    Posts,     \* number of stationary elements in range
    Stale,     \* WM_STALE_THRESHOLD_MS in gossip intervals
    Expire,    \* WM_EXPIRE_THRESHOLD_MS in gossip intervals
    Settle,    \* DEMO_SYNC_SETTLE_MS in gossip intervals
    MaxOuts    \* bound: switching off, in all

ASSUME BarrierAssumption ==
    /\ IsFiniteSet(Bots)
    /\ Posts \in Nat /\ Settle \in Nat \ {0} /\ MaxOuts \in Nat
    /\ Stale \in Nat \ {0} /\ Expire \in Nat /\ Stale < Expire

VARIABLES
    phase,   \* "OFF", "BARRIER", "DRIVE"
    age,     \* [Bots -> [Bots -> ticks since the entry was renewed]]
    ready,   \* peers_ready_ms in ticks
    past,    \* pairs whose entry bears a later clock than the peer restarted at
    gone,    \* history: ticks since the robot was last on, up to Expire
    calm,    \* from now on nothing is lost and nobody switched
    outs

barrierVars == <<phase, age, ready, past, gone, calm, outs>>

Awake == {r \in Bots : phase[r] # "OFF"}

-----------------------------------------------------------------------------
(* demo_fresh_robot_peers().  Variant: the posts are counted.              *)
FreshWithPosts(r) == Cardinality({q \in Bots \ {r} : age'[r][q] < Stale}) + Posts
Fresh(r) == Cardinality({q \in Bots \ {r} : age'[r][q] < Stale})

(* wm_update_self() in the barrier's loop and in the main loop: what a     *)
(* robot sends bears a newer clock each time.  Variant: only in the latter.*)
AdvancesDriving(r) == phase[r] = "DRIVE"
Advances(r) == phase[r] \in {"BARRIER", "DRIVE"}

(* wm_receive_gossip(): a frame renews an entry that is not active, or     *)
(* whose clock it exceeds.                                                 *)
Renews(r, q) == age[r][q] = Expire \/ (Advances(q) /\ <<r, q>> \notin past)

AgeAfter(r, q, heard) ==
    IF heard /\ Renews(r, q) THEN 0
    ELSE IF age[r][q] < Expire THEN age[r][q] + 1 ELSE Expire

ReadyAfter(r) == IF Fresh(r) >= Cardinality(Bots) - 1 THEN ready[r] + 1 ELSE 0

-----------------------------------------------------------------------------
BarrierInit ==
    /\ phase = [r \in Bots |-> "OFF"]
    /\ age = [r \in Bots |-> [q \in Bots |-> Expire]]
    /\ ready = [r \in Bots |-> 0] /\ past = {}
    /\ gone = [r \in Bots |-> Expire]
    /\ calm = FALSE /\ outs = 0

(* What may be lost: the frames of some, or a single reception.            *)
Losses == {S \X Bots : S \in SUBSET Awake} \cup {{<<q, r>>} : q, r \in Awake}

Tick(lost) ==
    /\ age' = [r \in Bots |-> [q \in Bots |->
           IF phase[r] # "BARRIER" \/ q = r THEN Expire
           ELSE AgeAfter(r, q, q \in Awake /\ <<q, r>> \notin lost)]]
    /\ ready' = [r \in Bots |->
           IF phase[r] = "BARRIER" /\ ReadyAfter(r) < Settle THEN ReadyAfter(r) ELSE 0]
    /\ phase' = [r \in Bots |->
           IF phase[r] = "BARRIER" /\ ReadyAfter(r) >= Settle THEN "DRIVE" ELSE phase[r]]
    /\ gone' = [r \in Bots |->
           IF phase[r] # "OFF" THEN 0
           ELSE IF gone[r] < Expire THEN gone[r] + 1 ELSE Expire]
    /\ past' = {p \in past : age[p[1]][p[2]] < Expire}
    /\ UNCHANGED <<calm, outs>>

LossyTick == ~calm /\ \E lost \in Losses : Tick(lost)
CalmTick  == Tick({})

SwitchOn(r) ==
    /\ phase[r] = "OFF" /\ ~calm
    /\ phase' = [phase EXCEPT ![r] = "BARRIER"]
    /\ UNCHANGED <<age, ready, past, gone, calm, outs>>

SwitchOff(r) ==
    /\ phase[r] # "OFF" /\ ~calm /\ outs < MaxOuts
    /\ phase' = [phase EXCEPT ![r] = "OFF"]
    /\ age' = [age EXCEPT ![r] = [q \in Bots |-> Expire]]
    /\ ready' = [ready EXCEPT ![r] = 0]
    /\ \E lags \in {{}, Bots \X {r}} :
           past' = {p \in past \cup lags : age'[p[1]][p[2]] < Expire}
    /\ outs' = outs + 1
    /\ UNCHANGED <<gone, calm>>

Calms == ~calm /\ Awake = Bots /\ calm' = TRUE
         /\ UNCHANGED <<phase, age, ready, past, gone, outs>>

BarrierNext ==
    \/ LossyTick
    \/ CalmTick
    \/ \E r \in Bots : SwitchOn(r) \/ SwitchOff(r)
    \/ Calms

BarrierSpec == BarrierInit /\ [][BarrierNext]_barrierVars

-----------------------------------------------------------------------------
(* No robot drives off before each of the others has been switched on, and *)
(* not when one of them has been off for as long as it takes to tell       *)
(* (main.c, the convergence hold: "every robot starts choreo from the same *)
(* fully-formed view of the group").                                       *)
StartsTogether ==
    [][\A r \in Bots : phase[r] = "BARRIER" /\ phase'[r] = "DRIVE" =>
           \A q \in Bots : gone'[q] < Stale]_barrierVars

(* Once all are on and the radio is clear everybody drives: nobody waits   *)
(* for a robot that itself waits, and entries do not go stale behind       *)
(* frames that look old.                                                   *)
BarrierOpens == calm ~> \A r \in Bots : phase[r] = "DRIVE"
=============================================================================
