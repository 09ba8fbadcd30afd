------------------------------- MODULE Relay -------------------------------
(***************************************************************************)
(* The gossip frames of L3 and their two-hop relay (transport/gossip.c,    *)
(* built with CONFIG_TAPESTRY_MESH_RELAY): elements broadcast their own    *)
(* state, hand what they receive to the world model and pass on, after a   *)
(* jitter, what is newer than anything they have passed on for its origin. *)
(*                                                                         *)
(* A frame that does not parse (length, tag, version) is a frame never     *)
(* received: the radio loses frames anyway, by never delivering them.  A   *)
(* drain that takes in several frames is several Drains whose jitter has   *)
(* not elapsed.                                                            *)
(***************************************************************************)
EXTENDS Naturals, Sequences, FiniteSets

CONSTANTS
    Elements,    \* identifiers below MAX_ELEMENTS
    Neighbours,  \* [Elements -> SUBSET Elements]: who hears whom
    Origins,     \* the elements that send frames of their own
    Restarting,  \* the elements that may be switched off and on
    Hops,        \* the hop count of a first-party frame: 2
    Depth,       \* RELAY_QUEUE_DEPTH
    MaxClock,    \* bound: frames an origin sends in one life
    MaxBoots     \* bound: reboots in all

ASSUME RelayAssumption ==
    /\ Neighbours \in [Elements -> SUBSET Elements]
    /\ \A e \in Elements : e \notin Neighbours[e]
    /\ Origins \subseteq Elements /\ Restarting \subseteq Elements
    /\ Hops \in 0..2 /\ Depth \in Nat \ {0}
    /\ MaxClock \in Nat /\ MaxBoots \in Nat

VARIABLES
    clock,       \* logical_clock of every element
    relayClock,  \* relay_clock[] of every element
    queue,       \* relay_q[] up to relay_q_count
    air,         \* frames on their way to, or in the receive buffers of, each
    ownId,       \* g_own_id_frames has counted something
    passed,      \* history: what each element has passed on in this life
    boots

relayVars == <<clock, relayClock, queue, air, ownId, passed, boots>>

SOFT == 1   \* TAPESTRY_QOS_SOFT_RT
HARD == 2   \* TAPESTRY_QOS_HARD_RT

Frame == [id: Elements, clock: Nat, hop: 0..Hops, qos: {SOFT, HARD}]

(* What the radio does with the frames s that e transmits: every neighbour *)
(* may hear them.                                                          *)
Broadcast(e, s) ==
    air' = [n \in Elements |-> IF n \in Neighbours[e] THEN air[n] \cup s ELSE air[n]]

-----------------------------------------------------------------------------
(* relay_q_store *)
Stored(f) == [f EXCEPT !.hop = @ - 1]

(* The first slot of the lowest tier. *)
Worst(q) ==
    CHOOSE i \in DOMAIN q :
        /\ \A j \in DOMAIN q : q[i].qos <= q[j].qos
        /\ \A j \in DOMAIN q : j < i => q[j].qos > q[i].qos

(* relay_enqueue. Variant: a full queue drops. *)

EnqueuedOrDropped(q, f) == IF Len(q) < Depth THEN Append(q, Stored(f)) ELSE q

Enqueued(q, f) ==
    IF Len(q) < Depth THEN Append(q, Stored(f))
    ELSE IF f.qos > q[Worst(q)].qos THEN [q EXCEPT ![Worst(q)] = Stored(f)]
    ELSE q

(* Variant: not strictly newer. *)
RelayableAgain(e, f) == f.hop > 0 /\ f.clock >= relayClock[e][f.id]
Relayable(e, f) == f.hop > 0 /\ f.clock > relayClock[e][f.id]

Key(f) == <<f.id, f.clock>>

-----------------------------------------------------------------------------

RelayInit ==
    /\ clock = [e \in Elements |-> 0]
    /\ relayClock = [e \in Elements |-> [o \in Elements |-> 0]]
    /\ queue = [e \in Elements |-> <<>>]
    /\ air = [e \in Elements |-> {}]
    /\ ownId = [e \in Elements |-> FALSE]
    /\ passed = [e \in Elements |-> {}]
    /\ boots = 0

(* gossip_send, after wm_update_self has moved the clock. *)
Send(e, qos) ==
    /\ clock[e] < MaxClock
    /\ clock' = [clock EXCEPT ![e] = @ + 1]
    /\ Broadcast(e, {[id |-> e, clock |-> clock[e] + 1, hop |-> Hops, qos |-> qos]})
    /\ UNCHANGED <<relayClock, queue, ownId, passed, boots>>

(* gossip_drain of one frame: an own-id frame is counted and dropped, any  *)
(* other goes to the world model and perhaps into the queue.  A frame may  *)
(* come again: media repeat what they carry.                               *)
Drain(e, f) ==
    /\ f \in air[e]
    /\ \E again \in {{}, {f}} : air' = [air EXCEPT ![e] = (@ \ {f}) \cup again]
    /\ ownId' = [ownId EXCEPT ![e] = @ \/ f.id = e]
    /\ IF f.id # e /\ Relayable(e, f)
       THEN /\ relayClock' = [relayClock EXCEPT ![e][f.id] = f.clock]
            /\ queue' = [queue EXCEPT ![e] = Enqueued(@, f)]
       ELSE UNCHANGED <<relayClock, queue>>
    /\ UNCHANGED <<clock, passed, boots>>

(* gossip_relay_flush at the end of a drain, once the jitter set by the    *)
(* first frame of the queue has elapsed.                                   *)
Flush(e) ==
    LET frames == {queue[e][i] : i \in DOMAIN queue[e]}
    IN /\ queue[e] # <<>>
       /\ Broadcast(e, frames)
       /\ queue' = [queue EXCEPT ![e] = <<>>]
       /\ passed' = [passed EXCEPT ![e] = @ \cup {Key(f) : f \in frames}]
       /\ UNCHANGED <<clock, relayClock, ownId, boots>>

(* Power off and on: all statics are lost. *)
Reboot(e) ==
    /\ boots < MaxBoots
    /\ boots' = boots + 1
    /\ clock' = [clock EXCEPT ![e] = 0]
    /\ relayClock' = [relayClock EXCEPT ![e] = [o \in Elements |-> 0]]
    /\ queue' = [queue EXCEPT ![e] = <<>>]
    /\ air' = [air EXCEPT ![e] = {}]
    /\ ownId' = [ownId EXCEPT ![e] = FALSE]
    /\ passed' = [passed EXCEPT ![e] = {}]

RelayNext ==
    \/ \E e \in Origins, qos \in {SOFT, HARD} : Send(e, qos)
    \/ \E e \in Elements :
          \/ \E f \in air[e] : Drain(e, f)
          \/ Flush(e)
    \/ \E e \in Restarting : Reboot(e)

RelaySpec == RelayInit /\ [][RelayNext]_relayVars

-----------------------------------------------------------------------------

RelayTypeOK ==
    /\ clock \in [Elements -> 0..MaxClock]
    /\ relayClock \in [Elements -> [Elements -> 0..MaxClock]]
    /\ \A e \in Elements :
          /\ Len(queue[e]) <= Depth
          /\ \A i \in DOMAIN queue[e] : queue[e][i] \in Frame
    /\ \A e \in Elements : air[e] \subseteq Frame
    /\ ownId \in [Elements -> BOOLEAN]
    /\ boots \in 0..MaxBoots

(* No storm: around whatever loops the neighbours form, through evictions, *)
(* copies and reboots of others, an element passes a frame on at most once *)
(* in its life (Kconfig, TAPESTRY_MESH_RELAY), and, two relays and no      *)
(* more, no frame is heard more than three links from its origin.          *)
Around(S) == S \cup UNION {Neighbours[e] : e \in S}

NoStorm ==
    \A e \in Elements :
        /\ \A i, j \in DOMAIN queue[e] : Key(queue[e][i]) = Key(queue[e][j]) => i = j
        /\ \A i \in DOMAIN queue[e] : Key(queue[e][i]) \notin passed[e]
        /\ \A f \in air[e] : e \in Around(Around(Around({f.id})))

(* A HARD_RT frame that is to be passed on is not the one dropped while a  *)
(* lower tier holds a slot, and one that has a slot keeps it until it is   *)
(* sent (relay_enqueue's comment, wire.h's QoS tiers).                     *)
HardIn(q) == {Key(q[i]) : i \in {k \in DOMAIN q : q[k].qos = HARD}}

HardKeepsItsSlot ==
    [][\A e \in Elements : \A f \in air[e] : Drain(e, f) =>
          /\ HardIn(queue[e]) \subseteq HardIn(queue'[e])
          /\ f.id # e /\ Relayable(e, f) /\ f.qos = HARD =>
                \/ Key(f) \in HardIn(queue'[e])
                \/ Cardinality(HardIn(queue'[e])) = Depth]_relayVars
=============================================================================
