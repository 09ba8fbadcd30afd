---------------------------- MODULE GossipProofs ----------------------------
(***************************************************************************)
(* Theorems about what gossip.c and transport.c do beside the world model: *)
(* the relay (NoStorm, HardKeepsItsSlot), the directives of a host         *)
(* (SteersWhileFed, ReplaysAreInert) and the negotiation of identifiers    *)
(* (EqualViewsDiffer), for every topology, queue, stream and swarm.  The   *)
(* three machines share nothing; each has an inductive invariant of its    *)
(* own: RelayInv, Filtered with StreamInv, JoinInv.                        *)
(***************************************************************************)
EXTENDS Relay, Directive, AutoId, FiniteSetTheorems, SequenceTheorems,
        WellFoundedInduction, TLAPS

(* A set of numbers has a least one, a bounded one a greatest.             *)
LEMMA Least ==
    ASSUME NEW T, T \subseteq Nat, T # {}
    PROVE  \E x \in T : \A y \in T : x <= y
<1>1. PICK x \in T : \A y \in T : <<y, x>> \notin OpToRel(<, Nat)
  BY NatLessThanWellFounded, WFMin, Zenon
<1>2. \A y \in T : ~(y < x)
  BY <1>1 DEF OpToRel
<1> QED
  BY <1>2

(* Of a bounded set of numbers, the greatest.                              *)
LEMMA Greatest ==
    ASSUME NEW B \in Nat, NEW T, T \subseteq 0..B, T # {}
    PROVE  \E x \in T : \A y \in T : y <= x
<1> DEFINE U == {B - x : x \in T}
<1>1. U \subseteq Nat /\ U # {}
  <2>1. \A x \in T : B - x \in Nat
    OBVIOUS
  <2> QED
    BY <2>1, Zenon
<1> HIDE DEF U
<1>2. PICK u \in U : \A y \in U : u <= y
  BY <1>1, Least
<1>3. PICK x \in T : u = B - x
  BY <1>2 DEF U
<1>4. \A y \in T : B - x <= B - y
  BY <1>2, <1>3 DEF U
<1> QED
  BY <1>4

-----------------------------------------------------------------------------
(* Relay *)

(* How far from its origin a frame with h hops left may be heard.          *)
Within(o, h) ==
    IF h = 2 THEN Around({o})
    ELSE IF h = 1 THEN Around(Around({o}))
    ELSE Around(Around(Around({o})))

Keys == Elements \X Nat

RelayTypes ==
    /\ clock \in [Elements -> Nat]
    /\ relayClock \in [Elements -> [Elements -> Nat]]
    /\ queue \in [Elements -> Seq(Frame)]
    /\ air \in [Elements -> SUBSET Frame]
    /\ passed \in [Elements -> SUBSET Keys]

(* What waits in a queue or has been passed on is not newer than the       *)
(* relay clock, and nothing is there twice.                                *)
OnceOnly(e) ==
    /\ Len(queue[e]) <= Depth
    /\ \A i \in DOMAIN queue[e] : queue[e][i].clock <= relayClock[e][queue[e][i].id]
    /\ \A k \in passed[e] : k[2] <= relayClock[e][k[1]]
    /\ \A i, j \in DOMAIN queue[e] : Key(queue[e][i]) = Key(queue[e][j]) => i = j
    /\ \A i \in DOMAIN queue[e] : Key(queue[e][i]) \notin passed[e]

(* A hop spent for every link.                                             *)
InReach(e) ==
    /\ \A f \in air[e] : e \in Within(f.id, f.hop)
    /\ \A i \in DOMAIN queue[e] :
           queue[e][i].hop <= 1 /\ e \in Within(queue[e][i].id, queue[e][i].hop + 1)

RelayInv == RelayTypes /\ \A e \in Elements : OnceOnly(e) /\ InReach(e)

(* What relay_q_store keeps of a frame that has a hop left.                *)
LEMMA StoredFrame ==
    ASSUME NEW f \in Frame, f.hop > 0
    PROVE  /\ Stored(f) \in Frame /\ Stored(f).id = f.id /\ Stored(f).clock = f.clock
           /\ Stored(f).hop = f.hop - 1 /\ Stored(f).qos = f.qos
           /\ f.hop \in 1..2 /\ f.id \in Elements /\ f.clock \in Nat
           /\ Key(Stored(f)) = Key(f)
<1>1. /\ f \in [id: Elements, clock: Nat, hop: 0..Hops, qos: {SOFT, HARD}] /\ Hops \in 0..2
  BY RelayAssumption DEF Frame
<1>2. f.hop - 1 \in 0..Hops
  BY <1>1
<1> QED
  BY <1>1, <1>2 DEF Stored, Frame, Key

(* A full queue has a worst slot.                                          *)
LEMMA WorstIs ==
    ASSUME NEW q \in Seq(Frame), q # <<>>
    PROVE  /\ Worst(q) \in DOMAIN q
           /\ \A j \in DOMAIN q : q[Worst(q)].qos <= q[j].qos
<1>1. \A i \in DOMAIN q : i \in Nat /\ q[i] \in Frame /\ q[i].qos \in {1, 2}
  <2>1. DOMAIN q = 1..Len(q) /\ Len(q) \in Nat
    BY LenProperties
  <2>2. \A i \in DOMAIN q : q[i] \in Frame
    BY <2>1, ElementOfSeq, Zenon
  <2>3. \A g \in Frame : g.qos \in {1, 2}
    BY DEF Frame, SOFT, HARD
  <2> QED
    BY <2>1, <2>2, <2>3
<1>2. DOMAIN q # {}
  <2>1. DOMAIN q = 1..Len(q) /\ Len(q) \in Nat /\ Len(q) # 0
    BY LenProperties, EmptySeq
  <2>2. 1 \in DOMAIN q
    BY <2>1
  <2> QED
    BY <2>2
<1>3. \E m \in {1, 2} : /\ \E i \in DOMAIN q : q[i].qos = m
                        /\ \A j \in DOMAIN q : m <= q[j].qos
  <2>1. CASE \E i \in DOMAIN q : q[i].qos = 1
    BY <1>1, <2>1
  <2>2. CASE ~ \E i \in DOMAIN q : q[i].qos = 1
    BY <1>1, <1>2, <2>2
  <2> QED
    BY <2>1, <2>2
<1>4. PICK m \in {1, 2} : /\ \E i \in DOMAIN q : q[i].qos = m
                          /\ \A j \in DOMAIN q : m <= q[j].qos
  BY <1>3
<1> DEFINE T == {i \in DOMAIN q : q[i].qos = m}
<1>5. T \subseteq Nat /\ T # {}
  BY <1>1, <1>4
<1> HIDE DEF T
<1>6. PICK i \in T : \A j \in T : i <= j
  BY <1>5, Least
<1>7. /\ i \in DOMAIN q /\ q[i].qos = m
      /\ \A j \in DOMAIN q : q[j].qos = m => i <= j
  BY <1>6 DEF T
<1>8. /\ \A j \in DOMAIN q : q[i].qos <= q[j].qos
      /\ \A j \in DOMAIN q : j < i => q[j].qos > q[i].qos
  BY <1>1, <1>4, <1>7
<1> QED
  BY <1>7, <1>8 DEF Worst

(* Whatever is done with a frame, one slot at most is its, and the others  *)
(* are as they were.                                                       *)
LEMMA EnqueuedShape ==
    ASSUME NEW q \in Seq(Frame), Len(q) <= Depth, NEW f \in Frame, f.hop > 0,
           NEW r, r = Enqueued(q, f)
    PROVE  /\ r \in Seq(Frame) /\ Len(r) <= Depth
           /\ \/ r = q
              \/ \E w \in DOMAIN r : /\ r[w] = Stored(f)
                                     /\ \A i \in DOMAIN r \ {w} : i \in DOMAIN q /\ r[i] = q[i]
<1>1. Depth \in Nat /\ Depth > 0 /\ Len(q) \in Nat /\ Stored(f) \in Frame
  BY RelayAssumption, StoredFrame
<1>2. CASE Len(q) < Depth
  <2>1. r = Append(q, Stored(f))
    BY <1>2 DEF Enqueued
  <2>2. /\ r \in Seq(Frame) /\ Len(r) = Len(q) + 1 /\ r[Len(q) + 1] = Stored(f)
        /\ \A i \in 1..Len(q) : r[i] = q[i]
    BY <1>1, <2>1, AppendProperties
  <2>3. /\ Len(q) + 1 \in DOMAIN r
        /\ \A i \in DOMAIN r \ {Len(q) + 1} : i \in DOMAIN q /\ r[i] = q[i]
    BY <1>1, <2>2
  <2> QED
    BY <1>1, <1>2, <2>2, <2>3
<1>3. CASE ~(Len(q) < Depth)
  <2>1. q # <<>>
    BY <1>1, <1>3, EmptySeq
  <2>2. Worst(q) \in DOMAIN q
    BY <2>1, WorstIs
  <2>3. CASE r = q
    BY <2>3
  <2>4. CASE r = [q EXCEPT ![Worst(q)] = Stored(f)]
    <3>1. r \in Seq(Frame) /\ Len(r) = Len(q)
      BY <1>1, <2>2, <2>4, ExceptSeq
    <3>2. DOMAIN r = DOMAIN q
      BY <2>4
    <3>3. r[Worst(q)] = Stored(f) /\ \A i \in DOMAIN r \ {Worst(q)} : r[i] = q[i]
      BY <2>2, <2>4
    <3> QED
      BY <2>2, <3>1, <3>2, <3>3
  <2> QED
    BY <1>3, <2>3, <2>4 DEF Enqueued
<1> QED
  BY <1>2, <1>3

(* The relay invariant, of the initial states.                             *)
LEMMA RelayStart == RelayInit => RelayInv
<1> SUFFICES ASSUME RelayInit PROVE RelayInv
  OBVIOUS
<1>1. RelayTypes
  BY EmptySeq DEF RelayInit, RelayTypes
<1>2. \A e \in Elements : queue[e] = <<>> /\ passed[e] = {} /\ air[e] = {}
  BY DEF RelayInit
<1>3. Len(<<>>) = 0 /\ DOMAIN <<>> = {} /\ Depth \in Nat
  BY RelayAssumption
<1>4. \A e \in Elements : OnceOnly(e) /\ InReach(e)
  BY <1>2, <1>3 DEF OnceOnly, InReach
<1> QED
  BY <1>1, <1>4 DEF RelayInv

(* A link further away, one hop less.                                      *)
LEMMA NeighboursHear ==
    ASSUME NEW e \in Elements, NEW n \in Neighbours[e], NEW o \in Elements
    PROVE  /\ e = o => \A h \in 0..2 : n \in Within(o, h)
           /\ \A h \in 0..1 : e \in Within(o, h + 1) => n \in Within(o, h)
<1> DEFINE A == Around({o})
           B == Around(A)
<1>1. \A S : S \subseteq Around(S) /\ (e \in S => n \in Around(S))
  BY DEF Around
<1>2. e = o => n \in A
  BY <1>1
<1> HIDE DEF A
<1>3. A \subseteq B /\ (e \in A => n \in B)
  BY <1>1
<1> HIDE DEF B
<1>4. B \subseteq Around(B) /\ (e \in B => n \in Around(B))
  BY <1>1
<1>5. Within(o, 2) = A /\ Within(o, 1) = B /\ Within(o, 0) = Around(B)
  BY DEF Within, A, B
<1>6. e = o => \A h \in 0..2 : n \in Within(o, h)
  BY <1>2, <1>3, <1>4, <1>5
<1>7. \A h \in 0..1 : e \in Within(o, h + 1) => n \in Within(o, h)
  BY <1>3, <1>4, <1>5
<1> QED
  BY <1>6, <1>7

(* A broadcast of frames that may be heard so far.                         *)
LEMMA BroadcastReaches ==
    ASSUME RelayTypes, NEW e \in Elements, NEW s \in SUBSET Frame, Broadcast(e, s),
           \A n \in Elements : \A f \in air[n] : n \in Within(f.id, f.hop),
           \A n \in Neighbours[e] : \A f \in s : n \in Within(f.id, f.hop)
    PROVE  /\ air' \in [Elements -> SUBSET Frame]
           /\ \A n \in Elements : \A f \in air'[n] : n \in Within(f.id, f.hop)
<1>1. \A n \in Elements : air'[n] = IF n \in Neighbours[e] THEN air[n] \cup s ELSE air[n]
  BY DEF Broadcast
<1>2. air' \in [Elements -> SUBSET Frame]
  BY DEF Broadcast, RelayTypes
<1> QED
  BY <1>1, <1>2

(* The relay invariant through gossip_send.                                *)
LEMMA SendKeeps ==
    ASSUME RelayInv, NEW e \in Origins, NEW qos \in {SOFT, HARD}, Send(e, qos)
    PROVE  RelayInv'
<1> DEFINE f == [id |-> e, clock |-> clock[e] + 1, hop |-> Hops, qos |-> qos]
<1>1. /\ clock' = [clock EXCEPT ![e] = @ + 1] /\ Broadcast(e, {f})
      /\ relayClock' = relayClock /\ queue' = queue /\ passed' = passed
  BY DEF Send
<1>2. RelayTypes /\ \A d \in Elements : OnceOnly(d) /\ InReach(d)
  BY DEF RelayInv
<1>3. e \in Elements /\ clock[e] \in Nat /\ Hops \in 0..2
  BY <1>2, RelayAssumption DEF RelayTypes
<1>4. f \in Frame /\ f.id = e /\ f.hop \in 0..2
  BY <1>3 DEF Frame
<1> HIDE DEF f
<1>5. {f} \in SUBSET Frame /\ \A n \in Neighbours[e] : \A g \in {f} : n \in Within(g.id, g.hop)
  BY <1>3, <1>4, NeighboursHear
<1>6. /\ air' \in [Elements -> SUBSET Frame]
      /\ \A n \in Elements : \A g \in air'[n] : n \in Within(g.id, g.hop)
  BY <1>1, <1>2, <1>3, <1>5, BroadcastReaches DEF InReach
<1>7. RelayTypes'
  BY <1>1, <1>2, <1>3, <1>6 DEF RelayTypes
<1> QED
  BY <1>1, <1>2, <1>6, <1>7 DEF RelayInv, OnceOnly, InReach

(* The relay invariant through gossip_relay_flush: what leaves the queue   *)
(* has been passed on, and travels one link.                               *)
LEMMA FlushKeeps ==
    ASSUME RelayInv, NEW e \in Elements, Flush(e)
    PROVE  RelayInv'
<1> DEFINE frames == {queue[e][i] : i \in DOMAIN queue[e]}
<1>1. /\ Broadcast(e, frames) /\ queue' = [queue EXCEPT ![e] = <<>>]
      /\ passed' = [passed EXCEPT ![e] = @ \cup {Key(f) : f \in frames}]
      /\ clock' = clock /\ relayClock' = relayClock
  BY DEF Flush
<1>2. RelayTypes /\ \A d \in Elements : OnceOnly(d) /\ InReach(d)
  BY DEF RelayInv
<1>3. \A f \in frames : /\ f \in Frame /\ f.id \in Elements /\ f.clock \in Nat /\ f.hop \in 0..1
                        /\ e \in Within(f.id, f.hop + 1) /\ f.clock <= relayClock[e][f.id]
  <2> SUFFICES ASSUME NEW i \in DOMAIN queue[e]
               PROVE  LET f == queue[e][i]
                      IN /\ f \in Frame /\ f.id \in Elements /\ f.clock \in Nat /\ f.hop \in 0..1
                         /\ e \in Within(f.id, f.hop + 1) /\ f.clock <= relayClock[e][f.id]
    OBVIOUS
  <2>1. queue[e] \in Seq(Frame)
    BY <1>2 DEF RelayTypes
  <2>2. queue[e][i] \in Frame
    BY <2>1, LenProperties, ElementOfSeq, Zenon
  <2>3. \A g \in Frame : g.id \in Elements /\ g.clock \in Nat /\ g.hop \in Nat
    BY RelayAssumption DEF Frame
  <2>4. /\ queue[e][i].hop <= 1 /\ e \in Within(queue[e][i].id, queue[e][i].hop + 1)
        /\ queue[e][i].clock <= relayClock[e][queue[e][i].id]
    BY <1>2 DEF InReach, OnceOnly
  <2> QED
    BY <2>2, <2>3, <2>4
<1> HIDE DEF frames
<1>4. frames \in SUBSET Frame /\ \A n \in Neighbours[e] : \A f \in frames : n \in Within(f.id, f.hop)
  BY <1>3, NeighboursHear
<1>5. /\ air' \in [Elements -> SUBSET Frame]
      /\ \A n \in Elements : \A f \in air'[n] : n \in Within(f.id, f.hop)
  BY <1>1, <1>2, <1>4, BroadcastReaches DEF InReach
<1>6. \A f \in frames : /\ Key(f) \in Keys /\ Key(f)[2] <= relayClock[e][Key(f)[1]]
  BY <1>3 DEF Key, Keys
<1>7. RelayTypes'
  <2>1. queue' \in [Elements -> Seq(Frame)]
    BY <1>1, <1>2, EmptySeq DEF RelayTypes
  <2>2. passed' \in [Elements -> SUBSET Keys]
    BY <1>1, <1>2, <1>6 DEF RelayTypes
  <2> QED
    BY <1>1, <1>2, <1>5, <2>1, <2>2 DEF RelayTypes
<1>8. ASSUME NEW d \in Elements PROVE OnceOnly(d)' /\ InReach(d)'
  <2>1. CASE d = e
    <3>1. queue'[e] = <<>> /\ Len(<<>>) = 0 /\ DOMAIN <<>> = {} /\ Depth \in Nat
      BY <1>1, <1>2, RelayAssumption DEF RelayTypes
    <3>2. \A k \in passed'[e] : k[2] <= relayClock[e][k[1]]
      BY <1>1, <1>2, <1>6 DEF RelayTypes, OnceOnly
    <3> QED
      BY <1>1, <1>5, <2>1, <3>1, <3>2 DEF OnceOnly, InReach
  <2>2. CASE d # e
    <3>1. queue'[d] = queue[d] /\ passed'[d] = passed[d]
      BY <1>1, <1>2, <2>2 DEF RelayTypes
    <3> QED
      BY <1>1, <1>2, <1>5, <3>1 DEF OnceOnly, InReach
  <2> QED
    BY <2>1, <2>2
<1> QED
  BY <1>7, <1>8 DEF RelayInv

(* The relay invariant through a reboot, which forgets the clock and what  *)
(* was passed on alike.                                                    *)
LEMMA RebootKeeps ==
    ASSUME RelayInv, NEW e \in Elements, Reboot(e)
    PROVE  RelayInv'
<1>1. /\ clock' = [clock EXCEPT ![e] = 0]
      /\ relayClock' = [relayClock EXCEPT ![e] = [o \in Elements |-> 0]]
      /\ queue' = [queue EXCEPT ![e] = <<>>] /\ air' = [air EXCEPT ![e] = {}]
      /\ passed' = [passed EXCEPT ![e] = {}]
  BY DEF Reboot
<1>2. RelayTypes /\ \A d \in Elements : OnceOnly(d) /\ InReach(d)
  BY DEF RelayInv
<1>3. RelayTypes'
  BY <1>1, <1>2, EmptySeq DEF RelayTypes
<1>4. ASSUME NEW d \in Elements PROVE OnceOnly(d)' /\ InReach(d)'
  <2>1. CASE d = e
    <3>1. /\ queue'[e] = <<>> /\ Len(<<>>) = 0 /\ DOMAIN <<>> = {} /\ Depth \in Nat
          /\ passed'[e] = {} /\ air'[e] = {}
      BY <1>1, <1>2, RelayAssumption DEF RelayTypes
    <3> QED
      BY <2>1, <3>1 DEF OnceOnly, InReach
  <2>2. CASE d # e
    <3>1. /\ queue'[d] = queue[d] /\ passed'[d] = passed[d] /\ air'[d] = air[d]
          /\ relayClock'[d] = relayClock[d]
      BY <1>1, <1>2, <2>2 DEF RelayTypes
    <3> QED
      BY <1>2, <3>1 DEF OnceOnly, InReach
  <2> QED
    BY <2>1, <2>2
<1> QED
  BY <1>3, <1>4 DEF RelayInv

(* The relay invariant through gossip_drain: what enters the queue is      *)
(* newer than the relay clock, so it is neither there nor passed on.       *)
LEMMA DrainKeeps ==
    ASSUME RelayInv, NEW e \in Elements, NEW f \in air[e], Drain(e, f)
    PROVE  RelayInv'
<1>1. RelayTypes /\ \A d \in Elements : OnceOnly(d) /\ InReach(d)
  BY DEF RelayInv
<1>2. f \in Frame /\ f.id \in Elements /\ f.clock \in Nat /\ e \in Within(f.id, f.hop)
  <2>1. f \in Frame
    BY <1>1 DEF RelayTypes
  <2> QED
    BY <1>1, <2>1 DEF Frame, InReach
<1>3. /\ \E again \in {{}, {f}} : air' = [air EXCEPT ![e] = (@ \ {f}) \cup again]
      /\ clock' = clock /\ passed' = passed
  BY DEF Drain
<1>4. /\ air' \in [Elements -> SUBSET Frame]
      /\ \A n \in Elements : air'[n] \subseteq air[n]
  BY <1>1, <1>2, <1>3 DEF RelayTypes
<1>5. CASE f.id # e /\ Relayable(e, f)
  <2> DEFINE q == queue[e]
             r == queue'[e]
  <2>1. /\ relayClock' = [relayClock EXCEPT ![e][f.id] = f.clock]
        /\ queue' = [queue EXCEPT ![e] = Enqueued(@, f)]
    BY <1>5 DEF Drain
  <2>2. f.hop > 0 /\ f.clock > relayClock[e][f.id]
    BY <1>5 DEF Relayable
  <2>3. q \in Seq(Frame) /\ Len(q) <= Depth /\ r = Enqueued(q, f)
    BY <1>1, <2>1 DEF RelayTypes, OnceOnly
  <2> HIDE DEF q, r
  <2>4. /\ r \in Seq(Frame) /\ Len(r) <= Depth
        /\ \/ r = q
           \/ \E w \in DOMAIN r : /\ r[w] = Stored(f)
                                  /\ \A i \in DOMAIN r \ {w} : i \in DOMAIN q /\ r[i] = q[i]
    BY <1>2, <2>2, <2>3, EnqueuedShape
  <2>5. RelayTypes'
    <3>1. relayClock' \in [Elements -> [Elements -> Nat]]
      BY <1>1, <1>2, <2>1 DEF RelayTypes
    <3>2. queue' \in [Elements -> Seq(Frame)]
      BY <1>1, <2>1, <2>4 DEF RelayTypes, r
    <3> QED
      BY <1>1, <1>3, <1>4, <3>1, <3>2 DEF RelayTypes
  <2>6. \A o \in Elements : /\ relayClock[e][o] <= relayClock'[e][o]
                            /\ relayClock'[e][o] \in Nat /\ relayClock[e][o] \in Nat
    <3>1. \A o \in Elements : relayClock'[e][o] = IF o = f.id THEN f.clock ELSE relayClock[e][o]
      BY <1>1, <1>2, <2>1 DEF RelayTypes
    <3>2. \A o \in Elements : relayClock[e][o] \in Nat
      BY <1>1 DEF RelayTypes
    <3> QED
      BY <1>2, <2>2, <3>1, <3>2
  <2>7. relayClock'[e][f.id] = f.clock
    BY <1>1, <1>2, <2>1 DEF RelayTypes
  <2>8. \A i \in DOMAIN q : /\ q[i].id \in Elements /\ q[i].clock \in Nat
                            /\ q[i].clock <= relayClock[e][q[i].id]
    <3>1. \A i \in DOMAIN q : q[i] \in Frame
      BY <2>3, LenProperties, ElementOfSeq, Zenon
    <3>2. \A i \in DOMAIN q : q[i].clock <= relayClock[e][q[i].id]
      BY <1>1 DEF OnceOnly, q
    <3> QED
      BY <3>1, <3>2 DEF Frame
  <2>9. \A k \in passed[e] : k[1] \in Elements /\ k[2] \in Nat /\ k[2] <= relayClock[e][k[1]]
    BY <1>1 DEF RelayTypes, OnceOnly, Keys
  <2>10. /\ Stored(f).id = f.id /\ Stored(f).clock = f.clock /\ Stored(f).hop = f.hop - 1
         /\ f.hop \in 1..2 /\ Key(Stored(f)) = Key(f) /\ Key(f) = <<f.id, f.clock>>
    BY <1>2, <2>2, StoredFrame DEF Key
  <2>11. Key(f) \notin passed[e] /\ \A i \in DOMAIN q : Key(q[i]) # Key(f)
    <3>1. Key(f) \notin passed[e]
      BY <1>2, <2>2, <2>6, <2>9, <2>10
    <3>2. ASSUME NEW i \in DOMAIN q, Key(q[i]) = Key(f) PROVE FALSE
      <4>1. q[i].id = f.id /\ q[i].clock = f.clock
        BY <3>2, <2>10 DEF Key
      <4> QED
        BY <1>2, <2>2, <2>6, <2>8, <4>1
    <3> QED
      BY <3>1, <3>2
  <2>12. OnceOnly(e) /\ InReach(e)
    BY <1>1
  <2>13. /\ \A i \in DOMAIN r : r[i].clock <= relayClock'[e][r[i].id]
         /\ \A i, j \in DOMAIN r : Key(r[i]) = Key(r[j]) => i = j
         /\ \A i \in DOMAIN r : Key(r[i]) \notin passed[e]
         /\ \A i \in DOMAIN r : r[i].hop <= 1 /\ e \in Within(r[i].id, r[i].hop + 1)
    <3>1. /\ \A i, j \in DOMAIN q : Key(q[i]) = Key(q[j]) => i = j
          /\ \A i \in DOMAIN q : Key(q[i]) \notin passed[e]
          /\ \A i \in DOMAIN q : q[i].hop <= 1 /\ e \in Within(q[i].id, q[i].hop + 1)
          /\ \A i \in DOMAIN q : q[i].clock <= relayClock'[e][q[i].id]
      <4>1. \A i \in DOMAIN q : q[i].clock <= relayClock'[e][q[i].id]
        BY <2>6, <2>8
      <4> QED
        BY <2>12, <4>1 DEF OnceOnly, InReach, q
    <3>2. CASE r = q
      BY <3>1, <3>2
    <3>3. CASE \E w \in DOMAIN r : /\ r[w] = Stored(f)
                                   /\ \A i \in DOMAIN r \ {w} : i \in DOMAIN q /\ r[i] = q[i]
      <4>1. PICK w \in DOMAIN r : /\ r[w] = Stored(f)
                                  /\ \A i \in DOMAIN r \ {w} : i \in DOMAIN q /\ r[i] = q[i]
        BY <3>3
      <4>2. /\ Key(r[w]) = Key(f) /\ r[w].hop <= 1 /\ e \in Within(r[w].id, r[w].hop + 1)
            /\ r[w].clock <= relayClock'[e][r[w].id]
        <5>1. f.hop - 1 <= 1 /\ (f.hop - 1) + 1 = f.hop
          BY <2>10
        <5>2. f.clock <= f.clock
          BY <1>2
        <5> QED
          BY <1>2, <2>7, <2>10, <4>1, <5>1, <5>2
      <4> QED
        BY <2>11, <3>1, <4>1, <4>2
    <3> QED
      BY <2>4, <3>2, <3>3
  <2>14. ASSUME NEW d \in Elements PROVE OnceOnly(d)' /\ InReach(d)'
    <3>1. CASE d = e
      <4>1. \A k \in passed'[e] : k[2] <= relayClock'[e][k[1]]
        BY <1>3, <2>6, <2>9
      <4>2. \A g \in air'[e] : e \in Within(g.id, g.hop)
        BY <1>4, <2>12 DEF InReach
      <4> QED
        BY <1>3, <2>4, <2>13, <3>1, <4>1, <4>2 DEF OnceOnly, InReach, r
    <3>2. CASE d # e
      <4>1. queue'[d] = queue[d] /\ passed'[d] = passed[d] /\ relayClock'[d] = relayClock[d]
        BY <1>1, <1>3, <2>1, <3>2 DEF RelayTypes
      <4> QED
        BY <1>1, <1>4, <4>1 DEF OnceOnly, InReach
    <3> QED
      BY <3>1, <3>2
  <2> QED
    BY <2>5, <2>14 DEF RelayInv
<1>6. CASE ~(f.id # e /\ Relayable(e, f))
  <2>1. relayClock' = relayClock /\ queue' = queue
    BY <1>6 DEF Drain
  <2> QED
    BY <1>1, <1>3, <1>4, <2>1 DEF RelayInv, RelayTypes, OnceOnly, InReach
<1> QED
  BY <1>5, <1>6

(* The relay invariant through every step.                                 *)
LEMMA RelayStep == RelayInv /\ [RelayNext]_relayVars => RelayInv'
<1> SUFFICES ASSUME RelayInv, [RelayNext]_relayVars PROVE RelayInv'
  OBVIOUS
<1>1. Restarting \subseteq Elements
  BY RelayAssumption
<1>2. CASE UNCHANGED relayVars
  BY <1>2 DEF relayVars, RelayInv, RelayTypes, OnceOnly, InReach
<1> QED
  BY <1>1, <1>2, SendKeeps, DrainKeeps, FlushKeeps, RebootKeeps DEF RelayNext

(* For every topology, depth of the queue, and losses, copies, evictions   *)
(* and reboots: no element passes a frame on twice in a life, and none is  *)
(* heard more than three links from its origin.                            *)
THEOREM NeverAStorm == RelaySpec => []NoStorm
<1>1. RelayInv => NoStorm
  <2> SUFFICES ASSUME RelayInv, NEW e \in Elements
               PROVE  /\ \A i, j \in DOMAIN queue[e] : Key(queue[e][i]) = Key(queue[e][j]) => i = j
                      /\ \A i \in DOMAIN queue[e] : Key(queue[e][i]) \notin passed[e]
                      /\ \A f \in air[e] : e \in Around(Around(Around({f.id})))
    BY DEF NoStorm
  <2>1. OnceOnly(e) /\ InReach(e)
    BY DEF RelayInv
  <2>2. ASSUME NEW f \in air[e] PROVE e \in Around(Around(Around({f.id})))
    <3>1. e \in Within(f.id, f.hop)
      BY <2>1 DEF InReach
    <3>2. \A S : S \subseteq Around(S)
      BY DEF Around
    <3> QED
      BY <3>1, <3>2 DEF Within
  <2> QED
    BY <2>1, <2>2 DEF OnceOnly
<1> QED
  BY <1>1, RelayStart, RelayStep, PTL DEF RelaySpec

(* What is enqueued, of the HARD_RT frames.                                *)
LEMMA HardIsKept ==
    ASSUME NEW q \in Seq(Frame), Len(q) <= Depth, NEW f \in Frame, f.hop > 0,
           \A i, j \in DOMAIN q : Key(q[i]) = Key(q[j]) => i = j,
           NEW r, r = Enqueued(q, f)
    PROVE  /\ HardIn(q) \subseteq HardIn(r)
           /\ f.qos = HARD => Key(f) \in HardIn(r) \/ Cardinality(HardIn(r)) = Depth
<1>1. /\ Depth \in Nat /\ Depth > 0 /\ Len(q) \in Nat /\ DOMAIN q = 1..Len(q)
      /\ Stored(f) \in Frame /\ Stored(f).qos = f.qos /\ Key(Stored(f)) = Key(f)
  BY RelayAssumption, StoredFrame, LenProperties
<1>2. \A i \in DOMAIN q : q[i] \in Frame
  BY <1>1, ElementOfSeq, Zenon
<1>3. \A g \in Frame : g.qos \in {1, 2}
  BY DEF Frame, SOFT, HARD
<1>4. CASE Len(q) < Depth
  <2>1. r = Append(q, Stored(f))
    BY <1>4 DEF Enqueued
  <2>2. /\ r[Len(q) + 1] = Stored(f) /\ \A i \in 1..Len(q) : r[i] = q[i]
        /\ Len(q) + 1 \in DOMAIN r /\ DOMAIN q \subseteq DOMAIN r
    <3>1. /\ r \in Seq(Frame) /\ Len(r) = Len(q) + 1 /\ r[Len(q) + 1] = Stored(f)
          /\ \A i \in 1..Len(q) : r[i] = q[i]
      BY <1>1, <2>1, AppendProperties
    <3>2. DOMAIN r = 1..(Len(q) + 1)
      BY <3>1, LenProperties
    <3> QED
      BY <1>1, <3>1, <3>2
  <2> QED
    BY <1>1, <2>2 DEF HardIn
<1>5. CASE ~(Len(q) < Depth)
  <2> DEFINE w == Worst(q)
  <2>1. q # <<>>
    BY <1>1, <1>5, EmptySeq
  <2>2. w \in DOMAIN q /\ \A j \in DOMAIN q : q[w].qos <= q[j].qos
    BY <2>1, WorstIs
  <2>3. r = IF f.qos > q[w].qos THEN [q EXCEPT ![w] = Stored(f)] ELSE q
    BY <1>5 DEF Enqueued
  <2> HIDE DEF w
  <2>4. CASE f.qos > q[w].qos
    <3>1. r = [q EXCEPT ![w] = Stored(f)]
      BY <2>3, <2>4
    <3>2. DOMAIN r = DOMAIN q /\ r[w] = Stored(f) /\ \A i \in DOMAIN q \ {w} : r[i] = q[i]
      BY <2>2, <3>1
    <3>3. q[w].qos # HARD
      BY <1>2, <1>3, <2>2, <2>4 DEF HARD
    <3>4. HardIn(q) \subseteq HardIn(r)
      BY <3>2, <3>3 DEF HardIn
    <3>5. f.qos = HARD => Key(f) \in HardIn(r)
      BY <1>1, <2>2, <3>2 DEF HardIn
    <3> QED
      BY <3>4, <3>5
  <2>5. CASE ~(f.qos > q[w].qos)
    <3>1. r = q
      BY <2>3, <2>5
    <3>2. ASSUME f.qos = HARD PROVE Cardinality(HardIn(r)) = Depth
      <4>1. q[w].qos = 2
        BY <1>2, <1>3, <2>2, <2>5, <3>2 DEF HARD
      <4>2. \A i \in DOMAIN q : q[i].qos = HARD
        BY <1>2, <1>3, <2>2, <4>1 DEF HARD
      <4>3. HardIn(r) = {Key(q[i]) : i \in DOMAIN q}
        BY <3>1, <4>2 DEF HardIn
      <4> DEFINE keys == {Key(q[i]) : i \in DOMAIN q}
                 key == [i \in DOMAIN q |-> Key(q[i])]
      <4>4. key \in Surjection(DOMAIN q, keys) /\ key \in Injection(DOMAIN q, keys)
        BY DEF Surjection, Injection, IsInjective
      <4>5. IsFiniteSet(DOMAIN q) /\ Cardinality(DOMAIN q) = Len(q)
        <5>1. PICK l : l = Len(q)
          OBVIOUS
        <5>2. 1 \in Int /\ l \in Int /\ l \in Nat
          BY <1>1, <5>1
        <5>3. IsFiniteSet(1..l) /\ Cardinality(1..l) = IF 1 > l THEN 0 ELSE l - 1 + 1
          BY <5>2, FS_Interval
        <5> QED
          BY <1>1, <5>1, <5>2, <5>3
      <4> HIDE DEF keys, key
      <4>6. Cardinality(keys) = Cardinality(DOMAIN q)
        BY <4>4, <4>5, FS_Surjection
      <4> QED
        BY <1>1, <1>5, <4>3, <4>5, <4>6 DEF keys
    <3> QED
      BY <3>1, <3>2
  <2> QED
    BY <2>4, <2>5
<1> QED
  BY <1>4, <1>5

(* For every depth of the queue: HARD_RT frames keep their slots.          *)
THEOREM HardAlwaysKept == RelaySpec => HardKeepsItsSlot
<1>1. ASSUME RelayInv, NEW e \in Elements, NEW f \in air[e], Drain(e, f)
      PROVE  /\ HardIn(queue[e]) \subseteq HardIn(queue'[e])
             /\ f.id # e /\ Relayable(e, f) /\ f.qos = HARD =>
                    \/ Key(f) \in HardIn(queue'[e])
                    \/ Cardinality(HardIn(queue'[e])) = Depth
  <2>1. RelayTypes /\ OnceOnly(e)
    BY <1>1 DEF RelayInv
  <2>2. CASE f.id # e /\ Relayable(e, f)
    <3>1. queue'[e] = Enqueued(queue[e], f)
      BY <1>1, <2>1, <2>2 DEF Drain, RelayTypes
    <3>2. f.hop > 0 /\ f \in Frame /\ queue[e] \in Seq(Frame) /\ Len(queue[e]) <= Depth
      BY <1>1, <2>1, <2>2 DEF Relayable, RelayTypes, OnceOnly
    <3>3. \A i, j \in DOMAIN queue[e] : Key(queue[e][i]) = Key(queue[e][j]) => i = j
      BY <2>1 DEF OnceOnly
    <3> QED
      BY <3>1, <3>2, <3>3, HardIsKept
  <2>3. CASE ~(f.id # e /\ Relayable(e, f))
    <3>1. queue' = queue
      BY <1>1, <2>3 DEF Drain
    <3> QED
      BY <2>3, <3>1
  <2> QED
    BY <2>2, <2>3
<1>2. RelayInv /\ [RelayNext]_relayVars =>
          [\A e \in Elements : \A f \in air[e] : Drain(e, f) =>
              /\ HardIn(queue[e]) \subseteq HardIn(queue'[e])
              /\ f.id # e /\ Relayable(e, f) /\ f.qos = HARD =>
                    \/ Key(f) \in HardIn(queue'[e])
                    \/ Cardinality(HardIn(queue'[e])) = Depth]_relayVars
  BY <1>1
<1> QED
  BY <1>2, RelayStart, RelayStep, PTL DEF RelaySpec, HardKeepsItsSlot

-----------------------------------------------------------------------------
(* Directives *)

(* The replay filter: what was taken of a host is not newer than the table.*)
Filtered ==
    /\ hostSeq \in [Hosts -> 0..MaxSeq] /\ sent \subseteq DirectiveFrame
    /\ last \in [Hosts -> 0..MaxSeq] /\ taken \subseteq DirectiveFrame
    /\ \A f \in taken : f.seq <= last[f.src]

(* The counters of choreo.c beside what they count.  Until a frame has     *)
(* been missing for StaleTicks the age is the true one; from then on it is *)
(* the true one modulo Wrap, and fresh only since it went round, for at    *)
(* most StaleTicks.                                                        *)
StreamTypes ==
    /\ seen \in BOOLEAN /\ adopted \in BOOLEAN /\ wrapped \in BOOLEAN
    /\ age \in 0..(Wrap - 1) /\ streak \in 0..AdoptTicks
    /\ quiet \in 1..StaleTicks /\ fed \in 0..2
    /\ life \in {"IDLE", "RUNNING", "SUSPENDED"} /\ reading \in {"NONE", "UP", "LOST"}

Counted ==
    /\ quiet < StaleTicks => seen /\ age = quiet
    /\ streak > 0 => seen /\ age < StaleTicks
    /\ quiet = StaleTicks /\ streak > 0 => streak <= age + 1
    /\ adopted => streak = AdoptTicks

(* What the adoption has been earned with.                                 *)
Earned ==
    /\ fed = 0 => quiet = StaleTicks
    /\ fed = 0 /\ ~wrapped => streak = 0
    /\ fed = 1 /\ ~wrapped => streak <= quiet
    /\ quiet = StaleTicks /\ seen /\ ~wrapped => age >= StaleTicks

(* The quorum check of a tick.                                             *)
Checked ==
    /\ reading = "LOST" => life # "RUNNING"
    /\ reading = "UP" => life # "SUSPENDED"

StreamInv == StreamTypes /\ Counted /\ Earned /\ Checked



(* The table after n frames holds the largest number of each host.         *)
LEMMA TableHolds ==
    ASSUME Filtered, NEW s, NEW n, \A i \in 1..n : s[i] \in DirectiveFrame
    PROVE  /\ TableAfter(s, n) \in [Hosts -> 0..MaxSeq]
           /\ \A h \in Hosts : last[h] <= TableAfter(s, n)[h]
           /\ \A i \in 1..n : s[i].kind = "MINE" => s[i].seq <= TableAfter(s, n)[s[i].src]
<1> DEFINE mine(h) == {i \in 1..n : s[i].src = h /\ s[i].kind = "MINE"}
           numbers(h) == {last[h]} \cup {s[i].seq : i \in mine(h)}
           newest(h) == CHOOSE m \in numbers(h) : \A k \in numbers(h) : k <= m
<1>1. TableAfter(s, n) = [h \in Hosts |-> newest(h)]
  BY Zenon DEF TableAfter
<1>2. \A i \in 1..n : s[i].src \in Hosts /\ s[i].seq \in 0..MaxSeq
  BY DirectiveAssumption DEF DirectiveFrame
<1>3. \A h \in Hosts :
          newest(h) \in 0..MaxSeq /\ \A k \in numbers(h) : k <= newest(h)
  <2> SUFFICES ASSUME NEW h \in Hosts
               PROVE  newest(h) \in 0..MaxSeq /\ \A k \in numbers(h) : k <= newest(h)
    OBVIOUS
  <2>1. last[h] \in 0..MaxSeq
    BY DEF Filtered
  <2>2. numbers(h) \subseteq 0..MaxSeq /\ numbers(h) # {}
    BY <1>2, <2>1
  <2> HIDE DEF numbers
  <2>3. \E m \in numbers(h) : \A k \in numbers(h) : k <= m
    BY <2>2, DirectiveAssumption, Greatest
  <2> QED
    BY <2>2, <2>3
<1>4. \A h \in Hosts : last[h] \in numbers(h)
  OBVIOUS
<1>5. \A i \in 1..n : s[i].kind = "MINE" => s[i].seq \in numbers(s[i].src)
  OBVIOUS
<1> HIDE DEF numbers, newest
<1> QED
  BY <1>1, <1>2, <1>3, <1>4, <1>5

(* What passes is newer than anything of its host in the table, and in the *)
(* table after the poll.                                                   *)
LEMMA AcceptedAreNew ==
    ASSUME Filtered, NEW n \in Nat, NEW s \in [1..n -> sent]
    PROVE  /\ Accepted(s) \subseteq 1..n /\ Len(s) = n
           /\ \A i \in Accepted(s) :
                  /\ s[i] \in DirectiveFrame /\ s[i].seq > last[s[i].src]
                  /\ s[i].seq <= TableAfter(s, Len(s))[s[i].src]
<1>1. Len(s) = n /\ DOMAIN s = 1..n
  OBVIOUS
<1>2. \A i \in 1..n : s[i] \in DirectiveFrame
  BY DEF Filtered
<1>3. ASSUME NEW i \in Accepted(s)
      PROVE  /\ i \in 1..n /\ s[i].kind = "MINE"
             /\ s[i].seq > TableAfter(s, i - 1)[s[i].src]
  BY <1>1 DEF Accepted, Passes
<1>4. ASSUME NEW i \in Accepted(s)
      PROVE  /\ s[i] \in DirectiveFrame /\ s[i].seq > last[s[i].src]
             /\ s[i].seq <= TableAfter(s, Len(s))[s[i].src]
  <2>1. i \in 1..n /\ s[i] \in DirectiveFrame
    BY <1>2, <1>3
  <2>2. s[i].src \in Hosts /\ s[i].seq \in 0..MaxSeq
    BY <2>1, DirectiveAssumption DEF DirectiveFrame
  <2>3. \A j \in 1..(i - 1) : s[j] \in DirectiveFrame
    BY <1>2, <2>1
  <2>4. /\ TableAfter(s, i - 1) \in [Hosts -> 0..MaxSeq]
        /\ last[s[i].src] <= TableAfter(s, i - 1)[s[i].src]
    BY <2>2, <2>3, TableHolds
  <2>5. s[i].seq <= TableAfter(s, n)[s[i].src]
    BY <1>2, <1>3, TableHolds
  <2>6. last[s[i].src] \in 0..MaxSeq
    BY <2>2 DEF Filtered
  <2>7. TableAfter(s, i - 1)[s[i].src] \in 0..MaxSeq
    BY <2>2, <2>4
  <2> QED
    BY <1>1, <1>3, <2>1, <2>2, <2>4, <2>5, <2>6, <2>7
<1> QED
  BY <1>1, <1>3, <1>4

(* The directive invariants, of the initial states.                        *)
LEMMA DirectiveStart == DirectiveInit => Filtered /\ StreamInv
<1> SUFFICES ASSUME DirectiveInit PROVE Filtered /\ StreamInv
  OBVIOUS
<1>1. /\ 0 \in 0..MaxSeq /\ 0 \in 0..(Wrap - 1) /\ 0 \in 0..AdoptTicks
      /\ StaleTicks \in 1..StaleTicks
  BY DirectiveAssumption
<1>2. Filtered
  BY <1>1 DEF DirectiveInit, Filtered
<1>3. seen = FALSE /\ adopted = FALSE /\ wrapped = FALSE
  BY Zenon DEF DirectiveInit
<1>4. /\ age = 0 /\ streak = 0 /\ quiet = StaleTicks /\ fed = 0
      /\ life = "IDLE" /\ reading = "NONE"
  BY DEF DirectiveInit
<1>5. StreamTypes
  <2>1. seen \in BOOLEAN /\ adopted \in BOOLEAN /\ wrapped \in BOOLEAN
    BY <1>3, Zenon
  <2> QED
    BY <1>1, <1>4, <2>1 DEF StreamTypes
<1>6. Counted /\ Earned /\ Checked
  <2>1. ~adopted /\ ~wrapped /\ ~seen
    BY <1>3
  <2> QED
    BY <1>1, <1>4, <2>1 DEF Counted, Earned, Checked
<1> QED
  BY <1>2, <1>5, <1>6 DEF StreamInv

(* A tick, of the filter.                                                  *)
LEMMA TickFilters ==
    ASSUME Filtered, NEW n \in Nat, NEW s \in [1..n -> sent], NEW q, Tick(s, q)
    PROVE  Filtered'
<1>1. /\ last' = TableAfter(s, Len(s)) /\ taken' = taken \cup {s[i] : i \in Accepted(s)}
      /\ UNCHANGED <<hostSeq, sent>>
  BY Zenon DEF Tick, host
<1>2. /\ Accepted(s) \subseteq 1..n /\ Len(s) = n
      /\ \A i \in Accepted(s) :
             s[i] \in DirectiveFrame /\ s[i].seq <= TableAfter(s, Len(s))[s[i].src]
  BY AcceptedAreNew
<1>3. \A i \in 1..n : s[i] \in DirectiveFrame
  BY DEF Filtered
<1>4. last' \in [Hosts -> 0..MaxSeq] /\ \A h \in Hosts : last[h] <= last'[h]
  BY <1>1, <1>2, <1>3, TableHolds
<1>5. taken' \subseteq DirectiveFrame
  BY <1>1, <1>2 DEF Filtered
<1>6. ASSUME NEW f \in taken' PROVE f.seq <= last'[f.src]
  <2>1. CASE f \in taken
    <3>1. f.src \in Hosts /\ f.seq \in 0..MaxSeq /\ f.seq <= last[f.src]
      BY <2>1, DirectiveAssumption DEF Filtered, DirectiveFrame
    <3>2. last[f.src] \in 0..MaxSeq /\ last'[f.src] \in 0..MaxSeq
      BY <1>4, <3>1 DEF Filtered
    <3> QED
      BY <1>4, <3>1, <3>2
  <2>2. CASE f \notin taken
    BY <1>1, <1>2, <2>2
  <2> QED
    BY <2>1, <2>2
<1> QED
  BY <1>1, <1>4, <1>5, <1>6 DEF Filtered

(* Whatever is accepted counts for at least one.                           *)
LEMMA AcceptedCount ==
    ASSUME Filtered, NEW n \in Nat, NEW s \in [1..n -> sent]
    PROVE  /\ Cardinality(Accepted(s)) \in Nat
           /\ Accepted(s) # {} => Cardinality(Accepted(s)) >= 1
<1>1. Accepted(s) \subseteq 1..n
  BY AcceptedAreNew
<1>2. IsFiniteSet(1..n)
  BY FS_Interval
<1>3. IsFiniteSet(Accepted(s))
  BY <1>1, <1>2, FS_Subset
<1>4. Cardinality(Accepted(s)) \in Nat
  BY <1>3, FS_CardinalityType
<1>5. Cardinality(Accepted(s)) = 0 <=> Accepted(s) = {}
  BY <1>3, FS_EmptySet
<1> QED
  BY <1>4, <1>5

(* The age goes on by one, or round.                                       *)
LEMMA AgeGoesOn ==
    ASSUME NEW a \in 0..(Wrap - 1)
    PROVE  (a + 1) % Wrap = IF a + 1 = Wrap THEN 0 ELSE a + 1
<1>1. Wrap \in Nat /\ Wrap > 1
  BY DirectiveAssumption
<1>2. CASE a + 1 = Wrap
  BY <1>1, <1>2, SMTT(20)
<1>3. CASE a + 1 < Wrap
  BY <1>1, <1>3, SMTT(20)
<1> QED
  BY <1>1, <1>2, <1>3

(* The counters of a tick, got or not.                                     *)
Beat(got, n) ==
    /\ seen' = (seen \/ got)
    /\ seen' => age' = IF got THEN 1 ELSE IF age + 1 = Wrap THEN 0 ELSE age + 1
    /\ ~seen' => age' = age /\ streak' = streak /\ adopted' = adopted
    /\ seen' => streak' = IF age' >= StaleTicks THEN 0
                          ELSE IF streak < AdoptTicks THEN streak + 1 ELSE streak
    /\ seen' => adopted' = (age' < StaleTicks /\ (adopted \/ streak' >= AdoptTicks))
    /\ quiet' = IF got THEN 1 ELSE IF quiet < StaleTicks THEN quiet + 1 ELSE quiet
    /\ wrapped' = IF seen /\ age' < age /\ ~got THEN TRUE
                  ELSE wrapped /\ age' < StaleTicks
    /\ fed' = IF ~got /\ quiet + 1 >= StaleTicks THEN 0
              ELSE IF n + fed > 2 THEN 2 ELSE n + fed

(* A tick is a beat of the counters.                                       *)
LEMMA TickBeats ==
    ASSUME Filtered, StreamInv, NEW n \in Nat, NEW s \in [1..n -> sent], NEW q, Tick(s, q)
    PROVE  \E got \in BOOLEAN, k \in Nat : (got => k >= 1) /\ (~got => k = 0) /\ Beat(got, k)
<1> DEFINE got == Accepted(s) # {}
           k == Cardinality(Accepted(s))
           now == ((IF got THEN 0 ELSE age) + 1) % Wrap
<1>1. k \in Nat /\ (got => k >= 1) /\ (~got => k = 0)
  BY AcceptedCount, FS_EmptySet
<1>2. now = IF got THEN 1 ELSE IF age + 1 = Wrap THEN 0 ELSE age + 1
  <2>1. age \in 0..(Wrap - 1) /\ 0 \in 0..(Wrap - 1) /\ Wrap > 1
    BY DirectiveAssumption DEF StreamInv, StreamTypes
  <2> HIDE DEF got
  <2> QED
    BY <2>1, AgeGoesOn
<1>3. Wrap \in Nat /\ StaleTicks \in Nat /\ AdoptTicks \in Nat /\ age \in 0..(Wrap - 1)
  BY DirectiveAssumption DEF StreamInv, StreamTypes
<1>4. /\ seen' = (seen \/ got)
      /\ age' = IF seen \/ got THEN now ELSE age
      /\ streak' = IF seen \/ got THEN Streak(FreshAt(seen \/ got, now)) ELSE streak
      /\ adopted' = IF ~(seen \/ got) THEN adopted
                    ELSE /\ FreshAt(seen \/ got, now)
                         /\ adopted \/ Streak(FreshAt(seen \/ got, now)) >= AdoptTicks
  BY Zenon DEF Tick, RemoteTick
<1>5. /\ quiet' = IF got THEN 1 ELSE IF quiet < StaleTicks THEN quiet + 1 ELSE quiet
      /\ wrapped' = IF seen /\ age' < age /\ ~got THEN TRUE
                    ELSE wrapped /\ age' < StaleTicks
      /\ fed' = IF ~got /\ quiet + 1 >= StaleTicks THEN 0
                ELSE IF k + fed > 2 THEN 2 ELSE k + fed
  BY Zenon DEF Tick
<1>6. Beat(got, k)
  <2> HIDE DEF got, k, now
  <2>1. now \in Nat
    BY <1>2, <1>3
  <2>2. seen \/ got => (FreshAt(seen \/ got, now) <=> ~(now >= StaleTicks))
    BY <1>3, <2>1 DEF FreshAt
  <2>3. seen' = (seen \/ got)
    BY <1>4
  <2>4. /\ seen' => age' = IF got THEN 1 ELSE IF age + 1 = Wrap THEN 0 ELSE age + 1
        /\ ~seen' => age' = age /\ streak' = streak /\ adopted' = adopted
    BY <1>2, <1>4, <2>3
  <2>5. seen' => age' = now
    BY <1>4, <2>3
  <2>6. seen' => streak' = IF age' >= StaleTicks THEN 0
                           ELSE IF streak < AdoptTicks THEN streak + 1 ELSE streak
    BY <1>4, <2>2, <2>3, <2>5 DEF Streak
  <2>7. seen' => adopted' = (~(now >= StaleTicks) /\ (adopted \/ streak' >= AdoptTicks))
    <3> SUFFICES ASSUME seen'
                 PROVE  adopted' = (~(now >= StaleTicks) /\ (adopted \/ streak' >= AdoptTicks))
      OBVIOUS
    <3>1. streak' = Streak(FreshAt(seen \/ got, now))
      BY <1>4, <2>3
    <3>2. adopted' = (FreshAt(seen \/ got, now) /\ (adopted \/ streak' >= AdoptTicks))
      BY <1>4, <2>3, <3>1, Zenon
    <3>3. FreshAt(seen \/ got, now) <=> ~(now >= StaleTicks)
      BY <2>2, <2>3
    <3> QED
      BY <3>2, <3>3
  <2>8. seen' => adopted' = (age' < StaleTicks /\ (adopted \/ streak' >= AdoptTicks))
    <3> SUFFICES ASSUME seen'
                 PROVE  adopted' = (age' < StaleTicks /\ (adopted \/ streak' >= AdoptTicks))
      OBVIOUS
    <3>1. (age' < StaleTicks) <=> ~(now >= StaleTicks)
      BY <1>3, <2>1, <2>5
    <3> QED
      BY <2>7, <3>1
  <2> QED
    BY <1>5, <2>3, <2>4, <2>6, <2>8, Zenon DEF Beat
<1>7. got \in BOOLEAN
  OBVIOUS
<1> HIDE DEF got, k
<1> QED
  BY <1>1, <1>6, <1>7, Zenon

(* The invariant through a tick, of the counters.                          *)
LEMMA BeatCounts ==
    ASSUME StreamInv, NEW got \in BOOLEAN, NEW k \in Nat,
           got => k >= 1, ~got => k = 0, Beat(got, k)
    PROVE  Counted' /\ Earned'
<1>1. /\ Wrap \in Nat /\ StaleTicks \in Nat \ {0} /\ AdoptTicks \in Nat
      /\ Wrap > StaleTicks /\ AdoptTicks > StaleTicks
  BY DirectiveAssumption
<1>2. /\ age \in 0..(Wrap - 1) /\ streak \in 0..AdoptTicks
      /\ quiet \in 1..StaleTicks /\ fed \in 0..2
      /\ seen \in BOOLEAN /\ adopted \in BOOLEAN /\ wrapped \in BOOLEAN
  BY DEF StreamInv, StreamTypes
<1>3. Counted /\ Earned
  BY DEF StreamInv
<1>4. CASE got
  <2>1. seen' /\ age' = 1 /\ quiet' = 1
    BY <1>4 DEF Beat
  <2>2. streak' = IF 1 >= StaleTicks THEN 0
                  ELSE IF streak < AdoptTicks THEN streak + 1 ELSE streak
    BY <2>1 DEF Beat
  <2>3. adopted' => 1 < StaleTicks /\ (adopted \/ streak' >= AdoptTicks)
    BY <2>1 DEF Beat
  <2>4. wrapped' <=> wrapped /\ 1 < StaleTicks
    BY <1>4, <2>1 DEF Beat
  <2>5. fed' = IF k + fed > 2 THEN 2 ELSE k + fed
    BY <1>4 DEF Beat
  <2>6. Counted'
    BY <1>1, <1>2, <1>3, <2>1, <2>2, <2>3 DEF Counted
  <2>7. Earned'
    BY <1>1, <1>2, <1>3, <1>4, <2>1, <2>2, <2>4, <2>5 DEF Counted, Earned
  <2> QED
    BY <2>6, <2>7
<1>5. CASE ~got /\ ~seen
  <2>1. ~seen' /\ age' = age /\ streak' = streak /\ adopted' = adopted
    BY <1>5 DEF Beat
  <2>2. quiet = StaleTicks /\ quiet' = StaleTicks /\ streak = 0
    BY <1>1, <1>2, <1>3, <1>5 DEF Beat, Counted
  <2>3. fed' = 0
    BY <1>1, <1>5, <2>2 DEF Beat
  <2> QED
    BY <1>1, <1>3, <2>1, <2>2, <2>3 DEF Counted, Earned
<1>6. CASE ~got /\ seen
  <2>1. /\ seen' /\ age' = IF age + 1 = Wrap THEN 0 ELSE age + 1
        /\ quiet' = IF quiet < StaleTicks THEN quiet + 1 ELSE quiet
    BY <1>6 DEF Beat
  <2>2. streak' = IF age' >= StaleTicks THEN 0
                  ELSE IF streak < AdoptTicks THEN streak + 1 ELSE streak
    BY <2>1 DEF Beat
  <2>3. adopted' => age' < StaleTicks /\ (adopted \/ streak' >= AdoptTicks)
    BY <2>1 DEF Beat
  <2>4. wrapped' <=> age' < age \/ (wrapped /\ age' < StaleTicks)
    BY <1>6 DEF Beat
  <2>5. fed' = IF quiet + 1 >= StaleTicks THEN 0 ELSE fed
    BY <1>2, <1>6 DEF Beat
  <2>6. Counted'
    BY <1>1, <1>2, <1>3, <2>1, <2>2, <2>3 DEF Counted
  <2>7. Earned'
    BY <1>1, <1>2, <1>3, <1>6, <2>1, <2>2, <2>4, <2>5 DEF Counted, Earned
  <2> QED
    BY <2>6, <2>7
<1> QED
  BY <1>4, <1>5, <1>6

(* The types of the counters through a beat.                               *)
LEMMA BeatTypes ==
    ASSUME StreamInv, NEW got \in BOOLEAN, NEW k \in Nat, Beat(got, k)
    PROVE  /\ seen' \in BOOLEAN /\ adopted' \in BOOLEAN /\ wrapped' \in BOOLEAN
           /\ age' \in 0..(Wrap - 1) /\ streak' \in 0..AdoptTicks
           /\ quiet' \in 1..StaleTicks /\ fed' \in 0..2
<1>1. /\ Wrap \in Nat /\ StaleTicks \in Nat \ {0} /\ AdoptTicks \in Nat
      /\ Wrap > StaleTicks
  BY DirectiveAssumption
<1>2. /\ age \in 0..(Wrap - 1) /\ streak \in 0..AdoptTicks
      /\ quiet \in 1..StaleTicks /\ fed \in 0..2
      /\ seen \in BOOLEAN /\ adopted \in BOOLEAN /\ wrapped \in BOOLEAN
  BY DEF StreamInv, StreamTypes
<1>3. seen' \in BOOLEAN
  BY <1>2, Zenon DEF Beat
<1>4. age' \in 0..(Wrap - 1) /\ quiet' \in 1..StaleTicks /\ fed' \in 0..2
  BY <1>1, <1>2 DEF Beat
<1>5. streak' \in 0..AdoptTicks
  BY <1>1, <1>2 DEF Beat
<1>6. adopted' \in BOOLEAN /\ wrapped' \in BOOLEAN
  <2>1. \/ adopted' = adopted
        \/ adopted' = (age' < StaleTicks /\ (adopted \/ streak' >= AdoptTicks))
    BY Zenon DEF Beat
  <2>2. wrapped' = TRUE \/ wrapped' = (wrapped /\ age' < StaleTicks)
    BY Zenon DEF Beat
  <2> QED
    BY <1>2, <2>1, <2>2, Zenon
<1> QED
  BY <1>3, <1>4, <1>5, <1>6

(* The stream invariant through a tick.                                    *)
LEMMA TickStreams ==
    ASSUME Filtered, StreamInv, NEW n \in Nat, NEW s \in [1..n -> sent],
           NEW q \in {"UP", "LOST"}, Tick(s, q)
    PROVE  StreamInv'
<1>1. PICK got \in BOOLEAN, k \in Nat :
          (got => k >= 1) /\ (~got => k = 0) /\ Beat(got, k)
  BY TickBeats
<1>2. Counted' /\ Earned'
  BY <1>1, BeatCounts
<1>3. reading' = q /\ Lifecycle
  BY DEF Tick
<1>4. /\ life' \in {"IDLE", "RUNNING", "SUSPENDED"} /\ reading' \in {"NONE", "UP", "LOST"}
      /\ Checked'
  BY <1>3 DEF StreamInv, StreamTypes, Lifecycle, Checked
<1>5. StreamTypes'
  BY <1>1, <1>4, BeatTypes DEF StreamTypes
<1> QED
  BY <1>2, <1>4, <1>5 DEF StreamInv

(* The other steps leave the stream alone, or start it anew.               *)
LEMMA OtherStepsKeep ==
    ASSUME Filtered, StreamInv,
           \/ \E h \in Hosts : HostRestarts(h) \/ \E kind \in Kinds : HostSends(h, kind)
           \/ Deploy \/ Terminate \/ ElementReboots \/ UNCHANGED directiveVars
    PROVE  Filtered' /\ StreamInv'
<1>1. ASSUME NEW h \in Hosts, HostRestarts(h) \/ \E kind \in Kinds : HostSends(h, kind)
      PROVE  Filtered' /\ StreamInv'
  <2>1. UNCHANGED <<last, remote, life, reading, history>>
    BY <1>1, Zenon DEF HostRestarts, HostSends
  <2>2. hostSeq' \in [Hosts -> 0..MaxSeq] /\ sent' \subseteq DirectiveFrame
    BY <1>1, DirectiveAssumption
    DEF HostRestarts, HostSends, Filtered, DirectiveFrame
  <2> QED
    BY <2>1, <2>2 DEF remote, history, Filtered, StreamInv, StreamTypes, Counted,
                      Earned, Checked
<1>2. CASE Deploy \/ Terminate
  <2>1. UNCHANGED <<host, last, remote, history>> /\ reading' = "NONE"
        /\ life' \in {"IDLE", "RUNNING"}
    BY <1>2 DEF Deploy, Terminate
  <2> QED
    BY <2>1 DEF host, remote, history, Filtered, StreamInv, StreamTypes, Counted,
                Earned, Checked
<1>3. CASE ElementReboots
  <2>1. seen' = FALSE /\ adopted' = FALSE /\ wrapped' = FALSE
    BY <1>3, Zenon DEF ElementReboots
  <2>2. /\ age' = 0 /\ streak' = 0 /\ quiet' = StaleTicks /\ fed' = 0
        /\ life' = "IDLE" /\ reading' = "NONE" /\ taken' = {}
        /\ last' = [h \in Hosts |-> 0] /\ UNCHANGED <<hostSeq, sent>>
    BY <1>3 DEF ElementReboots, host
  <2>3. StreamTypes'
    <3>1. seen' \in BOOLEAN /\ adopted' \in BOOLEAN /\ wrapped' \in BOOLEAN
      BY <2>1, Zenon
    <3> QED
      BY <2>2, <3>1, DirectiveAssumption DEF StreamTypes
  <2>4. Counted' /\ Earned' /\ Checked'
    <3>1. ~adopted' /\ ~seen'
      BY <2>1
    <3> QED
      BY <2>2, <3>1, DirectiveAssumption DEF Counted, Earned, Checked
  <2>5. Filtered'
    BY <2>2, DirectiveAssumption DEF Filtered
  <2> QED
    BY <2>3, <2>4, <2>5 DEF StreamInv
<1>4. CASE UNCHANGED directiveVars
  BY <1>4 DEF directiveVars, host, remote, history, Filtered, StreamInv, StreamTypes,
              Counted, Earned, Checked
<1> QED
  BY <1>1, <1>2, <1>3, <1>4

(* The directive invariants through every step.                            *)
LEMMA DirectiveStep ==
    Filtered /\ StreamInv /\ [DirectiveNext]_directiveVars => Filtered' /\ StreamInv'
<1> SUFFICES ASSUME Filtered, StreamInv, [DirectiveNext]_directiveVars
             PROVE  Filtered' /\ StreamInv'
  OBVIOUS
<1>1. ASSUME NEW s \in Polls, NEW q \in {"UP", "LOST"}, Tick(s, q)
      PROVE  Filtered' /\ StreamInv'
  <2>1. PICK n \in Nat : s \in [1..n -> sent]
    BY DirectiveAssumption DEF Polls
  <2> QED
    BY <1>1, <2>1, TickFilters, TickStreams
<1> QED
  BY <1>1, OtherStepsKeep DEF DirectiveNext

(* For every stream and every wrap of its age counter: the host steers     *)
(* only while frames arrive, more than one of them, and only with quorum.  *)
THEOREM HostSteersWhileFed == DirectiveSpec => []SteersWhileFed
<1>1. StreamInv => SteersWhileFed
  <2> SUFFICES ASSUME StreamInv PROVE SteersWhileFed
    OBVIOUS
  <2>1. /\ StaleTicks \in Nat \ {0} /\ AdoptTicks \in Nat /\ AdoptTicks > StaleTicks
        /\ Wrap \in Nat
    BY DirectiveAssumption
  <2>2. StreamTypes /\ Counted /\ Earned /\ Checked
    BY DEF StreamInv
  <2>3. adopted => quiet < StaleTicks /\ seen /\ age < StaleTicks /\ (fed > 1 \/ wrapped)
    BY <2>1, <2>2 DEF StreamTypes, Counted, Earned
  <2> QED
    BY <2>2, <2>3 DEF SteersWhileFed, Active, FreshAt, StreamTypes, Checked
<1> QED
  BY <1>1, DirectiveStart, DirectiveStep, PTL DEF DirectiveSpec

(* What a step takes is newer than what was taken of the same host, and a  *)
(* tick that takes nothing new lets the age go on.                         *)
LEMMA StepIsInert ==
    ASSUME Filtered, StreamInv, DirectiveNext
    PROVE  /\ \A f \in taken' \ taken : \A g \in taken : g.src = f.src => g.seq < f.seq
           /\ Ticked /\ seen /\ taken' = taken => age' = (age + 1) % Wrap
<1>1. CASE \E s \in Polls, q \in {"UP", "LOST"} : Tick(s, q)
  <2>1. PICK s \in Polls, q \in {"UP", "LOST"} : Tick(s, q)
    BY <1>1
  <2>2. PICK n \in Nat : s \in [1..n -> sent]
    BY DirectiveAssumption DEF Polls
  <2>3. taken' = taken \cup {s[i] : i \in Accepted(s)}
    BY <2>1, Zenon DEF Tick
  <2>4. \A i \in Accepted(s) : s[i] \in DirectiveFrame /\ s[i].seq > last[s[i].src]
    BY <2>2, AcceptedAreNew
  <2>5. ASSUME NEW i \in Accepted(s), NEW g \in taken, g.src = s[i].src
        PROVE  g.seq < s[i].seq
    <3>1. g.seq <= last[g.src] /\ g.seq \in Nat /\ g.src \in Hosts
      BY DEF Filtered, DirectiveFrame
    <3>2. last[g.src] \in Nat /\ s[i].seq \in Nat
      BY <2>4, <3>1 DEF Filtered, DirectiveFrame
    <3> QED
      BY <2>4, <2>5, <3>1, <3>2
  <2>6. \A f \in taken' \ taken : \A g \in taken : g.src = f.src => g.seq < f.seq
    BY <2>3, <2>5
  <2>7. ASSUME seen, taken' = taken PROVE age' = (age + 1) % Wrap
    <3>1. Accepted(s) = {}
      <4> SUFFICES ASSUME NEW i \in Accepted(s) PROVE FALSE
        OBVIOUS
      <4>1. s[i] \in taken /\ s[i].seq \in Nat
        BY <2>3, <2>4, <2>7 DEF DirectiveFrame
      <4> QED
        BY <2>5, <4>1
    <3> QED
      BY <2>1, <2>7, <3>1 DEF Tick, RemoteTick
  <2> QED
    BY <2>6, <2>7
<1>2. CASE Deploy \/ Terminate
  BY <1>2 DEF Deploy, Terminate, Ticked, history
<1>3. CASE ElementReboots
  BY <1>3 DEF ElementReboots, Ticked
<1>4. ASSUME NEW h \in Hosts, HostRestarts(h) PROVE taken' = taken /\ restarts' # restarts
  <2>1. restarts' = restarts + 1 /\ restarts < MaxRestarts
    BY <1>4 DEF HostRestarts
  <2> QED
    BY <1>4, <2>1 DEF HostRestarts, history
<1>5. ASSUME NEW h \in Hosts, NEW kind \in Kinds, HostSends(h, kind)
      PROVE  taken' = taken /\ hostSeq' # hostSeq
  <2>1. hostSeq[h] \in Nat /\ hostSeq'[h] = hostSeq[h] + 1
    BY <1>5 DEF HostSends, Filtered
  <2> QED
    BY <1>5, <2>1 DEF HostSends, history
<1> QED
  BY <1>1, <1>2, <1>3, <1>4, <1>5 DEF DirectiveNext, Ticked, host

(* For every stream, late, repeated or mixed as it may be, with hosts that *)
(* start again: replays feed nothing.                                      *)
THEOREM ReplaysFeedNothing == DirectiveSpec => ReplaysAreInert
<1>1. Filtered /\ StreamInv /\ [DirectiveNext]_directiveVars =>
          [/\ \A f \in taken' \ taken : \A g \in taken : g.src = f.src => g.seq < f.seq
           /\ Ticked /\ seen /\ taken' = taken => age' = (age + 1) % Wrap]_directiveVars
  BY StepIsInert
<1> QED
  BY <1>1, DirectiveStart, DirectiveStep, PTL DEF DirectiveSpec, ReplaysAreInert

-----------------------------------------------------------------------------
(* Identifiers *)

(* In a finite set of numbers every rank is somebody's.                    *)
LEMMA EveryRankIsTaken ==
    ASSUME NEW B \in Nat, NEW A, A \subseteq 0..B,
           NEW r \in Nat, r < Cardinality(A)
    PROVE  \E i \in A : Cardinality({j \in A : j < i}) = r
<1> DEFINE below(i) == {j \in A : j < i}
           up == {i \in A : Cardinality(below(i)) >= r}
<1>1. IsFiniteSet(A) /\ Cardinality(A) \in Nat /\ \A i \in A : i \in Nat
  <2>1. IsFiniteSet(0..B) /\ A \in SUBSET (0..B)
    BY FS_Interval
  <2>2. \A i \in A : i \in Nat
    OBVIOUS
  <2> QED
    BY <2>1, <2>2, FS_Subset, FS_CardinalityType
<1>2. ASSUME NEW i \in A
      PROVE  IsFiniteSet(below(i)) /\ Cardinality(below(i)) \in Nat
  <2>1. below(i) \in SUBSET A
    OBVIOUS
  <2> HIDE DEF below
  <2> QED
    BY <1>1, <2>1, FS_Subset, FS_CardinalityType
<1>3. A # {}
  BY <1>1, FS_EmptySet
<1>4. up # {}
  <2>1. PICK m \in A : \A j \in A : j <= m
    BY <1>3, Greatest
  <2>2. \A j \in A : j < m <=> j # m
    BY <1>1, <2>1
  <2>3. below(m) = A \ {m}
    BY <2>2
  <2>4. Cardinality(below(m)) = Cardinality(A) - 1
    BY <1>1, <2>3, FS_RemoveElement
  <2>5. Cardinality(below(m)) >= r
    <3> HIDE DEF below
    <3> QED
      BY <1>1, <2>4
  <2>6. m \in up
    BY <2>5
  <2> QED
    BY <2>6
<1>5. up \subseteq Nat
  BY <1>1
<1>6. PICK i \in up : \A j \in up : i <= j
  <2> HIDE DEF up
  <2> QED
    BY <1>4, <1>5, Least
<1>7. i \in A /\ Cardinality(below(i)) >= r
  BY <1>6
<1>8. ASSUME Cardinality(below(i)) > r PROVE FALSE
  <2>1. below(i) # {}
    <3>1. Cardinality(below(i)) # 0
      <4> HIDE DEF below
      <4> QED
        BY <1>2, <1>7, <1>8
    <3> HIDE DEF below
    <3> QED
      BY <3>1, FS_EmptySet
  <2>2. below(i) \subseteq 0..B
    OBVIOUS
  <2>3. PICK k \in below(i) : \A j \in below(i) : j <= k
    <3> HIDE DEF below
    <3> QED
      BY <2>1, <2>2, Greatest
  <2>4. k \in A /\ k < i
    BY <2>3
  <2>5. ASSUME NEW j PROVE j \in below(k) <=> j \in below(i) \ {k}
    <3>1. CASE j \in A
      <4>1. j \in Nat /\ k \in Nat /\ i \in Nat
        BY <1>1, <1>7, <2>4, <3>1
      <4>2. j < i => j <= k
        BY <2>3, <3>1
      <4> QED
        BY <2>4, <3>1, <4>1, <4>2
    <3>2. CASE j \notin A
      BY <3>2
    <3> QED
      BY <3>1, <3>2
  <2>6. below(k) = below(i) \ {k}
    <3> HIDE DEF below
    <3> QED
      BY <2>5
  <2>7. Cardinality(below(k)) = Cardinality(below(i)) - 1
    <3> HIDE DEF below
    <3> QED
      BY <1>2, <1>7, <2>3, <2>6, FS_RemoveElement
  <2>8. Cardinality(below(k)) >= r
    <3> HIDE DEF below
    <3> QED
      BY <1>2, <1>7, <1>8, <2>7
  <2>9. i <= k
    BY <1>6, <2>4, <2>8
  <2> QED
    BY <1>1, <1>7, <2>4, <2>9
<1>9. Cardinality(below(i)) = r
  <2> HIDE DEF below
  <2> QED
    BY <1>2, <1>7, <1>8
<1> QED
  BY <1>7, <1>9

(* There are MaxIds identifiers, and None is none of them.                 *)
LEMMA SomeIds == /\ IsFiniteSet(Ids) /\ Cardinality(Ids) = MaxIds /\ MaxIds \in Nat \ {0}
                 /\ Ids \subseteq 0..MaxIds /\ None \notin Ids
<1>1. IsFiniteSet(Joiners) /\ Cardinality(Joiners) \in Nat
  BY AutoIdAssumption, FS_CardinalityType
<1>2. MaxIds \in Nat /\ MaxIds > 0
  BY <1>1, AutoIdAssumption
<1>3. IsFiniteSet(0..(MaxIds - 1)) /\ Cardinality(0..(MaxIds - 1)) = MaxIds
  <2>1. 0 \in Int /\ MaxIds - 1 \in Int /\ ~(0 > MaxIds - 1)
    BY <1>2
  <2> QED
    BY <1>2, <2>1, FS_Interval
<1> QED
  BY <1>2, <1>3 DEF Ids, None

(* What Pick finds: the unclaimed identifier of the rank.                  *)
LEMMA PickFinds ==
    ASSUME NEW inUse, NEW rank \in Nat, Cardinality(Ids \ inUse) > rank
    PROVE  /\ Pick(rank, inUse) \in Ids \ inUse
           /\ Cardinality({j \in Ids \ inUse : j < Pick(rank, inUse)}) = rank
<1>1. Ids \ inUse \subseteq 0..MaxIds /\ MaxIds \in Nat
  BY SomeIds
<1>2. \E i \in Ids \ inUse : Cardinality({j \in Ids \ inUse : j < i}) = rank
  BY <1>1, EveryRankIsTaken
<1> QED
  BY <1>2 DEF Pick

(* Nobody is heard twice over, so an identifier is left for every rank.    *)
LEMMA RoomEnough ==
    ASSUME NEW e \in Joiners, NEW heard, heard \subseteq {Nonce[f] : f \in Joiners \ {e}},
           NEW c \in [Joiners -> Ids], NEW inUse, inUse \subseteq {c[f] : f \in Joiners \ {e}}
    PROVE  Rank(e, heard) \in Nat /\ Cardinality(Ids \ inUse) > Rank(e, heard)
<1> DEFINE others == Joiners \ {e}
           said == {Nonce[f] : f \in others}
           used == {c[f] : f \in others}
<1>1. /\ IsFiniteSet(others) /\ Cardinality(others) = Cardinality(Joiners) - 1
      /\ Cardinality(Joiners) \in Nat /\ Cardinality(others) \in Nat
  BY AutoIdAssumption, FS_CardinalityType, FS_RemoveElement
<1>2. IsFiniteSet(said) /\ Cardinality(said) <= Cardinality(others)
  <2>1. [f \in others |-> Nonce[f]] \in Surjection(others, said)
    BY DEF Surjection
  <2> HIDE DEF others, said
  <2> QED
    BY <1>1, <2>1, FS_Surjection
<1>3. IsFiniteSet(used) /\ Cardinality(used) <= Cardinality(others)
  <2>1. [f \in others |-> c[f]] \in Surjection(others, used)
    BY DEF Surjection
  <2> HIDE DEF others, used
  <2> QED
    BY <1>1, <2>1, FS_Surjection
<1>4. Rank(e, heard) \in Nat /\ Rank(e, heard) <= Cardinality(said)
  <2>1. {n \in heard : n < Nonce[e]} \in SUBSET said
    OBVIOUS
  <2> HIDE DEF said
  <2> QED
    BY <1>2, <2>1, FS_Subset, FS_CardinalityType DEF Rank
<1>5. Cardinality(Ids \cap inUse) \in Nat /\ Cardinality(Ids \cap inUse) <= Cardinality(used)
  <2>1. Ids \cap inUse \in SUBSET used
    OBVIOUS
  <2> HIDE DEF used
  <2> QED
    BY <1>3, <2>1, FS_Subset, FS_CardinalityType
<1>6. Cardinality(Ids \ inUse) = MaxIds - Cardinality(Ids \cap inUse)
  BY SomeIds, FS_Difference
<1>7. Cardinality(said) \in Nat /\ Cardinality(used) \in Nat
  BY <1>2, <1>3, FS_CardinalityType
<1> HIDE DEF others, said, used
<1> QED
  BY <1>1, <1>2, <1>3, <1>4, <1>5, <1>6, <1>7, AutoIdAssumption

(* The identifier that a window chooses is unclaimed and has its rank.     *)
LEMMA Fits ==
    ASSUME NEW e \in Joiners, NEW heard, heard \subseteq {Nonce[f] : f \in Joiners \ {e}},
           NEW c \in [Joiners -> Ids], NEW inUse, inUse \subseteq {c[f] : f \in Joiners \ {e}},
           NEW i, i = Pick(Rank(e, heard), inUse)
    PROVE  /\ i \in Ids \ inUse
           /\ Cardinality({j \in Ids \ inUse : j < i}) = Rank(e, heard)
<1>1. Rank(e, heard) \in Nat /\ Cardinality(Ids \ inUse) > Rank(e, heard)
  BY RoomEnough
<1> DEFINE rank == Rank(e, heard)
<1>2. rank \in Nat /\ Cardinality(Ids \ inUse) > rank /\ i = Pick(rank, inUse)
  BY <1>1
<1> HIDE DEF rank
<1>3. i \in Ids \ inUse /\ Cardinality({j \in Ids \ inUse : j < i}) = rank
  BY <1>2, PickFinds
<1> QED
  BY <1>3 DEF rank

(* A rank is a number.                                                     *)
LEMMA RankIsNat ==
    ASSUME NEW e, NEW heard, IsFiniteSet(heard)
    PROVE  Rank(e, heard) \in Nat
<1>1. {n \in heard : n < Nonce[e]} \in SUBSET heard
  OBVIOUS
<1> QED
  BY <1>1, FS_Subset, FS_CardinalityType DEF Rank

(* Those that heard the same swarm rank differently in it.                 *)
LEMMA RanksDiffer ==
    ASSUME NEW e \in Joiners, NEW f \in Joiners, e # f,
           NEW he, NEW hf,
           he \subseteq {Nonce[g] : g \in Joiners \ {e}},
           hf \subseteq {Nonce[g] : g \in Joiners \ {f}},
           he \cup {Nonce[e]} = hf \cup {Nonce[f]}
    PROVE  Rank(e, he) # Rank(f, hf)
<1>1. Nonce[e] \in Nat /\ Nonce[f] \in Nat /\ Nonce[e] # Nonce[f]
  BY AutoIdAssumption
<1>2. he \subseteq Nat /\ hf \subseteq Nat
  BY AutoIdAssumption
<1>3. Nonce[e] \in hf /\ Nonce[f] \in he
  BY <1>1
<1>5. IsFiniteSet(he) /\ IsFiniteSet(hf)
  <2> DEFINE all == {Nonce[g] : g \in Joiners}
  <2>1. [g \in Joiners |-> Nonce[g]] \in Surjection(Joiners, all)
    BY DEF Surjection
  <2>2. IsFiniteSet(all)
    <3> HIDE DEF all
    <3> QED
      BY <2>1, AutoIdAssumption, FS_Surjection
  <2>3. he \in SUBSET all /\ hf \in SUBSET all
    OBVIOUS
  <2> HIDE DEF all
  <2> QED
    BY <2>2, <2>3, FS_Subset
<1>6. ASSUME NEW a \in Joiners, NEW b \in Joiners, NEW ha, NEW hb,
             Nonce[a] < Nonce[b], ha \subseteq Nat, hb \subseteq Nat,
             IsFiniteSet(ha), IsFiniteSet(hb), Nonce[a] \in hb,
             ha \cup {Nonce[a]} = hb \cup {Nonce[b]}
      PROVE  Rank(a, ha) < Rank(b, hb)
  <2> DEFINE low == {n \in ha : n < Nonce[a]}
             high == {n \in hb : n < Nonce[b]}
  <2>1. Nonce[a] \in Nat /\ Nonce[b] \in Nat
    BY AutoIdAssumption
  <2>2. low \cup {Nonce[a]} \in SUBSET high /\ Nonce[a] \notin low
    <3>1. Nonce[a] \notin low /\ Nonce[a] \in high
      BY <1>6, <2>1
    <3>2. ASSUME NEW n \in low PROVE n \in high
      <4>1. n \in Nat /\ n < Nonce[a] /\ n \in hb \cup {Nonce[b]}
        BY <1>6
      <4> QED
        BY <1>6, <2>1, <4>1
    <3> QED
      BY <3>1, <3>2
  <2>3. IsFiniteSet(low) /\ IsFiniteSet(high)
    <3>1. low \in SUBSET ha /\ high \in SUBSET hb
      OBVIOUS
    <3> HIDE DEF low, high
    <3> QED
      BY <1>6, <3>1, FS_Subset
  <2>4. Cardinality(low) \in Nat /\ Cardinality(high) \in Nat
    BY <2>3, FS_CardinalityType
  <2>5. Cardinality(low \cup {Nonce[a]}) = Cardinality(low) + 1
    BY <2>2, <2>3, FS_AddElement
  <2>6. Cardinality(low \cup {Nonce[a]}) <= Cardinality(high)
    BY <2>2, <2>3, FS_Subset
  <2>7. Rank(a, ha) = Cardinality(low) /\ Rank(b, hb) = Cardinality(high)
    BY DEF Rank
  <2> HIDE DEF low, high
  <2> QED
    BY <2>4, <2>5, <2>6, <2>7
<1>7. Nonce[e] < Nonce[f] \/ Nonce[f] < Nonce[e]
  BY <1>1
<1>8. CASE Nonce[e] < Nonce[f]
  <2>1. Rank(e, he) < Rank(f, hf)
    BY <1>2, <1>3, <1>5, <1>6, <1>8
  <2> QED
    BY <2>1, <1>5, RankIsNat
<1>9. CASE Nonce[f] < Nonce[e]
  <2>1. Rank(f, hf) < Rank(e, he)
    BY <1>2, <1>3, <1>5, <1>6, <1>9
  <2> QED
    BY <2>1, <1>5, RankIsNat
<1> QED
  BY <1>7, <1>8, <1>9

-----------------------------------------------------------------------------
AutoIdTypes ==
    /\ phase \in [Joiners -> {"OFF", "WINDOW", "RETRY", "SETUP", "RUN"}]
    /\ left \in [Joiners -> 0..Window]
    /\ nonces \in [Joiners -> SUBSET Nat]
    /\ claimed \in [Joiners -> SUBSET Ids]
    /\ id \in [Joiners -> Ids \cup {None}]
    /\ \A e \in Joiners : nonces[e] \subseteq {Nonce[f] : f \in Joiners \ {e}}

(* The claims of a window are one identifier of each other element at      *)
(* most: those whose window opened before, and is not over, have claimed   *)
(* nothing since, and those whose window opened after will not before this *)
(* one is over.                                                            *)
Holding(f) == phase[f] \in {"RETRY", "SETUP", "RUN"}
Fresh(e) == {f \in Joiners : phase[f] = "WINDOW" /\ left[f] < left[e]}

Explains(c, e) ==
    /\ claimed[e] \subseteq {c[f] : f \in Joiners \ ({e} \cup Fresh(e))}
    /\ \A f \in Joiners \ {e} : Holding(f) => c[f] = id[f]

Room(e) == \E c \in [Joiners -> Ids] : claimed[e] \subseteq {c[f] : f \in Joiners \ {e}}

First == Pick(0, {})

Joins(e) ==
    /\ phase[e] = "OFF" => id[e] = None
    /\ phase[e] = "WINDOW" => /\ left[e] > 0 /\ id[e] \in {None, First}
                              /\ \E c \in [Joiners -> Ids] : Explains(c, e)
    /\ phase[e] = "RETRY" => nonces[e] = {} /\ claimed[e] = {}
    /\ Holding(e) => Room(e) /\ id[e] = Pick(Rank(e, nonces[e]), claimed[e])

JoinInv == AutoIdTypes /\ \A e \in Joiners : Joins(e)

(* The invariant is what the property asks.                                *)
LEMMA JoinedDiffer == JoinInv => EqualViewsDiffer
<1> SUFFICES ASSUME JoinInv PROVE EqualViewsDiffer
  OBVIOUS
<1>1. ASSUME NEW e \in Decided
      PROVE  /\ e \in Joiners /\ nonces[e] \subseteq {Nonce[f] : f \in Joiners \ {e}}
             /\ id[e] \notin claimed[e]
             /\ Cardinality({j \in Ids \ claimed[e] : j < id[e]}) = Rank(e, nonces[e])
  <2>1. /\ e \in Joiners /\ nonces[e] \subseteq {Nonce[f] : f \in Joiners \ {e}}
        /\ Room(e) /\ id[e] = Pick(Rank(e, nonces[e]), claimed[e])
    BY DEF Decided, JoinInv, AutoIdTypes, Joins, Holding
  <2>2. PICK c \in [Joiners -> Ids] : claimed[e] \subseteq {c[f] : f \in Joiners \ {e}}
    BY <2>1 DEF Room
  <2>3. /\ id[e] \in Ids \ claimed[e]
        /\ Cardinality({j \in Ids \ claimed[e] : j < id[e]}) = Rank(e, nonces[e])
    BY <2>1, <2>2, Fits
  <2> QED
    BY <2>1, <2>3
<1>2. ASSUME NEW e \in Decided, NEW f \in Decided \ {e}, View(e) = View(f), id[e] = id[f]
      PROVE  FALSE
  <2>1. nonces[e] \cup {Nonce[e]} = nonces[f] \cup {Nonce[f]} /\ claimed[e] = claimed[f]
    BY <1>2 DEF View
  <2>2. Rank(e, nonces[e]) # Rank(f, nonces[f])
    BY <1>1, <2>1, RanksDiffer
  <2> QED
    BY <1>1, <1>2, <2>1, <2>2
<1> QED
  BY <1>1, <1>2 DEF EqualViewsDiffer

(* The invariant of joining, of the initial states.                        *)
LEMMA JoinStart == AutoIdInit => JoinInv
<1> SUFFICES ASSUME AutoIdInit PROVE JoinInv
  OBVIOUS
<1>1. AutoIdTypes
  BY AutoIdAssumption DEF AutoIdInit, AutoIdTypes
<1>2. \A e \in Joiners : Joins(e)
  BY DEF AutoIdInit, Joins, Holding
<1> QED
  BY <1>1, <1>2 DEF JoinInv

(* One that has heard nobody has rank 0 and takes the first identifier.    *)
LEMMA FirstIsId ==
    /\ First \in Ids
    /\ \A e \in Joiners : Rank(e, {}) = 0
<1>1. Ids \ {} = Ids
  OBVIOUS
<1>2. Cardinality(Ids \ {}) > 0
  BY <1>1, SomeIds
<1>3. First \in Ids
  BY <1>2, PickFinds DEF First
<1>4. \A e \in Joiners : {n \in {} : n < Nonce[e]} = {}
  OBVIOUS
<1> QED
  BY <1>3, <1>4, FS_EmptySet DEF Rank

(* Whoever has decided, or retries, has an identifier.                     *)
LEMMA HoldersHaveIds ==
    ASSUME AutoIdTypes, NEW e \in Joiners, Joins(e), Holding(e)
    PROVE  id[e] \in Ids /\ id[e] # None
<1>1. /\ nonces[e] \subseteq {Nonce[f] : f \in Joiners \ {e}}
      /\ Room(e) /\ id[e] = Pick(Rank(e, nonces[e]), claimed[e])
  BY DEF AutoIdTypes, Joins
<1>2. PICK c \in [Joiners -> Ids] : claimed[e] \subseteq {c[f] : f \in Joiners \ {e}}
  BY <1>1 DEF Room
<1>3. /\ id[e] \in Ids \ claimed[e]
      /\ Cardinality({j \in Ids \ claimed[e] : j < id[e]}) = Rank(e, nonces[e])
  BY <1>1, <1>2, Fits
<1> QED
  BY <1>3, SomeIds

(* A window opens: what others have claimed of its owner still explains    *)
(* what they heard, and it has heard nothing.                              *)
LEMMA OpeningKeeps ==
    ASSUME JoinInv, NEW e \in Joiners, phase[e] \in {"OFF", "RETRY"},
           OpensWindow(e), UNCHANGED id
    PROVE  JoinInv'
<1>1. /\ phase' = [phase EXCEPT ![e] = "WINDOW"] /\ left' = [left EXCEPT ![e] = Window]
      /\ nonces' = [nonces EXCEPT ![e] = {}] /\ claimed' = [claimed EXCEPT ![e] = {}]
      /\ id' = id
  BY DEF OpensWindow
<1>2. AutoIdTypes /\ \A d \in Joiners : Joins(d)
  BY DEF JoinInv
<1>3. AutoIdTypes'
  BY <1>1, <1>2, AutoIdAssumption DEF AutoIdTypes
<1>4. ASSUME NEW d \in Joiners \ {e} PROVE Joins(d)'
  <2>1. /\ phase'[d] = phase[d] /\ left'[d] = left[d] /\ nonces'[d] = nonces[d]
        /\ claimed'[d] = claimed[d] /\ id'[d] = id[d]
    BY <1>1, <1>2 DEF AutoIdTypes
  <2>2. ASSUME phase[d] = "WINDOW", NEW c \in [Joiners -> Ids], Explains(c, d)
        PROVE  Explains(c, d)'
    <3>1. left[d] \in 0..Window /\ left'[e] = Window /\ ~(Window < left[d])
      BY <1>1, <1>2, AutoIdAssumption DEF AutoIdTypes
    <3>2. Fresh(d)' \subseteq Fresh(d)
      <4> SUFFICES ASSUME NEW f \in Joiners, phase'[f] = "WINDOW", left'[f] < left'[d]
                   PROVE  phase[f] = "WINDOW" /\ left[f] < left[d]
        BY DEF Fresh
      <4>1. f # e
        BY <2>1, <3>1
      <4> QED
        BY <1>1, <1>2, <2>1, <4>1 DEF AutoIdTypes
    <3>3. \A f \in Joiners \ {d} : Holding(f)' => Holding(f) /\ id'[f] = id[f]
      BY <1>1, <1>2 DEF Holding, AutoIdTypes
    <3> QED
      BY <2>1, <2>2, <3>2, <3>3 DEF Explains
  <2>3. Joins(d)
    BY <1>2
  <2>4. Room(d) => Room(d)'
    BY <2>1 DEF Room
  <2>5. phase[d] = "WINDOW" => \E c \in [Joiners -> Ids] : Explains(c, d)'
    BY <2>2, <2>3 DEF Joins
  <2> QED
    BY <2>1, <2>3, <2>4, <2>5 DEF Joins, Holding
<1>5. Joins(e)'
  <2>1. /\ phase'[e] = "WINDOW" /\ left'[e] = Window /\ claimed'[e] = {} /\ id'[e] = id[e]
    BY <1>1, <1>2 DEF AutoIdTypes
  <2>2. id[e] \in {None, First}
    <3>1. phase[e] = "RETRY" => id[e] = First
      BY <1>2, FirstIsId DEF Joins, Holding, First
    <3> QED
      BY <1>2, <3>1 DEF Joins
  <2>3. \E c \in [Joiners -> Ids] : Explains(c, e)'
    <3>1. PICK c \in [Joiners -> Ids] :
              c = [f \in Joiners |-> IF id[f] = None THEN First ELSE id[f]]
      BY <1>2, FirstIsId DEF AutoIdTypes
    <3>2. \A f \in Joiners : Holding(f) => c[f] = id[f]
      BY <1>2, <3>1, HoldersHaveIds
    <3>3. \A f \in Joiners \ {e} : Holding(f)' => Holding(f) /\ id'[f] = id[f]
      BY <1>1, <1>2 DEF Holding, AutoIdTypes
    <3>4. Explains(c, e)'
      BY <2>1, <3>2, <3>3 DEF Explains
    <3> QED
      BY <3>4
  <2> QED
    BY <2>1, <2>2, <2>3, AutoIdAssumption DEF Joins, Holding
<1> QED
  BY <1>3, <1>4, <1>5 DEF JoinInv

(* A step that moves nobody into or out of a window, and takes no claim or *)
(* identifier away but with the power.                                     *)
LEMMA OthersStillExplained ==
    ASSUME JoinInv, NEW e \in Joiners, NEW d \in Joiners \ {e},
           UNCHANGED <<phase[d], left[d], nonces[d], claimed[d], id[d]>>,
           \A f \in Joiners : phase'[f] = "WINDOW" => phase[f] = "WINDOW" /\ left'[f] = left[f],
           \A f \in Joiners : Holding(f)' => Holding(f) /\ id'[f] = id[f]
    PROVE  Joins(d)'
<1>1. Joins(d)
  BY DEF JoinInv
<1>2. Fresh(d)' \subseteq Fresh(d)
  BY DEF Fresh
<1>3. ASSUME NEW c \in [Joiners -> Ids], Explains(c, d) PROVE Explains(c, d)'
  BY <1>2, <1>3 DEF Explains
<1>4. Room(d) => Room(d)'
  BY DEF Room
<1> QED
  BY <1>1, <1>3, <1>4 DEF Joins, Holding

(* The invariant of joining when an application begins to gossip.          *)
LEMMA ReadyKeeps ==
    ASSUME JoinInv, NEW e \in Joiners, Ready(e)
    PROVE  JoinInv'
<1>1. /\ phase[e] = "SETUP" /\ phase' = [phase EXCEPT ![e] = "RUN"]
      /\ left' = left /\ nonces' = nonces /\ claimed' = claimed /\ id' = id
  BY DEF Ready
<1>2. AutoIdTypes /\ \A d \in Joiners : Joins(d)
  BY DEF JoinInv
<1>3. AutoIdTypes'
  BY <1>1, <1>2 DEF AutoIdTypes
<1>4. /\ \A f \in Joiners : phase'[f] = "WINDOW" => phase[f] = "WINDOW" /\ left'[f] = left[f]
      /\ \A f \in Joiners : Holding(f)' => Holding(f) /\ id'[f] = id[f]
      /\ \A f \in Joiners \ {e} : phase'[f] = phase[f]
      /\ phase'[e] = "RUN"
  BY <1>1, <1>2 DEF AutoIdTypes, Holding
<1>5. ASSUME NEW d \in Joiners \ {e} PROVE Joins(d)'
  BY <1>1, <1>4, OthersStillExplained
<1>6. Joins(e)'
  <2>1. Room(e) /\ id[e] = Pick(Rank(e, nonces[e]), claimed[e])
    BY <1>1, <1>2 DEF Joins, Holding
  <2> QED
    BY <1>1, <1>4, <2>1 DEF Joins, Room
<1> QED
  BY <1>3, <1>5, <1>6 DEF JoinInv

(* The invariant of joining through a power-off.                           *)
LEMMA PowerOffKeeps ==
    ASSUME JoinInv, NEW e \in Joiners, PowerOff(e)
    PROVE  JoinInv'
<1>1. /\ phase' = [phase EXCEPT ![e] = "OFF"] /\ left' = [left EXCEPT ![e] = 0]
      /\ nonces' = [nonces EXCEPT ![e] = {}] /\ claimed' = [claimed EXCEPT ![e] = {}]
      /\ id' = [id EXCEPT ![e] = None]
  BY DEF PowerOff
<1>2. AutoIdTypes /\ \A d \in Joiners : Joins(d)
  BY DEF JoinInv
<1>3. AutoIdTypes'
  BY <1>1, <1>2, AutoIdAssumption DEF AutoIdTypes
<1>4. /\ \A f \in Joiners : phase'[f] = "WINDOW" => phase[f] = "WINDOW" /\ left'[f] = left[f]
      /\ \A f \in Joiners : Holding(f)' => Holding(f) /\ id'[f] = id[f]
      /\ phase'[e] = "OFF" /\ id'[e] = None
  BY <1>1, <1>2 DEF AutoIdTypes, Holding
<1>5. ASSUME NEW d \in Joiners \ {e} PROVE Joins(d)'
  <2>1. UNCHANGED <<phase[d], left[d], nonces[d], claimed[d], id[d]>>
    BY <1>1, <1>2 DEF AutoIdTypes
  <2> QED
    BY <1>4, <2>1, OthersStillExplained
<1>6. Joins(e)'
  BY <1>4 DEF Joins, Holding
<1> QED
  BY <1>3, <1>5, <1>6 DEF JoinInv

(* What the end of a window decides, with what the last round added.       *)
LEMMA WindowEnds ==
    ASSUME JoinInv, NEW e \in Joiners, phase[e] = "WINDOW", NEW h \in SUBSET (On \ {e})
    PROVE  LET heard == nonces[e] \cup NoncesIn(h)
               inUse == claimed[e] \cup WindowClaims(e, h)
           IN /\ heard \subseteq {Nonce[f] : f \in Joiners \ {e}} /\ inUse \subseteq Ids
              /\ \E c \in [Joiners -> Ids] :
                     /\ Explains(c, e)
                     /\ inUse \subseteq {c[f] : f \in Joiners \ ({e} \cup Fresh(e))}
              /\ ~Company(Count(heard, inUse)) => heard = {} /\ inUse = {}
<1> DEFINE heard == nonces[e] \cup NoncesIn(h)
           inUse == claimed[e] \cup WindowClaims(e, h)
<1>1. AutoIdTypes /\ \A d \in Joiners : Joins(d)
  BY DEF JoinInv
<1>2. \A f \in h : f \in Joiners \ {e}
  BY DEF On
<1>3. heard \subseteq {Nonce[f] : f \in Joiners \ {e}}
  BY <1>1, <1>2 DEF AutoIdTypes, NoncesIn
<1>4. PICK c \in [Joiners -> Ids] : Explains(c, e)
  BY <1>1 DEF Joins
<1>5. inUse \subseteq {c[f] : f \in Joiners \ ({e} \cup Fresh(e))}
  <2>1. ASSUME NEW f \in h, phase[f] \in {"RETRY", "RUN"}
        PROVE  id[f] = c[f] /\ f \in Joiners \ ({e} \cup Fresh(e))
    BY <1>2, <1>4, <2>1 DEF Explains, Holding, Fresh
  <2>2. claimed[e] \subseteq {c[f] : f \in Joiners \ ({e} \cup Fresh(e))}
    BY <1>4 DEF Explains
  <2>3. ClaimsIn(h) \subseteq {c[f] : f \in Joiners \ ({e} \cup Fresh(e))}
    BY <2>1 DEF ClaimsIn
  <2> QED
    BY <2>2, <2>3 DEF WindowClaims
<1>6. inUse \subseteq Ids
  BY <1>5
<1>7. IsFiniteSet(heard) /\ IsFiniteSet(inUse)
  <2>1. IsFiniteSet(inUse)
    BY <1>6, SomeIds, FS_Subset
  <2> DEFINE all == {Nonce[g] : g \in Joiners}
  <2>2. [g \in Joiners |-> Nonce[g]] \in Surjection(Joiners, all)
    BY DEF Surjection
  <2>3. heard \in SUBSET all
    BY <1>3
  <2>4. IsFiniteSet(all)
    <3> HIDE DEF all
    <3> QED
      BY <2>2, AutoIdAssumption, FS_Surjection
  <2> HIDE DEF all
  <2> QED
    BY <2>1, <2>3, <2>4, FS_Subset
<1>8. ASSUME ~Company(Count(heard, inUse)) PROVE heard = {} /\ inUse = {}
  <2> HIDE DEF heard, inUse
  <2>1. Cardinality(heard) \in Nat /\ Cardinality(inUse) \in Nat
    BY <1>7, FS_CardinalityType
  <2>2. Cardinality(heard) = 0 /\ Cardinality(inUse) = 0
    BY <1>8, <2>1 DEF Company, Count
  <2> QED
    BY <1>7, <2>2, FS_EmptySet
<1> QED
  BY <1>3, <1>4, <1>5, <1>6, <1>8

(* A round, of one element: an element in its window goes on collecting    *)
(* or decides, one that retries waits for company, the others change not.  *)
Rounded(e, h) ==
    /\ phase'[e] = After(e, h).phase /\ id'[e] = After(e, h).id
    /\ left'[e] = IF phase[e] = "WINDOW" THEN left[e] - 1 ELSE left[e]
    /\ nonces'[e] = nonces[e] \cup IF phase[e] = "WINDOW" THEN NoncesIn(h) ELSE {}
    /\ claimed'[e] = claimed[e] \cup IF phase[e] = "WINDOW" THEN WindowClaims(e, h) ELSE {}

(* Round, element by element.                                              *)
LEMMA RoundIsRounded ==
    ASSUME NEW lost, Round(lost)
    PROVE  /\ phase' \in [Joiners -> {phase'[e] : e \in Joiners}]
           /\ id' \in [Joiners -> {id'[e] : e \in Joiners}]
           /\ left' \in [Joiners -> {left'[e] : e \in Joiners}]
           /\ nonces' \in [Joiners -> {nonces'[e] : e \in Joiners}]
           /\ claimed' \in [Joiners -> {claimed'[e] : e \in Joiners}]
           /\ \A e \in Joiners : \E h \in SUBSET (On \ {e}) : Rounded(e, h)
<1>1. PICK hears, after :
          /\ hears = [e \in Joiners |-> {f \in On \ {e} : <<f, e>> \notin lost}]
          /\ after = [e \in Joiners |-> After(e, hears[e])]
          /\ phase' = [e \in Joiners |-> after[e].phase]
          /\ id' = [e \in Joiners |-> after[e].id]
          /\ left' = [e \in Joiners |-> IF phase[e] = "WINDOW" THEN left[e] - 1 ELSE left[e]]
          /\ nonces' = [e \in Joiners |-> nonces[e] \cup
                            IF phase[e] = "WINDOW" THEN NoncesIn(hears[e]) ELSE {}]
          /\ claimed' = [e \in Joiners |-> claimed[e] \cup
                            IF phase[e] = "WINDOW" THEN WindowClaims(e, hears[e]) ELSE {}]
  BY DEF Round
<1>2. ASSUME NEW e \in Joiners PROVE hears[e] \in SUBSET (On \ {e}) /\ Rounded(e, hears[e])
  BY <1>1 DEF Rounded
<1> QED
  BY <1>1, <1>2

(* What becomes of an element in a round.                                  *)
LEMMA RoundMoves ==
    ASSUME JoinInv, NEW e \in Joiners, NEW h \in SUBSET (On \ {e}), Rounded(e, h)
    PROVE  /\ phase[e] \in {"OFF", "SETUP", "RUN"} =>
                  UNCHANGED <<phase[e], id[e], left[e], nonces[e], claimed[e]>>
           /\ phase[e] = "RETRY" =>
                  /\ phase'[e] \in {"RETRY", "SETUP"}
                  /\ UNCHANGED <<id[e], left[e], nonces[e], claimed[e]>>
           /\ phase[e] = "WINDOW" /\ left[e] > 1 =>
                  /\ phase'[e] = "WINDOW" /\ id'[e] = id[e] /\ left'[e] = left[e] - 1
                  /\ nonces'[e] = nonces[e] \cup NoncesIn(h)
                  /\ claimed'[e] = claimed[e] \cup WindowClaims(e, h)
           /\ phase[e] = "WINDOW" /\ ~(left[e] > 1) =>
                  /\ phase'[e] \in {"RETRY", "SETUP"} /\ left'[e] = left[e] - 1
                  /\ nonces'[e] = nonces[e] \cup NoncesIn(h)
                  /\ claimed'[e] = claimed[e] \cup WindowClaims(e, h)
                  /\ phase'[e] = "RETRY" => nonces'[e] = {} /\ claimed'[e] = {}
                  /\ id'[e] = Pick(Rank(e, nonces'[e]), claimed'[e])
<1>1. CASE phase[e] \in {"OFF", "SETUP", "RUN"}
  BY <1>1 DEF Rounded, After
<1>2. CASE phase[e] = "RETRY"
  BY <1>2 DEF Rounded, After, AfterRetry
<1>3. CASE phase[e] = "WINDOW"
  <2> DEFINE heard == nonces[e] \cup NoncesIn(h)
             inUse == claimed[e] \cup WindowClaims(e, h)
             n == Count(heard, inUse)
  <2>1. /\ nonces'[e] = heard /\ claimed'[e] = inUse /\ left'[e] = left[e] - 1
        /\ phase'[e] = AfterWindow(e, h).phase /\ id'[e] = AfterWindow(e, h).id
    BY <1>3 DEF Rounded, After
  <2>2. CASE left[e] > 1
    BY <1>3, <2>1, <2>2 DEF AfterWindow
  <2>3. CASE ~(left[e] > 1)
    <3>1. AfterWindow(e, h) =
              IF Company(n)
              THEN [phase |-> "SETUP", id |-> Pick(Rank(e, heard), inUse), total |-> n]
              ELSE [phase |-> "RETRY", total |-> n,
                    id |-> IF id[e] = None THEN Pick(Rank(e, heard), inUse) ELSE id[e]]
      BY <2>3, Zenon DEF AfterWindow
    <3>2. ~Company(n) => heard = {} /\ inUse = {}
      BY <1>3, WindowEnds
    <3>3. id[e] \in {None, First}
      BY <1>3 DEF JoinInv, Joins
    <3> HIDE DEF heard, inUse, n
    <3>4. CASE Company(n)
      BY <1>3, <2>1, <2>3, <3>1, <3>4 DEF heard, inUse
    <3>5. CASE ~Company(n)
      <4>1. phase'[e] = "RETRY" /\ heard = {} /\ inUse = {}
        BY <2>1, <3>1, <3>2, <3>5
      <4>2. Rank(e, {}) = 0
        BY FirstIsId
      <4>3. id'[e] = IF id[e] = None THEN First ELSE id[e]
        BY <2>1, <3>1, <3>5, <4>1, <4>2 DEF First
      <4>4. id'[e] = Pick(Rank(e, heard), inUse)
        BY <3>3, <4>1, <4>2, <4>3 DEF First
      <4> QED
        BY <1>3, <2>1, <2>3, <4>1, <4>4 DEF heard, inUse
    <3> QED
      BY <3>4, <3>5
  <2> QED
    BY <2>2, <2>3
<1> QED
  BY <1>1, <1>2, <1>3 DEF JoinInv, AutoIdTypes

(* The invariant of joining through a round.                               *)
LEMMA RoundKeeps ==
    ASSUME JoinInv, NEW lost, Round(lost)
    PROVE  JoinInv'
<1>1. AutoIdTypes /\ \A d \in Joiners : Joins(d)
  BY DEF JoinInv
<1> DEFINE Moves(e, h) ==
    /\ phase[e] \in {"OFF", "SETUP", "RUN"} =>
           UNCHANGED <<phase[e], id[e], left[e], nonces[e], claimed[e]>>
    /\ phase[e] = "RETRY" =>
           /\ phase'[e] \in {"RETRY", "SETUP"}
           /\ UNCHANGED <<id[e], left[e], nonces[e], claimed[e]>>
    /\ phase[e] = "WINDOW" /\ left[e] > 1 =>
           /\ phase'[e] = "WINDOW" /\ id'[e] = id[e] /\ left'[e] = left[e] - 1
           /\ nonces'[e] = nonces[e] \cup NoncesIn(h)
           /\ claimed'[e] = claimed[e] \cup WindowClaims(e, h)
    /\ phase[e] = "WINDOW" /\ ~(left[e] > 1) =>
           /\ phase'[e] \in {"RETRY", "SETUP"} /\ left'[e] = left[e] - 1
           /\ nonces'[e] = nonces[e] \cup NoncesIn(h)
           /\ claimed'[e] = claimed[e] \cup WindowClaims(e, h)
           /\ phase'[e] = "RETRY" => nonces'[e] = {} /\ claimed'[e] = {}
           /\ id'[e] = Pick(Rank(e, nonces'[e]), claimed'[e])
<1>2. \A e \in Joiners : \E h \in SUBSET (On \ {e}) : Moves(e, h)
  <2> SUFFICES ASSUME NEW e \in Joiners PROVE \E h \in SUBSET (On \ {e}) : Moves(e, h)
    OBVIOUS
  <2>1. PICK h \in SUBSET (On \ {e}) : Rounded(e, h)
    BY RoundIsRounded
  <2>2. Moves(e, h)
    BY <2>1, RoundMoves
  <2> QED
    BY <2>2
<1> HIDE DEF Moves
<1>3. ASSUME NEW e \in Joiners
      PROVE  /\ phase[e] = "WINDOW" => left[e] \in 1..Window
             /\ phase[e] \in {"OFF", "WINDOW", "RETRY", "SETUP", "RUN"}
             /\ left[e] \in 0..Window /\ Window \in Nat
  BY <1>1, AutoIdAssumption DEF AutoIdTypes, Joins
(* An element whose window ends takes a free identifier.                   *)
<1>4. ASSUME NEW e \in Joiners, phase[e] = "WINDOW", NEW h \in SUBSET (On \ {e}), Moves(e, h)
      PROVE  /\ nonces'[e] \subseteq {Nonce[f] : f \in Joiners \ {e}} /\ claimed'[e] \subseteq Ids
             /\ \E c \in [Joiners -> Ids] :
                    /\ Explains(c, e)
                    /\ claimed'[e] \subseteq {c[f] : f \in Joiners \ ({e} \cup Fresh(e))}
  <2>1. nonces'[e] = nonces[e] \cup NoncesIn(h) /\ claimed'[e] = claimed[e] \cup WindowClaims(e, h)
    BY <1>4 DEF Moves
  <2> QED
    BY <1>4, <2>1, WindowEnds
<1>5. ASSUME NEW e \in Joiners PROVE Holding(e)' => Room(e)' /\ id'[e] \in Ids
  <2> SUFFICES ASSUME Holding(e)' PROVE Room(e)' /\ id'[e] \in Ids
    OBVIOUS
  <2>1. PICK h \in SUBSET (On \ {e}) : Moves(e, h)
    BY <1>2
  <2>2. CASE phase[e] = "WINDOW"
    <3>1. ~(left[e] > 1)
      BY <2>1, <2>2 DEF Moves, Holding
    <3>2. PICK c \in [Joiners -> Ids] : claimed'[e] \subseteq {c[f] : f \in Joiners \ {e}}
      BY <1>4, <2>1, <2>2
    <3>3. id'[e] \in Ids \ claimed'[e]
      <4>1. id'[e] = Pick(Rank(e, nonces'[e]), claimed'[e])
        BY <2>1, <2>2, <3>1 DEF Moves
      <4>2. nonces'[e] \subseteq {Nonce[f] : f \in Joiners \ {e}}
        BY <1>4, <2>1, <2>2
      <4>3. /\ id'[e] \in Ids \ claimed'[e]
            /\ Cardinality({j \in Ids \ claimed'[e] : j < id'[e]}) = Rank(e, nonces'[e])
        BY <3>2, <4>1, <4>2, Fits
      <4> QED
        BY <4>3
    <3> QED
      BY <3>2, <3>3 DEF Room
  <2>3. CASE phase[e] # "WINDOW"
    <3>1. Holding(e) /\ id'[e] = id[e] /\ claimed'[e] = claimed[e]
      BY <1>3, <2>1, <2>3 DEF Moves, Holding
    <3>2. Room(e) /\ id[e] \in Ids
      BY <1>1, <3>1, HoldersHaveIds DEF Joins
    <3> QED
      BY <3>1, <3>2 DEF Room
  <2> QED
    BY <2>2, <2>3
<1>6. AutoIdTypes'
  <2>1. ASSUME NEW e \in Joiners
        PROVE  /\ phase'[e] \in {"OFF", "WINDOW", "RETRY", "SETUP", "RUN"}
               /\ left'[e] \in 0..Window /\ nonces'[e] \in SUBSET Nat
               /\ claimed'[e] \in SUBSET Ids /\ id'[e] \in Ids \cup {None}
               /\ nonces'[e] \subseteq {Nonce[f] : f \in Joiners \ {e}}
    <3>1. PICK h \in SUBSET (On \ {e}) : Moves(e, h)
      BY <1>2
    <3>2. phase'[e] \in {"OFF", "WINDOW", "RETRY", "SETUP", "RUN"}
      BY <1>3, <3>1 DEF Moves
    <3>3. left'[e] \in 0..Window
      BY <1>3, <3>1 DEF Moves
    <3>4. nonces'[e] \subseteq {Nonce[f] : f \in Joiners \ {e}} /\ claimed'[e] \subseteq Ids
      <4>1. CASE phase[e] = "WINDOW"
        BY <1>4, <3>1, <4>1
      <4>2. CASE phase[e] # "WINDOW"
        <5>1. nonces'[e] = nonces[e] /\ claimed'[e] = claimed[e]
          BY <1>3, <3>1, <4>2 DEF Moves
        <5> QED
          BY <1>1, <5>1 DEF AutoIdTypes
      <4> QED
        BY <4>1, <4>2
    <3>5. id'[e] \in Ids \cup {None}
      <4>1. CASE Holding(e)'
        BY <1>5, <4>1
      <4>2. CASE ~Holding(e)'
        <5>1. id'[e] = id[e]
          BY <1>3, <3>1, <4>2 DEF Moves, Holding
        <5> QED
          BY <1>1, <5>1 DEF AutoIdTypes
      <4> QED
        BY <4>1, <4>2
    <3>6. nonces'[e] \subseteq Nat
      BY <3>4, AutoIdAssumption
    <3> QED
      BY <3>2, <3>3, <3>4, <3>5, <3>6
  <2>2. /\ phase' \in [Joiners -> {phase'[e] : e \in Joiners}]
        /\ id' \in [Joiners -> {id'[e] : e \in Joiners}]
        /\ left' \in [Joiners -> {left'[e] : e \in Joiners}]
        /\ nonces' \in [Joiners -> {nonces'[e] : e \in Joiners}]
        /\ claimed' \in [Joiners -> {claimed'[e] : e \in Joiners}]
    BY RoundIsRounded
  <2> QED
    BY <2>1, <2>2 DEF AutoIdTypes
<1>7. ASSUME NEW e \in Joiners PROVE Joins(e)'
  <2>1. PICK h \in SUBSET (On \ {e}) : Moves(e, h)
    BY <1>2
  <2>2. CASE phase[e] = "OFF"
    BY <1>1, <2>1, <2>2 DEF Moves, Joins, Holding
  <2>3. CASE phase[e] \in {"SETUP", "RUN"}
    <3>1. Room(e)' /\ UNCHANGED <<phase[e], id[e], left[e], nonces[e], claimed[e]>>
      BY <1>5, <2>1, <2>3 DEF Moves, Holding
    <3> QED
      BY <1>1, <2>3, <3>1 DEF Joins, Holding
  <2>4. CASE phase[e] = "RETRY"
    <3>1. Room(e)' /\ phase'[e] \in {"RETRY", "SETUP"}
          /\ UNCHANGED <<id[e], left[e], nonces[e], claimed[e]>>
      BY <1>5, <2>1, <2>4 DEF Moves, Holding
    <3> QED
      BY <1>1, <2>4, <3>1 DEF Joins, Holding
  <2>5. CASE phase[e] = "WINDOW" /\ ~(left[e] > 1)
    <3>1. /\ phase'[e] \in {"RETRY", "SETUP"} /\ Room(e)'
          /\ phase'[e] = "RETRY" => nonces'[e] = {} /\ claimed'[e] = {}
          /\ id'[e] = Pick(Rank(e, nonces'[e]), claimed'[e])
      BY <1>5, <2>1, <2>5 DEF Moves, Holding
    <3> QED
      BY <3>1 DEF Joins, Holding
  <2>6. CASE phase[e] = "WINDOW" /\ left[e] > 1
    <3>1. phase'[e] = "WINDOW" /\ id'[e] = id[e] /\ left'[e] = left[e] - 1 /\ left'[e] > 0
      BY <1>3, <2>1, <2>6 DEF Moves
    <3>2. PICK c \in [Joiners -> Ids] :
              /\ Explains(c, e)
              /\ claimed'[e] \subseteq {c[f] : f \in Joiners \ ({e} \cup Fresh(e))}
      BY <1>4, <2>1, <2>6
    <3>3. ASSUME NEW f \in Joiners \ ({e} \cup Fresh(e))
          PROVE  /\ f \notin Fresh(e)'
                 /\ Holding(f)' => c[f] = id'[f]
      <4>1. PICK g \in SUBSET (On \ {f}) : Moves(f, g)
        BY <1>2
      <4>2. CASE phase[f] = "WINDOW"
        <5>1. ~(left[f] < left[e])
          BY <4>2 DEF Fresh
        <5>2. left[f] > 1
          BY <1>3, <2>6, <5>1
        <5>3. phase'[f] = "WINDOW" /\ left'[f] = left[f] - 1
          BY <4>1, <4>2, <5>2 DEF Moves
        <5> QED
          BY <1>3, <3>1, <4>2, <5>1, <5>3 DEF Fresh, Holding
      <4>3. CASE phase[f] # "WINDOW"
        <5>1. phase'[f] # "WINDOW" /\ id'[f] = id[f] /\ (Holding(f)' => Holding(f))
          BY <1>3, <4>1, <4>3 DEF Moves, Holding
        <5> QED
          BY <3>2, <5>1 DEF Fresh, Explains
      <4> QED
        BY <4>2, <4>3
    <3>4. PICK d : d = [f \in Joiners |-> IF f # e /\ Holding(f)' THEN id'[f] ELSE c[f]]
      OBVIOUS
    <3>5. d \in [Joiners -> Ids]
      BY <1>5, <3>4
    <3>6. \A f \in Joiners \ ({e} \cup Fresh(e)) : d[f] = c[f] /\ f \notin Fresh(e)'
      BY <3>3, <3>4
    <3>7. claimed'[e] \subseteq {d[f] : f \in Joiners \ ({e} \cup Fresh(e)')}
      BY <3>2, <3>6
    <3>8. Explains(d, e)'
      BY <3>4, <3>7 DEF Explains
    <3> QED
      BY <1>1, <2>6, <3>1, <3>5, <3>8 DEF Joins, Holding
  <2> QED
    BY <1>3, <2>2, <2>3, <2>4, <2>5, <2>6
<1> QED
  BY <1>6, <1>7 DEF JoinInv

(* The invariant of joining through every step.                            *)
LEMMA JoinStep == JoinInv /\ [AutoIdNext]_autoIdVars => JoinInv'
<1> SUFFICES ASSUME JoinInv, [AutoIdNext]_autoIdVars PROVE JoinInv'
  OBVIOUS
<1>1. ASSUME NEW e \in Joiners, PowerOn(e) PROVE JoinInv'
  BY <1>1, OpeningKeeps DEF PowerOn
<1>2. ASSUME NEW e \in Joiners, Renegotiate(e) PROVE JoinInv'
  BY <1>2, OpeningKeeps DEF Renegotiate
<1>3. CASE UNCHANGED autoIdVars
  BY <1>3 DEF autoIdVars, JoinInv, AutoIdTypes, Joins, Holding, Room, Explains, Fresh
<1> QED
  BY <1>1, <1>2, <1>3, ReadyKeeps, PowerOffKeeps, RoundKeeps DEF AutoIdNext

(* For every number of elements, nonces and length of the window, whoever  *)
(* is switched on and off when and whatever the radio loses: equal views   *)
(* take different identifiers, and none takes one it has heard in use.     *)
THEOREM EqualViewsAlwaysDiffer == AutoIdSpec => []EqualViewsDiffer
<1> QED
  BY JoinStart, JoinStep, JoinedDiffer, PTL DEF AutoIdSpec
=============================================================================
