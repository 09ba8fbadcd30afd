------------------------------- MODULE Facts -------------------------------
(***************************************************************************)
(* L4 shared facts (csm/facts.c): every element holds a replica of a small *)
(* table of facts about the world; publishing, retracting, merging what    *)
(* peers' fact frames carry, evicting, expiring tombstones, rebooting.     *)
(*                                                                         *)
(* Fact frames are broadcast and not relayed: a frame that arrives carries *)
(* two records of what its sender holds at that moment, or all it holds.   *)
(* A frame that is lost is a Deliver that does not happen.  Which of its   *)
(* records a sender packs follows a rotating cursor over slots in the      *)
(* code; here any of them may be packed.  Positions matter only through    *)
(* being within the merge radius of one another.                           *)
(***************************************************************************)
EXTENDS Naturals, FiniteSets, Sequences

CONSTANTS
    Elements,      \* identifiers of the elements, numbers
    Places,        \* positions, numbers on a line
    Radius,        \* FACT_MERGE_RADIUS_TARGET: facts this near are one
    Kinds,         \* what may be published: [type, prio, immutable]
    MergedTypes,   \* the types with a merge radius
    Capacity,      \* WM_MAX_FACTS
    PerOrigin,     \* FACT_MAX_PER_ORIGIN
    SeqMod,        \* next_seq counts modulo this (256 in the code)
    TombstoneTtl,  \* FACT_TOMBSTONE_TTL_MS, in ticks
    SyncTimeout,   \* FACT_SYNC_TIMEOUT_MS, in ticks
    MaxStamp,      \* bound: no fact is stamped beyond this
    MaxEpoch,      \* bound: boots per element
    Rebooters      \* bound: the elements that reboot

ASSUME FactsAssumption ==
    /\ Elements \subseteq Nat /\ IsFiniteSet(Elements)
    /\ Places \subseteq Nat /\ Radius \in Nat
    /\ \A k \in Kinds : k.prio \in 0..3 /\ k.immutable \in BOOLEAN
    /\ Capacity \in Nat \ {0} /\ PerOrigin \in Nat \ {0}
    /\ SeqMod \in Nat \ {0}
    /\ TombstoneTtl \in Nat \ {0} /\ SyncTimeout \in Nat
    /\ MaxStamp \in Nat /\ MaxEpoch \in Nat \ {0} /\ Rebooters \subseteq Elements

VARIABLES
    table,    \* per element, the used slots: facts with the tombstone's age
    lamport,  \* Lamport clock over facts
    nextSeq,
    epoch,    \* this boot's number
    drawn,    \* the numbers of all boots so far: they never repeat
    synced, sinceInit

factsVars == <<table, lamport, nextSeq, epoch, drawn, synced, sinceInit>>

Fact == [kind: Kinds, place: Places, origin: Elements, epoch: 1..MaxEpoch,
         seq: 0..(SeqMod - 1), live: BOOLEAN, stamp: 1..MaxStamp,
         tomb: 0..(TombstoneTtl - 1)]

-----------------------------------------------------------------------------
(* Keys and orders *)

Key(f) == <<f.kind.type, f.origin, f.epoch, f.seq>>

(* rank_cmp < 0 *)
RankBefore(f, g) ==
    \/ f.stamp < g.stamp
    \/ f.stamp = g.stamp /\
         \/ f.origin < g.origin
         \/ f.origin = g.origin /\
              \/ f.epoch < g.epoch
              \/ f.epoch = g.epoch /\ f.seq < g.seq

(* evict_cmp < 0: tombstones first, then low priority, then rank. *)
EvictBefore(f, g) ==
    \/ ~f.live /\ g.live
    \/ f.live = g.live /\
         \/ f.kind.prio < g.kind.prio
         \/ f.kind.prio = g.kind.prio /\ RankBefore(f, g)

FirstOut(T) == CHOOSE f \in T : \A g \in T : ~EvictBefore(g, f)

Held(T, key) == {h \in T : Key(h) = key}

Distance(a, b) == IF a < b THEN b - a ELSE a - b

(* The facts nearby_duplicate chooses from.                                *)
Near(T, kind, place) ==
    {h \in T : /\ kind.type \in MergedTypes
               /\ h.live /\ h.kind.type = kind.type
               /\ Distance(h.place, place) <= Radius}

-----------------------------------------------------------------------------
(* admit: the table with f in it, or without it if f would go first.       *)

SameOrigin(T, f) == {h \in T : h.live /\ h.origin = f.origin /\ h.epoch = f.epoch}

OverShare(T, f) == f.live /\ Cardinality(SameOrigin(T, f)) >= PerOrigin

Admit(T, f) ==
    IF OverShare(T, f) THEN
        LET out == FirstOut(SameOrigin(T, f))
        IN IF EvictBefore(f, out) THEN T ELSE (T \ {out}) \cup {f}
    ELSE IF Cardinality(T) < Capacity THEN T \cup {f}
    ELSE LET out == FirstOut(T)
         IN IF EvictBefore(f, out) THEN T ELSE (T \ {out}) \cup {f}

(* Variant: a retraction does not reach a fact that is held.               *)
MergeHeldDeaf(T, h, f) ==
    IF h.live /\ f.live /\ ~h.kind.immutable /\ RankBefore(h, f)
    THEN (T \ {h}) \cup {f} ELSE T

(* merge_record, the key being held as h.  Retraction beats a live version;*)
(* of two tombstones the earlier stays, and its age is not touched.        *)
MergeHeld(T, h, f) ==
    LET replaced(age) == (T \ {h}) \cup {[f EXCEPT !.tomb = age]}
    IN IF ~h.live THEN IF ~f.live /\ f.stamp < h.stamp THEN replaced(h.tomb) ELSE T
       ELSE IF ~f.live THEN replaced(0)
       ELSE IF h.kind.immutable /\ RankBefore(f, h) THEN replaced(0)
       ELSE IF ~h.kind.immutable /\ RankBefore(h, f) THEN replaced(0)
       ELSE T

(* The key being new: nearby facts of the type give way to a lower-ranked  *)
(* one, or keep it out.                                                    *)
MergeNew(T, f) ==
    LET dups == IF f.live THEN Near(T, f.kind, f.place) ELSE {}
    IN IF \E d \in dups : RankBefore(d, f) THEN T
       ELSE Admit(T \ dups, f)

(* Variant: a live version may come back over a tombstone.                 *)
MergeReviving(T, f) ==
    IF Held(T, Key(f)) = {} THEN MergeNew(T, f)
    ELSE (T \ Held(T, Key(f))) \cup {f}

(* Variant: duplicates are looked for by key only.                         *)
MergeByKeyOnly(T, f) ==
    IF Held(T, Key(f)) = {} THEN Admit(T, f)
    ELSE MergeHeld(T, CHOOSE h \in Held(T, Key(f)) : TRUE, f)

(* wm_fact_receive on the table. *)
Merge(T, f) ==
    IF Held(T, Key(f)) = {} THEN MergeNew(T, f)
    ELSE MergeHeld(T, CHOOSE h \in Held(T, Key(f)) : TRUE, f)

(* A record as it travels: the age of a tombstone stays behind.            *)
Sent(f) == [f EXCEPT !.tomb = 0]

Later(a, b) == IF a > b THEN a ELSE b

-----------------------------------------------------------------------------

FactsTypeOK ==
    /\ table \in [Elements -> SUBSET Fact]
    /\ lamport \in [Elements -> 0..MaxStamp]
    /\ nextSeq \in [Elements -> 0..(SeqMod - 1)]
    /\ epoch \in [Elements -> 1..MaxEpoch]
    /\ drawn \in [Elements -> SUBSET (1..MaxEpoch)]
    /\ synced \in [Elements -> BOOLEAN]
    /\ sinceInit \in [Elements -> 0..SyncTimeout]
    /\ \A e \in Elements : Cardinality(table[e]) <= Capacity

(* wm_facts_init and the epoch gossip_drain sets. *)
FactsInit ==
    /\ table = [e \in Elements |-> {}]
    /\ lamport = [e \in Elements |-> 0]
    /\ nextSeq = [e \in Elements |-> 0]
    /\ epoch \in {n \in [Elements -> 1..MaxEpoch] :
                    \A e \in Elements \ Rebooters : n[e] = 1}
    /\ drawn = [e \in Elements |-> {epoch[e]}]
    /\ synced = [e \in Elements |-> FALSE]
    /\ sinceInit = [e \in Elements |-> 0]

NewFact(e, kind, place) ==
    [kind |-> kind, place |-> place, origin |-> e, epoch |-> epoch[e],
     seq |-> nextSeq[e], live |-> TRUE, stamp |-> lamport[e] + 1, tomb |-> 0]

(* wm_fact_publish that creates a fact.  A refused or reusing publish      *)
(* changes nothing.                                                        *)
Publish(e, kind, place) ==
    LET f == NewFact(e, kind, place)
        T == Admit(table[e], f)
    IN /\ synced[e]
       /\ lamport[e] < MaxStamp
       /\ Near(table[e], kind, place) = {}
       /\ f \in T
       /\ table' = [table EXCEPT ![e] = T]
       /\ lamport' = [lamport EXCEPT ![e] = f.stamp]
       /\ nextSeq' = [nextSeq EXCEPT ![e] = (@ + 1) % SeqMod]
       /\ UNCHANGED <<epoch, drawn, synced, sinceInit>>

(* wm_fact_retract: any element may retract any fact it holds live.        *)
Retract(e, f) ==
    /\ f \in table[e] /\ f.live
    /\ lamport[e] < MaxStamp
    /\ lamport' = [lamport EXCEPT ![e] = @ + 1]
    /\ table' = [table EXCEPT ![e] = (@ \ {f}) \cup
                    {[f EXCEPT !.live = FALSE, !.stamp = lamport[e] + 1, !.tomb = 0]}]
    /\ UNCHANGED <<nextSeq, epoch, drawn, synced, sinceInit>>

(* The frames an element holding T may send: two records, or as many as    *)
(* there are.                                                              *)
Frames(T) ==
    LET n == IF Cardinality(T) < 2 THEN Cardinality(T) ELSE 2
    IN {s \in [1..n -> T] : \A i, j \in 1..n : s[i] = s[j] => i = j}

(* Its records merged one after the other.                                 *)
MergeFrame(T, s) ==
    CASE Len(s) = 0 -> T
      [] Len(s) = 1 -> Merge(T, Sent(s[1]))
      [] Len(s) = 2 -> Merge(Merge(T, Sent(s[1])), Sent(s[2]))

ClockAfter(c, s) ==
    CASE Len(s) = 0 -> c
      [] Len(s) = 1 -> Later(c, s[1].stamp)
      [] Len(s) = 2 -> Later(Later(c, s[1].stamp), s[2].stamp)

(* A frame of d reaches e: gossip_fact_frame_apply, then                   *)
(* wm_fact_heard_digest, after which the table counts as synced.           *)
Deliver(d, e, s) ==
    /\ d # e
    /\ s \in Frames(table[d])
    /\ table' = [table EXCEPT ![e] = MergeFrame(@, s)]
    /\ lamport' = [lamport EXCEPT ![e] = ClockAfter(@, s)]
    /\ synced' = [synced EXCEPT ![e] = TRUE]
    /\ UNCHANGED <<nextSeq, epoch, drawn, sinceInit>>

(* wm_fact_tick, for the elements of S: a tick of time is long enough for  *)
(* a main loop to have run, but loops do not run in step.                  *)
TombstonesAged(T) == {h \in T : h.live}
           \cup {[h EXCEPT !.tomb = @ + 1] :
                   h \in {g \in T : ~g.live /\ g.tomb + 1 < TombstoneTtl}}

FactTick(S) ==
    /\ sinceInit' = [e \in Elements |->
                        IF e \in S /\ sinceInit[e] < SyncTimeout
                        THEN sinceInit[e] + 1 ELSE sinceInit[e]]
    /\ synced' = [e \in Elements |->
                     synced[e] \/ (e \in S /\ sinceInit'[e] >= SyncTimeout)]
    /\ table' = [e \in Elements |-> IF e \in S THEN TombstonesAged(table[e]) ELSE table[e]]
    /\ UNCHANGED <<lamport, nextSeq, epoch, drawn>>

(* Variant: the boots of an element share one epoch.                       *)
RebootSameEpoch(e, n) ==
    /\ n \notin drawn[e]
    /\ drawn' = [drawn EXCEPT ![e] = @ \cup {n}]
    /\ table' = [table EXCEPT ![e] = {}]
    /\ lamport' = [lamport EXCEPT ![e] = 0]
    /\ nextSeq' = [nextSeq EXCEPT ![e] = 0]
    /\ synced' = [synced EXCEPT ![e] = FALSE]
    /\ sinceInit' = [sinceInit EXCEPT ![e] = 0]
    /\ UNCHANGED epoch

(* The element reboots: everything is forgotten, a new epoch is drawn.     *)
Reboot(e, n) ==
    /\ n \notin drawn[e]
    /\ epoch' = [epoch EXCEPT ![e] = n]
    /\ drawn' = [drawn EXCEPT ![e] = @ \cup {n}]
    /\ table' = [table EXCEPT ![e] = {}]
    /\ lamport' = [lamport EXCEPT ![e] = 0]
    /\ nextSeq' = [nextSeq EXCEPT ![e] = 0]
    /\ synced' = [synced EXCEPT ![e] = FALSE]
    /\ sinceInit' = [sinceInit EXCEPT ![e] = 0]

Exchange == \E d, e \in Elements : \E s \in Frames(table[d]) : Deliver(d, e, s)

FactsNext ==
    \/ Exchange
    \/ \E e \in Elements :
          \/ \E kind \in Kinds, place \in Places : Publish(e, kind, place)
          \/ \E f \in table[e] : Retract(e, f)
          \/ FactTick({e})
    \/ \E e \in Rebooters, n \in 1..MaxEpoch : Reboot(e, n)

FactsSpec == FactsInit /\ [][FactsNext]_factsVars

(* Trickle keeps sending at least every FACT_IMAX_MS and the cursor brings *)
(* every record round, so what a peer could teach does not stay unheard.   *)
Live(T) == {f \in T : f.live}

Teach(d, e) ==
    \E s \in Frames(table[d]) :
        Deliver(d, e, s) /\ Live(table'[e]) # Live(table[e])

(* Time as the elements share it: all loops run in every tick, and frames  *)
(* keep being exchanged.                                                   *)
LockstepNext ==
    \/ Exchange
    \/ FactTick(Elements)
    \/ \E e \in Elements :
          \/ \E kind \in Kinds, place \in Places : Publish(e, kind, place)
          \/ \E f \in table[e] : Retract(e, f)

-----------------------------------------------------------------------------
(* Safety *)

(* Two live facts of a merged type are never within the merge radius of    *)
(* one another in one table, however they arrived (merge_record).          *)
NoNearbyDuplicates ==
    \A e \in Elements : \A f, g \in table[e] :
        f.live /\ f # g => g \notin Near(table[e], f.kind, f.place)

(* No two replicas ever hold one live key with different contents.         *)
SameKeySameFact ==
    \A d, e \in Elements : \A f \in table[d], g \in table[e] :
        Key(f) = Key(g) /\ f.live /\ g.live => f = g

(* Action properties *)

(* Gossip brings a fact back over its tombstone only where the table is    *)
(* full: then a first record may push the tombstone out and the second be  *)
(* the fact itself.  While there is room retraction beats every live       *)
(* version, in whatever order and how often they arrive (merge_record).    *)
RetractionStands ==
    [][\A e \in Elements : \A f \in table[e] :
         ~f.live /\ Cardinality(table[e]) < Capacity =>
             \A g \in table'[e] : Key(g) = Key(f) => ~g.live]_factsVars

(* Liveness.  MaxStamp bounds how much is published and retracted.         *)

(* Once nobody publishes or retracts any more the swarm ends up holding    *)
(* the same live facts, for good, whatever frames were lost on the way.    *)
EventuallyAgreed ==
    <>[](\A d, e \in Elements : Live(table[d]) = Live(table[e]))

(* "Age tombstones (dropped after FACT_TOMBSTONE_TTL_MS)" (csm.h): once    *)
(* nobody retracts any more, the swarm's tombstones go.                    *)
TombstonesGo == <>[](\A e \in Elements : table[e] = Live(table[e]))
=============================================================================
