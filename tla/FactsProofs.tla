----------------------------- MODULE FactsProofs ----------------------------
(***************************************************************************)
(* Theorems about the shared facts of L4.  As long as an element does not  *)
(* use a sequence number again while some replica still holds its fact, a  *)
(* live key means one thing in the whole swarm, no replica holds two live  *)
(* facts within the merge radius, and gossip brings no fact back over its  *)
(* tombstone while there is room; no boot of an element takes more than    *)
(* its share of a replica; and a swarm whose frames change nothing live    *)
(* any more holds the same live facts everywhere.                          *)
(***************************************************************************)
EXTENDS Facts, FiniteSetTheorems, WellFoundedInduction, TLAPS

(* The next number of an element is borne by no fact of this boot that     *)
(* anybody holds.  next_seq has eight bits: it comes round after 256       *)
(* publications.                                                           *)
NumbersFree ==
    \A d, e \in Elements : \A f \in table[d] :
        f.origin = e /\ f.epoch = epoch[e] => f.seq # nextSeq[e]

(* What is so of every replica by itself. *)
Sane(T) ==
    /\ T \subseteq Fact /\ IsFiniteSet(T) /\ Cardinality(T) <= Capacity
    /\ \A f, g \in T : Key(f) = Key(g) => f = g
    /\ \A f \in T : f.live => f.tomb = 0
    /\ \A f, g \in T : f.live /\ f # g => g \notin Near(T, f.kind, f.place)

Scalars ==
    /\ lamport \in [Elements -> 0..MaxStamp]
    /\ nextSeq \in [Elements -> 0..(SeqMod - 1)]
    /\ epoch \in [Elements -> 1..MaxEpoch]
    /\ drawn \in [Elements -> SUBSET (1..MaxEpoch)]
    /\ synced \in [Elements -> BOOLEAN]
    /\ sinceInit \in [Elements -> 0..SyncTimeout]

(* Every fact was published in a boot that has been. *)
EpochsDrawn ==
    /\ \A e \in Elements : epoch[e] \in drawn[e]
    /\ \A e \in Elements : \A f \in table[e] : f.epoch \in drawn[f.origin]

FactsInv ==
    /\ Scalars
    /\ table \in [Elements -> SUBSET Fact] /\ \A e \in Elements : Sane(table[e])
    /\ EpochsDrawn /\ SameKeySameFact

(* The key k is retracted here. *)
Sealed(T, k) == \E h \in T : Key(h) = k /\ ~h.live

-----------------------------------------------------------------------------
(* Choices the table makes *)

(* Where something is counted, somebody has least.                         *)
LEMMA SomebodyHasLeast ==
    ASSUME NEW A, A # {}, NEW m, \A f \in A : m[f] \in Nat
    PROVE  \E f \in A : \A g \in A : m[f] <= m[g]
<1> DEFINE counts == {m[f] : f \in A}
<1>1. counts \subseteq Nat /\ counts # {}
  OBVIOUS
<1>2. \E n \in counts : \A k \in counts : ~(<<k, n>> \in OpToRel(<, Nat))
  <2> HIDE DEF counts
  <2> QED
    BY <1>1, NatLessThanWellFounded, WFMin
<1>3. PICK n \in counts : \A k \in counts : ~(<<k, n>> \in OpToRel(<, Nat))
  BY <1>2
<1>4. \A k \in counts : n <= k
  <2> SUFFICES ASSUME NEW k \in counts PROVE n <= k
    OBVIOUS
  <2>1. k \in Nat /\ n \in Nat
    BY <1>1, <1>3
  <2>2. ~(k < n)
    BY <1>3, <2>1 DEF OpToRel
  <2> QED
    BY <2>1, <2>2
<1>5. PICK f \in A : n = m[f]
  BY <1>3
<1> QED
  BY <1>4, <1>5

(* A fact's fields. *)
LEMMA Fields ==
    ASSUME NEW f \in Fact
    PROVE  /\ f.kind \in Kinds /\ f.kind.prio \in Nat /\ f.place \in Nat
           /\ f.origin \in Nat /\ f.origin \in Elements /\ f.epoch \in Nat
           /\ f.seq \in Nat /\ f.live \in BOOLEAN /\ f.stamp \in Nat
           /\ f.stamp \in 1..MaxStamp /\ f.tomb \in 0..(TombstoneTtl - 1)
<1>1. /\ f.kind \in Kinds /\ f.place \in Places /\ f.origin \in Elements
      /\ f.epoch \in 1..MaxEpoch /\ f.seq \in 0..(SeqMod - 1) /\ f.live \in BOOLEAN
      /\ f.stamp \in 1..MaxStamp /\ f.tomb \in 0..(TombstoneTtl - 1)
  BY DEF Fact
<1>2. f.kind.prio \in 0..3 /\ f.place \in Nat /\ f.origin \in Nat
  BY <1>1, FactsAssumption
<1>3. f.kind.prio \in Nat /\ f.epoch \in Nat /\ f.seq \in Nat /\ f.stamp \in Nat
  BY <1>1, <1>2, FactsAssumption
<1> QED
  BY <1>1, <1>2, <1>3

(* Of any facts there is one that no other goes before: eviction has a     *)
(* victim.                                                                 *)
LEMMA FirstOutExists ==
    ASSUME NEW T, T \subseteq Fact, T # {}
    PROVE  FirstOut(T) \in T /\ \A g \in T : ~EvictBefore(g, FirstOut(T))
<1> DEFINE A0 == IF \E f \in T : ~f.live THEN {f \in T : ~f.live} ELSE T
<1>0. A0 \subseteq T /\ A0 # {}
  OBVIOUS
<1> HIDE DEF A0
<1>1. PICK p \in A0 : \A g \in A0 : p.kind.prio <= g.kind.prio
  <2> DEFINE m == [f \in A0 |-> f.kind.prio]
  <2>1. \A f \in A0 : m[f] = f.kind.prio /\ m[f] \in Nat
    BY <1>0, Fields
  <2> HIDE DEF m
  <2>3. \E f \in A0 : \A g \in A0 : m[f] <= m[g]
    BY <1>0, <2>1, SomebodyHasLeast
  <2> QED
    BY <2>1, <2>3
<1> DEFINE A1 == {f \in A0 : f.kind.prio = p.kind.prio}
<1>2. PICK s \in A1 : \A g \in A1 : s.stamp <= g.stamp
  <2> DEFINE m == [f \in A1 |-> f.stamp]
  <2>1. \A f \in A1 : m[f] = f.stamp /\ m[f] \in Nat
    BY <1>0, Fields
  <2>2. A1 # {}
    BY <1>1
  <2> HIDE DEF m, A1
  <2>3. \E f \in A1 : \A g \in A1 : m[f] <= m[g]
    BY <2>2, <2>1, SomebodyHasLeast
  <2> QED
    BY <2>1, <2>3
<1> DEFINE A2 == {f \in A1 : f.stamp = s.stamp}
<1>3. PICK o \in A2 : \A g \in A2 : o.origin <= g.origin
  <2> DEFINE m == [f \in A2 |-> f.origin]
  <2>1. \A f \in A2 : m[f] = f.origin /\ m[f] \in Nat
    BY <1>0, Fields
  <2>2. A2 # {}
    BY <1>2
  <2> HIDE DEF m, A2
  <2>3. \E f \in A2 : \A g \in A2 : m[f] <= m[g]
    BY <2>2, <2>1, SomebodyHasLeast
  <2> QED
    BY <2>1, <2>3
<1> DEFINE A3 == {f \in A2 : f.origin = o.origin}
<1>4. PICK b \in A3 : \A g \in A3 : b.epoch <= g.epoch
  <2> DEFINE m == [f \in A3 |-> f.epoch]
  <2>1. \A f \in A3 : m[f] = f.epoch /\ m[f] \in Nat
    BY <1>0, Fields
  <2>2. A3 # {}
    BY <1>3
  <2> HIDE DEF m, A3
  <2>3. \E f \in A3 : \A g \in A3 : m[f] <= m[g]
    BY <2>2, <2>1, SomebodyHasLeast
  <2> QED
    BY <2>1, <2>3
<1> DEFINE A4 == {f \in A3 : f.epoch = b.epoch}
<1>5. PICK x \in A4 : \A g \in A4 : x.seq <= g.seq
  <2> DEFINE m == [f \in A4 |-> f.seq]
  <2>1. \A f \in A4 : m[f] = f.seq /\ m[f] \in Nat
    BY <1>0, Fields
  <2>2. A4 # {}
    BY <1>4
  <2> HIDE DEF m, A4
  <2>3. \E f \in A4 : \A g \in A4 : m[f] <= m[g]
    BY <2>2, <2>1, SomebodyHasLeast
  <2> QED
    BY <2>1, <2>3
<1>6. x \in A0 /\ x \in T
  BY <1>0, <1>5
<1>7. ASSUME NEW g \in T, EvictBefore(g, x) PROVE FALSE
  <2>1. g.live \in BOOLEAN /\ x.live \in BOOLEAN
    BY <1>6, <1>7, Fields
  <2>2. ~(~g.live /\ x.live)
    BY <1>6, <1>7, <2>1 DEF A0
  <2>3. /\ g.live = x.live
        /\ \/ g.kind.prio < x.kind.prio
           \/ g.kind.prio = x.kind.prio /\ RankBefore(g, x)
    BY <1>7, <2>2, Zenon DEF EvictBefore
  <2>4. g \in A0
    BY <1>6, <1>7, <2>1, <2>3 DEF A0
  <2>5. /\ g.kind.prio \in Nat /\ x.kind.prio \in Nat /\ g.stamp \in Nat /\ x.stamp \in Nat
        /\ g.origin \in Nat /\ x.origin \in Nat /\ g.epoch \in Nat /\ x.epoch \in Nat
        /\ g.seq \in Nat /\ x.seq \in Nat
    BY <1>6, <1>7, Fields
  <2>6. x.kind.prio = p.kind.prio /\ x.kind.prio <= g.kind.prio
    BY <1>1, <1>5, <2>4
  <2>7. g.kind.prio = x.kind.prio /\ RankBefore(g, x)
    BY <2>3, <2>5, <2>6
  <2>8. g \in A1 /\ x.stamp = s.stamp /\ s.stamp <= g.stamp
    BY <1>2, <1>5, <2>4, <2>6, <2>7
  <2>9. g.stamp = x.stamp /\ g \in A2 /\ x.origin = o.origin /\ o.origin <= g.origin
    BY <1>3, <1>5, <2>5, <2>7, <2>8 DEF RankBefore
  <2>10. g.origin = x.origin /\ g \in A3 /\ x.epoch = b.epoch /\ b.epoch <= g.epoch
    BY <1>4, <1>5, <2>5, <2>7, <2>9 DEF RankBefore
  <2>11. g.epoch = x.epoch /\ g \in A4 /\ g.seq < x.seq
    BY <2>5, <2>7, <2>9, <2>10 DEF RankBefore
  <2> QED
    BY <1>5, <2>5, <2>11
<1> QED
  BY <1>6, <1>7 DEF FirstOut

(* One more is at most one more.                                           *)
LEMMA WithOneMore ==
    ASSUME NEW S, NEW x, IsFiniteSet(S)
    PROVE  /\ IsFiniteSet(S \cup {x}) /\ Cardinality(S \cup {x}) \in Nat
           /\ Cardinality(S) \in Nat
           /\ Cardinality(S \cup {x}) <= Cardinality(S) + 1
<1>1. /\ IsFiniteSet(S \cup {x})
      /\ Cardinality(S \cup {x}) = Cardinality(S) \/ Cardinality(S \cup {x}) = Cardinality(S) + 1
  BY FS_AddElement
<1>2. Cardinality(S) \in Nat /\ Cardinality(S \cup {x}) \in Nat
  BY <1>1, FS_CardinalityType
<1> QED
  BY <1>1, <1>2

(* Admission keeps the table in its bound, adds nothing but the fact, and  *)
(* while there is room costs no tombstone its place.                       *)
LEMMA AdmitKeeps ==
    ASSUME NEW T, T \subseteq Fact, IsFiniteSet(T), Cardinality(T) <= Capacity, NEW f \in Fact
    PROVE  /\ Admit(T, f) \subseteq T \cup {f}
           /\ IsFiniteSet(Admit(T, f)) /\ Cardinality(Admit(T, f)) <= Capacity
           /\ Cardinality(T) < Capacity => \A h \in T : ~h.live => h \in Admit(T, f)
<1>1. Cardinality(T) \in Nat /\ Capacity \in Nat /\ Capacity > 0 /\ PerOrigin \in Nat
      /\ PerOrigin > 0
  BY FS_CardinalityType, FactsAssumption
<1>2. ASSUME NEW out \in T
      PROVE  /\ IsFiniteSet((T \ {out}) \cup {f})
             /\ Cardinality((T \ {out}) \cup {f}) <= Capacity
  <2>1. IsFiniteSet(T \ {out}) /\ Cardinality(T \ {out}) = Cardinality(T) - 1
    BY <1>2, FS_RemoveElement
  <2>2. IsFiniteSet((T \ {out}) \cup {f})
        /\ Cardinality((T \ {out}) \cup {f}) <= Cardinality(T \ {out}) + 1
    BY <2>1, WithOneMore
  <2> QED
    BY <1>1, <2>1, <2>2, FS_CardinalityType
<1>3. CASE OverShare(T, f)
  <2> DEFINE kin == SameOrigin(T, f)
             out == FirstOut(kin)
  <2>1. kin \subseteq T /\ \A h \in kin : h.live
    BY DEF SameOrigin
  <2>2. kin # {}
    BY <1>1, <1>3, FS_EmptySet DEF OverShare
  <2>3. out \in kin
    <3> HIDE DEF kin
    <3> QED
      BY <2>1, <2>2, FirstOutExists
  <2>4. Admit(T, f) = T \/ Admit(T, f) = (T \ {out}) \cup {f}
    BY <1>3 DEF Admit
  <2> HIDE DEF out, kin
  <2> QED
    BY <1>2, <2>1, <2>3, <2>4
<1>4. CASE ~OverShare(T, f) /\ Cardinality(T) < Capacity
  <2>1. Admit(T, f) = T \cup {f}
    BY <1>4 DEF Admit
  <2>2. IsFiniteSet(T \cup {f}) /\ Cardinality(T \cup {f}) <= Cardinality(T) + 1
    BY WithOneMore
  <2> QED
    BY <1>1, <1>4, <2>1, <2>2, FS_CardinalityType
<1>5. CASE ~OverShare(T, f) /\ ~(Cardinality(T) < Capacity)
  <2>1. T # {}
    BY <1>1, <1>5, FS_EmptySet
  <2>2. FirstOut(T) \in T
    BY <2>1, FirstOutExists
  <2>3. Admit(T, f) = T \/ Admit(T, f) = (T \ {FirstOut(T)}) \cup {f}
    BY <1>5 DEF Admit
  <2> QED
    BY <1>2, <1>5, <2>2, <2>3
<1> QED
  BY <1>3, <1>4, <1>5

-----------------------------------------------------------------------------
(* Merging *)

(* Being near goes both ways, and what is near by is live.                 *)
LEMMA NearIsMutual ==
    ASSUME NEW T, NEW S, NEW f \in Fact, NEW g \in Fact, f.live, f \in S,
           g \in Near(T, f.kind, f.place)
    PROVE  f \in Near(S, g.kind, g.place)
<1>1. f.place \in Nat /\ g.place \in Nat
  BY Fields
<1>2. /\ f.kind.type \in MergedTypes /\ g.live /\ g.kind.type = f.kind.type
      /\ Distance(g.place, f.place) <= Radius
  BY DEF Near
<1>3. Distance(f.place, g.place) = Distance(g.place, f.place)
  BY <1>1 DEF Distance
<1> QED
  BY <1>2, <1>3 DEF Near

(* A fact with another tombstone age is a fact under the same key.         *)
LEMMA OtherAge ==
    ASSUME NEW f \in Fact, NEW a \in 0..(TombstoneTtl - 1)
    PROVE  /\ [f EXCEPT !.tomb = a] \in Fact
           /\ Key([f EXCEPT !.tomb = a]) = Key(f)
           /\ [f EXCEPT !.tomb = a].live = f.live
           /\ [f EXCEPT !.tomb = a].tomb = a
           /\ f.tomb = a => [f EXCEPT !.tomb = a] = f
           /\ [f EXCEPT !.tomb = a].origin = f.origin /\ [f EXCEPT !.tomb = a].epoch = f.epoch
           /\ [f EXCEPT !.tomb = a].seq = f.seq
BY DEF Fact, Key

(* Equal keys are of the same origin, boot and number.                     *)
LEMMA KeyTells ==
    ASSUME NEW f, NEW g, Key(f) = Key(g)
    PROVE  f.origin = g.origin /\ f.epoch = g.epoch /\ f.seq = g.seq
BY DEF Key

(* Part of a sane table is sane.                                           *)
LEMMA PartIsSane ==
    ASSUME NEW T, NEW S, Sane(T), S \subseteq T
    PROVE  Sane(S)
<1>1. IsFiniteSet(S) /\ Cardinality(S) <= Cardinality(T)
  BY FS_Subset DEF Sane
<1>2. Cardinality(S) \in Nat /\ Cardinality(T) \in Nat /\ Capacity \in Nat
  BY <1>1, FS_CardinalityType, FactsAssumption DEF Sane
<1>3. \A f, g \in S : f.live /\ f # g => g \notin Near(S, f.kind, f.place)
  BY DEF Sane, Near
<1> QED
  BY <1>1, <1>2, <1>3 DEF Sane

(* A tombstone in the place of a record of its key leaves the table sane.  *)
LEMMA EntombedIsSane ==
    ASSUME NEW T, Sane(T), NEW h \in T, NEW f \in Fact, ~f.live, Key(f) = Key(h)
    PROVE  Sane((T \ {h}) \cup {f})
<1> DEFINE S == (T \ {h}) \cup {f}
<1>1. IsFiniteSet(T) /\ Cardinality(T) \in Nat /\ Capacity \in Nat /\ Cardinality(T) <= Capacity
  BY FS_CardinalityType, FactsAssumption DEF Sane
<1>2. IsFiniteSet(T \ {h}) /\ Cardinality(T \ {h}) = Cardinality(T) - 1
  BY <1>1, FS_RemoveElement
<1>3. IsFiniteSet(S) /\ Cardinality(S) <= Capacity
  <2> DEFINE R == T \ {h}
  <2>1. IsFiniteSet(R) /\ Cardinality(R) = Cardinality(T) - 1
    BY <1>2
  <2> HIDE DEF R
  <2>2. IsFiniteSet(R \cup {f}) /\ Cardinality(R \cup {f}) <= Cardinality(R) + 1
        /\ Cardinality(R \cup {f}) \in Nat
    BY <2>1, WithOneMore
  <2> QED
    BY <1>1, <2>1, <2>2 DEF R
<1>4. S \subseteq Fact
  BY DEF Sane
<1>5. \A p, q \in S : Key(p) = Key(q) => p = q
  BY DEF Sane
<1>6. \A p \in S : p.live => p.tomb = 0 /\ p \in T
  BY DEF Sane
<1>7. \A p, q \in S : p.live /\ p # q => q \notin Near(S, p.kind, p.place)
  BY <1>6 DEF Sane, Near
<1> QED
  BY <1>3, <1>4, <1>5, <1>6, <1>7 DEF Sane

(* So does a new key, where nothing live is near it.                       *)
LEMMA AdmittedIsSane ==
    ASSUME NEW T, Sane(T), NEW f \in Fact, f.live => f.tomb = 0, Held(T, Key(f)) = {},
           f.live => Near(T, f.kind, f.place) = {}
    PROVE  Sane(Admit(T, f))
<1> DEFINE S == Admit(T, f)
<1>1. S \subseteq T \cup {f} /\ IsFiniteSet(S) /\ Cardinality(S) <= Capacity
  BY AdmitKeeps DEF Sane
<1> HIDE DEF S
<1>2. S \subseteq Fact /\ \A p \in S : p.live => p.tomb = 0
  BY <1>1 DEF Sane
<1>3. \A p, q \in S : Key(p) = Key(q) => p = q
  BY <1>1 DEF Sane, Held
<1>4. ASSUME NEW p \in S, NEW q \in S, p.live, p # q, q \in Near(S, p.kind, p.place)
      PROVE  FALSE
  <2>1. CASE p \in T /\ q \in T
    BY <1>4, <2>1 DEF Sane, Near
  <2>2. CASE p = f
    <3>1. q \in T
      BY <1>1, <1>4, <2>2
    <3>2. q \in Near(T, f.kind, f.place)
      BY <1>4, <2>2, <3>1 DEF Near
    <3> QED
      BY <1>4, <2>2, <3>2
  <2>3. CASE q = f
    <3>1. p \in T /\ f.live
      BY <1>1, <1>4, <2>3 DEF Near
    <3>2. p \in Near(T, f.kind, f.place)
      BY <1>2, <1>4, <2>3, <3>1, NearIsMutual
    <3> QED
      BY <3>1, <3>2
  <2> QED
    BY <1>1, <1>4, <2>1, <2>2, <2>3
<1> QED
  BY <1>1, <1>2, <1>3, <1>4 DEF Sane, S

(* What a record from a peer does to a replica: nothing live appears but   *)
(* the record, no new key but its key; a retracted key stays retracted,    *)
(* and its tombstone is lost only where there is no room.                  *)
LEMMA MergeKeeps ==
    ASSUME NEW T, Sane(T), NEW f \in Fact, f.live => f.tomb = 0,
           \A h \in T : Key(h) = Key(f) /\ h.live /\ f.live => h = f
    PROVE  /\ Sane(Merge(T, f))
           /\ \A g \in Merge(T, f) : g.live => g \in T \/ g = f
           /\ \A g \in Merge(T, f) : \E h \in T \cup {f} : Key(g) = Key(h)
           /\ \A k : Sealed(T, k) => \A g \in Merge(T, f) : Key(g) = k => ~g.live
           /\ \A k : Sealed(T, k) /\ Cardinality(T) < Capacity => Sealed(Merge(T, f), k)
<1>0. T \subseteq Fact /\ IsFiniteSet(T) /\ Cardinality(T) <= Capacity
  BY DEF Sane
<1>1. CASE Held(T, Key(f)) = {}
  <2> DEFINE dups == IF f.live THEN Near(T, f.kind, f.place) ELSE {}
             rest == T \ dups
  <2>1. Merge(T, f) = T \/ Merge(T, f) = Admit(rest, f)
    BY <1>1 DEF Merge, MergeNew
  <2>2. CASE Merge(T, f) = T
    BY <2>2 DEF Sealed, Sane
  <2>3. CASE Merge(T, f) = Admit(rest, f)
    <3>1. Sane(rest)
      BY PartIsSane
    <3>2. Held(rest, Key(f)) = {} /\ (f.live => Near(rest, f.kind, f.place) = {})
      BY <1>1 DEF Held, Near
    <3>3. rest \subseteq T /\ \A h \in T : ~h.live => h \in rest
      BY DEF Near
    <3> HIDE DEF rest
    <3>4. Sane(Admit(rest, f))
      BY <3>1, <3>2, AdmittedIsSane
    <3>5. /\ Admit(rest, f) \subseteq rest \cup {f}
          /\ Cardinality(rest) < Capacity => \A h \in rest : ~h.live => h \in Admit(rest, f)
      BY <3>1, AdmitKeeps DEF Sane
    <3>6. Cardinality(T) < Capacity => Cardinality(rest) < Capacity
      <4>1. IsFiniteSet(rest) /\ Cardinality(rest) <= Cardinality(T)
        BY <1>0, <3>3, FS_Subset
      <4> QED
        BY <1>0, <4>1, FS_CardinalityType, FactsAssumption
    <3>7. ASSUME NEW k, Sealed(T, k)
          PROVE  /\ \A g \in Admit(rest, f) : Key(g) = k => ~g.live
                 /\ Cardinality(T) < Capacity => Sealed(Admit(rest, f), k)
      <4>1. PICK h \in T : Key(h) = k /\ ~h.live
        BY <3>7 DEF Sealed
      <4>2. Key(f) # k
        BY <1>1, <4>1 DEF Held
      <4>3. \A g \in Admit(rest, f) : Key(g) = k => g = h
        BY <3>3, <3>5, <4>1, <4>2 DEF Sane
      <4>4. Cardinality(T) < Capacity => h \in Admit(rest, f)
        BY <3>3, <3>5, <3>6, <4>1
      <4> QED
        BY <4>1, <4>3, <4>4 DEF Sealed
    <3> QED
      BY <2>3, <3>3, <3>4, <3>5, <3>7
  <2> QED
    BY <2>1, <2>2, <2>3
<1>2. CASE Held(T, Key(f)) # {}
  <2> DEFINE h == CHOOSE g \in Held(T, Key(f)) : TRUE
  <2>1. h \in T /\ Key(h) = Key(f)
    BY <1>2 DEF Held
  <2>2. Merge(T, f) = MergeHeld(T, h, f)
    BY <1>2 DEF Merge
  <2> HIDE DEF h
  <2>3. h \in Fact /\ h.tomb \in 0..(TombstoneTtl - 1) /\ 0 \in 0..(TombstoneTtl - 1)
    BY <1>0, <2>1, Fields, FactsAssumption
  <2>4. PICK a \in 0..(TombstoneTtl - 1) :
            \/ MergeHeld(T, h, f) = T
            \/ /\ MergeHeld(T, h, f) = (T \ {h}) \cup {[f EXCEPT !.tomb = a]}
               /\ ~f.live \/ (h.live /\ f.live /\ a = 0)
    BY <2>3 DEF MergeHeld
  <2>5. CASE MergeHeld(T, h, f) = T
    BY <2>2, <2>5 DEF Sealed, Sane
  <2>6. CASE /\ MergeHeld(T, h, f) = (T \ {h}) \cup {[f EXCEPT !.tomb = a]}
             /\ h.live /\ f.live /\ a = 0
    <3>1. h = f /\ f.tomb = 0
      BY <2>1, <2>6
    <3>2. [f EXCEPT !.tomb = a] = f
      BY <2>6, <3>1, OtherAge
    <3>3. MergeHeld(T, h, f) = T
      BY <2>1, <2>6, <3>1, <3>2
    <3> QED
      BY <2>5, <3>3
  <2>7. CASE MergeHeld(T, h, f) = (T \ {h}) \cup {[f EXCEPT !.tomb = a]} /\ ~f.live
    <3> DEFINE g == [f EXCEPT !.tomb = a]
    <3>1. g \in Fact /\ Key(g) = Key(h) /\ ~g.live /\ Key(g) = Key(f)
      BY <2>1, <2>7, OtherAge
    <3> HIDE DEF g
    <3>2. Merge(T, f) = (T \ {h}) \cup {g}
      BY <2>2, <2>7 DEF g
    <3>3. Sane(Merge(T, f))
      BY <2>1, <3>1, <3>2, EntombedIsSane
    <3>4. \A k : Sealed(T, k) => Sealed(Merge(T, f), k)
      BY <3>1, <3>2 DEF Sealed
    <3>5. ASSUME NEW k, Sealed(T, k), NEW p \in Merge(T, f), Key(p) = k PROVE ~p.live
      <4>1. PICK q \in Merge(T, f) : Key(q) = k /\ ~q.live
        BY <3>4, <3>5 DEF Sealed
      <4> QED
        BY <3>3, <3>5, <4>1 DEF Sane
    <3> QED
      BY <3>1, <3>2, <3>3, <3>4, <3>5
  <2> QED
    BY <2>4, <2>5, <2>6, <2>7
<1> QED
  BY <1>1, <1>2

(* A record as it travels is a fact of the same key, a live one the same.  *)
LEMMA SentFits ==
    ASSUME NEW T, Sane(T), NEW f \in T
    PROVE  /\ Sent(f) \in Fact /\ Key(Sent(f)) = Key(f)
           /\ Sent(f).live = f.live /\ (Sent(f).live => Sent(f).tomb = 0)
           /\ Sent(f).live => Sent(f) = f
<1>1. f \in Fact /\ (f.live => f.tomb = 0) /\ 0 \in 0..(TombstoneTtl - 1)
  BY FactsAssumption DEF Sane
<1> QED
  BY <1>1, OtherAge DEF Sent

(* A frame is empty, one record or two of what its sender holds.           *)
LEMMA FrameShapes ==
    ASSUME NEW T, IsFiniteSet(T), NEW s \in Frames(T)
    PROVE  \/ Len(s) = 0
           \/ Len(s) = 1 /\ s[1] \in T
           \/ Len(s) = 2 /\ s[1] \in T /\ s[2] \in T
<1> DEFINE n == IF Cardinality(T) < 2 THEN Cardinality(T) ELSE 2
<1>1. n \in 0..2
  BY FS_CardinalityType
<1>2. s \in [1..n -> T]
  BY DEF Frames
<1> HIDE DEF n
<1>3. CASE n = 0
  BY <1>2, <1>3
<1>4. CASE n = 1
  BY <1>2, <1>4
<1>5. CASE n = 2
  BY <1>2, <1>5
<1> QED
  BY <1>1, <1>3, <1>4, <1>5

(* What a frame of d does to the replica of e.                             *)
LEMMA FrameKeeps ==
    ASSUME FactsInv, NEW d \in Elements, NEW e \in Elements, NEW s \in Frames(table[d])
    PROVE  LET M == MergeFrame(table[e], s)
           IN /\ Sane(M)
              /\ \A g \in M : g.live => g \in table[e] \cup table[d]
              /\ \A g \in M : \E h \in table[e] \cup table[d] : Key(g) = Key(h)
              /\ \A k : Sealed(table[e], k) /\ Cardinality(table[e]) < Capacity
                            => \A g \in M : Key(g) = k => ~g.live
<1> DEFINE T == table[e]
           D == table[d]
<1>1. /\ Sane(T) /\ Sane(D) /\ IsFiniteSet(D)
      /\ \A h \in T \cup D, f \in D : Key(h) = Key(f) /\ h.live /\ f.live => h = f
  BY DEF FactsInv, SameKeySameFact, Sane
<1>2. \/ Len(s) = 0
      \/ Len(s) = 1 /\ s[1] \in D
      \/ Len(s) = 2 /\ s[1] \in D /\ s[2] \in D
  BY <1>1, FrameShapes
<1> HIDE DEF T, D
<1>3. \A k : Sealed(T, k) => \A g \in T : Key(g) = k => ~g.live
  BY <1>1 DEF Sealed, Sane
<1>4. ASSUME NEW S, Sane(S), NEW f \in D, \A g \in S : g.live => g \in T \cup D
      PROVE  /\ Sane(Merge(S, Sent(f)))
             /\ \A g \in Merge(S, Sent(f)) : g.live => g \in T \cup D
             /\ \A g \in Merge(S, Sent(f)) : \E h \in S \cup D : Key(g) = Key(h)
             /\ \A k : Sealed(S, k) => \A g \in Merge(S, Sent(f)) : Key(g) = k => ~g.live
             /\ \A k : Sealed(S, k) /\ Cardinality(S) < Capacity => Sealed(Merge(S, Sent(f)), k)
  <2> DEFINE r == Sent(f)
  <2>1. /\ r \in Fact /\ Key(r) = Key(f) /\ r.live = f.live /\ (r.live => r.tomb = 0)
        /\ r.live => r = f
    BY <1>1, SentFits
  <2> HIDE DEF r
  <2>2. \A h \in S : Key(h) = Key(r) /\ h.live /\ r.live => h = r
    BY <1>1, <1>4, <2>1
  <2>3. /\ Sane(Merge(S, r))
        /\ \A g \in Merge(S, r) : g.live => g \in S \/ g = r
        /\ \A g \in Merge(S, r) : \E h \in S \cup {r} : Key(g) = Key(h)
        /\ \A k : Sealed(S, k) => \A g \in Merge(S, r) : Key(g) = k => ~g.live
        /\ \A k : Sealed(S, k) /\ Cardinality(S) < Capacity => Sealed(Merge(S, r), k)
    BY <1>4, <2>1, <2>2, MergeKeeps
  <2>4. \A g \in Merge(S, r) : g.live => g \in T \cup D
    BY <1>4, <2>1, <2>3
  <2>5. \A g \in Merge(S, r) : \E h \in S \cup D : Key(g) = Key(h)
    BY <1>4, <2>1, <2>3
  <2> QED
    BY <2>3, <2>4, <2>5 DEF r
<1>5. CASE Len(s) = 0
  BY <1>1, <1>3, <1>5 DEF MergeFrame, T, D
<1>6. CASE Len(s) = 1 /\ s[1] \in D
  <2>1. MergeFrame(T, s) = Merge(T, Sent(s[1]))
    BY <1>6 DEF MergeFrame
  <2> QED
    BY <1>1, <1>4, <1>6, <2>1 DEF T, D
<1>7. CASE Len(s) = 2 /\ s[1] \in D /\ s[2] \in D
  <2> DEFINE S == Merge(T, Sent(s[1]))
  <2>1. MergeFrame(T, s) = Merge(S, Sent(s[2]))
    BY <1>7 DEF MergeFrame
  <2>2. /\ Sane(S) /\ \A g \in S : g.live => g \in T \cup D
        /\ \A g \in S : \E h \in T \cup D : Key(g) = Key(h)
        /\ \A k : Sealed(T, k) /\ Cardinality(T) < Capacity => Sealed(S, k)
    BY <1>1, <1>4, <1>7
  <2> HIDE DEF S
  <2>3. /\ Sane(Merge(S, Sent(s[2])))
        /\ \A g \in Merge(S, Sent(s[2])) : g.live => g \in T \cup D
        /\ \A g \in Merge(S, Sent(s[2])) : \E h \in S \cup D : Key(g) = Key(h)
        /\ \A k : Sealed(S, k) => \A g \in Merge(S, Sent(s[2])) : Key(g) = k => ~g.live
    BY <1>4, <1>7, <2>2
  <2>4. \A g \in Merge(S, Sent(s[2])) : \E h \in T \cup D : Key(g) = Key(h)
    BY <2>2, <2>3
  <2> QED
    BY <2>1, <2>2, <2>3, <2>4 DEF T, D
<1> QED
  BY <1>2, <1>5, <1>6, <1>7

-----------------------------------------------------------------------------
(* Steps *)

(* What RetractionStands says of one step. *)
Stands ==
    \A e \in Elements : \A f \in table[e] :
        ~f.live /\ Cardinality(table[e]) < Capacity =>
            \A g \in table'[e] : Key(g) = Key(f) => ~g.live

(* Nor does the step bring a key into the swarm that nobody held.          *)
OldKeys ==
    \A e \in Elements : \A g \in table'[e] :
        \E d \in Elements : \E h \in table[d] : Key(g) = Key(h)

(* A step that brings nothing live and no key into the swarm keeps what    *)
(* its replicas have in common.                                            *)
LEMMA NothingNewKeeps ==
    ASSUME FactsInv, Scalars', table' \in [Elements -> SUBSET Fact],
           \A e \in Elements : Sane(table'[e]),
           \A e \in Elements : drawn[e] \subseteq drawn'[e] /\ epoch'[e] \in drawn'[e],
           \A e \in Elements : \A g \in table'[e] :
               /\ g.live => \E d \in Elements : g \in table[d]
               /\ \E d \in Elements : \E h \in table[d] : Key(g) = Key(h)
    PROVE  FactsInv'
<1>1. ASSUME NEW d \in Elements, NEW e \in Elements, NEW f \in table'[d], NEW g \in table'[e],
             Key(f) = Key(g), f.live, g.live
      PROVE  f = g
  BY <1>1 DEF FactsInv, SameKeySameFact
<1>2. SameKeySameFact'
  BY <1>1 DEF SameKeySameFact
<1>3. ASSUME NEW e \in Elements, NEW f \in table'[e] PROVE f.epoch \in drawn'[f.origin]
  <2>0. PICK d \in Elements : \E h \in table[d] : Key(f) = Key(h)
    BY <1>3
  <2>1. PICK h \in table[d] : Key(f) = Key(h)
    BY <2>0
  <2>2. f.origin = h.origin /\ f.epoch = h.epoch
    BY <2>1, KeyTells
  <2>3. h \in Fact /\ h.epoch \in drawn[h.origin]
    BY <2>1 DEF FactsInv, EpochsDrawn, Sane
  <2> QED
    BY <2>2, <2>3, Fields
<1>4. EpochsDrawn'
  BY <1>3 DEF EpochsDrawn
<1> QED
  BY <1>2, <1>4 DEF FactsInv

(* Frames.                                                                 *)
LEMMA DeliverKeeps ==
    ASSUME FactsInv, NEW d \in Elements, NEW e \in Elements, NEW s \in Frames(table[d]),
           Deliver(d, e, s)
    PROVE  FactsInv' /\ Stands /\ OldKeys
<1> DEFINE M == MergeFrame(table[e], s)
<1>1. /\ Sane(M)
      /\ \A g \in M : g.live => g \in table[e] \cup table[d]
      /\ \A g \in M : \E h \in table[e] \cup table[d] : Key(g) = Key(h)
      /\ \A k : Sealed(table[e], k) /\ Cardinality(table[e]) < Capacity
                    => \A g \in M : Key(g) = k => ~g.live
  BY FrameKeeps
<1>2. table' = [table EXCEPT ![e] = M]
  BY DEF Deliver
<1>3. /\ lamport' = [lamport EXCEPT ![e] = ClockAfter(@, s)]
      /\ synced' = [synced EXCEPT ![e] = TRUE]
      /\ nextSeq' = nextSeq /\ epoch' = epoch /\ drawn' = drawn /\ sinceInit' = sinceInit
  BY DEF Deliver
<1> HIDE DEF M
<1>4. /\ table \in [Elements -> SUBSET Fact] /\ \A a \in Elements : Sane(table[a])
      /\ Scalars /\ EpochsDrawn
  BY DEF FactsInv
<1>5. ClockAfter(lamport[e], s) \in 0..MaxStamp
  <2>1. lamport[e] \in 0..MaxStamp /\ MaxStamp \in Nat /\ IsFiniteSet(table[d])
    BY <1>4, FactsAssumption DEF Scalars, Sane
  <2>2. \A f \in table[d] : f.stamp \in 0..MaxStamp
    <3>1. \A f \in table[d] : f \in Fact
      BY <1>4
    <3> QED
      BY <2>1, <3>1, Fields
  <2>3. \/ Len(s) = 0
        \/ Len(s) = 1 /\ s[1] \in table[d]
        \/ Len(s) = 2 /\ s[1] \in table[d] /\ s[2] \in table[d]
    BY <2>1, FrameShapes
  <2> QED
    BY <2>1, <2>2, <2>3 DEF ClockAfter, Later
<1>6. Scalars'
  BY <1>3, <1>4, <1>5 DEF Scalars
<1>7. M \subseteq Fact
  BY <1>1 DEF Sane
<1>8. table' \in [Elements -> SUBSET Fact] /\ \A a \in Elements : Sane(table'[a])
  BY <1>1, <1>2, <1>4, <1>7
<1>9. ASSUME NEW a \in Elements, NEW g \in table'[a]
      PROVE  /\ g.live => \E b \in Elements : g \in table[b]
             /\ \E b \in Elements : \E h \in table[b] : Key(g) = Key(h)
  <2>1. CASE a = e
    <3>1. g \in M
      BY <1>2, <1>4, <1>9, <2>1
    <3> QED
      BY <1>1, <3>1
  <2>2. CASE a # e
    BY <1>2, <1>4, <1>9, <2>2
  <2> QED
    BY <2>1, <2>2
<1>10. FactsInv'
  <2>1. \A a \in Elements : drawn[a] \subseteq drawn'[a] /\ epoch'[a] \in drawn'[a]
    BY <1>3, <1>4 DEF EpochsDrawn
  <2> QED
    BY <1>6, <1>8, <1>9, <2>1, NothingNewKeeps
<1>11. ASSUME NEW a \in Elements, NEW f \in table[a], ~f.live,
              Cardinality(table[a]) < Capacity, NEW g \in table'[a], Key(g) = Key(f)
       PROVE  ~g.live
  <2>1. CASE a = e
    <3>1. Sealed(table[e], Key(f)) /\ g \in M
      BY <1>2, <1>4, <1>11, <2>1 DEF Sealed
    <3> QED
      BY <1>1, <1>11, <2>1, <3>1
  <2>2. CASE a # e
    <3>1. g = f
      BY <1>2, <1>4, <1>11, <2>2 DEF Sane
    <3> QED
      BY <1>11, <3>1
  <2> QED
    BY <2>1, <2>2
<1> QED
  BY <1>9, <1>10, <1>11 DEF Stands, OldKeys

(* A publication: its key is new, and nothing it duplicates is near by.    *)
LEMMA PublishKeeps ==
    ASSUME FactsInv, NumbersFree, NEW e \in Elements, NEW kind \in Kinds, NEW place \in Places,
           Publish(e, kind, place)
    PROVE  FactsInv' /\ Stands
<1> DEFINE f == NewFact(e, kind, place)
           T == Admit(table[e], f)
<1>1. /\ lamport[e] < MaxStamp /\ Near(table[e], kind, place) = {}
      /\ table' = [table EXCEPT ![e] = T]
      /\ lamport' = [lamport EXCEPT ![e] = f.stamp]
      /\ nextSeq' = [nextSeq EXCEPT ![e] = (@ + 1) % SeqMod]
      /\ epoch' = epoch /\ drawn' = drawn /\ synced' = synced /\ sinceInit' = sinceInit
  BY DEF Publish
<1>2. /\ table \in [Elements -> SUBSET Fact] /\ \A a \in Elements : Sane(table[a])
      /\ Scalars /\ EpochsDrawn /\ SameKeySameFact
  BY DEF FactsInv
<1>3. /\ lamport[e] \in 0..MaxStamp /\ nextSeq[e] \in 0..(SeqMod - 1)
      /\ epoch[e] \in 1..MaxEpoch /\ MaxStamp \in Nat /\ SeqMod \in Nat \ {0}
      /\ TombstoneTtl \in Nat \ {0}
  BY <1>2, FactsAssumption DEF Scalars
<1>4. /\ f.kind = kind /\ f.place = place /\ f.origin = e /\ f.epoch = epoch[e]
      /\ f.seq = nextSeq[e] /\ f.live = TRUE /\ f.stamp = lamport[e] + 1 /\ f.tomb = 0
  BY DEF NewFact
<1>5. f \in Fact
  <2>1. lamport[e] + 1 \in 1..MaxStamp /\ 0 \in 0..(TombstoneTtl - 1)
    BY <1>1, <1>3
  <2> QED
    BY <1>3, <2>1 DEF NewFact, Fact
<1> HIDE DEF f
<1>6. \A a \in Elements : \A h \in table[a] : Key(h) # Key(f)
  BY <1>4, KeyTells DEF NumbersFree
<1>7. Sane(T)
  <2>1. Held(table[e], Key(f)) = {}
    BY <1>6 DEF Held
  <2>2. Near(table[e], f.kind, f.place) = {}
    BY <1>1, <1>4
  <2> QED
    BY <1>2, <1>4, <1>5, <2>1, <2>2, AdmittedIsSane
<1>8. T \subseteq table[e] \cup {f} /\ T \subseteq Fact
  BY <1>2, <1>5, <1>7, AdmitKeeps DEF Sane
<1> HIDE DEF T
<1>9. /\ table' \in [Elements -> SUBSET Fact] /\ \A a \in Elements : Sane(table'[a])
      /\ \A a \in Elements : table'[a] \subseteq table[a] \cup {f}
      /\ \A a \in Elements : a # e => table'[a] = table[a]
  BY <1>1, <1>2, <1>7, <1>8
<1>10. Scalars'
  <2>1. (nextSeq[e] + 1) % SeqMod \in 0..(SeqMod - 1)
    BY <1>3
  <2>2. lamport[e] + 1 \in 0..MaxStamp
    BY <1>1, <1>3
  <2> QED
    BY <1>1, <1>2, <1>4, <2>1, <2>2 DEF Scalars
<1>11. SameKeySameFact'
  <2>1. ASSUME NEW a \in Elements, NEW b \in Elements, NEW p \in table'[a], NEW q \in table'[b],
               Key(p) = Key(q), p.live, q.live
        PROVE  p = q
    <3>1. (p \in table[a] \/ p = f) /\ (q \in table[b] \/ q = f)
      BY <1>9, <2>1
    <3>2. CASE p \in table[a] /\ q \in table[b]
      BY <1>2, <2>1, <3>2 DEF SameKeySameFact
    <3>3. CASE p = f \/ q = f
      BY <1>6, <2>1, <3>1, <3>3
    <3> QED
      BY <3>1, <3>2, <3>3
  <2> QED
    BY <2>1 DEF SameKeySameFact
<1>12. EpochsDrawn'
  <2>1. ASSUME NEW a \in Elements, NEW p \in table'[a] PROVE p.epoch \in drawn[p.origin]
    <3>1. p \in table[a] \/ p = f
      BY <1>9, <2>1
    <3> QED
      BY <1>2, <1>4, <3>1 DEF EpochsDrawn
  <2> QED
    BY <1>1, <1>2, <2>1 DEF EpochsDrawn
<1>13. Stands
  <2>1. ASSUME NEW a \in Elements, NEW h \in table[a], ~h.live, NEW g \in table'[a],
               Key(g) = Key(h)
        PROVE  ~g.live
    <3>1. g \in table[a]
      BY <1>6, <1>9, <2>1
    <3> QED
      BY <1>2, <2>1, <3>1 DEF Sane
  <2> QED
    BY <2>1 DEF Stands
<1> QED
  BY <1>9, <1>10, <1>11, <1>12, <1>13 DEF FactsInv

(* A retraction.                                                           *)
LEMMA RetractKeeps ==
    ASSUME FactsInv, NEW e \in Elements, NEW f \in table[e], Retract(e, f)
    PROVE  FactsInv' /\ Stands /\ OldKeys
<1> DEFINE r == [f EXCEPT !.live = FALSE, !.stamp = lamport[e] + 1, !.tomb = 0]
           T == (table[e] \ {f}) \cup {r}
<1>1. /\ f.live /\ lamport[e] < MaxStamp
      /\ table' = [table EXCEPT ![e] = T]
      /\ lamport' = [lamport EXCEPT ![e] = @ + 1]
      /\ nextSeq' = nextSeq /\ epoch' = epoch /\ drawn' = drawn
      /\ synced' = synced /\ sinceInit' = sinceInit
  BY DEF Retract
<1>2. /\ table \in [Elements -> SUBSET Fact] /\ \A a \in Elements : Sane(table[a])
      /\ Scalars /\ EpochsDrawn
  BY DEF FactsInv
<1>3. lamport[e] \in 0..MaxStamp /\ MaxStamp \in Nat /\ TombstoneTtl \in Nat \ {0}
  BY <1>2, FactsAssumption DEF Scalars
<1>4. r \in Fact /\ Key(r) = Key(f) /\ ~r.live
  <2>1. lamport[e] + 1 \in 1..MaxStamp /\ 0 \in 0..(TombstoneTtl - 1) /\ f \in Fact
    BY <1>1, <1>2, <1>3
  <2> QED
    BY <2>1 DEF Fact, Key
<1> HIDE DEF r
<1>5. Sane(T)
  BY <1>2, <1>4, EntombedIsSane
<1>6. T \subseteq Fact /\ T \subseteq table[e] \cup {r}
  BY <1>2, <1>4
<1> HIDE DEF T
<1>7. /\ table' \in [Elements -> SUBSET Fact] /\ \A a \in Elements : Sane(table'[a])
      /\ \A a \in Elements : a # e => table'[a] = table[a]
      /\ table'[e] = T
  BY <1>1, <1>2, <1>5, <1>6
<1>8. Scalars'
  <2>1. lamport[e] + 1 \in 0..MaxStamp
    BY <1>1, <1>3
  <2> QED
    BY <1>1, <1>2, <2>1 DEF Scalars
<1>9. ASSUME NEW a \in Elements, NEW g \in table'[a]
      PROVE  /\ g.live => \E b \in Elements : g \in table[b]
             /\ \E b \in Elements : \E h \in table[b] : Key(g) = Key(h)
  BY <1>4, <1>6, <1>7, <1>9
<1>10. FactsInv'
  <2>1. \A a \in Elements : drawn[a] \subseteq drawn'[a] /\ epoch'[a] \in drawn'[a]
    BY <1>1, <1>2 DEF EpochsDrawn
  <2> QED
    BY <1>7, <1>8, <1>9, <2>1, NothingNewKeeps
<1>11. Stands
  <2>1. ASSUME NEW a \in Elements, NEW h \in table[a], ~h.live, NEW g \in table'[a],
               Key(g) = Key(h)
        PROVE  ~g.live
    <3>1. CASE g \in table[a]
      BY <1>2, <2>1, <3>1 DEF Sane
    <3>2. CASE g \notin table[a]
      BY <1>4, <1>6, <1>7, <2>1, <3>2
    <3> QED
      BY <3>1, <3>2
  <2> QED
    BY <2>1 DEF Stands
<1> QED
  BY <1>9, <1>10, <1>11 DEF OldKeys

(* Tombstones age.                                                         *)
LEMMA AgedIsSane ==
    ASSUME NEW T, Sane(T)
    PROVE  /\ Sane(TombstonesAged(T))
           /\ \A g \in TombstonesAged(T) : g.live => g \in T
           /\ \A g \in TombstonesAged(T) : \E h \in T : Key(g) = Key(h) /\ g.live = h.live
<1> DEFINE kept == {h \in T : h.live} \cup {h \in T : ~h.live /\ h.tomb + 1 < TombstoneTtl}
           aged == [h \in kept |-> IF h.live THEN h ELSE [h EXCEPT !.tomb = @ + 1]]
           S == TombstonesAged(T)
<1>1. /\ T \subseteq Fact /\ IsFiniteSet(T) /\ Cardinality(T) <= Capacity
      /\ \A f, g \in T : Key(f) = Key(g) => f = g
      /\ \A f \in T : f.live => f.tomb = 0
  BY DEF Sane
<1>2. \A h \in kept : /\ h \in T /\ aged[h] \in Fact /\ Key(aged[h]) = Key(h)
                      /\ aged[h].live = h.live /\ (h.live => aged[h] = h)
  <2> SUFFICES ASSUME NEW h \in kept
               PROVE  /\ h \in T /\ aged[h] \in Fact /\ Key(aged[h]) = Key(h)
                      /\ aged[h].live = h.live /\ (h.live => aged[h] = h)
    OBVIOUS
  <2>1. h \in T /\ h \in Fact /\ (h.live \/ (~h.live /\ h.tomb + 1 < TombstoneTtl))
    BY <1>1
  <2>2. CASE h.live
    BY <2>1, <2>2
  <2>3. CASE ~h.live
    <3>1. aged[h] = [h EXCEPT !.tomb = h.tomb + 1]
      BY <2>3
    <3>2. h.tomb + 1 \in 0..(TombstoneTtl - 1)
      BY <2>1, <2>3, Fields, FactsAssumption
    <3> HIDE DEF aged
    <3> QED
      BY <2>1, <2>3, <3>1, <3>2, OtherAge
  <2> QED
    BY <2>2, <2>3
<1>3. S = {aged[h] : h \in kept}
  <2>1. S = {h \in T : h.live} \cup
            {[h EXCEPT !.tomb = @ + 1] : h \in {g \in T : ~g.live /\ g.tomb + 1 < TombstoneTtl}}
    BY DEF TombstonesAged
  <2>2. ASSUME NEW x \in S PROVE x \in {aged[h] : h \in kept}
    BY <2>1, <2>2
  <2>3. ASSUME NEW h \in kept PROVE aged[h] \in S
    BY <2>1, <2>3
  <2> QED
    BY <2>2, <2>3
<1>4. IsFiniteSet(kept) /\ Cardinality(kept) <= Cardinality(T)
  <2>1. kept \subseteq T
    OBVIOUS
  <2> HIDE DEF kept
  <2> QED
    BY <1>1, <2>1, FS_Subset
<1>5. DOMAIN aged = kept
  OBVIOUS
<1> HIDE DEF S, aged
<1>6. IsFiniteSet(S) /\ Cardinality(S) <= Cardinality(kept)
  <2>1. aged \in Surjection(kept, S)
    BY <1>3, <1>5 DEF Surjection, aged
  <2> HIDE DEF kept
  <2> QED
    BY <1>4, <2>1, FS_Surjection
<1> HIDE DEF kept
<1>7. IsFiniteSet(S) /\ Cardinality(S) <= Capacity
  BY <1>1, <1>4, <1>6, FS_CardinalityType, FactsAssumption
<1>8. ASSUME NEW g \in S
      PROVE  /\ g \in Fact /\ (g.live => g \in T)
             /\ \E h \in kept : g = aged[h] /\ h \in T /\ Key(g) = Key(h) /\ g.live = h.live
  BY <1>2, <1>3, <1>8
<1>9. \A f, g \in S : Key(f) = Key(g) => f = g
  BY <1>1, <1>8
<1>10. \A f, g \in S : f.live /\ f # g => g \notin Near(S, f.kind, f.place)
  BY <1>8 DEF Sane, Near
<1> QED
  BY <1>1, <1>7, <1>8, <1>9, <1>10 DEF Sane, S

(* A tick.                                                                 *)
LEMMA TickKeeps ==
    ASSUME FactsInv, NEW S, S \subseteq Elements, FactTick(S)
    PROVE  FactsInv' /\ Stands /\ OldKeys
<1>1. /\ sinceInit' = [e \in Elements |->
                        IF e \in S /\ sinceInit[e] < SyncTimeout
                        THEN sinceInit[e] + 1 ELSE sinceInit[e]]
      /\ synced' = [e \in Elements |->
                     synced[e] \/ (e \in S /\ sinceInit'[e] >= SyncTimeout)]
      /\ table' = [e \in Elements |-> IF e \in S THEN TombstonesAged(table[e]) ELSE table[e]]
      /\ lamport' = lamport /\ nextSeq' = nextSeq /\ epoch' = epoch /\ drawn' = drawn
  BY DEF FactTick
<1>2. /\ table \in [Elements -> SUBSET Fact] /\ \A a \in Elements : Sane(table[a])
      /\ Scalars /\ EpochsDrawn
  BY DEF FactsInv
<1>3. ASSUME NEW a \in Elements
      PROVE  /\ Sane(table'[a]) /\ table'[a] \subseteq Fact
             /\ \A g \in table'[a] : g.live => g \in table[a]
             /\ \A g \in table'[a] : \E h \in table[a] : Key(g) = Key(h) /\ g.live = h.live
  <2>1. CASE a \in S
    <3>1. table'[a] = TombstonesAged(table[a])
      BY <1>1, <1>3, <2>1
    <3>2. Sane(table[a])
      BY <1>2, <1>3
    <3> QED
      BY <3>1, <3>2, AgedIsSane DEF Sane
  <2>2. CASE a \notin S
    BY <1>1, <1>2, <1>3, <2>2 DEF Sane
  <2> QED
    BY <2>1, <2>2
<1>4. table' \in [Elements -> SUBSET Fact]
  BY <1>1, <1>3
<1>5. Scalars'
  <2>1. sinceInit' \in [Elements -> 0..SyncTimeout]
    BY <1>1, <1>2, FactsAssumption DEF Scalars
  <2>2. synced' \in [Elements -> BOOLEAN]
    BY <1>1, <1>2 DEF Scalars
  <2> QED
    BY <1>1, <1>2, <2>1, <2>2 DEF Scalars
<1>6. \A a \in Elements : drawn[a] \subseteq drawn'[a] /\ epoch'[a] \in drawn'[a]
  BY <1>1, <1>2 DEF EpochsDrawn
<1>7. FactsInv'
  <2>1. \A a \in Elements : Sane(table'[a])
    BY <1>3
  <2>2. ASSUME NEW a \in Elements, NEW g \in table'[a]
        PROVE  /\ g.live => \E b \in Elements : g \in table[b]
               /\ \E b \in Elements : \E h \in table[b] : Key(g) = Key(h)
    BY <1>3, <2>2
  <2> QED
    BY <1>4, <1>5, <1>6, <2>1, <2>2, NothingNewKeeps
<1>8. ASSUME NEW a \in Elements, NEW h \in table[a], ~h.live, NEW g \in table'[a],
             Key(g) = Key(h)
      PROVE  ~g.live
  BY <1>2, <1>3, <1>8 DEF Sane
<1>9. OldKeys
  BY <1>3 DEF OldKeys
<1> QED
  BY <1>7, <1>8, <1>9 DEF Stands

(* A reboot.                                                               *)
LEMMA RebootKeeps ==
    ASSUME FactsInv, NEW e \in Elements, NEW n \in 1..MaxEpoch, Reboot(e, n)
    PROVE  FactsInv' /\ Stands /\ OldKeys
<1>1. /\ epoch' = [epoch EXCEPT ![e] = n]
      /\ drawn' = [drawn EXCEPT ![e] = @ \cup {n}]
      /\ table' = [table EXCEPT ![e] = {}]
      /\ lamport' = [lamport EXCEPT ![e] = 0]
      /\ nextSeq' = [nextSeq EXCEPT ![e] = 0]
      /\ synced' = [synced EXCEPT ![e] = FALSE]
      /\ sinceInit' = [sinceInit EXCEPT ![e] = 0]
  BY DEF Reboot
<1>2. /\ table \in [Elements -> SUBSET Fact] /\ \A a \in Elements : Sane(table[a])
      /\ Scalars /\ EpochsDrawn
  BY DEF FactsInv
<1>3. Sane({})
  BY <1>2, PartIsSane
<1>4. /\ table' \in [Elements -> SUBSET Fact] /\ \A a \in Elements : Sane(table'[a])
      /\ \A a \in Elements : table'[a] \subseteq table[a]
  BY <1>1, <1>2, <1>3
<1>5. Scalars'
  <2>1. 0 \in 0..MaxStamp /\ 0 \in 0..(SeqMod - 1) /\ 0 \in 0..SyncTimeout
    BY FactsAssumption
  <2> QED
    BY <1>1, <1>2, <2>1 DEF Scalars
<1>6. \A a \in Elements : drawn[a] \subseteq drawn'[a] /\ epoch'[a] \in drawn'[a]
  BY <1>1, <1>2 DEF EpochsDrawn, Scalars
<1>7. FactsInv'
  <2>1. ASSUME NEW a \in Elements, NEW g \in table'[a]
        PROVE  /\ g.live => \E b \in Elements : g \in table[b]
               /\ \E b \in Elements : \E h \in table[b] : Key(g) = Key(h)
    BY <1>4, <2>1
  <2> QED
    BY <1>4, <1>5, <1>6, <2>1, NothingNewKeeps
<1>8. Stands
  BY <1>2, <1>4 DEF Stands, Sane
<1>9. OldKeys
  BY <1>4 DEF OldKeys
<1> QED
  BY <1>7, <1>8, <1>9

(* The beginning.                                                          *)
LEMMA FactsStart == FactsInit => FactsInv
<1> SUFFICES ASSUME FactsInit PROVE FactsInv
  OBVIOUS
<1>1. Sane({})
  <2>1. IsFiniteSet({}) /\ Cardinality({}) = 0
    BY FS_EmptySet
  <2> QED
    BY <2>1, FactsAssumption DEF Sane
<1>2. table \in [Elements -> SUBSET Fact] /\ \A e \in Elements : table[e] = {}
  BY DEF FactsInit
<1>3. Scalars
  <2>1. 0 \in 0..MaxStamp /\ 0 \in 0..(SeqMod - 1) /\ 0 \in 0..SyncTimeout
    BY FactsAssumption
  <2> QED
    BY <2>1 DEF Scalars, FactsInit
<1>4. EpochsDrawn
  BY <1>2 DEF EpochsDrawn, FactsInit
<1> QED
  BY <1>1, <1>2, <1>3, <1>4 DEF FactsInv, SameKeySameFact

(* Every step, while numbers are free.                                     *)
LEMMA FactsStep ==
    ASSUME FactsInv, NumbersFree, [FactsNext]_factsVars
    PROVE  FactsInv' /\ Stands
<1>1. ASSUME NEW d \in Elements, NEW e \in Elements, NEW s \in Frames(table[d]),
             Deliver(d, e, s)
      PROVE  FactsInv' /\ Stands
  BY <1>1, DeliverKeeps
<1>2. ASSUME NEW e \in Elements, NEW kind \in Kinds, NEW place \in Places,
             Publish(e, kind, place)
      PROVE  FactsInv' /\ Stands
  BY <1>2, PublishKeeps
<1>3. ASSUME NEW e \in Elements, NEW f \in table[e], Retract(e, f)
      PROVE  FactsInv' /\ Stands
  BY <1>3, RetractKeeps
<1>4. ASSUME NEW e \in Elements, FactTick({e}) PROVE FactsInv' /\ Stands
  BY <1>4, TickKeeps
<1>5. ASSUME NEW e \in Rebooters, NEW n \in 1..MaxEpoch, Reboot(e, n)
      PROVE  FactsInv' /\ Stands
  BY <1>5, RebootKeeps, FactsAssumption
<1>6. CASE UNCHANGED factsVars
  <2>1. table' = table
    BY <1>6 DEF factsVars
  <2>2. FactsInv'
    BY <1>6 DEF factsVars, FactsInv, Scalars, EpochsDrawn, SameKeySameFact
  <2>3. Stands
    BY <2>1 DEF Stands, FactsInv, Sane
  <2> QED
    BY <2>2, <2>3
<1> QED
  BY <1>1, <1>2, <1>3, <1>4, <1>5, <1>6 DEF FactsNext, Exchange

-----------------------------------------------------------------------------
(* Numbers that are not used up *)

(* The next number is beyond those of this boot, and no more than the      *)
(* clock, which counts publications among other things.                    *)
Numbered ==
    /\ \A e \in Elements : nextSeq[e] <= lamport[e]
    /\ \A d \in Elements : \A f \in table[d] :
           f.epoch = epoch[f.origin] => f.seq < nextSeq[f.origin]

(* So the next number is free.                                             *)
LEMMA NumberedIsFree ==
    ASSUME FactsInv, Numbered
    PROVE  NumbersFree
<1> SUFFICES ASSUME NEW d \in Elements, NEW e \in Elements, NEW f \in table[d],
                    f.origin = e, f.epoch = epoch[e]
             PROVE  f.seq # nextSeq[e]
  BY DEF NumbersFree
<1>1. f \in Fact /\ nextSeq[e] \in Nat
  BY FactsAssumption DEF FactsInv, Scalars
<1>2. f.seq \in Nat
  BY <1>1, Fields
<1> QED
  BY <1>1, <1>2 DEF Numbered

(* A step without a new key in the same boots keeps the numbers in order.  *)
LEMMA OldKeysAreNumbered ==
    ASSUME FactsInv, Numbered, OldKeys, epoch' = epoch, nextSeq' = nextSeq,
           \A e \in Elements : lamport[e] <= lamport'[e] /\ lamport'[e] \in Nat
    PROVE  Numbered'
<1>1. ASSUME NEW d \in Elements, NEW g \in table'[d], g.epoch = epoch[g.origin]
      PROVE  g.seq < nextSeq[g.origin]
  <2>1. PICK b \in Elements : \E h \in table[b] : Key(g) = Key(h)
    BY <1>1 DEF OldKeys
  <2>2. PICK h \in table[b] : Key(g) = Key(h)
    BY <2>1
  <2>3. g.origin = h.origin /\ g.epoch = h.epoch /\ g.seq = h.seq
    BY <2>2, KeyTells
  <2> QED
    BY <1>1, <2>3 DEF Numbered
<1>2. ASSUME NEW e \in Elements PROVE nextSeq[e] <= lamport'[e]
  <2>1. nextSeq[e] \in Nat /\ lamport[e] \in Nat
    BY FactsAssumption DEF FactsInv, Scalars
  <2> QED
    BY <2>1 DEF Numbered
<1> QED
  BY <1>1, <1>2 DEF Numbered

(* With fewer stamps than numbers none comes round.                        *)
LEMMA NumberedStep ==
    ASSUME MaxStamp < SeqMod, FactsInv, Numbered, [FactsNext]_factsVars
    PROVE  Numbered'
<1>0. /\ \A e \in Elements : lamport[e] \in Nat /\ nextSeq[e] \in Nat /\ lamport[e] <= MaxStamp
      /\ MaxStamp \in Nat /\ SeqMod \in Nat
      /\ lamport \in [Elements -> 0..MaxStamp] /\ nextSeq \in [Elements -> 0..(SeqMod - 1)]
      /\ table \in [Elements -> SUBSET Fact] /\ epoch \in [Elements -> 1..MaxEpoch]
  BY FactsAssumption DEF FactsInv, Scalars
<1>1. ASSUME NEW d \in Elements, NEW e \in Elements, NEW s \in Frames(table[d]),
             Deliver(d, e, s)
      PROVE  Numbered'
  <2>1. OldKeys /\ FactsInv'
    BY <1>1, DeliverKeeps
  <2>2. /\ lamport' = [lamport EXCEPT ![e] = ClockAfter(@, s)]
        /\ epoch' = epoch /\ nextSeq' = nextSeq
    BY <1>1 DEF Deliver
  <2>3. \A a \in Elements : lamport'[a] \in Nat
    BY <2>1, FactsAssumption DEF FactsInv, Scalars
  <2>4. lamport[e] <= ClockAfter(lamport[e], s)
    <3>1. IsFiniteSet(table[d]) /\ table[d] \subseteq Fact
      BY DEF FactsInv, Sane
    <3>2. \A f \in table[d] : f.stamp \in Nat
      BY <3>1, Fields
    <3>3. \/ Len(s) = 0
          \/ Len(s) = 1 /\ s[1] \in table[d]
          \/ Len(s) = 2 /\ s[1] \in table[d] /\ s[2] \in table[d]
      BY <3>1, <1>1, FrameShapes
    <3> QED
      BY <1>0, <3>2, <3>3 DEF ClockAfter, Later
  <2>5. \A a \in Elements : lamport[a] <= lamport'[a]
    BY <1>0, <2>2, <2>4
  <2> QED
    BY <2>1, <2>2, <2>3, <2>5, OldKeysAreNumbered
<1>2. ASSUME NEW e \in Elements, NEW kind \in Kinds, NEW place \in Places,
             Publish(e, kind, place)
      PROVE  Numbered'
  <2> DEFINE f == NewFact(e, kind, place)
             n == nextSeq[e]
  <2>1. /\ lamport[e] < MaxStamp
        /\ table' = [table EXCEPT ![e] = Admit(table[e], f)]
        /\ lamport' = [lamport EXCEPT ![e] = f.stamp]
        /\ nextSeq' = [nextSeq EXCEPT ![e] = (n + 1) % SeqMod]
        /\ epoch' = epoch
    BY <1>2 DEF Publish
  <2>2. f.origin = e /\ f.seq = n /\ f.stamp = lamport[e] + 1
    BY DEF NewFact
  <2>3. n \in Nat /\ n <= lamport[e] /\ n + 1 < SeqMod
    BY <1>0, <2>1 DEF Numbered
  <2>4. (n + 1) % SeqMod = n + 1
    <3>1. n + 1 \in Nat
      BY <2>3
    <3> HIDE DEF n
    <3> QED
      BY <1>0, <2>3, <3>1
  <2>5. nextSeq'[e] = n + 1 /\ lamport'[e] = lamport[e] + 1
        /\ \A a \in Elements : a # e => nextSeq'[a] = nextSeq[a] /\ lamport'[a] = lamport[a]
    BY <1>0, <2>1, <2>2, <2>4
  <2>6. f \in Fact
    <3>1. FactsInv'
      BY <1>2, NumberedIsFree, PublishKeeps
    <3>2. f \in Admit(table[e], f)
      BY <1>2 DEF Publish
    <3> QED
      BY <1>0, <2>1, <3>1, <3>2 DEF FactsInv
  <2>7. \A a \in Elements : table'[a] \subseteq table[a] \cup {f}
    <3>1. Admit(table[e], f) \subseteq table[e] \cup {f}
      BY <2>6, AdmitKeeps DEF FactsInv, Sane
    <3> QED
      BY <1>0, <2>1, <3>1
  <2>8. ASSUME NEW a \in Elements, NEW g \in table'[a], g.epoch = epoch[g.origin]
        PROVE  g.seq < nextSeq'[g.origin]
    <3>1. CASE g = f
      BY <2>2, <2>3, <2>5, <3>1
    <3>2. CASE g \in table[a]
      <4>1. g.seq < nextSeq[g.origin] /\ g \in Fact
        BY <1>0, <2>8, <3>2 DEF Numbered
      <4>2. g.seq \in Nat /\ g.origin \in Elements
        BY <4>1, Fields
      <4> QED
        BY <1>0, <2>5, <4>1, <4>2
    <3> QED
      BY <2>7, <2>8, <3>1, <3>2
  <2>9. \A a \in Elements : nextSeq'[a] <= lamport'[a]
    BY <1>0, <2>3, <2>5 DEF Numbered
  <2> QED
    BY <2>1, <2>8, <2>9 DEF Numbered
<1>3. ASSUME NEW e \in Elements, NEW f \in table[e], Retract(e, f)
      PROVE  Numbered'
  <2>1. OldKeys
    BY <1>3, RetractKeeps
  <2>2. lamport' = [lamport EXCEPT ![e] = @ + 1] /\ epoch' = epoch /\ nextSeq' = nextSeq
    BY <1>3 DEF Retract
  <2>3. \A a \in Elements : lamport[a] <= lamport'[a] /\ lamport'[a] \in Nat
    BY <1>0, <2>2
  <2> QED
    BY <2>1, <2>2, <2>3, OldKeysAreNumbered
<1>4. ASSUME NEW e \in Elements, FactTick({e}) PROVE Numbered'
  <2>1. OldKeys
    BY <1>4, TickKeeps
  <2>2. lamport' = lamport /\ epoch' = epoch /\ nextSeq' = nextSeq
    BY <1>4 DEF FactTick
  <2>3. \A a \in Elements : lamport[a] <= lamport'[a] /\ lamport'[a] \in Nat
    BY <1>0, <2>2
  <2> QED
    BY <2>1, <2>2, <2>3, OldKeysAreNumbered
<1>5. ASSUME NEW e \in Rebooters, NEW n \in 1..MaxEpoch, Reboot(e, n)
      PROVE  Numbered'
  <2>1. e \in Elements
    BY FactsAssumption
  <2>2. /\ epoch' = [epoch EXCEPT ![e] = n] /\ n \notin drawn[e]
        /\ table' = [table EXCEPT ![e] = {}]
        /\ lamport' = [lamport EXCEPT ![e] = 0]
        /\ nextSeq' = [nextSeq EXCEPT ![e] = 0]
    BY <1>5 DEF Reboot
  <2>3. ASSUME NEW a \in Elements, NEW g \in table'[a], g.epoch = epoch'[g.origin]
        PROVE  g.seq < nextSeq'[g.origin]
    <3>1. g \in table[a] /\ g \in Fact
      BY <1>0, <2>2, <2>3
    <3>2. g.origin \in Elements /\ g.epoch \in drawn[g.origin]
      BY <3>1, Fields DEF FactsInv, EpochsDrawn
    <3>3. g.origin # e
      BY <1>0, <2>1, <2>2, <2>3, <3>2
    <3> QED
      BY <1>0, <2>2, <2>3, <3>1, <3>2, <3>3 DEF Numbered
  <2>4. \A a \in Elements : nextSeq'[a] <= lamport'[a]
    BY <1>0, <2>1, <2>2 DEF Numbered
  <2> QED
    BY <2>3, <2>4 DEF Numbered
<1>6. CASE UNCHANGED factsVars
  BY <1>6 DEF factsVars, Numbered
<1> QED
  BY <1>1, <1>2, <1>3, <1>4, <1>5, <1>6 DEF FactsNext, Exchange

-----------------------------------------------------------------------------
(* Theorems *)

(* What all replicas have in common, while numbers are free.               *)
THEOREM ReplicasAreSane == FactsSpec /\ []NumbersFree => []FactsInv
<1>1. FactsInv /\ NumbersFree /\ [FactsNext]_factsVars => FactsInv'
  BY FactsStep
<1> QED
  BY FactsStart, <1>1, PTL DEF FactsSpec

(* Where fewer stamps are given in all than there are sequence numbers     *)
(* none is used again while its fact is held.                              *)
THEOREM NumbersStayFree ==
    ASSUME MaxStamp < SeqMod
    PROVE  FactsSpec => []NumbersFree
<1>1. FactsInit => FactsInv /\ Numbered
  <2> SUFFICES ASSUME FactsInit PROVE FactsInv /\ Numbered
    OBVIOUS
  <2>1. \A e \in Elements : nextSeq[e] <= lamport[e] /\ table[e] = {}
    BY DEF FactsInit
  <2> QED
    BY <2>1, FactsStart DEF Numbered
<1>2. FactsInv /\ Numbered /\ [FactsNext]_factsVars => FactsInv' /\ Numbered'
  BY FactsStep, NumberedStep, NumberedIsFree
<1>3. FactsInv /\ Numbered => NumbersFree
  BY NumberedIsFree
<1> QED
  BY <1>1, <1>2, <1>3, PTL DEF FactsSpec

(* Types, and the bound of the table (WM_MAX_FACTS), for any numbers.      *)
THEOREM FactsTypeCorrect == FactsSpec /\ []NumbersFree => []FactsTypeOK
<1>1. FactsInv => FactsTypeOK
  BY DEF FactsInv, FactsTypeOK, Scalars, Sane
<1> QED
  BY ReplicasAreSane, <1>1, PTL

(* A live key means one fact in the whole swarm, whatever was merged,      *)
(* evicted, retracted and forgotten in reboots (merge_record).             *)
THEOREM KeysMeanOneThing == FactsSpec /\ []NumbersFree => []SameKeySameFact
<1>1. FactsInv => SameKeySameFact
  BY DEF FactsInv
<1> QED
  BY ReplicasAreSane, <1>1, PTL

(* No replica holds two live facts of a merged type within the radius, for *)
(* any capacity, share, radius and number of elements (nearby_duplicate).  *)
THEOREM NeverNearbyDuplicates == FactsSpec /\ []NumbersFree => []NoNearbyDuplicates
<1>1. FactsInv => NoNearbyDuplicates
  BY DEF FactsInv, NoNearbyDuplicates, Sane
<1> QED
  BY ReplicasAreSane, <1>1, PTL

(* Nothing brings a fact back over its tombstone in a table with room.     *)
THEOREM RetractionsStand == FactsSpec /\ []NumbersFree => RetractionStands
<1>1. FactsInv /\ NumbersFree /\ [FactsNext]_factsVars =>
         [\A e \in Elements : \A f \in table[e] :
            ~f.live /\ Cardinality(table[e]) < Capacity =>
                \A g \in table'[e] : Key(g) = Key(f) => ~g.live]_factsVars
  BY FactsStep DEF Stands
<1> QED
  BY ReplicasAreSane, <1>1, PTL DEF FactsSpec, RetractionStands

-----------------------------------------------------------------------------
(* Shares *)

(* No boot of an element fills more than its share of a replica. *)
Shared(T) == \A f \in T : f.live => Cardinality(SameOrigin(T, f)) <= PerOrigin

Shares == \A e \in Elements : Shared(table[e])

(* Where nothing live was added, shares are kept. *)
LEMMA NothingLiveAdded ==
    ASSUME NEW T, IsFiniteSet(T), Shared(T), NEW R, \A g \in R : g.live => g \in T
    PROVE  Shared(R)
<1> SUFFICES ASSUME NEW f \in R, f.live PROVE Cardinality(SameOrigin(R, f)) <= PerOrigin
  BY DEF Shared
<1> DEFINE A == SameOrigin(R, f)
           B == SameOrigin(T, f)
<1>1. f \in T /\ A \subseteq B /\ B \subseteq T
  BY DEF SameOrigin
<1>2. IsFiniteSet(B)
  BY <1>1, FS_Subset
<1>3. Cardinality(B) <= PerOrigin
  BY <1>1 DEF Shared
<1> HIDE DEF A, B
<1>4. IsFiniteSet(A) /\ Cardinality(A) <= Cardinality(B)
  BY <1>1, <1>2, FS_Subset
<1>5. Cardinality(A) \in Nat /\ Cardinality(B) \in Nat /\ PerOrigin \in Nat
  BY <1>2, <1>4, FS_CardinalityType, FactsAssumption
<1> QED
  BY <1>3, <1>4, <1>5 DEF A

LEMMA AdmitShares ==
    ASSUME NEW T, T \subseteq Fact, IsFiniteSet(T), Cardinality(T) <= Capacity, Shared(T),
           NEW f \in Fact
    PROVE  Shared(Admit(T, f))
<1> DEFINE R == Admit(T, f)
           K == SameOrigin(T, f)
<1>1. R \subseteq T \cup {f}
  BY AdmitKeeps
<1>2. IsFiniteSet(K) /\ Cardinality(K) \in Nat /\ PerOrigin \in Nat /\ PerOrigin > 0
      /\ K \subseteq T /\ \A h \in K : h.live
  <2>1. K \subseteq T /\ \A h \in K : h.live
    BY DEF SameOrigin
  <2>2. IsFiniteSet(K)
    BY <2>1, FS_Subset
  <2> QED
    BY <2>1, <2>2, FS_CardinalityType, FactsAssumption
<1>3. CASE ~(f.live /\ f \in R)
  <2>1. \A g \in R : g.live => g \in T
    BY <1>1, <1>3
  <2> HIDE DEF R
  <2> QED
    BY <2>1, NothingLiveAdded DEF R
<1>4. CASE f.live /\ f \in R
  <2>1. Cardinality(SameOrigin(R, f)) <= PerOrigin
    <3>1. CASE OverShare(T, f)
      <4> DEFINE out == FirstOut(K)
      <4>1. Cardinality(K) >= PerOrigin /\ K # {}
        BY <1>2, <3>1, FS_EmptySet DEF OverShare
      <4>2. out \in K
        <5> HIDE DEF K
        <5> QED
          BY <1>2, <4>1, FirstOutExists
      <4>3. R = T \/ R = (T \ {out}) \cup {f}
        BY <3>1 DEF Admit
      <4> HIDE DEF out
      <4>4. Cardinality(K) <= PerOrigin
        <5>1. out \in T /\ out.live /\ SameOrigin(T, out) = K
          BY <4>2 DEF SameOrigin
        <5> QED
          BY <5>1 DEF Shared
      <4>5. CASE R = T
        BY <4>4, <4>5
      <4>6. CASE R = (T \ {out}) \cup {f}
        <5> DEFINE J == K \ {out}
        <5>1. IsFiniteSet(J) /\ Cardinality(J) = Cardinality(K) - 1
          BY <1>2, <4>2, FS_RemoveElement
        <5>2. SameOrigin(R, f) \subseteq J \cup {f}
          BY <4>6 DEF SameOrigin
        <5> HIDE DEF J, K, R
        <5>3. IsFiniteSet(J \cup {f}) /\ Cardinality(J \cup {f}) <= Cardinality(J) + 1
              /\ Cardinality(J \cup {f}) \in Nat
          BY <5>1, WithOneMore
        <5>4. IsFiniteSet(SameOrigin(R, f))
              /\ Cardinality(SameOrigin(R, f)) <= Cardinality(J \cup {f})
          BY <5>2, <5>3, FS_Subset
        <5>5. Cardinality(SameOrigin(R, f)) \in Nat
          BY <5>4, FS_CardinalityType
        <5> QED
          BY <1>2, <4>4, <5>1, <5>3, <5>4, <5>5
      <4> QED
        BY <4>3, <4>5, <4>6
    <3>2. CASE ~OverShare(T, f)
      <4>1. Cardinality(K) < PerOrigin
        BY <1>2, <1>4, <3>2 DEF OverShare
      <4>2. SameOrigin(R, f) \subseteq K \cup {f}
        BY <1>1 DEF SameOrigin
      <4> HIDE DEF K, R
      <4>3. IsFiniteSet(K \cup {f}) /\ Cardinality(K \cup {f}) <= Cardinality(K) + 1
            /\ Cardinality(K \cup {f}) \in Nat
        BY <1>2, WithOneMore
      <4>4. IsFiniteSet(SameOrigin(R, f))
            /\ Cardinality(SameOrigin(R, f)) <= Cardinality(K \cup {f})
        BY <4>2, <4>3, FS_Subset
      <4>5. Cardinality(SameOrigin(R, f)) \in Nat
        BY <4>4, FS_CardinalityType
      <4> QED
        BY <1>2, <4>1, <4>3, <4>4, <4>5
    <3> QED
      BY <3>1, <3>2
  <2>2. ASSUME NEW g \in R, g.live PROVE Cardinality(SameOrigin(R, g)) <= PerOrigin
    <3>1. CASE g.origin = f.origin /\ g.epoch = f.epoch
      <4>1. SameOrigin(R, g) = SameOrigin(R, f)
        BY <3>1 DEF SameOrigin
      <4> QED
        BY <2>1, <4>1
    <3>2. CASE ~(g.origin = f.origin /\ g.epoch = f.epoch)
      <4> DEFINE A == SameOrigin(R, g)
                 B == SameOrigin(T, g)
      <4>1. g \in T /\ A \subseteq B /\ B \subseteq T
        BY <1>1, <2>2, <3>2 DEF SameOrigin
      <4>2. Cardinality(B) <= PerOrigin /\ IsFiniteSet(B)
        <5>1. Cardinality(B) <= PerOrigin
          BY <2>2, <4>1 DEF Shared
        <5> QED
          BY <4>1, <5>1, FS_Subset
      <4> HIDE DEF A, B
      <4>3. IsFiniteSet(A) /\ Cardinality(A) <= Cardinality(B)
        BY <4>1, <4>2, FS_Subset
      <4>4. Cardinality(A) \in Nat /\ Cardinality(B) \in Nat
        BY <4>2, <4>3, FS_CardinalityType
      <4> QED
        BY <1>2, <4>2, <4>3, <4>4 DEF A
    <3> QED
      BY <3>1, <3>2
  <2> HIDE DEF R
  <2> QED
    BY <2>2 DEF Shared, R
<1> QED
  BY <1>3, <1>4

LEMMA MergeShares ==
    ASSUME NEW T, Sane(T), Shared(T), NEW f \in Fact, f.live => f.tomb = 0,
           \A h \in T : Key(h) = Key(f) /\ h.live /\ f.live => h = f
    PROVE  Shared(Merge(T, f))
<1>0. T \subseteq Fact /\ IsFiniteSet(T) /\ Cardinality(T) <= Capacity
  BY DEF Sane
<1>1. CASE Held(T, Key(f)) = {}
  <2> DEFINE dups == IF f.live THEN Near(T, f.kind, f.place) ELSE {}
             rest == T \ dups
  <2>1. Merge(T, f) = T \/ Merge(T, f) = Admit(rest, f)
    BY <1>1 DEF Merge, MergeNew
  <2>2. Sane(rest) /\ Shared(rest)
    <3>1. rest \subseteq T /\ \A g \in rest : g.live => g \in T
      OBVIOUS
    <3> HIDE DEF rest
    <3> QED
      BY <1>0, <3>1, PartIsSane, NothingLiveAdded
  <2> HIDE DEF rest
  <2>3. Shared(Admit(rest, f))
    <3>1. rest \subseteq Fact /\ IsFiniteSet(rest) /\ Cardinality(rest) <= Capacity
      BY <2>2 DEF Sane
    <3> QED
      BY <2>2, <3>1, AdmitShares
  <2> QED
    BY <2>1, <2>3
<1>2. CASE Held(T, Key(f)) # {}
  <2>1. \A g \in Merge(T, f) : g.live => g \in T
    <3>1. \A g \in Merge(T, f) : g.live => g \in T \/ g = f
      BY MergeKeeps
    <3>2. PICK h \in T : Key(h) = Key(f)
      BY <1>2 DEF Held
    <3>3. ASSUME f.live, f \in Merge(T, f) PROVE f \in T
      <4>1. CASE h.live
        BY <3>2, <3>3, <4>1
      <4>2. CASE ~h.live
        <5>1. Sealed(T, Key(f))
          BY <3>2, <4>2 DEF Sealed
        <5>2. \A g \in Merge(T, f) : Key(g) = Key(f) => ~g.live
          BY <5>1, MergeKeeps
        <5> QED
          BY <3>3, <5>2
      <4> QED
        BY <4>1, <4>2
    <3> QED
      BY <3>1, <3>3
  <2> QED
    BY <1>0, <2>1, NothingLiveAdded
<1> QED
  BY <1>1, <1>2

LEMMA FrameShares ==
    ASSUME FactsInv, Shares, NEW d \in Elements, NEW e \in Elements, NEW s \in Frames(table[d])
    PROVE  Shared(MergeFrame(table[e], s))
<1> DEFINE T == table[e]
           D == table[d]
<1>1. /\ Sane(T) /\ Sane(D) /\ IsFiniteSet(D) /\ Shared(T)
      /\ \A h \in T \cup D, f \in D : Key(h) = Key(f) /\ h.live /\ f.live => h = f
  BY DEF FactsInv, SameKeySameFact, Sane, Shares
<1>2. \/ Len(s) = 0
      \/ Len(s) = 1 /\ s[1] \in D
      \/ Len(s) = 2 /\ s[1] \in D /\ s[2] \in D
  BY <1>1, FrameShapes
<1> HIDE DEF T, D
<1>3. ASSUME NEW S, Sane(S), Shared(S), NEW f \in D, \A g \in S : g.live => g \in T \cup D
      PROVE  /\ Sane(Merge(S, Sent(f))) /\ Shared(Merge(S, Sent(f)))
             /\ \A g \in Merge(S, Sent(f)) : g.live => g \in T \cup D
  <2> DEFINE r == Sent(f)
  <2>1. /\ r \in Fact /\ Key(r) = Key(f) /\ r.live = f.live /\ (r.live => r.tomb = 0)
        /\ r.live => r = f
    BY <1>1, SentFits
  <2> HIDE DEF r
  <2>2. \A h \in S : Key(h) = Key(r) /\ h.live /\ r.live => h = r
    BY <1>1, <1>3, <2>1
  <2>3. /\ Sane(Merge(S, r)) /\ \A g \in Merge(S, r) : g.live => g \in S \/ g = r
    BY <1>3, <2>1, <2>2, MergeKeeps
  <2>4. Shared(Merge(S, r))
    BY <1>3, <2>1, <2>2, MergeShares
  <2>5. \A g \in Merge(S, r) : g.live => g \in T \cup D
    BY <1>3, <2>1, <2>3
  <2> QED
    BY <2>3, <2>4, <2>5 DEF r
<1>4. CASE Len(s) = 0
  BY <1>1, <1>4 DEF MergeFrame, T
<1>5. CASE Len(s) = 1 /\ s[1] \in D
  <2>1. MergeFrame(T, s) = Merge(T, Sent(s[1]))
    BY <1>5 DEF MergeFrame
  <2> QED
    BY <1>1, <1>3, <1>5, <2>1 DEF T
<1>6. CASE Len(s) = 2 /\ s[1] \in D /\ s[2] \in D
  <2> DEFINE S == Merge(T, Sent(s[1]))
  <2>1. MergeFrame(T, s) = Merge(S, Sent(s[2]))
    BY <1>6 DEF MergeFrame
  <2>2. Sane(S) /\ Shared(S) /\ \A g \in S : g.live => g \in T \cup D
    BY <1>1, <1>3, <1>6
  <2> HIDE DEF S
  <2>3. Shared(Merge(S, Sent(s[2])))
    BY <1>3, <1>6, <2>2
  <2> QED
    BY <2>1, <2>3 DEF T
<1> QED
  BY <1>2, <1>4, <1>5, <1>6

LEMMA SharesStep ==
    ASSUME FactsInv, Shares, [FactsNext]_factsVars
    PROVE  Shares'
<1>1. /\ table \in [Elements -> SUBSET Fact]
      /\ \A e \in Elements : Sane(table[e]) /\ IsFiniteSet(table[e]) /\ Shared(table[e])
                             /\ table[e] \subseteq Fact /\ Cardinality(table[e]) <= Capacity
  BY DEF FactsInv, Shares, Sane
<1>2. ASSUME NEW e \in Elements, NEW M, Shared(M), table' = [table EXCEPT ![e] = M]
      PROVE  Shares'
  <2>1. \A a \in Elements : table'[a] = IF a = e THEN M ELSE table[a]
    BY <1>1, <1>2
  <2> QED
    BY <1>1, <1>2, <2>1 DEF Shares
<1>3. ASSUME NEW d \in Elements, NEW e \in Elements, NEW s \in Frames(table[d]),
             Deliver(d, e, s)
      PROVE  Shares'
  <2>1. table' = [table EXCEPT ![e] = MergeFrame(table[e], s)]
    BY <1>3 DEF Deliver
  <2>2. Shared(MergeFrame(table[e], s))
    BY FrameShares
  <2> QED
    BY <1>2, <2>1, <2>2
<1>4. ASSUME NEW e \in Elements, NEW kind \in Kinds, NEW place \in Places,
             Publish(e, kind, place)
      PROVE  Shares'
  <2> DEFINE f == NewFact(e, kind, place)
  <2>1. table' = [table EXCEPT ![e] = Admit(table[e], f)] /\ lamport[e] < MaxStamp
    BY <1>4 DEF Publish
  <2>2. f \in Fact
    <3>1. /\ lamport[e] \in 0..MaxStamp /\ nextSeq[e] \in 0..(SeqMod - 1)
          /\ epoch[e] \in 1..MaxEpoch /\ MaxStamp \in Nat /\ TombstoneTtl \in Nat \ {0}
      BY FactsAssumption DEF FactsInv, Scalars
    <3>2. lamport[e] + 1 \in 1..MaxStamp /\ 0 \in 0..(TombstoneTtl - 1)
      BY <2>1, <3>1
    <3> QED
      BY <3>1, <3>2 DEF NewFact, Fact
  <2> HIDE DEF f
  <2>3. Shared(Admit(table[e], f))
    BY <1>1, <2>2, AdmitShares
  <2> QED
    BY <1>2, <2>1, <2>3
<1>5. ASSUME NEW e \in Elements, NEW f \in table[e], Retract(e, f) PROVE Shares'
  <2> DEFINE g == [f EXCEPT !.live = FALSE, !.stamp = lamport[e] + 1, !.tomb = 0]
             M == (table[e] \ {f}) \cup {g}
  <2>1. table' = [table EXCEPT ![e] = M]
    BY <1>5 DEF Retract
  <2>2. ~g.live
    <3>1. f \in Fact
      BY <1>1
    <3> QED
      BY <3>1 DEF Fact
  <2> HIDE DEF g
  <2>3. \A h \in M : h.live => h \in table[e]
    BY <2>2
  <2> HIDE DEF M
  <2>4. Shared(M)
    BY <1>1, <2>3, NothingLiveAdded
  <2> QED
    BY <1>2, <2>1, <2>4
<1>6. ASSUME NEW S, FactTick(S) PROVE Shares'
  <2>1. \A a \in Elements : table'[a] = IF a \in S THEN TombstonesAged(table[a]) ELSE table[a]
    BY <1>6 DEF FactTick
  <2>2. ASSUME NEW a \in Elements PROVE Shared(TombstonesAged(table[a]))
    <3>1. \A h \in TombstonesAged(table[a]) : h.live => h \in table[a]
      <4> SUFFICES ASSUME NEW h \in TombstonesAged(table[a]), h.live PROVE h \in table[a]
        OBVIOUS
      <4>1. ASSUME NEW g \in table[a], ~g.live, h = [g EXCEPT !.tomb = @ + 1] PROVE FALSE
        <5>1. g \in Fact
          BY <1>1, <4>1
        <5>2. h.live = g.live
          BY <4>1, <5>1 DEF Fact
        <5> QED
          BY <4>1, <5>2
      <4> QED
        BY <4>1 DEF TombstonesAged
    <3> QED
      BY <1>1, <3>1, NothingLiveAdded
  <2> QED
    BY <1>1, <2>1, <2>2 DEF Shares
<1>7. ASSUME NEW e \in Elements, NEW n, Reboot(e, n) PROVE Shares'
  <2>1. Shared({}) /\ table' = [table EXCEPT ![e] = {}]
    BY <1>7 DEF Reboot, Shared
  <2> QED
    BY <1>2, <2>1
<1>8. CASE UNCHANGED factsVars
  BY <1>8 DEF factsVars, Shares
<1> QED
  BY <1>3, <1>4, <1>5, <1>6, <1>7, <1>8, FactsAssumption DEF FactsNext, Exchange

(* No boot of any element ever fills more than its share of anybody's      *)
(* table, whatever arrives in whatever order (FACT_MAX_PER_ORIGIN, admit). *)
THEOREM SharesAreKept == FactsSpec /\ []NumbersFree => []Shares
<1>1. FactsInit => Shares
  BY DEF FactsInit, Shares, Shared
<1>2. FactsInv /\ Shares /\ [FactsNext]_factsVars => Shares'
  BY SharesStep
<1> QED
  BY <1>1, <1>2, ReplicasAreSane, PTL DEF FactsSpec

-----------------------------------------------------------------------------
(* Agreement *)

(* Eviction's order is one: of two that differ in it, a third differs from *)
(* one at least.                                                           *)
LEMMA OrdersAreStrict ==
    ASSUME NEW f \in Fact, NEW g \in Fact, NEW h \in Fact
    PROVE  /\ RankBefore(f, g) => ~RankBefore(g, f)
           /\ EvictBefore(f, g) => ~EvictBefore(g, f)
           /\ EvictBefore(g, h) => EvictBefore(g, f) \/ EvictBefore(f, h)
<1>1. /\ \A x \in {f, g, h} : /\ x.kind.prio \in Nat /\ x.stamp \in Nat /\ x.origin \in Nat
                              /\ x.epoch \in Nat /\ x.seq \in Nat
      /\ f.live \in BOOLEAN /\ g.live \in BOOLEAN /\ h.live \in BOOLEAN
  BY Fields
<1>2. RankBefore(f, g) => ~RankBefore(g, f)
  BY <1>1 DEF RankBefore
<1>3. RankBefore(g, h) => RankBefore(g, f) \/ RankBefore(f, h)
  BY <1>1 DEF RankBefore
<1>4. EvictBefore(f, g) => ~EvictBefore(g, f)
  BY <1>1, <1>2 DEF EvictBefore
<1>5. EvictBefore(g, h) => EvictBefore(g, f) \/ EvictBefore(f, h)
  BY <1>1, <1>3 DEF EvictBefore
<1> QED
  BY <1>2, <1>4, <1>5

(* Of any facts there is one of lowest rank. *)
LEMMA SomeFactIsLowest ==
    ASSUME NEW A, A \subseteq Fact, A # {}
    PROVE  \E f \in A : \A g \in A : ~RankBefore(g, f)
<1>1. PICK a \in A : TRUE
  OBVIOUS
<1> DEFINE Alike(f) == [f EXCEPT !.live = TRUE, !.kind = a.kind]
           U == {Alike(f) : f \in A}
<1>2. \A f \in A : /\ Alike(f) \in Fact /\ Alike(f).live /\ Alike(f).kind = a.kind
                   /\ Alike(f).stamp = f.stamp /\ Alike(f).origin = f.origin
                   /\ Alike(f).epoch = f.epoch /\ Alike(f).seq = f.seq
  BY DEF Fact
<1> HIDE DEF Alike
<1>3. U \subseteq Fact /\ U # {}
  BY <1>2
<1>4. PICK x \in U : \A y \in U : ~EvictBefore(y, x)
  <2> HIDE DEF U
  <2> QED
    BY <1>3, FirstOutExists
<1>5. PICK f \in A : x = Alike(f)
  BY <1>4
<1>6. ASSUME NEW g \in A, RankBefore(g, f) PROVE FALSE
  <2>1. RankBefore(Alike(g), Alike(f))
    BY <1>2, <1>6 DEF RankBefore
  <2>2. EvictBefore(Alike(g), Alike(f))
    BY <1>2, <2>1 DEF EvictBefore
  <2> QED
    BY <1>4, <1>5, <2>2
<1> QED
  BY <1>6

(* What S holds teaches T nothing. *)
Inert(S, T) == \A f \in S : Live(Merge(T, Sent(f))) = Live(T)

(* Two replicas that teach one another nothing. *)
AtRest(S, T) ==
    /\ Sane(S) /\ Sane(T) /\ Shared(S) /\ Shared(T)
    /\ \A f \in S, g \in T : Key(f) = Key(g) /\ f.live /\ g.live => f = g
    /\ Inert(S, T) /\ Inert(T, S)

LEMMA RestIsMutual == ASSUME NEW S, NEW T, AtRest(S, T) PROVE AtRest(T, S)
BY DEF AtRest

(* A live fact of one is not retracted in the other. *)
LEMMA NotRetracted ==
    ASSUME NEW S, NEW T, AtRest(S, T), NEW f \in S, f.live, f \notin T
    PROVE  Held(T, Key(f)) = {}
<1> SUFFICES ASSUME NEW h \in T, Key(h) = Key(f) PROVE FALSE
  BY DEF Held
<1>1. ~h.live
  BY DEF AtRest
<1>2. /\ Sent(h) \in Fact /\ Key(Sent(h)) = Key(h) /\ ~Sent(h).live
  BY <1>1, SentFits DEF AtRest
<1>3. Held(S, Key(Sent(h))) = {f}
  BY <1>2 DEF Held, AtRest, Sane
<1>4. Merge(S, Sent(h)) = MergeHeld(S, f, Sent(h))
  BY <1>3 DEF Merge
<1>5. MergeHeld(S, f, Sent(h)) = (S \ {f}) \cup {[Sent(h) EXCEPT !.tomb = 0]}
  BY <1>2 DEF MergeHeld
<1>6. ~[Sent(h) EXCEPT !.tomb = 0].live
  BY <1>2 DEF Fact
<1>7. f \notin Live(Merge(S, Sent(h)))
  BY <1>4, <1>5, <1>6 DEF Live
<1>8. f \in Live(S) /\ Live(Merge(S, Sent(h))) = Live(S)
  BY DEF Live, AtRest, Inert
<1> QED
  BY <1>7, <1>8

(* Why a live fact is not held: something near goes before it, or its boot *)
(* has its share of earlier ones to keep, or the table is full of them.    *)
LEMMA WhyNotHeld ==
    ASSUME NEW S, NEW T, AtRest(S, T), NEW f \in S, f.live, f \notin T
    PROVE  \/ \E d \in Near(T, f.kind, f.place) : RankBefore(d, f)
           \/ /\ Near(T, f.kind, f.place) = {}
              /\ \/ OverShare(T, f) /\ EvictBefore(f, FirstOut(SameOrigin(T, f)))
                 \/ /\ ~OverShare(T, f) /\ ~(Cardinality(T) < Capacity)
                    /\ EvictBefore(f, FirstOut(T))
<1> DEFINE dups == Near(T, f.kind, f.place)
<1>1. Held(T, Key(f)) = {} /\ Sent(f) = f /\ T \subseteq Fact /\ IsFiniteSet(T)
      /\ Cardinality(T) <= Capacity /\ f \in Fact
  BY NotRetracted, SentFits DEF AtRest, Sane
<1>2. Merge(T, f) = IF \E d \in dups : RankBefore(d, f) THEN T ELSE Admit(T \ dups, f)
  BY <1>1 DEF Merge, MergeNew
<1>3. Live(Merge(T, f)) = Live(T) /\ f \notin Live(T)
  BY <1>1 DEF AtRest, Inert, Live
<1> SUFFICES ASSUME ~\E d \in dups : RankBefore(d, f)
             PROVE  /\ dups = {}
                    /\ \/ OverShare(T, f) /\ EvictBefore(f, FirstOut(SameOrigin(T, f)))
                       \/ /\ ~OverShare(T, f) /\ ~(Cardinality(T) < Capacity)
                          /\ EvictBefore(f, FirstOut(T))
  OBVIOUS
<1>4. Merge(T, f) = Admit(T \ dups, f)
  BY <1>2
<1>5. dups = {}
  <2> SUFFICES ASSUME NEW h \in dups PROVE FALSE
    OBVIOUS
  <2>1. h \in T /\ h.live /\ h # f
    BY DEF Near
  <2>2. Admit(T \ dups, f) \subseteq (T \ dups) \cup {f}
    <3> DEFINE R == T \ dups
    <3>1. R \subseteq Fact /\ IsFiniteSet(R) /\ Cardinality(R) <= Cardinality(T)
      BY <1>1, FS_Subset
    <3> HIDE DEF R
    <3>2. Cardinality(R) <= Capacity
      BY <1>1, <3>1, FS_CardinalityType, FactsAssumption
    <3>3. Admit(R, f) \subseteq R \cup {f}
      BY <1>1, <3>1, <3>2, AdmitKeeps
    <3> QED
      BY <3>3 DEF R
  <2>3. h \notin Merge(T, f)
    BY <1>4, <2>1, <2>2
  <2> QED
    BY <1>3, <2>1, <2>3 DEF Live
<1>6. Merge(T, f) = Admit(T, f) /\ f \notin Admit(T, f)
  <2>1. T \ dups = T
    BY <1>5
  <2>2. Merge(T, f) = Admit(T, f)
    BY <1>4, <2>1
  <2> QED
    BY <1>3, <2>2 DEF Live
<1> QED
  BY <1>5, <1>6 DEF Admit

(* No live fact is kept out by one near it: else that one would be kept    *)
(* out of the first replica by a lower one still, and so on for ever.      *)
LEMMA NothingNearby ==
    ASSUME NEW S, NEW T, AtRest(S, T), NEW f \in S, f.live, f \notin T
    PROVE  Near(T, f.kind, f.place) = {}
<1> DEFINE Blocked(P, Q) == {x \in P : x.live /\ x \notin Q /\ Near(Q, x.kind, x.place) # {}}
           A == Blocked(S, T) \cup Blocked(T, S)
<1>1. ASSUME NEW P, NEW Q, AtRest(P, Q), NEW x \in Blocked(P, Q)
      PROVE  \E h \in Blocked(Q, P) : RankBefore(h, x)
  <2>1. x \in P /\ x.live /\ x \notin Q /\ Near(Q, x.kind, x.place) # {}
    OBVIOUS
  <2>2. PICK h \in Near(Q, x.kind, x.place) : RankBefore(h, x)
    BY <1>1, <2>1, WhyNotHeld
  <2>3. h \in Q /\ h.live /\ h # x
    BY <2>1, <2>2 DEF Near
  <2>4. x \in Fact /\ h \in Fact
    BY <1>1, <2>1, <2>3 DEF AtRest, Sane
  <2>5. x \in Near(P, h.kind, h.place)
    BY <2>1, <2>2, <2>4, NearIsMutual
  <2>6. h \notin P
    BY <1>1, <2>1, <2>3, <2>5 DEF AtRest, Sane
  <2> QED
    BY <2>2, <2>3, <2>5, <2>6
<1>2. A \subseteq Fact
  BY DEF AtRest, Sane
<1>3. \A x \in A : \E h \in A : RankBefore(h, x)
  <2>1. \A x \in Blocked(S, T) : \E h \in Blocked(T, S) : RankBefore(h, x)
    BY <1>1
  <2>2. \A x \in Blocked(T, S) : \E h \in Blocked(S, T) : RankBefore(h, x)
    BY <1>1, RestIsMutual
  <2> HIDE DEF Blocked
  <2> QED
    BY <2>1, <2>2
<1>4. A = {}
  <2> HIDE DEF A
  <2> QED
    BY <1>2, <1>3, SomeFactIsLowest
<1> QED
  BY <1>4

(* Nor by the share of its boot: one of that share would be kept out of    *)
(* the first replica by the fact.                                          *)
LEMMA NoShareKeepsOut ==
    ASSUME NEW S, NEW T, AtRest(S, T), NEW f \in S, f.live, f \notin T
    PROVE  ~OverShare(T, f)
<1> SUFFICES ASSUME OverShare(T, f) PROVE FALSE
  OBVIOUS
<1> DEFINE KT == SameOrigin(T, f)
           KS == SameOrigin(S, f)
<1>1. /\ S \subseteq Fact /\ T \subseteq Fact /\ IsFiniteSet(S) /\ IsFiniteSet(T)
      /\ Shared(S) /\ f \in Fact
  BY DEF AtRest, Sane
<1>2. /\ IsFiniteSet(KT) /\ IsFiniteSet(KS) /\ KT \subseteq T /\ KS \subseteq S
      /\ f \in KS /\ \A h \in KT \cup KS : h.live
  <2>1. KT \subseteq T /\ KS \subseteq S /\ f \in KS /\ \A h \in KT \cup KS : h.live
    BY DEF SameOrigin
  <2> QED
    BY <1>1, <2>1, FS_Subset
<1>3. Cardinality(KT) >= PerOrigin /\ Cardinality(KS) <= PerOrigin /\ PerOrigin \in Nat
      /\ PerOrigin > 0
  BY <1>1, FactsAssumption DEF OverShare, Shared
<1>4. EvictBefore(f, FirstOut(KT))
  BY NothingNearby, WhyNotHeld
<1>5. KT # {}
  <2> HIDE DEF KT
  <2> QED
    BY <1>3, FS_EmptySet
<1>6. FirstOut(KT) \in KT /\ \A h \in KT : ~EvictBefore(h, FirstOut(KT))
  <2> HIDE DEF KT
  <2> QED
    BY <1>1, <1>2, <1>5, FirstOutExists
<1>7. PICK g \in KT : g \notin KS
  <2>1. ASSUME KT \subseteq KS PROVE FALSE
    <3> HIDE DEF KT, KS
    <3>1. KT \subseteq KS \ {f}
      BY <1>2, <2>1
    <3>2. IsFiniteSet(KS \ {f}) /\ Cardinality(KS \ {f}) = Cardinality(KS) - 1
      BY <1>2, FS_RemoveElement
    <3>3. Cardinality(KT) <= Cardinality(KS \ {f})
      BY <3>1, <3>2, FS_Subset
    <3>4. Cardinality(KT) \in Nat /\ Cardinality(KS) \in Nat
      BY <1>2, FS_CardinalityType
    <3> QED
      BY <1>3, <3>2, <3>3, <3>4
  <2> QED
    BY <2>1
<1>8. g \in T /\ g.live /\ g \notin S /\ g \in Fact
  BY <1>1, <1>2, <1>7 DEF SameOrigin
<1>9. EvictBefore(f, g)
  BY <1>1, <1>2, <1>4, <1>6, <1>7, <1>8, OrdersAreStrict
<1>10. Near(S, g.kind, g.place) = {} /\ AtRest(T, S)
  BY <1>8, RestIsMutual, NothingNearby
<1>11. SameOrigin(S, g) = KS
  BY <1>7 DEF SameOrigin
<1>12. \/ OverShare(S, g) /\ EvictBefore(g, FirstOut(KS))
       \/ EvictBefore(g, FirstOut(S))
  BY <1>8, <1>10, <1>11, WhyNotHeld
<1>13. PICK W : W \subseteq S /\ f \in W /\ EvictBefore(g, FirstOut(W))
  BY <1>2, <1>12
<1>14. FirstOut(W) \in W /\ ~EvictBefore(f, FirstOut(W))
  BY <1>1, <1>13, FirstOutExists
<1>15. EvictBefore(g, f)
  BY <1>1, <1>8, <1>13, <1>14, OrdersAreStrict
<1> QED
  BY <1>1, <1>8, <1>9, <1>15, OrdersAreStrict

(* Nor by want of room. *)
LEMMA RestIsAgreement ==
    ASSUME NEW S, NEW T, AtRest(S, T)
    PROVE  Live(S) = Live(T)
<1>1. ASSUME NEW P, NEW Q, AtRest(P, Q), NEW f \in P, f.live PROVE f \in Q
  <2> SUFFICES ASSUME f \notin Q PROVE FALSE
    OBVIOUS
  <2>1. /\ P \subseteq Fact /\ Q \subseteq Fact /\ IsFiniteSet(P) /\ IsFiniteSet(Q)
        /\ Cardinality(P) <= Capacity /\ f \in Fact /\ Capacity \in Nat /\ Capacity > 0
    BY <1>1, FactsAssumption DEF AtRest, Sane
  <2>2. ~(Cardinality(Q) < Capacity) /\ EvictBefore(f, FirstOut(Q))
    BY <1>1, NothingNearby, NoShareKeepsOut, WhyNotHeld
  <2>3. Cardinality(P) \in Nat /\ Cardinality(Q) \in Nat /\ Q # {}
    BY <2>1, <2>2, FS_CardinalityType, FS_EmptySet
  <2>4. FirstOut(Q) \in Q /\ \A h \in Q : ~EvictBefore(h, FirstOut(Q))
    BY <2>1, <2>3, FirstOutExists
  <2>5. \A h \in Q : EvictBefore(f, h) /\ h.live
    <3> SUFFICES ASSUME NEW h \in Q PROVE EvictBefore(f, h) /\ h.live
      OBVIOUS
    <3>1. h \in Fact /\ FirstOut(Q) \in Fact
      BY <2>1, <2>4
    <3>2. EvictBefore(f, h)
      BY <2>1, <2>2, <2>4, <3>1, OrdersAreStrict
    <3>3. h.live \in BOOLEAN /\ f.live = TRUE
      BY <1>1, <2>1, <3>1, Fields
    <3>4. h.live
      BY <3>2, <3>3 DEF EvictBefore
    <3> QED
      BY <3>2, <3>4
  <2>6. PICK g \in Q : g \notin P
    <3>1. ASSUME Q \subseteq P PROVE FALSE
      <4>1. Q \subseteq P \ {f}
        BY <3>1
      <4>2. IsFiniteSet(P \ {f}) /\ Cardinality(P \ {f}) = Cardinality(P) - 1
        BY <1>1, <2>1, FS_RemoveElement
      <4>3. Cardinality(Q) <= Cardinality(P \ {f})
        BY <4>1, <4>2, FS_Subset
      <4> QED
        BY <2>1, <2>2, <2>3, <4>2, <4>3
    <3> QED
      BY <3>1
  <2>7. g.live /\ g \in Fact /\ EvictBefore(f, g) /\ AtRest(Q, P)
    BY <1>1, <2>1, <2>5, <2>6, RestIsMutual
  <2>8. EvictBefore(g, FirstOut(P))
    BY <2>6, <2>7, NothingNearby, NoShareKeepsOut, WhyNotHeld
  <2>9. FirstOut(P) \in P /\ ~EvictBefore(f, FirstOut(P))
    BY <1>1, <2>1, FirstOutExists
  <2>10. EvictBefore(g, f)
    BY <2>1, <2>7, <2>8, <2>9, OrdersAreStrict
  <2> QED
    BY <2>1, <2>7, <2>10, OrdersAreStrict
<1>2. \A f \in S : f.live => f \in T
  BY <1>1
<1>3. \A f \in T : f.live => f \in S
  BY <1>1, RestIsMutual
<1> QED
  BY <1>2, <1>3 DEF Live

-----------------------------------------------------------------------------
(* Frames *)

(* A live fact gives its slot up to a live newcomer only.                  *)
LEMMA RoomIsForTheLive ==
    ASSUME NEW T, T \subseteq Fact, IsFiniteSet(T), Cardinality(T) <= Capacity,
           NEW f \in Fact, NEW g \in T, g.live, g \notin Admit(T, f)
    PROVE  f.live /\ f \in Admit(T, f)
<1>1. CASE OverShare(T, f)
  BY <1>1 DEF OverShare, Admit
<1>2. CASE ~OverShare(T, f)
  <2>1. ~(Cardinality(T) < Capacity)
    BY <1>2 DEF Admit
  <2>2. ~EvictBefore(f, FirstOut(T)) /\ Admit(T, f) = (T \ {FirstOut(T)}) \cup {f}
    BY <1>2, <2>1 DEF Admit
  <2>3. g = FirstOut(T)
    BY <2>2
  <2>4. f.live \in BOOLEAN /\ g.live = TRUE
    BY Fields
  <2> QED
    BY <2>2, <2>3, <2>4 DEF EvictBefore
<1> QED
  BY <1>1, <1>2

(* Where one record changes what is live, no other record that its sender  *)
(* holds with it undoes that in both orders they may be packed in.         *)
LEMMA PackingHidesNothing ==
    ASSUME NEW S, NEW T, Sane(S), Sane(T), NEW a \in S, NEW b \in S, a # b,
           \A f \in S, g \in T : Key(f) = Key(g) /\ f.live /\ g.live => f = g,
           Live(Merge(Merge(T, Sent(a)), Sent(b))) = Live(T),
           Live(Merge(Merge(T, Sent(b)), Sent(a))) = Live(T)
    PROVE  Live(Merge(T, Sent(a))) = Live(T)
<1> DEFINE T1 == Merge(T, Sent(a))
           T2 == Merge(T1, Sent(b))
<1>1. /\ S \subseteq Fact /\ T \subseteq Fact
      /\ Key(a) # Key(b)
  BY DEF Sane
<1>2. /\ Sent(a) \in Fact /\ Key(Sent(a)) = Key(a) /\ Sent(a).live = a.live
      /\ a.live => Sent(a) = a
      /\ a.live => a.tomb = 0
      /\ Sent(b) \in Fact /\ Key(Sent(b)) = Key(b) /\ Sent(b).live = b.live
      /\ b.live => Sent(b) = b
      /\ b.live => b.tomb = 0
  BY <1>1, SentFits DEF Sane
<1>3. /\ Sane(T1)
      /\ \A g \in T1 : g.live => g \in T \/ g = Sent(a)
  <2>1. /\ Sent(a).live => Sent(a).tomb = 0
        /\ \A h \in T : Key(h) = Key(Sent(a)) /\ h.live /\ Sent(a).live => h = Sent(a)
    BY <1>2
  <2> QED
    BY <1>2, <2>1, MergeKeeps
<1> HIDE DEF T1
<1>4. \A g \in T2 : g.live => g \in T1 \/ g = Sent(b)
  <2>1. /\ Sent(b).live => Sent(b).tomb = 0
        /\ \A h \in T1 : Key(h) = Key(Sent(b)) /\ h.live /\ Sent(b).live => h = Sent(b)
    <3> SUFFICES ASSUME NEW h \in T1, Key(h) = Key(b), h.live, b.live PROVE h = b
      BY <1>2
    <3>1. h \in T \/ h = a
      BY <1>2, <1>3
    <3> QED
      BY <1>1, <3>1
  <2> QED
    BY <1>2, <1>3, <2>1, MergeKeeps
<1>5. b.live /\ b \in T => Merge(T, Sent(b)) = T
  <2> SUFFICES ASSUME b.live, b \in T PROVE Merge(T, b) = T
    BY <1>2
  <2>1. Held(T, Key(b)) = {b}
    BY DEF Held, Sane
  <2>2. Merge(T, b) = MergeHeld(T, b, b)
    BY <2>1 DEF Merge
  <2>3. ~RankBefore(b, b)
    BY <1>1, OrdersAreStrict
  <2> QED
    BY <2>2, <2>3 DEF MergeHeld
<1>6. b.live /\ b \in T => Live(T1) = Live(T)
  BY <1>5 DEF T1
<1> SUFFICES ASSUME ~(b.live /\ b \in T) PROVE Live(T1) = Live(T)
  BY <1>6 DEF T1
<1>7. Live(T2) = Live(T)
  BY DEF T1
<1>8. \A h \in T : h.live => h \in T1
  <2> SUFFICES ASSUME NEW h \in T, h.live, h \notin T1 PROVE FALSE
    OBVIOUS
  <2>1. h \in T2
    BY <1>7 DEF Live
  <2>2. h = Sent(b)
    BY <1>4, <2>1
  <2> QED
    BY <1>2, <2>2
<1>9. a \notin T => ~(a.live /\ a \in T1)
  <2> SUFFICES ASSUME a \notin T, a.live, a \in T1 PROVE FALSE
    OBVIOUS
  <2>1. a \notin T2
    BY <1>7 DEF Live
  <2>2. ~(b.live /\ b \in T2)
    BY <1>7 DEF Live
  <2>3. CASE Held(T1, Key(b)) # {}
    <3>1. PICK h \in T1 : Key(h) = Key(b) /\ Held(T1, Key(b)) = {h}
      BY <1>3, <2>3 DEF Held, Sane
    <3>2. T2 = MergeHeld(T1, h, Sent(b))
      BY <1>2, <3>1 DEF Merge
    <3>3. h # a
      BY <1>1, <3>1
    <3> QED
      BY <2>1, <3>2, <3>3 DEF MergeHeld
  <2>4. CASE Held(T1, Key(b)) = {}
    <3> DEFINE dups == IF Sent(b).live THEN Near(T1, Sent(b).kind, Sent(b).place) ELSE {}
               R == T1 \ dups
    <3>1. a \notin dups
      <4> SUFFICES ASSUME b.live, a \in Near(T1, b.kind, b.place) PROVE FALSE
        BY <1>2
      <4>1. a \in Near(S, b.kind, b.place)
        BY DEF Near
      <4> QED
        BY <4>1 DEF Sane
    <3>2. T2 = T1 \/ T2 = Admit(R, Sent(b))
      BY <1>2, <2>4 DEF Merge, MergeNew
    <3>3. T2 = Admit(R, Sent(b)) /\ a \in R
      BY <2>1, <3>1, <3>2
    <3>4. Sane(R)
      BY <1>3, PartIsSane
    <3> HIDE DEF R
    <3>5. Sent(b).live /\ Sent(b) \in T2
      BY <1>2, <2>1, <3>3, <3>4, RoomIsForTheLive DEF Sane
    <3> QED
      BY <1>2, <2>2, <3>5
  <2> QED
    BY <2>3, <2>4
<1>10. \A g \in T1 : g.live => g \in T
  BY <1>2, <1>3, <1>9
<1> QED
  BY <1>8, <1>10 DEF Live

(* No frame of d changes what is live with e. *)
Exhausted(d, e) ==
    \A s \in Frames(table[d]) : Live(MergeFrame(table[e], s)) = Live(table[e])

(* Then no record of d does.                                               *)
LEMMA FramesTellAll ==
    ASSUME FactsInv, NEW d \in Elements, NEW e \in Elements, Exhausted(d, e)
    PROVE  Inert(table[d], table[e])
<1> DEFINE S == table[d]
           T == table[e]
<1>1. /\ Sane(S) /\ Sane(T) /\ IsFiniteSet(S) /\ Cardinality(S) \in Nat
      /\ \A f \in S, g \in T : Key(f) = Key(g) /\ f.live /\ g.live => f = g
  BY FS_CardinalityType DEF FactsInv, SameKeySameFact, Sane
<1> SUFFICES ASSUME NEW a \in S PROVE Live(Merge(T, Sent(a))) = Live(T)
  BY DEF Inert
<1>2. \A s \in Frames(S) : Live(MergeFrame(T, s)) = Live(T)
  BY DEF Exhausted
<1> HIDE DEF S, T
<1>3. CASE \E b \in S : b # a
  <2>1. PICK b \in S : b # a
    BY <1>3
  <2>2. ~(Cardinality(S) < 2)
    <3>1. {a, b} \subseteq S
      BY <2>1
    <3>2. IsFiniteSet({a}) /\ Cardinality({a}) = 1
      BY FS_Singleton
    <3>3. {a, b} = {a} \cup {b} /\ b \notin {a}
      BY <2>1
    <3>4. Cardinality({a, b}) = 2
      BY <3>2, <3>3, FS_AddElement
    <3>5. Cardinality({a, b}) <= Cardinality(S)
      BY <1>1, <3>1, FS_Subset
    <3> QED
      BY <1>1, <3>4, <3>5
  <2>3. ASSUME NEW x \in S, NEW y \in S, x # y
        PROVE  Live(Merge(Merge(T, Sent(x)), Sent(y))) = Live(T)
    <3> DEFINE s == <<x, y>>
    <3>1. s \in [1..2 -> S] /\ Len(s) = 2 /\ s[1] = x /\ s[2] = y
      OBVIOUS
    <3>2. \A i, j \in 1..2 : s[i] = s[j] => i = j
      BY <2>3
    <3>3. s \in Frames(S)
      <4> HIDE DEF s
      <4> QED
        BY <2>2, <3>1, <3>2 DEF Frames
    <3>4. MergeFrame(T, s) = Merge(Merge(T, Sent(x)), Sent(y))
      <4> HIDE DEF s
      <4> QED
        BY <3>1 DEF MergeFrame
    <3> QED
      BY <1>2, <3>3, <3>4
  <2> QED
    BY <1>1, <2>1, <2>3, PackingHidesNothing
<1>4. CASE ~\E b \in S : b # a
  <2>1. S = {a}
    BY <1>4
  <2>2. Cardinality(S) = 1
    BY <2>1, FS_Singleton
  <2> DEFINE s == <<a>>
  <2>3. s \in [1..1 -> S] /\ Len(s) = 1 /\ s[1] = a
    OBVIOUS
  <2> HIDE DEF s
  <2>4. s \in Frames(S)
    BY <2>2, <2>3 DEF Frames
  <2>5. MergeFrame(T, s) = Merge(T, Sent(a))
    BY <2>3 DEF MergeFrame
  <2> QED
    BY <1>2, <2>4, <2>5
<1> QED
  BY <1>3, <1>4

(* Where no frame anybody could send changes what is live anywhere, all    *)
(* replicas hold the same live facts.                                      *)
StuckIsAgreed ==
    (\A d, e \in Elements : d # e => Exhausted(d, e))
        => \A d, e \in Elements : Live(table[d]) = Live(table[e])

(* Gossip cannot come to rest short of agreement: whatever was published,  *)
(* merged, evicted, retracted, lost and forgotten in reboots, as long as   *)
(* two replicas differ in a live fact some frame still changes a table     *)
(* (merge_record, admit; WM_MAX_FACTS and FACT_MAX_PER_ORIGIN included).  *)
THEOREM GossipStopsAgreed == FactsSpec /\ []NumbersFree => []StuckIsAgreed
<1>1. FactsInv /\ Shares => StuckIsAgreed
  <2> SUFFICES ASSUME FactsInv, Shares, \A d, e \in Elements : d # e => Exhausted(d, e),
                      NEW d \in Elements, NEW e \in Elements, d # e
               PROVE  Live(table[d]) = Live(table[e])
    BY DEF StuckIsAgreed
  <2>1. Inert(table[d], table[e]) /\ Inert(table[e], table[d])
    BY FramesTellAll
  <2>2. AtRest(table[d], table[e])
    BY <2>1 DEF AtRest, FactsInv, SameKeySameFact, Shares
  <2> QED
    BY <2>2, RestIsAgreement
<1> QED
  BY <1>1, ReplicasAreSane, SharesAreKept, PTL
=============================================================================
