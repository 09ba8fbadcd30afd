----------------------------- MODULE ScrProofs -----------------------------
(***************************************************************************)
(* Proofs about Scr, for every set of peers, thresholds, hold and ages,    *)
(* and about Runtime, for every interval and grace.  A runtime is a Scr:   *)
(* what is shown of Spec holds of RuntimeSpec too.                         *)
(***************************************************************************)
EXTENDS Runtime, FiniteSetTheorems, WellFoundedInduction, TLAPS

(* Every non-empty set of identifiers has a lowest one, and Lowest is it.  *)
LEMMA LowestIsLowest ==
    ASSUME NEW C \in SUBSET Nat, C # {}
    PROVE  /\ Lowest(C) \in C
           /\ \A j \in C : Lowest(C) <= j
<1>1. PICK x \in C : \A y \in C : ~ (<<y, x>> \in OpToRel(<, Nat))
  BY NatLessThanWellFounded, WFMin
<1>2. \A y \in C : <<y, x>> \in Nat \X Nat
  OBVIOUS
<1>3. \A y \in C : ~ (y < x)
  BY <1>1, <1>2 DEF OpToRel
<1>4. \A y \in C : x <= y
  BY <1>3
<1> QED
  BY <1>4 DEF Lowest

(* Two candidates of one and the same set never take the same task slot,   *)
(* and the lowest one takes slot 0 (scr_tick, step 5).                     *)
THEOREM SlotsAreDistinct ==
    ASSUME NEW C \in SUBSET Nat, IsFiniteSet(C), NEW i \in C, NEW j \in C,
           i < j
    PROVE  SlotIn(C, i) < SlotIn(C, j)
<1> DEFINE A == {k \in C : k < i}
           B == {k \in C : k < j}
<1>1. A \subseteq B /\ i \in B /\ i \notin A
  <2>1. i \in Nat /\ j \in Nat /\ \A k \in C : k \in Nat
    OBVIOUS
  <2>2. (\A k \in C : k < i => k < j) /\ ~ (i < i)
    BY <2>1
  <2> QED
    BY <2>2
<1>2. IsFiniteSet(B)
  BY FS_Subset
<1>3. /\ IsFiniteSet(A)
      /\ Cardinality(A) <= Cardinality(B)
      /\ Cardinality(B) = Cardinality(A) => B = A
  BY <1>1, <1>2, FS_Subset
<1>4. Cardinality(A) # Cardinality(B)
  BY <1>1, <1>3
<1>5. Cardinality(A) \in Nat /\ Cardinality(B) \in Nat
  BY <1>2, <1>3, FS_CardinalityType
<1> HIDE DEF A, B
<1>6. Cardinality(A) < Cardinality(B)
  BY <1>3, <1>4, <1>5
<1> QED
  BY <1>6 DEF SlotIn, A, B

(* What an election over the candidates of this element yields: the facts  *)
(* the outputs rest on.                                                    *)
LEMMA CandidatesFacts ==
    ASSUME NEW t
    PROVE  /\ Candidates(t) \subseteq Elements
           /\ Candidates(t) \in SUBSET Nat
           /\ Self \in Candidates(t)
           /\ IsFiniteSet(Candidates(t))
<1>1. FreshPeers(t) \subseteq Peers
  BY DEF FreshPeers, Known
<1>2. IsFiniteSet(Elements)
  BY ScrAssumption, FS_AddElement DEF Elements
<1>3. Candidates(t) \subseteq Elements /\ Self \in Candidates(t)
  BY <1>1 DEF Candidates, Elements
<1> QED
  BY <1>2, <1>3, ScrAssumption, FS_Subset DEF Elements

LEMMA SlotFacts ==
    ASSUME NEW C \in SUBSET Nat, IsFiniteSet(C), NEW i \in C
    PROVE  /\ SlotIn(C, i) \in Nat
           /\ Cardinality(C) \in Nat
           /\ SlotIn(C, i) < Cardinality(C)
           /\ SlotIn(C, i) = 0 <=> i = Lowest(C)
<1> DEFINE A == {k \in C : k < i}
<1>0. \A k \in C : k \in Nat
  OBVIOUS
<1>1. A \subseteq C /\ i \notin A
  BY <1>0
<1>2. /\ IsFiniteSet(A)
      /\ Cardinality(A) <= Cardinality(C)
      /\ Cardinality(C) = Cardinality(A) => C = A
  BY <1>1, FS_Subset
<1>3. Cardinality(A) \in Nat /\ Cardinality(C) \in Nat
  BY <1>2, FS_CardinalityType
<1>4. Cardinality(A) # Cardinality(C)
  BY <1>1, <1>2
<1>5. Cardinality(A) = 0 <=> A = {}
  BY <1>2, FS_EmptySet
<1>6. A = {} <=> i = Lowest(C)
  <2> DEFINE m == Lowest(C)
  <2>1. m \in C /\ \A j \in C : m <= j
    BY LowestIsLowest
  <2> HIDE DEF m
  <2>2. ASSUME i = m PROVE \A k \in C : ~ (k < i)
    BY <1>0, <2>1, <2>2
  <2>3. ASSUME \A k \in C : ~ (k < i) PROVE i = m
    BY <1>0, <2>1, <2>3
  <2> QED
    BY <2>2, <2>3 DEF m
<1> HIDE DEF A
<1>7. Cardinality(A) < Cardinality(C)
  BY <1>2, <1>3, <1>4
<1> QED
  BY <1>3, <1>5, <1>6, <1>7 DEF SlotIn, A

-----------------------------------------------------------------------------
(* The table *)

LEMMA AgeType == TableTypeOK /\ Age => TableTypeOK'
<1> SUFFICES ASSUME TableTypeOK, Age PROVE TableTypeOK'
  OBVIOUS
<1>1. \A row \in Row : Aged(row) \in Row
  BY AgesAssumption DEF Row, Aged
<1> QED
  BY <1>1 DEF TableTypeOK, Age, Older

LEMMA AcceptType ==
    ASSUME TableTypeOK, NEW p \in Peers, NEW d \in BOOLEAN, Accept(p, d)
    PROVE  TableTypeOK'
<1>1. [known |-> TRUE, age |-> 0, departed |-> d] \in Row
  BY AgesAssumption DEF Row
<1> QED
  BY <1>1 DEF TableTypeOK, Accept

-----------------------------------------------------------------------------
(* The inductive invariant *)

IInv ==
    /\ TypeOK
    /\ AbortAgreesWithQuorum
    /\ NoPartialCredit
    /\ ElectionConsistent

LEMMA RawQuorumType == ASSUME NEW t PROVE RawQuorum(t) \in Quorums
BY DEF RawQuorum, Quorums

LEMMA InitIInv == Init => IInv
<1> SUFFICES ASSUME Init PROVE IInv
  OBVIOUS
<1>1. TypeOK
  BY AgesAssumption, ScrAssumption
  DEF Init, TypeOK, TableInit, TableTypeOK, Row, NeverHeard, Quorums, Aborts, Roles
<1>2. AbortAgreesWithQuorum /\ NoPartialCredit /\ ElectionConsistent
  BY ScrAssumption DEF Init, AbortAgreesWithQuorum, NoPartialCredit, ElectionConsistent
<1> QED
  BY <1>1, <1>2 DEF IInv

(* The hold: what one cycle makes of the recovery counter. *)
LEMMA CycleRecovery ==
    ASSUME IInv, NEW t, ScrTick(t)
    PROVE  /\ recovery' \in 0..HoldTicks
           /\ quorum' \in Quorums
           /\ NoPartialCredit'
<1>1. RawQuorum(t) \in Quorums
  BY RawQuorumType
<1> DEFINE raw == RawQuorum(t)
<1>2. recovery' = RecoveryAfter(raw) /\ quorum' = Reported(raw)
  BY DEF ScrTick
<1> HIDE DEF raw
<1>3. raw \in Quorums
  BY <1>1 DEF raw
<1>4. recovery \in 0..HoldTicks /\ quorum \in Quorums
  BY DEF IInv, TypeOK
<1>5. NoPartialCredit
  BY DEF IInv
<1> QED
  BY <1>2, <1>3, <1>4, <1>5, ScrAssumption
  DEF RecoveryAfter, Reported, Recovering, Counted, NoPartialCredit, Quorums

LEMMA CycleAbort ==
    ASSUME IInv, NEW t, ScrTick(t)
    PROVE  /\ abort' \in Aborts
           /\ AbortAgreesWithQuorum'
<1>1. abort' = AbortAfter(quorum')
  BY DEF ScrTick
<1>2. abort \in Aborts
  BY DEF IInv, TypeOK
<1>3. AbortAgreesWithQuorum
  BY DEF IInv
<1> QED
  BY <1>1, <1>2, <1>3 DEF AbortAfter, Aborts, AbortAgreesWithQuorum

LEMMA CycleElection ==
    ASSUME IInv, NEW t, ScrTick(t)
    PROVE  /\ leader' \in Elements \cup {NoLeader}
           /\ slot' \in Nat /\ size' \in Nat /\ role' \in Roles
           /\ ElectionConsistent'
<1>1. CASE quorum' = "LOST"
  <2>1. NoElection
    BY <1>1 DEF ScrTick
  <2> QED
    BY <1>1, <2>1 DEF NoElection, Roles, ElectionConsistent
<1>2. CASE quorum' # "LOST"
  <2> DEFINE C == Candidates(t)
  <2>1. Elect(C)
    BY <1>2 DEF ScrTick
  <2>2. /\ C \subseteq Elements /\ C \in SUBSET Nat
        /\ Self \in C /\ IsFiniteSet(C)
    BY CandidatesFacts
  <2> HIDE DEF C
  <2>3. Lowest(C) \in C
    BY <2>2, LowestIsLowest
  <2>4. /\ SlotIn(C, Self) \in Nat /\ Cardinality(C) \in Nat
        /\ SlotIn(C, Self) < Cardinality(C)
        /\ SlotIn(C, Self) = 0 <=> Self = Lowest(C)
    BY <2>2, SlotFacts
  <2>5. FollowerRole \in Roles /\ FollowerRole # "LEADER"
    BY DEF FollowerRole, Roles
  <2>6. Lowest(C) # NoLeader /\ Lowest(C) \in Elements
    BY <2>2, <2>3, ScrAssumption DEF Elements
  <2>7. leader' = Lowest(C) /\ slot' = SlotIn(C, Self) /\ size' = Cardinality(C)
    BY <2>1 DEF Elect
  <2>8. role' = IF Lowest(C) = Self THEN "LEADER" ELSE FollowerRole
    BY <2>1 DEF Elect
  <2>9. role' \in Roles /\ ((leader' = Self) <=> (role' = "LEADER"))
    BY <2>5, <2>7, <2>8 DEF Roles
  <2> QED
    BY <1>2, <2>4, <2>6, <2>7, <2>9 DEF ElectionConsistent
<1> QED
  BY <1>1, <1>2

LEMMA StepIInv == IInv /\ [Next]_vars => IInv'
<1> SUFFICES ASSUME IInv, [Next]_vars PROVE IInv'
  OBVIOUS
<1>1. CASE Cycle
  <2>1. ScrTick(table') /\ Age /\ UNCHANGED anomalies
    BY <1>1 DEF Cycle
  <2>2. TableTypeOK'
    BY <2>1, AgeType DEF IInv, TypeOK
  <2>3. anomalies' \subseteq Peers
    BY <2>1 DEF IInv, TypeOK
  <2> QED
    BY <2>1, <2>2, <2>3, CycleRecovery, CycleAbort, CycleElection DEF IInv, TypeOK
<1>2. ASSUME UNCHANGED scr, TableTypeOK', anomalies' \subseteq Peers
      PROVE  IInv'
  BY <1>2 DEF IInv, TypeOK, scr, AbortAgreesWithQuorum, NoPartialCredit,
              ElectionConsistent
<1>3. ASSUME NEW p \in Peers, NEW d \in BOOLEAN, Hear(p, d)
      PROVE  IInv'
  <2>1. TableTypeOK'
    BY <1>3, AcceptType DEF Hear, IInv, TypeOK
  <2> QED
    BY <1>2, <1>3, <2>1 DEF Hear, IInv, TypeOK
<1>4. ASSUME NEW p \in Peers, ReportAnomaly(p) \/ ClearAnomaly(p)
      PROVE  IInv'
  BY <1>2, <1>4 DEF ReportAnomaly, ClearAnomaly, IInv, TypeOK, TableTypeOK
<1>5. CASE ClearAllAnomalies
  BY <1>2, <1>5 DEF ClearAllAnomalies, IInv, TypeOK, TableTypeOK
<1>6. CASE UNCHANGED vars
  BY <1>2, <1>6 DEF vars, IInv, TypeOK, TableTypeOK
<1> QED
  BY <1>1, <1>3, <1>4, <1>5, <1>6 DEF Next

LEMMA Invariance == Spec => []IInv
BY InitIInv, StepIInv, PTL DEF Spec

(* The type invariant. *)
THEOREM TypeCorrect == Spec => []TypeOK
<1>1. IInv => TypeOK
  BY DEF IInv
<1> QED
  BY Invariance, <1>1, PTL

(* A raised abort means a lost quorum, an all-clear a recovered one.       *)
THEOREM AbortAgrees == Spec => []AbortAgreesWithQuorum
<1>1. IInv => AbortAgreesWithQuorum
  BY DEF IInv
<1> QED
  BY Invariance, <1>1, PTL

(* Leader, slot, size and role are always those of one election.           *)
THEOREM ElectionIsConsistent == Spec => []ElectionConsistent
<1>1. IInv => ElectionConsistent
  BY DEF IInv
<1> QED
  BY Invariance, <1>1, PTL

(* The recovery timer holds no credit outside a pending recovery.          *)
THEOREM RecoveryHasNoCredit == Spec => []NoPartialCredit
<1>1. IInv => NoPartialCredit
  BY DEF IInv
<1> QED
  BY Invariance, <1>1, PTL

-----------------------------------------------------------------------------
(* The abort protocol and the abstract signal *)

(* What the invariant leaves of the abort signal while quorum is lost.     *)
LEMMA LostAbort == IInv /\ quorum = "LOST" => abort \in {"NONE", "TRIGGERED"}
BY DEF IInv, TypeOK, Aborts, AbortAgreesWithQuorum

LEMMA StepAbortPaired ==
    ASSUME IInv, ScrTick(table')
    PROVE  /\ quorum # "LOST" /\ quorum' = "LOST" => abort' = "TRIGGERED"
           /\ abort # "CLEARED" /\ abort' = "CLEARED" <=>
                 abort = "TRIGGERED" /\ abort' # "TRIGGERED"
           /\ abort' = "CLEARED" => quorum = "LOST" /\ quorum' # "LOST"
<1>1. abort' = AbortAfter(quorum')
  BY DEF ScrTick
<1>2. abort \in Aborts /\ AbortAgreesWithQuorum
  BY DEF IInv, TypeOK
<1> QED
  BY <1>1, <1>2 DEF AbortAfter, Aborts, AbortAgreesWithQuorum

(* Every loss raises an abort in its cycle; every all-clear answers one.   *)
THEOREM AbortsArePaired == Spec => AbortPaired
<1>1. ASSUME IInv, [Next]_vars
      PROVE  [/\ quorum # "LOST" /\ quorum' = "LOST" => abort' = "TRIGGERED"
              /\ abort # "CLEARED" /\ abort' = "CLEARED" <=>
                    abort = "TRIGGERED" /\ abort' # "TRIGGERED"
              /\ abort' = "CLEARED" => quorum = "LOST" /\ quorum' # "LOST"
             ]_<<quorum, recovery, abort>>
  <2>1. CASE Cycle
    BY <1>1, <2>1, StepAbortPaired DEF Cycle
  <2>2. CASE ~ Cycle
    <3>1. UNCHANGED scr
      BY <1>1, <2>2
      DEF Next, vars, ClearAllAnomalies, ReportAnomaly, ClearAnomaly, Hear
    <3> QED
      BY <3>1 DEF scr
  <2> QED
    BY <2>1, <2>2
<1> QED
  BY <1>1, Invariance, PTL DEF Spec, AbortPaired

(* A cycle is one reading of the signal: good when the raw quorum is not   *)
(* lost, bad otherwise.                                                    *)
LEMMA CycleIsReading ==
    ASSUME IInv, NEW t, ScrTick(t)
    PROVE  IF RawQuorum(t) = "LOST" THEN Signal!Bad ELSE Signal!Good
<1> DEFINE raw == RawQuorum(t)
<1>1. /\ recovery' = RecoveryAfter(raw)
      /\ quorum' = Reported(raw)
      /\ abort' = AbortAfter(quorum')
  BY DEF ScrTick
<1>2. /\ recovery \in 0..HoldTicks
      /\ quorum \in Quorums
      /\ NoPartialCredit
      /\ quorum = "LOST" => abort \in {"NONE", "TRIGGERED"}
  BY LostAbort DEF IInv, TypeOK
<1> HIDE DEF raw
<1>3. ASSUME raw = "LOST"
      PROVE  Signal!Bad
  <2>1. quorum' = "LOST" /\ recovery' = 0
    BY <1>1, <1>2, <1>3, ScrAssumption
    DEF RecoveryAfter, Reported, Recovering
  <2>2. (quorum' # "LOST" \/ abort' = "TRIGGERED") = (quorum # "LOST" \/ abort = "TRIGGERED")
    BY <1>1, <1>2, <2>1 DEF AbortAfter
  <2> QED
    BY <2>1, <2>2 DEF Signal!Bad
<1>4. ASSUME raw # "LOST" /\ quorum # "LOST"
      PROVE  Signal!Good
  <2>1. quorum' # "LOST"
    BY <1>1, <1>4 DEF Reported, Recovering
  <2>2. Need \in Nat
    BY ScrAssumption DEF Need
  <2> QED
    BY <1>4, <2>1, <2>2 DEF Signal!Good
<1>5. ASSUME raw # "LOST" /\ quorum = "LOST" /\ quorum' = "LOST"
      PROVE  Signal!Good
  <2>1. HoldTicks > 0 /\ recovery + 1 < HoldTicks /\ recovery' = recovery + 1
    BY <1>1, <1>2, <1>5, ScrAssumption
    DEF Reported, Recovering, RecoveryAfter, Counted
  <2>2. Need = HoldTicks /\ recovery < Need /\ recovery' # Need
    BY <1>2, <2>1, ScrAssumption DEF Need
  <2>3. (abort' = "TRIGGERED") = (abort = "TRIGGERED")
    BY <1>1, <1>2, <1>5 DEF AbortAfter
  <2> QED
    BY <1>5, <2>1, <2>2, <2>3 DEF Signal!Good
<1>6. ASSUME raw # "LOST" /\ quorum = "LOST" /\ quorum' # "LOST"
      PROVE  Signal!Good
  <2>1. HoldTicks = 0 \/ ~ (Counted < HoldTicks)
    BY <1>1, <1>2, <1>6, ScrAssumption DEF Reported, Recovering
  <2>2. (IF recovery < Need THEN recovery + 1 ELSE Need) = Need
    BY <1>2, <1>6, <2>1, ScrAssumption DEF Need, NoPartialCredit, Counted
  <2> QED
    BY <1>6, <2>2 DEF Signal!Good
<1> QED
  BY <1>3, <1>4, <1>5, <1>6 DEF raw

(* Every cycle is a reading: nothing good or bad is skipped or kept.       *)
THEOREM CyclesAreReadings == Spec => EveryCycleReads
<1>1. IInv /\ [Next]_vars =>
         [Cycle => IF RawQuorum(table') = "LOST" THEN Signal!Bad ELSE Signal!Good]_vars
  BY CycleIsReading DEF Cycle
<1> QED
  BY <1>1, Invariance, PTL DEF Spec, EveryCycleReads

(* The code implements the promised signal, whatever the hold, and every   *)
(* cycle is a reading of it.                                               *)
THEOREM SignalIsImplemented == Spec => ImplementsSignal
<1>1. Init => Signal!SignalInit
  BY DEF Init, Signal!SignalInit
<1>2. ASSUME IInv, [Next]_vars
      PROVE  [Signal!SignalNext]_<<IF quorum = "LOST" THEN recovery ELSE Need,
                                   quorum # "LOST" \/ abort = "TRIGGERED">>
  <2>1. CASE Cycle
    BY <1>2, <2>1, CycleIsReading DEF Cycle, Signal!SignalNext
  <2>2. CASE ~ Cycle
    <3>1. UNCHANGED scr
      BY <1>2, <2>2
      DEF Next, vars, ClearAllAnomalies, ReportAnomaly, ClearAnomaly, Hear
    <3> QED
      BY <3>1 DEF scr
  <2> QED
    BY <2>1, <2>2
<1> QED
  BY <1>1, <1>2, Invariance, CyclesAreReadings, PTL
  DEF Spec, ImplementsSignal, Signal!SignalSpec

-----------------------------------------------------------------------------
(* The runtime *)

LEMMA StepIsScr == [RuntimeNext]_runtimeVars => [Next]_vars
<1> SUFFICES ASSUME [RuntimeNext]_runtimeVars PROVE [Next]_vars
  OBVIOUS
<1>1. CASE Tick
  BY <1>1 DEF Tick, Next
<1>2. CASE Between
  BY <1>2 DEF Between, Next
<1>3. ASSUME NEW s \in Powers, PowerRequest(s) PROVE [Next]_vars
  BY <1>3 DEF PowerRequest
<1>4. CASE UNCHANGED runtimeVars
  BY <1>4 DEF runtimeVars
<1> QED
  BY <1>1, <1>2, <1>3, <1>4 DEF RuntimeNext

(* The loop around the coordination cycle leaves the cycle as it is: what  *)
(* is proved of L5 holds in the element that runs it.                      *)
THEOREM RuntimeIsScr == RuntimeSpec => Spec
<1>1. RuntimeInit => Init
  BY DEF RuntimeInit
<1> QED
  BY <1>1, StepIsScr, PTL DEF RuntimeSpec, Spec

-----------------------------------------------------------------------------
(* The edge detector of step 4b remembers the abort signal of the last     *)
(* tick, and L5 changes it in a tick only.                                 *)
EdgeInv == IInv /\ lastAbort = abort

LEMMA InitEdgeInv == RuntimeInit => EdgeInv
BY InitIInv DEF RuntimeInit, EdgeInv, Init

LEMMA StepEdgeInv == EdgeInv /\ [RuntimeNext]_runtimeVars => EdgeInv'
<1> SUFFICES ASSUME EdgeInv, [RuntimeNext]_runtimeVars PROVE EdgeInv'
  OBVIOUS
<1>1. IInv'
  BY StepIsScr, StepIInv DEF EdgeInv
<1>2. lastAbort' = abort'
  <2>1. CASE Tick
    BY <2>1 DEF Tick
  <2>2. CASE Between
    BY <2>2 DEF Between, loop, scr, EdgeInv, ReportAnomaly, ClearAnomaly,
                ClearAllAnomalies, Hear
  <2>3. ASSUME NEW s \in Powers, PowerRequest(s) PROVE lastAbort' = abort'
    BY <2>3 DEF PowerRequest, vars, scr, EdgeInv
  <2>4. CASE UNCHANGED runtimeVars
    BY <2>4 DEF runtimeVars, vars, loop, scr, EdgeInv
  <2> QED
    BY <2>1, <2>2, <2>3, <2>4 DEF RuntimeNext
<1> QED
  BY <1>1, <1>2 DEF EdgeInv

LEMMA EdgeInvariance == RuntimeSpec => []EdgeInv
BY InitEdgeInv, StepEdgeInv, PTL DEF RuntimeSpec

LEMMA TickAnnounces ==
    ASSUME EdgeInv, Tick
    PROVE  sent' = "HARD_RT" <=> (quorum # "LOST" /\ quorum' = "LOST")
<1>1. abort' = AbortAfter(quorum')
  BY DEF Tick, Cycle, ScrTick
<1>2. abort \in Aborts /\ AbortAgreesWithQuorum /\ lastAbort = abort
  BY DEF EdgeInv, IInv, TypeOK
<1>3. AbortEdge <=> (quorum # "LOST" /\ quorum' = "LOST")
  BY <1>1, <1>2 DEF AbortEdge, AbortAfter, Aborts, AbortAgreesWithQuorum
<1>4. sent' = "HARD_RT" <=> AbortEdge
  BY DEF Tick, Gossip
<1> QED
  BY <1>3, <1>4

(* One HARD_RT frame per loss of a held quorum, and none for anything      *)
(* else, for every hold, threshold and interval.                           *)
THEOREM LossIsAnnouncedOnce == RuntimeSpec => OneAnnouncementPerLoss
<1>1. ASSUME EdgeInv, [RuntimeNext]_runtimeVars
      PROVE  [Tick => (sent' = "HARD_RT" <=> (quorum # "LOST" /\ quorum' = "LOST"))]_runtimeVars
  BY <1>1, TickAnnounces
<1> QED
  BY <1>1, EdgeInvariance, PTL DEF RuntimeSpec, OneAnnouncementPerLoss

-----------------------------------------------------------------------------
(* Type correctness of the loop. *)
LoopTypeOK ==
    /\ lastLeader \in Elements \cup {NoLeader}
    /\ accum \in 0..(GossipTicks - 1)
    /\ sent \in {"NOTHING", "SOFT_RT", "HARD_RT"}
    /\ counted \in BOOLEAN
    /\ power \in Powers
    /\ lost \in 0..GraceTicks

TypeInv == EdgeInv /\ LoopTypeOK

LEMMA StepTypeInv == TypeInv /\ [RuntimeNext]_runtimeVars => TypeInv'
<1> SUFFICES ASSUME TypeInv, [RuntimeNext]_runtimeVars PROVE TypeInv'
  OBVIOUS
<1>1. EdgeInv'
  BY StepEdgeInv DEF TypeInv
<1>2. TypeOK'
  BY <1>1 DEF EdgeInv, IInv
<1>3. LoopTypeOK'
  <2>1. CASE Tick
    <3>1. accum' \in 0..(GossipTicks - 1) /\ sent' \in {"NOTHING", "SOFT_RT", "HARD_RT"}
      <4>1. GossipTicks \in Nat /\ GossipTicks > 1
        BY RuntimeAssumption
      <4>2. accum \in Nat
        BY <4>1 DEF TypeInv, LoopTypeOK
      <4> QED
        BY <2>1, <4>1, <4>2 DEF Tick, Gossip
    <3>2. lastLeader' \in Elements \cup {NoLeader} /\ counted' \in BOOLEAN
      BY <1>2, <2>1 DEF Tick, TrackLeader, TypeOK
    <3>3. lost' \in 0..GraceTicks
      <4>1. lost \in 0..GraceTicks /\ GraceTicks \in Nat
        BY RuntimeAssumption DEF TypeInv, LoopTypeOK
      <4> QED
        BY <2>1, <4>1 DEF Tick, PowerTick, LostAfter
    <3>4. power' \in Powers
      BY <2>1 DEF Tick, PowerTick, PowerAfter, TypeInv, LoopTypeOK, Powers
    <3> QED
      BY <3>1, <3>2, <3>3, <3>4 DEF LoopTypeOK
  <2>2. CASE Between
    BY <2>2 DEF Between, loop, TypeInv, LoopTypeOK
  <2>3. ASSUME NEW s \in Powers, PowerRequest(s) PROVE LoopTypeOK'
    BY <2>3 DEF PowerRequest, TypeInv, LoopTypeOK
  <2>4. CASE UNCHANGED runtimeVars
    BY <2>4 DEF runtimeVars, loop, TypeInv, LoopTypeOK
  <2> QED
    BY <2>1, <2>2, <2>3, <2>4 DEF RuntimeNext
<1> QED
  BY <1>1, <1>3 DEF TypeInv

LEMMA TypeInvariance == RuntimeSpec => []TypeInv
<1>1. RuntimeInit => TypeInv
  <2> SUFFICES ASSUME RuntimeInit PROVE TypeInv
    OBVIOUS
  <2>1. GossipTicks \in Nat /\ GossipTicks > 1 /\ GraceTicks \in Nat
    BY RuntimeAssumption
  <2>2. accum \in 0..(GossipTicks - 1) /\ lost \in 0..GraceTicks
    BY <2>1 DEF RuntimeInit
  <2>3. counted \in BOOLEAN
    BY DEF RuntimeInit
  <2>4. lastLeader \in Elements \cup {NoLeader} /\ power \in Powers
        /\ sent \in {"NOTHING", "SOFT_RT", "HARD_RT"}
    BY DEF RuntimeInit, Powers
  <2> QED
    BY <2>2, <2>3, <2>4, InitEdgeInv DEF TypeInv, LoopTypeOK
<1> QED
  BY <1>1, StepTypeInv, PTL DEF RuntimeSpec

THEOREM RuntimeTypeCorrect == RuntimeSpec => []RuntimeTypeOK
<1>1. TypeInv => RuntimeTypeOK
  BY DEF TypeInv, LoopTypeOK, EdgeInv, IInv, TypeOK, RuntimeTypeOK
<1> QED
  BY <1>1, TypeInvariance, PTL

(* The policy and the application share the power state without undoing    *)
(* one another.                                                            *)
THEOREM PowerIsShared == RuntimeSpec => PowerFollowsQuorum
<1>1. ASSUME TypeInv, Tick
      PROVE  /\ quorum' # "LOST" => power' # "IDLE"
             /\ lost' = GraceTicks => power' # "ACTIVE"
             /\ quorum' # "LOST" => lost' = 0
             /\ power \in {"SLEEP", "HARVEST"} => power' = power
  <2>1. lost' = LostAfter /\ power' = PowerAfter /\ power \in Powers
    BY <1>1 DEF Tick, PowerTick, TypeInv, LoopTypeOK
  <2>2. GraceTicks \in Nat /\ GraceTicks > 0 /\ lost \in Nat
    BY <1>1, RuntimeAssumption DEF TypeInv, LoopTypeOK
  <2> QED
    BY <2>1, <2>2 DEF PowerAfter, LostAfter, Powers
<1>2. ASSUME TypeInv, [RuntimeNext]_runtimeVars
      PROVE  [Tick => /\ quorum' # "LOST" => power' # "IDLE"
                      /\ lost' = GraceTicks => power' # "ACTIVE"
                      /\ quorum' # "LOST" => lost' = 0
                      /\ power \in {"SLEEP", "HARVEST"} => power' = power]_runtimeVars
  BY <1>1, <1>2
<1> QED
  BY <1>2, TypeInvariance, PTL DEF RuntimeSpec, PowerFollowsQuorum
=============================================================================
