-------------------------- MODULE WorldModelProofs --------------------------
(***************************************************************************)
(* Proofs about WorldModel, for every set of peers, ages, radio delay and  *)
(* bound: how many boots, how long the clocks, how full the radio.         *)
(***************************************************************************)
EXTENDS WorldModel, FiniteSetTheorems, TLAPS

(* What the radio may still hold of a peer.  A frame of the running life   *)
(* carries no later clock than the peer's; a frame of a life that is over  *)
(* has less delay to spend than its sender has been gone.                  *)
Past(p, l) == ~ up[p] \/ l # life[p]

FramesBehind ==
    \A f \in radio :
        /\ f.life <= life[f.src]
        /\ f.life = life[f.src] => f.clk <= clock[f.src]
        /\ Past(f.src, f.life) => ended[f.src] + f.left <= MaxDelay

(* The same of what the owner holds: an active entry of a life that is     *)
(* over is at least as old as its sender has been gone, but for the delay. *)
EntriesBehind ==
    \A p \in Peers : entries[p].known =>
        /\ entries[p].life <= life[p]
        /\ entries[p].active /\ Past(p, entries[p].life)
              => ended[p] <= entries[p].age + MaxDelay

IInv ==
    /\ TypeOK /\ FlagsFollowAge /\ ClockLead /\ MetricConservative
    /\ FramesBehind /\ EntriesBehind

-----------------------------------------------------------------------------
(* The operators *)

(* The metric's counts are counts.                                         *)
LEMMA MetricType ==
    ASSUME NEW E
    PROVE  Metric(E) \in [fresh: Nat, stale: Nat, inactive: Nat, degraded: BOOLEAN]
<1> DEFINE A == {p \in Peers : E[p].known /\ E[p].active}
           F == {p \in A : ~E[p].stale}
           I == {p \in Peers : E[p].known /\ ~E[p].active}
<1>1. IsFiniteSet(A) /\ IsFiniteSet(I)
  BY FS_Subset, WorldModelAssumption
<1>2. IsFiniteSet(F) /\ Cardinality(F) <= Cardinality(A)
  BY <1>1, FS_Subset
<1>3. Cardinality(A) \in Nat /\ Cardinality(F) \in Nat /\ Cardinality(I) \in Nat
  BY <1>1, <1>2, FS_CardinalityType
<1>4. Metric(E) = [fresh |-> Cardinality(F), stale |-> Cardinality(A) - Cardinality(F),
                   inactive |-> Cardinality(I),
                   degraded |-> Cardinality(A) > 0 /\
                        2 * BiasDen * Cardinality(F) < BiasNum * Cardinality(A)]
  BY DEF Metric
<1> HIDE DEF A, F, I
<1>5. Cardinality(A) - Cardinality(F) \in Nat
  BY <1>2, <1>3
<1> QED
  BY <1>3, <1>4, <1>5

(* An entry that becomes fresh between two ticks never makes the metric    *)
(* worse: as many fresh ones or more, and degraded only if it was before.  *)
(* This rests on consistency_bias being a fraction of at most one.         *)
LEMMA BiasArithmetic ==
    ASSUME NEW f \in Nat, NEW a \in Nat,
           2 * BiasDen * (f + 1) < BiasNum * (a + 1)
    PROVE  a > 0 /\ 2 * BiasDen * f < BiasNum * a
<1>1. BiasNum \in Nat /\ BiasDen \in Nat /\ BiasDen > 0 /\ BiasNum <= BiasDen
  BY WorldModelAssumption
<1> DEFINE df == BiasDen * f
           na == BiasNum * a
<1>2. df \in Nat /\ na \in Nat
  BY <1>1
<1>3. 2 * BiasDen * (f + 1) = 2 * df + 2 * BiasDen /\ 2 * BiasDen * f = 2 * df
  BY <1>1
<1>4. BiasNum * (a + 1) = na + BiasNum
  BY <1>1
<1>5. a = 0 => na = 0
  BY <1>1
<1> HIDE DEF df, na
<1>6. 2 * df < na
  BY <1>1, <1>2, <1>3, <1>4
<1> QED
  BY <1>2, <1>3, <1>5, <1>6 DEF na

LEMMA MetricGrows ==
    ASSUME NEW E, NEW D, NEW p \in Peers,
           \A q \in Peers : q # p => D[q] = E[q],
           D[p].known, D[p].active, ~ D[p].stale
    PROVE  /\ Metric(E).fresh <= Metric(D).fresh
           /\ Metric(D).inactive <= Metric(E).inactive
           /\ Metric(D).degraded => Metric(E).degraded
<1> DEFINE A(X) == {q \in Peers : X[q].known /\ X[q].active}
           F(X) == {q \in A(X) : ~X[q].stale}
           I(X) == {q \in Peers : X[q].known /\ ~X[q].active}
           deg(X) == Cardinality(A(X)) > 0 /\
                     2 * BiasDen * Cardinality(F(X)) < BiasNum * Cardinality(A(X))
<1>1. ASSUME NEW X
      PROVE  /\ Metric(X).fresh = Cardinality(F(X))
             /\ Metric(X).inactive = Cardinality(I(X))
             /\ Metric(X).degraded <=> deg(X)
  BY DEF Metric
<1>2. /\ A(D) = A(E) \cup {p} /\ F(D) = F(E) \cup {p}
      /\ I(D) \subseteq I(E) /\ F(E) \subseteq A(E)
  OBVIOUS
<1>3. IsFiniteSet(A(E)) /\ IsFiniteSet(F(E)) /\ IsFiniteSet(I(E))
  <2>1. A(E) \subseteq Peers /\ F(E) \subseteq Peers /\ I(E) \subseteq Peers
    OBVIOUS
  <2> QED
    BY <2>1, FS_Subset, WorldModelAssumption
<1> DEFINE aE == Cardinality(A(E))
           fE == Cardinality(F(E))
<1> HIDE DEF A, F, I
<1>4. aE \in Nat /\ fE \in Nat
  BY <1>3, FS_CardinalityType
<1>5. /\ Cardinality(A(D)) = IF p \in A(E) THEN aE ELSE aE + 1
      /\ Cardinality(F(D)) = IF p \in F(E) THEN fE ELSE fE + 1
  BY <1>2, <1>3, FS_AddElement
<1>6. Cardinality(I(D)) <= Cardinality(I(E))
  BY <1>2, <1>3, FS_Subset
<1> HIDE DEF aE, fE
<1>7. fE <= Cardinality(F(D))
  BY <1>4, <1>5
<1>8. ASSUME deg(D) PROVE deg(E)
  <2>1. CASE p \in F(E)
    BY <1>2, <1>5, <1>8, <2>1 DEF aE, fE
  <2>2. CASE p \notin F(E) /\ p \in A(E)
    <3>1. 2 * BiasDen * (fE + 1) < BiasNum * aE /\ aE > 0
      BY <1>5, <1>8, <2>2
    <3>2. 2 * BiasDen * (fE + 1) = 2 * BiasDen * fE + 2 * BiasDen
          /\ 2 * BiasDen * fE \in Nat /\ 2 * BiasDen \in Nat /\ BiasNum * aE \in Nat
      BY <1>4, WorldModelAssumption
    <3>3. 2 * BiasDen * fE < BiasNum * aE
      BY <3>1, <3>2
    <3> QED
      BY <3>1, <3>3 DEF aE, fE
  <2>3. CASE p \notin F(E) /\ p \notin A(E)
    <3>1. 2 * BiasDen * (fE + 1) < BiasNum * (aE + 1)
      BY <1>5, <1>8, <2>3
    <3>2. aE > 0 /\ 2 * BiasDen * fE < BiasNum * aE
      BY <1>4, <3>1, BiasArithmetic
    <3> QED
      BY <3>2 DEF aE, fE
  <2> QED
    BY <2>1, <2>2, <2>3
<1> HIDE DEF deg
<1> QED
  BY <1>1, <1>6, <1>7, <1>8 DEF fE

(* Receiving: the entry that replaces e is fresh, of the frame's life, and *)
(* one ahead of the frame's clock.                                         *)
LEMMA ReceivedFacts ==
    ASSUME NEW e \in Entry, NEW f \in Frame, Accepts(e, f)
    PROVE  /\ Received(e, f) \in Entry
           /\ Received(e, f).known /\ Received(e, f).active /\ ~ Received(e, f).stale
           /\ Received(e, f).age = 0
           /\ Received(e, f).clk = f.clk + 1
           /\ Received(e, f).life = f.life
           /\ Received(e, f).departed = f.departed
<1>1. /\ f.clk \in 1..MaxClock /\ f.life \in 1..MaxLives /\ f.departed \in BOOLEAN
      /\ e.clk \in 0..(MaxClock + 1)
  BY DEF Frame, Entry
<1>2. Larger(IF e.known /\ e.active THEN e.clk ELSE 0, f.clk) = f.clk
  BY <1>1, WorldModelAssumption DEF Larger, Accepts
<1>3. Received(e, f) = [known |-> TRUE, active |-> TRUE, stale |-> FALSE, age |-> 0,
                        clk |-> f.clk + 1, departed |-> f.departed, life |-> f.life]
  BY <1>2 DEF Received
<1> QED
  BY <1>1, <1>3, WorldModelAssumption DEF Entry

(* Ageing keeps the flags in step with the age.                            *)
LEMMA AgedFacts ==
    ASSUME NEW e \in Entry,
           e.known => (e.active <=> e.age < ExpireAge) /\ (e.stale <=> e.age >= StaleAge)
    PROVE  /\ Aged(e) \in Entry
           /\ Aged(e).known = e.known /\ Aged(e).clk = e.clk
           /\ Aged(e).life = e.life /\ Aged(e).departed = e.departed
           /\ Aged(e).known => /\ Aged(e).active <=> Aged(e).age < ExpireAge
                               /\ Aged(e).stale <=> Aged(e).age >= StaleAge
           /\ e.known /\ Aged(e).active => e.active /\ Aged(e).age = e.age + 1
           /\ Aged(e).age = IF e.known /\ e.age < ExpireAge THEN e.age + 1 ELSE e.age
<1>1. e.age \in 0..ExpireAge /\ e.known \in BOOLEAN /\ e.active \in BOOLEAN
      /\ e.stale \in BOOLEAN
  BY DEF Entry
<1>2. CASE ~ e.known \/ ~ e.active
  BY <1>1, <1>2, WorldModelAssumption DEF Aged
<1>3. CASE e.known /\ e.active
  <2> DEFINE act == e.age + 1 < ExpireAge
             old == e.stale \/ e.age + 1 >= StaleAge
  <2>1. e.age + 1 \in 0..ExpireAge /\ e.age < ExpireAge
    BY <1>1, <1>3, WorldModelAssumption
  <2>2. Aged(e) = [e EXCEPT !.age = e.age + 1, !.active = act, !.stale = old]
    BY <1>3, Zenon DEF Aged
  <2>3. act \in BOOLEAN /\ old \in BOOLEAN
    OBVIOUS
  <2>4. old <=> e.age + 1 >= StaleAge
    BY <1>1, <1>3, WorldModelAssumption
  <2>5. act <=> e.age + 1 < ExpireAge
    OBVIOUS
  <2> HIDE DEF act, old
  <2>6. /\ Aged(e) \in Entry
        /\ Aged(e).known = e.known /\ Aged(e).clk = e.clk
        /\ Aged(e).life = e.life /\ Aged(e).departed = e.departed
        /\ Aged(e).age = e.age + 1
        /\ Aged(e).active = act
        /\ Aged(e).stale = old
    BY <2>1, <2>2, <2>3 DEF Entry
  <2>7. e.known /\ e.age < ExpireAge
    BY <1>3, <2>1
  <2> QED
    BY <1>3, <2>4, <2>5, <2>6, <2>7
<1> QED
  BY <1>1, <1>2, <1>3

-----------------------------------------------------------------------------
(* The inductive invariant *)

LEMMA InitIInv == Init => IInv
<1> SUFFICES ASSUME Init PROVE IInv
  OBVIOUS
<1>1. TypeOK
  <2>1. metric \in [fresh: Nat, stale: Nat, inactive: Nat, degraded: BOOLEAN]
    BY MetricType DEF Init
  <2>2. Unpopulated \in Entry
    BY WorldModelAssumption DEF Unpopulated, Entry
  <2> QED
    BY <2>1, <2>2, WorldModelAssumption DEF Init, TypeOK
<1>2. FlagsFollowAge /\ ClockLead /\ EntriesBehind
  BY DEF Init, Unpopulated, FlagsFollowAge, ClockLead, EntriesBehind, Populated
<1>3. FramesBehind
  BY DEF Init, FramesBehind
<1>4. MetricConservative
  BY MetricType DEF Init, MetricConservative
<1> QED
  BY <1>1, <1>2, <1>3, <1>4 DEF IInv

(* What the type invariant says of one peer and one frame.                 *)
LEMMA PeerTypes ==
    ASSUME TypeOK, NEW p \in Peers
    PROVE  /\ entries[p] \in Entry /\ clock[p] \in 0..MaxClock
           /\ entries[p].clk \in 0..(MaxClock + 1) /\ entries[p].age \in 0..ExpireAge
           /\ entries[p].life \in 0..MaxLives
           /\ life[p] \in 1..MaxLives /\ ended[p] \in 0..(StaleAge + MaxDelay)
           /\ heard[p] \in Nat
BY DEF TypeOK, Entry

LEMMA FrameTypes ==
    ASSUME TypeOK, NEW f \in radio
    PROVE  /\ f \in Frame /\ f.src \in Peers /\ f.clk \in 1..MaxClock
           /\ f.life \in 1..MaxLives /\ f.left \in 0..MaxDelay
BY DEF TypeOK, Frame

(* The metric stays conservative while neither it nor the entries change.  *)
LEMMA MetricSame ==
    ASSUME MetricConservative, UNCHANGED <<entries, metric>>
    PROVE  MetricConservative'
BY DEF MetricConservative, Metric

LEMMA SendIInv ==
    ASSUME IInv, NEW p \in Peers, Send(p)
    PROVE  IInv'
<1> DEFINE new == [src |-> p, clk |-> clock[p], departed |-> gone[p],
                   life |-> life[p], left |-> MaxDelay]
<1>1. new \in Frame /\ radio' = radio \cup {new}
  BY WorldModelAssumption DEF IInv, TypeOK, Send, Frame
<1>2. UNCHANGED <<entries, metric, peerVars, history>> /\ up[p]
  BY DEF Send
<1>3. TypeOK'
  BY <1>1, <1>2 DEF IInv, TypeOK, peerVars, history
<1>4. (FlagsFollowAge /\ ClockLead /\ EntriesBehind)'
  BY <1>2 DEF IInv, FlagsFollowAge, ClockLead, EntriesBehind, Populated, Past,
              peerVars, history
<1>5. FramesBehind'
  <2>1. ASSUME NEW f \in radio'
        PROVE  /\ f.life <= life[f.src]
               /\ f.life = life[f.src] => f.clk <= clock[f.src]
               /\ Past(f.src, f.life) => ended[f.src] + f.left <= MaxDelay
    <3>1. CASE f \in radio
      BY <3>1 DEF IInv, FramesBehind
    <3>2. CASE f = new
      BY <1>2, <3>2, PeerTypes DEF IInv, Past
    <3> QED
      BY <1>1, <2>1, <3>1, <3>2
  <2> QED
    BY <1>2, <2>1 DEF FramesBehind, Past, peerVars, history
<1> QED
  BY <1>2, <1>3, <1>4, <1>5, MetricSame DEF IInv

LEMMA DepartIInv ==
    ASSUME IInv, NEW p \in Peers, Depart(p)
    PROVE  IInv'
BY MetricSame DEF Depart, IInv, TypeOK, history, FlagsFollowAge, ClockLead, FramesBehind,
       EntriesBehind, Populated, Past

LEMMA LoseIInv ==
    ASSUME IInv, NEW f \in radio, Lose(f)
    PROVE  IInv'
<1>1. radio' \subseteq radio /\ UNCHANGED <<entries, metric, peerVars, history>>
  BY DEF Lose
<1> QED
  BY <1>1, MetricSame DEF IInv, TypeOK, peerVars, history, FlagsFollowAge, ClockLead,
              FramesBehind, EntriesBehind, Populated, Past

LEMMA CrashIInv ==
    ASSUME IInv, NEW p \in Peers, Crash(p)
    PROVE  IInv'
<1>1. /\ UNCHANGED <<entries, metric, clock, life, gone, radio, caught>>
      /\ ended' = [ended EXCEPT ![p] = 0]
      /\ \A q \in Peers : q # p => (up'[q] <=> up[q]) /\ ended'[q] = ended[q]
      /\ ended'[p] = 0
  BY DEF Crash, IInv, TypeOK
<1>2. TypeOK'
  BY WorldModelAssumption DEF Crash, IInv, TypeOK
<1>3. (FlagsFollowAge /\ ClockLead)'
  BY <1>1 DEF IInv, FlagsFollowAge, ClockLead, Populated
<1>4. EntriesBehind'
  <2>1. ASSUME NEW q \in Peers, entries[q].known
        PROVE  /\ entries[q].life <= life[q]
               /\ entries[q].active /\ Past(q, entries[q].life)'
                     => ended'[q] <= entries[q].age + MaxDelay
    <3>1. CASE q = p
      BY <1>1, <2>1, <3>1, PeerTypes, WorldModelAssumption DEF IInv, EntriesBehind
    <3>2. CASE q # p
      BY <1>1, <2>1, <3>2 DEF IInv, EntriesBehind, Past
    <3> QED
      BY <3>1, <3>2
  <2> QED
    BY <1>1, <2>1 DEF EntriesBehind, Past
<1>5. FramesBehind'
  <2>1. ASSUME NEW f \in radio
        PROVE  /\ f.life <= life[f.src]
               /\ f.life = life[f.src] => f.clk <= clock[f.src]
               /\ Past(f.src, f.life)' => ended'[f.src] + f.left <= MaxDelay
    <3>1. CASE f.src = p
      BY <1>1, <3>1, FrameTypes DEF IInv, FramesBehind
    <3>2. CASE f.src # p
      BY <1>1, <3>2, FrameTypes DEF IInv, FramesBehind, Past
    <3> QED
      BY <3>1, <3>2
  <2> QED
    BY <1>1, <2>1 DEF FramesBehind, Past
<1> QED
  BY <1>1, <1>2, <1>3, <1>4, <1>5, MetricSame DEF IInv

LEMMA BootIInv ==
    ASSUME IInv, NEW p \in Peers, Boot(p)
    PROVE  IInv'
<1>1. /\ UNCHANGED <<entries, metric, radio, ended>>
      /\ ~ up[p] /\ up'[p] /\ life[p] < MaxLives /\ life'[p] = life[p] + 1
      /\ \A q \in Peers : q # p => /\ up'[q] <=> up[q]
                                   /\ life'[q] = life[q] /\ clock'[q] = clock[q]
  BY DEF Boot, IInv, TypeOK
<1>2. TypeOK'
  <2>1. life[p] + 1 \in 1..MaxLives
    BY <1>1, PeerTypes, WorldModelAssumption DEF IInv
  <2> QED
    BY <2>1, WorldModelAssumption DEF Boot, IInv, TypeOK
<1>3. FlagsFollowAge'
  BY <1>1 DEF IInv, FlagsFollowAge, Populated
<1>4. \A q \in Peers : entries[q].known => entries[q].life <= life[q]
  BY DEF IInv, EntriesBehind
<1>5. ClockLead' /\ EntriesBehind'
  <2>1. ASSUME NEW q \in Peers, entries[q].known
        PROVE  /\ entries[q].life = life'[q] => entries[q].clk <= clock'[q] + 1
               /\ entries[q].life <= life'[q]
               /\ entries[q].active /\ Past(q, entries[q].life)'
                     => ended[q] <= entries[q].age + MaxDelay
    <3>1. CASE q = p
      BY <1>1, <1>4, <2>1, <3>1, PeerTypes DEF IInv, EntriesBehind, Past
    <3>2. CASE q # p
      BY <1>1, <2>1, <3>2 DEF IInv, EntriesBehind, ClockLead, Populated, Past
    <3> QED
      BY <3>1, <3>2
  <2> QED
    BY <1>1, <2>1 DEF ClockLead, EntriesBehind, Populated, Past
<1>6. FramesBehind'
  <2>1. ASSUME NEW f \in radio
        PROVE  /\ f.life <= life'[f.src]
               /\ f.life = life'[f.src] => f.clk <= clock'[f.src]
               /\ Past(f.src, f.life)' => ended[f.src] + f.left <= MaxDelay
    <3>1. CASE f.src = p
      <4>1. f.life <= life[p] /\ Past(p, f.life)
        BY <1>1, <3>1 DEF IInv, FramesBehind, Past
      <4>2. f.life <= life'[p] /\ f.life # life'[p]
        BY <1>1, <4>1, FrameTypes, PeerTypes DEF IInv
      <4>3. ended[f.src] + f.left <= MaxDelay
        BY <3>1, <4>1 DEF IInv, FramesBehind
      <4> QED
        BY <3>1, <4>2, <4>3
    <3>2. CASE f.src # p
      BY <1>1, <3>2, FrameTypes DEF IInv, FramesBehind, Past
    <3> QED
      BY <3>1, <3>2
  <2> QED
    BY <1>1, <2>1 DEF FramesBehind, Past
<1> QED
  BY <1>1, <1>2, <1>3, <1>5, <1>6, MetricSame DEF IInv

LEMMA ReceiveIInv ==
    ASSUME IInv, NEW f \in radio, Receive(f)
    PROVE  IInv'
<1> DEFINE p == f.src
           e == Received(entries[p], f)
<1>1. f \in Frame /\ p \in Peers /\ entries[p] \in Entry
  BY FrameTypes, PeerTypes DEF IInv
<1>2. radio' \subseteq radio /\ UNCHANGED <<metric, peerVars, ended, heard>>
  BY DEF Receive
<1>3. FramesBehind'
  BY <1>2 DEF IInv, FramesBehind, Past, peerVars
<1>4. caught' \in [Peers -> BOOLEAN]
  BY <1>1 DEF Receive, IInv, TypeOK
<1>5. CASE ~ Accepts(entries[p], f)
  <2>1. UNCHANGED entries
    BY <1>5 DEF Receive
  <2> QED
    BY <1>2, <1>3, <1>4, <2>1, MetricSame
    DEF IInv, TypeOK, FlagsFollowAge, ClockLead, EntriesBehind,
        Populated, Past, peerVars
<1>6. CASE Accepts(entries[p], f)
  <2>1. /\ e \in Entry /\ e.known /\ e.active /\ ~ e.stale /\ e.age = 0
        /\ e.clk = f.clk + 1 /\ e.life = f.life
    BY <1>1, <1>6, ReceivedFacts
  <2>2. entries' = [entries EXCEPT ![p] = e]
    BY <1>6 DEF Receive
  <2> HIDE DEF e
  <2>3. entries' \in [Peers -> Entry] /\ entries'[p] = e
        /\ \A q \in Peers : q # p => entries'[q] = entries[q]
    BY <1>1, <2>1, <2>2 DEF IInv, TypeOK
  <2>4. TypeOK'
    BY <1>2, <1>4, <2>3 DEF IInv, TypeOK, peerVars
  <2>5. FlagsFollowAge'
    BY <2>1, <2>3, WorldModelAssumption DEF IInv, FlagsFollowAge, Populated
  <2>6. /\ f.life <= life[p]
        /\ f.life = life[p] => f.clk <= clock[p]
        /\ Past(p, f.life) => ended[p] <= MaxDelay
    BY FrameTypes, PeerTypes, WorldModelAssumption DEF IInv, FramesBehind
  <2>7. f.life = life[p] => f.clk + 1 <= clock[p] + 1
    BY <2>6, FrameTypes, PeerTypes DEF IInv
  <2>8. ClockLead'
    BY <1>2, <2>1, <2>3, <2>7 DEF IInv, ClockLead, Populated, peerVars
  <2>9. Past(p, e.life) => ended[p] <= e.age + MaxDelay
    BY <2>1, <2>6, WorldModelAssumption
  <2>10. EntriesBehind'
    <3>1. ASSUME NEW q \in Peers, entries'[q].known
          PROVE  /\ entries'[q].life <= life[q]
                 /\ entries'[q].active /\ Past(q, entries'[q].life)
                       => ended[q] <= entries'[q].age + MaxDelay
      <4>1. CASE q = p
        BY <2>1, <2>3, <2>6, <2>9, <4>1
      <4>2. CASE q # p
        BY <2>3, <3>1, <4>2 DEF IInv, EntriesBehind
      <4> QED
        BY <4>1, <4>2
    <3> QED
      BY <1>2, <3>1 DEF EntriesBehind, Past, peerVars
  <2>11. MetricConservative'
    <3>1. /\ Metric(entries).fresh <= Metric(entries').fresh
          /\ Metric(entries').inactive <= Metric(entries).inactive
          /\ Metric(entries').degraded => Metric(entries).degraded
      BY <1>1, <2>1, <2>3, MetricGrows
    <3>2. metric' = metric /\ Metric(entries)' = Metric(entries')
      BY <1>2 DEF Metric
    <3>3. /\ metric.fresh \in Nat /\ metric.inactive \in Nat
          /\ Metric(entries).fresh \in Nat /\ Metric(entries).inactive \in Nat
          /\ Metric(entries').fresh \in Nat /\ Metric(entries').inactive \in Nat
      BY MetricType DEF IInv, TypeOK
    <3> QED
      BY <3>1, <3>2, <3>3 DEF IInv, MetricConservative
  <2> QED
    BY <1>3, <2>4, <2>5, <2>8, <2>10, <2>11 DEF IInv
<1> QED
  BY <1>5, <1>6

LEMMA TickIInv ==
    ASSUME IInv, Tick
    PROVE  IInv'
<1>1. \A p \in Peers : entries'[p] = Aged(entries[p])
  BY DEF Tick, AgedEntries
<1>2. ASSUME NEW p \in Peers
      PROVE  /\ entries'[p] \in Entry
             /\ entries'[p].known = entries[p].known
             /\ entries'[p].clk = entries[p].clk /\ entries'[p].life = entries[p].life
             /\ entries'[p].known => /\ entries'[p].active <=> entries'[p].age < ExpireAge
                                     /\ entries'[p].stale <=> entries'[p].age >= StaleAge
             /\ entries[p].known /\ entries'[p].active
                   => entries[p].active /\ entries'[p].age = entries[p].age + 1
  <2>1. entries[p] \in Entry
    BY PeerTypes DEF IInv
  <2>2. entries[p].known => /\ entries[p].active <=> entries[p].age < ExpireAge
                            /\ entries[p].stale <=> entries[p].age >= StaleAge
    BY DEF IInv, FlagsFollowAge, Populated
  <2> QED
    BY <1>1, <2>1, <2>2, AgedFacts
<1>3. ASSUME NEW p \in Peers
      PROVE  /\ clock'[p] \in 0..MaxClock /\ clock[p] <= clock'[p]
             /\ ended'[p] \in 0..(StaleAge + MaxDelay) /\ ended'[p] <= ended[p] + 1
             /\ heard'[p] \in Nat
  <2>1. clock'[p] = IF up[p] THEN clock[p] + 1 ELSE clock[p]
    BY DEF Tick
  <2>2. ended'[p] = IF ended[p] < StaleAge + MaxDelay THEN ended[p] + 1 ELSE ended[p]
    BY DEF Tick
  <2>3. heard'[p] = IF caught[p] /\ up[p] THEN heard[p] + 1 ELSE 0
    BY DEF Tick
  <2>4. up[p] => clock[p] < MaxClock
    BY DEF Tick
  <2> QED
    BY <2>1, <2>2, <2>3, <2>4, PeerTypes, WorldModelAssumption DEF IInv
<1>4. ASSUME NEW f \in radio'
      PROVE  \E g \in radio : /\ g.left > 0 /\ f = [g EXCEPT !.left = g.left - 1]
                              /\ f \in Frame /\ f.src = g.src /\ f.life = g.life
                              /\ f.clk = g.clk /\ f.left + 1 = g.left
  <2>1. PICK g \in radio : g.left > 0 /\ f = [g EXCEPT !.left = g.left - 1]
    BY <1>4 DEF Tick
  <2>2. g \in Frame /\ g.left \in 0..MaxDelay
    BY FrameTypes DEF IInv
  <2>3. g.left - 1 \in 0..MaxDelay /\ (g.left - 1) + 1 = g.left
    BY <2>1, <2>2, WorldModelAssumption
  <2> QED
    BY <2>1, <2>2, <2>3 DEF Frame
<1>5. UNCHANGED <<up, life, gone>> /\ caught' = [p \in Peers |-> FALSE]
  BY DEF Tick
<1>6. TypeOK'
  <2>1. metric' \in [fresh: Nat, stale: Nat, inactive: Nat, degraded: BOOLEAN]
    BY MetricType DEF Tick, MetricAfterTick
  <2>2. entries' \in [Peers -> Entry]
    BY <1>1, <1>2 DEF Tick, AgedEntries
  <2>3. clock' \in [Peers -> 0..MaxClock]
    BY <1>3 DEF Tick
  <2>4. ended' \in [Peers -> 0..(StaleAge + MaxDelay)] /\ heard' \in [Peers -> Nat]
    BY <1>3 DEF Tick
  <2>5. radio' \subseteq Frame
    BY <1>4
  <2> QED
    BY <1>5, <2>1, <2>2, <2>3, <2>4, <2>5 DEF IInv, TypeOK
<1>7. FlagsFollowAge'
  BY <1>2 DEF FlagsFollowAge, Populated
<1>8. ClockLead'
  <2>1. ASSUME NEW p \in Peers, entries'[p].known, entries'[p].life = life[p]
        PROVE  entries'[p].clk <= clock'[p] + 1
    <3>1. entries[p].clk <= clock[p] + 1
      BY <1>2, <2>1 DEF IInv, ClockLead, Populated
    <3> QED
      BY <1>2, <1>3, <3>1, PeerTypes DEF IInv
  <2> QED
    BY <1>5, <2>1 DEF ClockLead, Populated
<1>9. EntriesBehind'
  <2>1. ASSUME NEW p \in Peers, entries'[p].known
        PROVE  /\ entries'[p].life <= life[p]
               /\ entries'[p].active /\ Past(p, entries'[p].life)
                     => ended'[p] <= entries'[p].age + MaxDelay
    <3>1. entries'[p].life <= life[p]
      BY <1>2, <2>1 DEF IInv, EntriesBehind
    <3>2. ASSUME entries'[p].active, Past(p, entries'[p].life)
          PROVE  ended'[p] <= entries'[p].age + MaxDelay
      <4>1. ended[p] <= entries[p].age + MaxDelay /\ entries'[p].age = entries[p].age + 1
        BY <1>2, <2>1, <3>2 DEF IInv, EntriesBehind
      <4> QED
        BY <1>3, <4>1, PeerTypes, WorldModelAssumption DEF IInv
    <3> QED
      BY <3>1, <3>2
  <2> QED
    BY <1>5, <2>1 DEF EntriesBehind, Past
<1>10. FramesBehind'
  <2>1. ASSUME NEW f \in radio'
        PROVE  /\ f.life <= life[f.src]
               /\ f.life = life[f.src] => f.clk <= clock'[f.src]
               /\ Past(f.src, f.life) => ended'[f.src] + f.left <= MaxDelay
    <3>1. PICK g \in radio : /\ f.src = g.src /\ f.life = g.life
                             /\ f.clk = g.clk /\ f.left + 1 = g.left
                             /\ f \in Frame
      BY <1>4
    <3>2. /\ g.life <= life[g.src]
          /\ g.life = life[g.src] => g.clk <= clock[g.src]
          /\ Past(g.src, g.life) => ended[g.src] + g.left <= MaxDelay
      BY DEF IInv, FramesBehind
    <3>3. f.left \in Nat /\ g.src \in Peers /\ g.clk \in Nat
      BY <3>1, FrameTypes, WorldModelAssumption DEF IInv, Frame
    <3>4. g.life = life[g.src] => g.clk <= clock'[g.src]
      BY <1>3, <3>2, <3>3, PeerTypes, WorldModelAssumption DEF IInv
    <3>5. Past(g.src, g.life) => ended'[g.src] + f.left <= MaxDelay
      <4>1. ended'[g.src] <= ended[g.src] + 1 /\ ended'[g.src] \in Nat
            /\ ended[g.src] \in Nat
        BY <1>3, <3>3, PeerTypes, WorldModelAssumption DEF IInv
      <4> QED
        BY <3>1, <3>2, <3>3, <4>1, WorldModelAssumption
    <3> QED
      BY <3>1, <3>2, <3>4, <3>5
  <2> QED
    BY <1>5, <2>1 DEF FramesBehind, Past
<1>11. MetricConservative'
  <2>1. metric' = Metric(entries') /\ Metric(entries)' = Metric(entries')
    BY DEF Tick, MetricAfterTick, Metric
  <2> QED
    BY <2>1, MetricType DEF MetricConservative
<1> QED
  BY <1>6, <1>7, <1>8, <1>9, <1>10, <1>11 DEF IInv

LEMMA StepIInv == IInv /\ [Next]_vars => IInv'
<1> SUFFICES ASSUME IInv, [Next]_vars PROVE IInv'
  OBVIOUS
<1>1. CASE Tick
  BY <1>1, TickIInv
<1>2. ASSUME NEW p \in Peers, Send(p) \/ Depart(p) \/ Crash(p) \/ Boot(p)
      PROVE  IInv'
  BY <1>2, SendIInv, DepartIInv, CrashIInv, BootIInv
<1>3. ASSUME NEW f \in radio, Receive(f) \/ Lose(f)
      PROVE  IInv'
  BY <1>3, ReceiveIInv, LoseIInv
<1>4. CASE UNCHANGED vars
  BY <1>4, MetricSame DEF vars, peerVars, history, IInv, TypeOK, FlagsFollowAge, ClockLead,
              FramesBehind, EntriesBehind, Populated, Past
<1> QED
  BY <1>1, <1>2, <1>3, <1>4 DEF Next

LEMMA Invariance == Spec => []IInv
BY InitIInv, StepIInv, PTL DEF Spec

(* The type invariant.                                                     *)
THEOREM TypeCorrect == Spec => []TypeOK
<1>1. IInv => TypeOK
  BY DEF IInv
<1> QED
  BY Invariance, <1>1, PTL

(* The flags L5 to L7 read are those the age of the entry calls for.       *)
THEOREM FlagsAreAge == Spec => []FlagsFollowAge
<1>1. IInv => FlagsFollowAge
  BY DEF IInv
<1> QED
  BY Invariance, <1>1, PTL

(* A running peer is shut out by its own entry for one cycle at most.      *)
THEOREM ClockLeadsByOne == Spec => []ClockLead
<1>1. IInv => ClockLead
  BY DEF IInv
<1> QED
  BY Invariance, <1>1, PTL

(* A life of a peer that is over is not held fresh beyond the stale age    *)
(* and the longest delay, whatever the radio still had of it.              *)
THEOREM PastLivesFade == Spec => []PastLifeFades
<1>1. ASSUME IInv PROVE PastLifeFades
  <2>1. ASSUME NEW p \in Peers, ended[p] >= StaleAge + MaxDelay, IsFresh(p),
               Past(p, entries[p].life)
        PROVE  FALSE
    <3>1. ended[p] <= entries[p].age + MaxDelay
      BY <1>1, <2>1 DEF IInv, EntriesBehind, IsFresh
    <3>2. ~ (entries[p].age >= StaleAge)
      BY <1>1, <2>1 DEF IInv, FlagsFollowAge, IsFresh, Populated
    <3> QED
      BY <1>1, <2>1, <3>1, <3>2, PeerTypes, WorldModelAssumption DEF IInv
  <2> QED
    BY <2>1 DEF PastLifeFades, Past
<1>2. IInv => PastLifeFades
  BY <1>1
<1> QED
  BY Invariance, <1>2, PTL

(* The metric peers steer by never overstates: between two ticks entries   *)
(* only get fresher than it says.                                          *)
THEOREM MetricNeverOverstates == Spec => []MetricConservative
<1>1. IInv => MetricConservative
  BY DEF IInv
<1> QED
  BY Invariance, <1>1, PTL

-----------------------------------------------------------------------------
(* The abstract table *)

LEMMA RowOfAged ==
    ASSUME NEW e \in Entry,
           e.known => (e.active <=> e.age < ExpireAge) /\ (e.stale <=> e.age >= StaleAge)
    PROVE  RowOf(Aged(e)) = Abstract!Aged(RowOf(e))
<1>1. /\ Aged(e).known = e.known /\ Aged(e).departed = e.departed
      /\ Aged(e).age = IF e.known /\ e.age < ExpireAge THEN e.age + 1 ELSE e.age
  BY AgedFacts
<1> QED
  BY <1>1 DEF RowOf, Abstract!Aged

(* Clocks, radio and reboots behind it, the world model behaves as the     *)
(* table L5 is specified over: what is proved of Scr holds of L5 on top of *)
(* this L4.                                                                *)
THEOREM TableIsImplemented == Spec => ImplementsTable
<1> DEFINE rows == [p \in Peers |-> RowOf(entries[p])]
<1>1. Init => Abstract!TableInit
  BY DEF Init, Abstract!TableInit, Abstract!NeverHeard, Unpopulated, RowOf
<1>2. ASSUME IInv, [Next]_vars
      PROVE  [Abstract!TableNext]_rows
  <2>1. CASE Tick
    <3>1. ASSUME NEW p \in Peers
          PROVE  RowOf(entries'[p]) = Abstract!Aged(RowOf(entries[p]))
      <4>1. entries'[p] = Aged(entries[p])
        BY <2>1 DEF Tick, AgedEntries
      <4> QED
        BY <1>2, <4>1, PeerTypes, RowOfAged DEF IInv, FlagsFollowAge, Populated
    <3>2. Abstract!Age
      BY <3>1 DEF Abstract!Age, Abstract!Older
    <3> QED
      BY <3>2 DEF Abstract!TableNext
  <2>2. ASSUME NEW f \in radio, Receive(f), Accepts(entries[f.src], f)
        PROVE  Abstract!TableNext
    <3> DEFINE e == Received(entries[f.src], f)
    <3>1. f \in Frame /\ f.src \in Peers /\ f.departed \in BOOLEAN
          /\ entries[f.src] \in Entry
      BY <1>2, FrameTypes, PeerTypes DEF IInv, Frame
    <3>2. e.known = TRUE /\ e.age = 0 /\ e.departed = f.departed
      BY DEF Received
    <3>3. RowOf(e) = [known |-> TRUE, age |-> 0, departed |-> f.departed]
      BY <3>2 DEF RowOf
    <3>4. entries' = [entries EXCEPT ![f.src] = e]
      BY <2>2 DEF Receive
    <3> HIDE DEF e
    <3>5. \A p \in Peers : entries'[p] = IF p = f.src THEN e ELSE entries[p]
      BY <1>2, <3>4 DEF IInv, TypeOK
    <3>6. Abstract!Accept(f.src, f.departed)
      BY <3>1, <3>3, <3>5 DEF Abstract!Accept
    <3> QED
      BY <3>1, <3>6 DEF Abstract!TableNext
  <2>3. CASE UNCHANGED entries
    BY <2>3
  <2> QED
    BY <1>2, <2>1, <2>2, <2>3
    DEF Next, vars, Send, Depart, Crash, Boot, Receive, Lose
<1> QED
  BY <1>1, <1>2, Invariance, PTL DEF Spec, ImplementsTable, Abstract!TableSpec

-----------------------------------------------------------------------------
(* Accuracy across a reboot.  A peer heard in every cycle is held fresh    *)
(* when the entry of its previous life, and what the radio had left of     *)
(* that life to renew it, are over.  The stored clock is up to one ahead,  *)
(* so that a frame in three may be the first to be taken: an age of two.   *)

(* A frame of a past life has less delay to spend than the new one has     *)
(* been heard for.                                                         *)
PastFramesGo ==
    \A f \in radio : f.life # life[f.src] => f.left + heard[f.src] <= MaxDelay

(* What the owner holds of a peer, and how long it has been heard.         *)
HeardOf(p) ==
    LET e == entries[p]
    IN /\ e.known /\ e.active /\ e.life # life[p] => heard[p] <= e.age + MaxDelay
       /\ up[p] /\ e.known /\ e.active /\ e.life = life[p] => e.age + e.clk <= clock[p] + 1
       /\ caught[p] => e.known /\ e.active /\ clock[p] <= e.clk
       /\ heard[p] > ExpireAge + MaxDelay =>
              e.known /\ e.active /\ e.life = life[p] /\ e.age <= 2

HeardInv == IInv /\ PastFramesGo /\ \A p \in Peers : HeardOf(p)

(* The initial states: nobody has been heard.                              *)
LEMMA InitHeard == Init => HeardInv
<1> SUFFICES ASSUME Init PROVE HeardInv
  OBVIOUS
<1>1. PastFramesGo
  BY DEF Init, PastFramesGo
<1>2. \A p \in Peers : HeardOf(p)
  BY WorldModelAssumption DEF Init, HeardOf, Unpopulated
<1> QED
  BY <1>1, <1>2, InitIInv DEF HeardInv

(* A frame sent is of the running life.                                    *)
LEMMA SendHeard ==
    ASSUME HeardInv, NEW p \in Peers, Send(p)
    PROVE  PastFramesGo' /\ \A q \in Peers : HeardOf(q)'
BY DEF Send, HeardInv, PastFramesGo, HeardOf, peerVars, history

(* A crash and a reboot start the count of heard cycles anew, a departure  *)
(* and a loss leave it alone.                                              *)
LEMMA RebootHeard ==
    ASSUME HeardInv, NEW p \in Peers, Crash(p) \/ Boot(p)
    PROVE  PastFramesGo' /\ \A q \in Peers : HeardOf(q)'
<1>1. /\ UNCHANGED <<entries, radio>>
      /\ heard'[p] = 0 /\ (up'[p] => ~caught'[p] /\ life'[p] = life[p] + 1)
      /\ caught'[p] => caught[p] /\ clock'[p] = clock[p]
      /\ \A q \in Peers : q # p => /\ up'[q] <=> up[q]
                                   /\ life'[q] = life[q] /\ clock'[q] = clock[q]
                                   /\ heard'[q] = heard[q] /\ caught'[q] = caught[q]
  BY DEF Crash, Boot, HeardInv, IInv, TypeOK
<1>2. PastFramesGo'
  <2>1. ASSUME NEW f \in radio, f.life # life'[f.src]
        PROVE  f.left + heard'[f.src] <= MaxDelay
    <3>1. f.src \in Peers /\ f.left \in 0..MaxDelay /\ MaxDelay \in Nat
      BY FrameTypes, WorldModelAssumption DEF HeardInv, IInv
    <3>2. CASE f.src = p
      BY <1>1, <3>1, <3>2
    <3>3. CASE f.src # p
      BY <1>1, <2>1, <3>1, <3>3 DEF HeardInv, PastFramesGo
    <3> QED
      BY <3>2, <3>3
  <2> QED
    BY <1>1, <2>1 DEF PastFramesGo
<1>3. ASSUME NEW q \in Peers PROVE HeardOf(q)'
  <2>1. HeardOf(q)
    BY DEF HeardInv
  <2>2. CASE q = p
    <3>1. /\ entries[p].age \in Nat /\ ExpireAge \in Nat /\ MaxDelay \in Nat
          /\ entries[p].known => entries[p].life <= life[p]
          /\ entries[p].life \in Nat /\ life[p] \in Nat
      BY PeerTypes, WorldModelAssumption DEF HeardInv, IInv, EntriesBehind
    <3>2. up'[p] /\ entries[p].known => entries[p].life # life'[p]
      BY <1>1, <3>1
    <3>3. 0 <= entries[p].age + MaxDelay /\ ~(0 > ExpireAge + MaxDelay)
      BY <3>1
    <3> QED
      BY <1>1, <2>1, <2>2, <3>2, <3>3 DEF HeardOf
  <2>3. CASE q # p
    BY <1>1, <2>1, <2>3 DEF HeardOf
  <2> QED
    BY <2>2, <2>3
<1> QED
  BY <1>2, <1>3

(* A frame of the running life can only make its entry newer; one of a     *)
(* past life that still renews its entry finds the new one hardly heard.   *)
LEMMA ReceiveHeard ==
    ASSUME HeardInv, NEW f \in radio, Receive(f)
    PROVE  PastFramesGo' /\ \A q \in Peers : HeardOf(q)'
<1> DEFINE p == f.src
           e == Received(entries[p], f)
<1>1. /\ f \in Frame /\ p \in Peers /\ entries[p] \in Entry
      /\ f.clk \in Nat /\ f.left \in Nat /\ MaxDelay \in Nat /\ ExpireAge \in Nat
      /\ clock[p] \in Nat /\ entries[p].clk \in Nat /\ heard[p] \in Nat
  BY FrameTypes, PeerTypes, WorldModelAssumption DEF HeardInv, IInv
<1>2. /\ radio' \subseteq radio /\ up' = up /\ clock' = clock /\ life' = life
      /\ heard' = heard
  BY DEF Receive, peerVars
<1>3. /\ \A q \in Peers : q # p => entries'[q] = entries[q] /\ caught'[q] = caught[q]
      /\ caught'[p] => caught[p] \/ f.clk = clock[p]
  BY <1>1 DEF Receive, HeardInv, IInv, TypeOK
<1>4. PastFramesGo'
  BY <1>2 DEF HeardInv, PastFramesGo
<1>5. HeardOf(p)
  BY <1>1 DEF HeardInv
<1>6. HeardOf(p)'
  <2>1. CASE ~Accepts(entries[p], f)
    <3>1. entries'[p] = entries[p]
      BY <2>1 DEF Receive
    <3>2. entries[p].known /\ entries[p].active /\ f.clk <= entries[p].clk
      BY <1>1, <2>1 DEF Accepts
    <3> QED
      BY <1>2, <1>3, <1>5, <3>1, <3>2 DEF HeardOf
  <2>2. CASE Accepts(entries[p], f)
    <3>1. /\ e.known /\ e.active /\ e.age = 0 /\ e.clk = f.clk + 1 /\ e.life = f.life
      BY <1>1, <2>2, ReceivedFacts
    <3>2. entries'[p] = e
      BY <1>1, <2>2 DEF Receive, HeardInv, IInv, TypeOK
    <3> HIDE DEF e
    <3>3. f.life # life[p] => heard[p] <= 0 + MaxDelay
      BY <1>1 DEF HeardInv, PastFramesGo
    <3>4. f.life = life[p] => 0 + (f.clk + 1) <= clock[p] + 1
      BY <1>1 DEF HeardInv, IInv, FramesBehind
    <3>5. caught'[p] => clock[p] <= f.clk + 1
      <4>1. CASE caught[p]
        <5>1. entries[p].known /\ entries[p].active /\ clock[p] <= entries[p].clk
          BY <1>5, <4>1 DEF HeardOf
        <5>2. f.clk > entries[p].clk
          BY <2>2, <5>1 DEF Accepts
        <5> QED
          BY <1>1, <5>1, <5>2
      <4>2. CASE f.clk = clock[p]
        BY <1>1, <4>2
      <4> QED
        BY <1>3, <4>1, <4>2
    <3>6. heard[p] > ExpireAge + MaxDelay => f.life = life[p]
      BY <1>1, <3>3
    <3> QED
      BY <1>2, <3>1, <3>2, <3>3, <3>4, <3>5, <3>6 DEF HeardOf
  <2> QED
    BY <2>1, <2>2
<1>7. ASSUME NEW q \in Peers, q # p PROVE HeardOf(q)'
  <2>1. HeardOf(q)
    BY DEF HeardInv
  <2> QED
    BY <1>2, <1>3, <1>7, <2>1 DEF HeardOf
<1> QED
  BY <1>4, <1>6, <1>7

(* A cycle in which the latest frame arrived: its entry was made in this   *)
(* cycle or the one before, or it is the past life's, which is not so old  *)
(* yet.                                                                    *)
LEMMA TickHeard ==
    ASSUME StaleAge >= 3, HeardInv, Tick
    PROVE  PastFramesGo' /\ \A q \in Peers : HeardOf(q)'
<1>1. up' = up /\ life' = life /\ (\A p \in Peers : ~caught'[p])
  BY DEF Tick
<1>2. ASSUME NEW p \in Peers
      PROVE  /\ heard[p] \in Nat /\ heard'[p] \in Nat /\ heard'[p] <= heard[p] + 1
             /\ heard'[p] > 0 => caught[p] /\ up[p]
             /\ clock'[p] = IF up[p] THEN clock[p] + 1 ELSE clock[p]
  <2>1. heard[p] \in Nat
    BY PeerTypes DEF HeardInv, IInv
  <2>2. heard'[p] = IF caught[p] /\ up[p] THEN heard[p] + 1 ELSE 0
    BY DEF Tick
  <2>3. clock'[p] = IF up[p] THEN clock[p] + 1 ELSE clock[p]
    BY DEF Tick
  <2> QED
    BY <2>1, <2>2, <2>3
<1>3. PastFramesGo'
  <2>1. ASSUME NEW f \in radio', f.life # life[f.src]
        PROVE  f.left + heard'[f.src] <= MaxDelay
    <3>1. PICK g \in radio : g.left > 0 /\ f = [g EXCEPT !.left = g.left - 1]
      BY <2>1 DEF Tick
    <3>2. g \in Frame /\ g.left \in 0..MaxDelay /\ g.src \in Peers /\ MaxDelay \in Nat
      BY FrameTypes, WorldModelAssumption DEF HeardInv, IInv
    <3>3. f.src = g.src /\ f.life = g.life /\ f.left = g.left - 1
      BY <3>1, <3>2 DEF Frame
    <3>4. g.left + heard[g.src] <= MaxDelay
      BY <2>1, <3>3 DEF HeardInv, PastFramesGo
    <3>5. /\ heard'[g.src] <= heard[g.src] + 1 /\ heard[g.src] \in Nat
          /\ heard'[g.src] \in Nat
      BY <1>2, <3>2
    <3> QED
      BY <3>2, <3>3, <3>4, <3>5
  <2> QED
    BY <1>1, <2>1 DEF PastFramesGo
<1>4. ASSUME NEW p \in Peers PROVE HeardOf(p)'
  <2> DEFINE e == entries[p]
             a == entries'[p]
  <2>1. /\ e.age \in 0..ExpireAge /\ e.clk \in Nat /\ clock[p] \in Nat
        /\ ExpireAge \in Nat /\ MaxDelay \in Nat /\ StaleAge \in Nat
        /\ StaleAge < ExpireAge
    BY PeerTypes, WorldModelAssumption DEF HeardInv, IInv
  <2>2. e.known => (e.active <=> e.age < ExpireAge) /\ (e.stale <=> e.age >= StaleAge)
    BY DEF HeardInv, IInv, FlagsFollowAge, Populated
  <2>3. /\ a.known = e.known /\ a.clk = e.clk /\ a.life = e.life
        /\ a.known => (a.active <=> a.age < ExpireAge)
        /\ e.known /\ a.active => e.active /\ a.age = e.age + 1
        /\ a.age = IF e.known /\ e.age < ExpireAge THEN e.age + 1 ELSE e.age
    <3>1. a = Aged(e)
      BY DEF Tick, AgedEntries
    <3>2. e \in Entry
      BY PeerTypes DEF HeardInv, IInv
    <3> QED
      BY <2>2, <3>1, <3>2, AgedFacts
  <2>4. HeardOf(p)
    BY DEF HeardInv
  <2>5. /\ heard[p] \in Nat /\ heard'[p] \in Nat /\ heard'[p] <= heard[p] + 1
        /\ heard'[p] > 0 => caught[p] /\ up[p]
        /\ clock'[p] = IF up[p] THEN clock[p] + 1 ELSE clock[p]
    BY <1>2
  <2>6. /\ e.known /\ e.active /\ e.life # life[p] => heard[p] <= e.age + MaxDelay
        /\ up[p] /\ e.known /\ e.active /\ e.life = life[p] => e.age + e.clk <= clock[p] + 1
        /\ caught[p] => e.known /\ e.active /\ clock[p] <= e.clk
    BY <2>4 DEF HeardOf
  <2> HIDE DEF e, a
  <2>7. a.known /\ a.active /\ a.life # life[p] => heard'[p] <= a.age + MaxDelay
    BY <2>1, <2>3, <2>5, <2>6
  <2>8. up[p] /\ a.known /\ a.active /\ a.life = life[p] => a.age + a.clk <= clock'[p] + 1
    BY <2>1, <2>3, <2>5, <2>6
  <2>9. ASSUME heard'[p] > ExpireAge + MaxDelay
        PROVE  a.known /\ a.active /\ a.life = life[p] /\ a.age <= 2
    <3>1. caught[p] /\ up[p] /\ heard[p] + 1 > ExpireAge + MaxDelay
      BY <2>1, <2>5, <2>9
    <3>2. e.known /\ e.active /\ clock[p] <= e.clk /\ e.age < ExpireAge
      BY <2>2, <2>6, <3>1 DEF e
    <3>3. e.life = life[p]
      BY <2>1, <2>5, <2>6, <3>1, <3>2
    <3>4. e.age <= 1
      BY <2>1, <2>6, <3>1, <3>2, <3>3
    <3>5. a.age <= 2 /\ a.age < ExpireAge
      BY <2>1, <2>3, <3>2, <3>4
    <3> QED
      BY <2>3, <3>2, <3>3, <3>5
  <2> QED
    BY <1>1, <2>7, <2>8, <2>9 DEF HeardOf, a
<1> QED
  BY <1>3, <1>4

(* Once a peer's latest frame has arrived in enough cycles in a row it is  *)
(* held fresh, whatever its previous life left behind.  This needs a stale *)
(* age of three cycles or more: the code's is thirty; at two, a peer heard *)
(* in every cycle is stale in every other.                                 *)
THEOREM BlindnessIsBounded ==
    ASSUME StaleAge >= 3
    PROVE  Spec => []BlindnessBounded
<1>1. ASSUME HeardInv, [Next]_vars PROVE HeardInv'
  <2>1. IInv'
    BY <1>1, StepIInv DEF HeardInv
  <2>2. CASE Tick
    BY <1>1, <2>1, <2>2, TickHeard DEF HeardInv
  <2>3. ASSUME NEW p \in Peers, Send(p) \/ Crash(p) \/ Boot(p) PROVE HeardInv'
    BY <1>1, <2>1, <2>3, SendHeard, RebootHeard DEF HeardInv
  <2>4. ASSUME NEW p \in Peers, Depart(p) PROVE HeardInv'
    BY <1>1, <2>1, <2>4 DEF HeardInv, PastFramesGo, HeardOf, Depart, history
  <2>5. ASSUME NEW f \in radio, Receive(f) PROVE HeardInv'
    BY <1>1, <2>1, <2>5, ReceiveHeard DEF HeardInv
  <2>6. ASSUME NEW f \in radio, Lose(f) PROVE HeardInv'
    BY <1>1, <2>1, <2>6 DEF HeardInv, PastFramesGo, HeardOf, Lose, peerVars, history
  <2>7. CASE UNCHANGED vars
    BY <1>1, <2>1, <2>7 DEF HeardInv, PastFramesGo, HeardOf, vars, peerVars, history
  <2> QED
    BY <1>1, <2>2, <2>3, <2>4, <2>5, <2>6, <2>7 DEF Next
<1>2. ASSUME HeardInv PROVE BlindnessBounded
  <2>1. ASSUME NEW p \in Peers, heard[p] > ExpireAge + MaxDelay PROVE IsFresh(p)
    <3>1. /\ entries[p].known /\ entries[p].active /\ entries[p].age <= 2
      BY <1>2, <2>1 DEF HeardInv, HeardOf
    <3>2. entries[p].stale <=> entries[p].age >= StaleAge
      BY <1>2, <3>1 DEF HeardInv, IInv, FlagsFollowAge, Populated
    <3>3. entries[p].age \in Nat /\ StaleAge \in Nat
      BY <1>2, PeerTypes, WorldModelAssumption DEF HeardInv, IInv
    <3> QED
      BY <3>1, <3>2, <3>3 DEF IsFresh
  <2> QED
    BY <2>1 DEF BlindnessBounded
<1>3. HeardInv /\ [Next]_vars => HeardInv'
  BY <1>1
<1>4. HeardInv => BlindnessBounded
  BY <1>2
<1> QED
  BY <1>3, <1>4, InitHeard, PTL DEF Spec
=============================================================================
