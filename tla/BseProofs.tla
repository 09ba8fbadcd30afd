----------------------------- MODULE BseProofs ------------------------------
(***************************************************************************)
(* Theorems about L6.  A HOLD keeps a place this element has been at,      *)
(* through any chain of goals, preemptions and resumptions; an anchor is   *)
(* given up for another only after the hold time.  What is proved does not *)
(* depend on how slots are assigned or on where anchors and centroids are. *)
(* Of swarms: an exchange of stations rests nowhere but where it is        *)
(* complete or somebody is crowded out of his place, a formation nowhere   *)
(* but in its shape.                                                       *)
(***************************************************************************)
EXTENDS Bse, Formation, Swap, TLAPS

(* The fields of what an intent accumulates, and of the engine. *)
ActFields ==
    {"achieved", "accum", "station", "exchange", "offset", "turned", "locked", "candidate",
     "waited", "mark", "markCandidate", "markWaited", "named", "run"}
EngineFields == {"intent", "act", "prev", "goal", "dir", "parked", "anchorLost", "scope"}

IsAct(a)    == DOMAIN a = ActFields
IsEngine(s) == DOMAIN s = EngineFields

(* No point, or one within the slack of where this element has been. *)
Visited(p) == p # <<>> => \E q \in been : Dist(q, Head(p)) <= Eps

(* A pending switch has been named in every tick it has waited; of the two *)
(* debounces only the one of the intent's kind of anchor is in use.        *)
Pending(candidate, waited, named, run) ==
    /\ waited \in 0..(AnchorHold - 1)
    /\ candidate # <<>> => named = candidate /\ run > waited

Anchored(intent, a) ==
    /\ a.run \in Nat
    /\ Pending(a.candidate, a.waited, a.named, a.run)
    /\ Pending(a.markCandidate, a.markWaited, a.named, a.run)
    /\ intent.anchor = "LANDMARK" => a.locked = <<>> /\ a.candidate = <<>>
    /\ intent.anchor # "LANDMARK" => a.mark = <<>> /\ a.markCandidate = <<>>

Sound(intent, a) ==
    intent \in Intent /\ IsAct(a) /\ Anchored(intent, a) /\ Visited(a.station)

BseInv ==
    /\ IsEngine(engine) /\ Sound(engine.intent, engine.act)
    /\ \/ engine.parked = <<>>
       \/ \E intent, act : engine.parked = <<[intent |-> intent, act |-> act]>>
                           /\ Sound(intent, act)
    /\ Visited(engine.prev)
    /\ engine.act.achieved => Visited(engine.goal)
    /\ scene \in DOMAIN Scenes /\ view \in Scenes[scene].views /\ view.at[Me] \in been

-----------------------------------------------------------------------------
(* The debounce *)

(* A tick of a debounce: a switch waits for the hold time, named all the   *)
(* while.  n is the run of the name after this tick.                       *)
LEMMA DebounceWaits ==
    ASSUME NEW locked, NEW candidate, NEW waited, NEW named, NEW run \in Nat, NEW raw,
           raw # <<>>, Pending(candidate, waited, named, run),
           NEW n, n = IF named # raw THEN 1 ELSE IF run <= AnchorHold THEN run + 1 ELSE run
    PROVE  LET d == Debounced(locked, candidate, waited, raw)
           IN /\ Pending(d.candidate, d.waited, raw, n)
              /\ d.locked # locked => n > AnchorHold /\ d.locked = raw
              /\ d.locked = locked \/ d.locked = raw
<1>1. /\ AnchorHold \in Nat /\ AnchorHold > 0 /\ waited \in Nat /\ waited < AnchorHold
      /\ waited \in 0..(AnchorHold - 1) /\ 0 \in 0..(AnchorHold - 1)
  BY BseAssumption DEF Pending
<1>2. n \in Nat /\ n > 0
  BY <1>1
<1> DEFINE w == IF candidate = raw THEN waited + 1 ELSE 0
           d == Debounced(locked, candidate, waited, raw)
<1>4. w \in Nat
  BY <1>1
<1>5. candidate = raw => n > w
  <2>1. ASSUME candidate = raw PROVE n > w
    <3>1. named = raw /\ run > waited
      BY <2>1 DEF Pending
    <3>2. CASE run <= AnchorHold
      BY <1>1, <2>1, <3>1, <3>2
    <3>3. CASE ~(run <= AnchorHold)
      BY <1>1, <2>1, <3>1, <3>3
    <3> QED
      BY <3>2, <3>3
  <2> QED
    BY <2>1
<1>6. CASE locked = raw
  <2>1. d = [locked |-> locked, candidate |-> <<>>, waited |-> 0]
    BY <1>6 DEF Debounced
  <2> QED
    BY <1>1, <1>6, <2>1 DEF Pending
<1>7. CASE locked # raw /\ w >= AnchorHold
  <2>1. d = [locked |-> raw, candidate |-> <<>>, waited |-> 0]
    BY <1>7 DEF Debounced
  <2>2. candidate = raw
    BY <1>1, <1>7
  <2>3. n > AnchorHold
    BY <1>1, <1>2, <1>4, <1>5, <1>7, <2>2
  <2> QED
    BY <1>1, <2>1, <2>3 DEF Pending
<1>8. CASE locked # raw /\ ~(w >= AnchorHold)
  <2>1. d = [locked |-> locked, candidate |-> raw, waited |-> w]
    BY <1>8 DEF Debounced
  <2>2. n > w
    BY <1>2, <1>5
  <2>3. w \in 0..(AnchorHold - 1)
    BY <1>1, <1>4, <1>8
  <2> QED
    BY <1>1, <2>1, <2>2, <2>3 DEF Pending
<1> QED
  BY <1>6, <1>7, <1>8

-----------------------------------------------------------------------------
(* Anchors *)

(* What AnchorHoldsStill says of a tick of one activation. *)
HoldsStill(a, b) ==
    Steady(a) /\ Steady(b) /\ <<b.locked, b.mark>> # <<a.locked, a.mark>> => b.run > AnchorHold

(* The run of a name after it is heard again. *)
RunAfter(a, raw) ==
    IF a.named # raw THEN 1 ELSE IF a.run <= AnchorHold THEN a.run + 1 ELSE a.run

(* Naming, and locking of an element; the same of a landmark. *)
Locking(a, raw, l, c, w) ==
    [Named(a, raw) EXCEPT !.locked = l, !.candidate = c, !.waited = w]

Marking(a, raw, l, c, w) ==
    [Named(a, raw) EXCEPT !.mark = l, !.markCandidate = c, !.markWaited = w]

LEMMA LockedFields ==
    ASSUME NEW a, IsAct(a), NEW raw, NEW l, NEW c, NEW w
    PROVE  LET b == Locking(a, raw, l, c, w)
           IN /\ IsAct(b) /\ b.locked = l /\ b.candidate = c /\ b.waited = w
              /\ b.named = raw /\ b.run = RunAfter(a, raw)
              /\ b.mark = a.mark /\ b.markCandidate = a.markCandidate
              /\ b.markWaited = a.markWaited /\ b.station = a.station
BY DEF IsAct, ActFields, Named, RunAfter, Locking

LEMMA MarkedFields ==
    ASSUME NEW a, IsAct(a), NEW raw, NEW l, NEW c, NEW w
    PROVE  LET b == Marking(a, raw, l, c, w)
           IN /\ IsAct(b) /\ b.mark = l /\ b.markCandidate = c /\ b.markWaited = w
              /\ b.named = raw /\ b.run = RunAfter(a, raw)
              /\ b.locked = a.locked /\ b.candidate = a.candidate
              /\ b.waited = a.waited /\ b.station = a.station
BY DEF IsAct, ActFields, Named, RunAfter, Marking

(* What a tick may do to the anchors of an intent. *)
KeepsAnchor(intent, a, b) ==
    IsAct(b) /\ Anchored(intent, b) /\ b.station = a.station /\ HoldsStill(a, b)

(* A run that goes on is a number. *)
LEMMA RunIsNumber ==
    ASSUME NEW a, NEW raw, a.run \in Nat
    PROVE  RunAfter(a, raw) \in Nat
BY BseAssumption DEF RunAfter

LEMMA ElementKeeps ==
    ASSUME NEW s, s.intent \in Intent, s.intent.anchor # "LANDMARK", IsAct(s.act),
           Anchored(s.intent, s.act)
    PROVE  KeepsAnchor(s.intent, s.act, ResolveElement(s).act)
<1> DEFINE a == s.act
           raw == ResolveAnchorSelector(s.intent)
           d == Debounced(a.locked, a.candidate, a.waited, raw)
           n == RunAfter(a, raw)
<1> HIDE DEF raw
<1>1. /\ a.run \in Nat /\ Pending(a.candidate, a.waited, a.named, a.run)
      /\ a.mark = <<>> /\ a.markCandidate = <<>> /\ a.markWaited \in 0..(AnchorHold - 1)
  BY DEF Anchored, Pending
<1>2. n \in Nat
  BY <1>1, RunIsNumber
<1>3. CASE raw = <<>>
  <2> DEFINE b == Locking(a, raw, <<>>, <<>>, 0)
  <2>1. ResolveElement(s).act = b
    BY <1>3 DEF ResolveElement, raw, Locking
  <2>2. /\ IsAct(b) /\ b.locked = <<>> /\ b.candidate = <<>> /\ b.waited = 0
        /\ b.named = raw /\ b.run = n /\ b.mark = <<>> /\ b.markCandidate = <<>>
        /\ b.markWaited = a.markWaited /\ b.station = a.station
    BY <1>1, LockedFields
  <2> HIDE DEF b
  <2>3. 0 \in 0..(AnchorHold - 1)
    BY BseAssumption
  <2>4. Anchored(s.intent, b)
    BY <1>1, <1>2, <2>2, <2>3 DEF Anchored, Pending
  <2>5. HoldsStill(a, b)
    BY <2>2 DEF HoldsStill, Steady
  <2> QED
    BY <2>1, <2>2, <2>4, <2>5 DEF KeepsAnchor
<1>4. CASE raw # <<>>
  <2> DEFINE b == Locking(a, raw, d.locked, d.candidate, d.waited)
  <2>1. ResolveElement(s).act = b
    BY <1>4 DEF ResolveElement, raw, Locking
  <2>2. /\ IsAct(b) /\ b.locked = d.locked /\ b.candidate = d.candidate
        /\ b.waited = d.waited /\ b.named = raw /\ b.run = n /\ b.mark = <<>>
        /\ b.markCandidate = <<>> /\ b.markWaited = a.markWaited /\ b.station = a.station
    BY <1>1, LockedFields
  <2>3. /\ Pending(d.candidate, d.waited, raw, n)
        /\ d.locked # a.locked => n > AnchorHold
    BY <1>1, <1>4, DebounceWaits DEF RunAfter
  <2> HIDE DEF b, d, n
  <2>4. Anchored(s.intent, b)
    BY <1>1, <1>2, <2>2, <2>3 DEF Anchored, Pending
  <2>5. HoldsStill(a, b)
    BY <1>1, <2>2, <2>3 DEF HoldsStill
  <2> QED
    BY <2>1, <2>2, <2>4, <2>5 DEF KeepsAnchor
<1> QED
  BY <1>3, <1>4

LEMMA LandmarkKeeps ==
    ASSUME NEW s, s.intent \in Intent, s.intent.anchor = "LANDMARK", IsAct(s.act),
           Anchored(s.intent, s.act)
    PROVE  KeepsAnchor(s.intent, s.act, ResolveLandmark(s).act)
<1> DEFINE a == s.act
           raw == RankedMark(s.intent.rank)
           live == a.mark # <<>> /\ Head(a.mark) \in view.marks
           d == IF live THEN Debounced(a.mark, a.markCandidate, a.markWaited, raw)
                ELSE [locked |-> raw, candidate |-> <<>>, waited |-> 0]
           n == RunAfter(a, raw)
<1> HIDE DEF raw
<1>1. /\ a.run \in Nat /\ Pending(a.markCandidate, a.markWaited, a.named, a.run)
      /\ a.locked = <<>> /\ a.candidate = <<>> /\ a.waited \in 0..(AnchorHold - 1)
  BY DEF Anchored, Pending
<1>2. n \in Nat
  BY <1>1, RunIsNumber
<1>0. 0 \in 0..(AnchorHold - 1)
  BY BseAssumption
<1>3. CASE raw = <<>>
  <2> DEFINE b == Marking(a, raw, <<>>, <<>>, 0)
  <2>1. ResolveLandmark(s).act = b
    BY <1>3 DEF ResolveLandmark, raw, Marking
  <2>2. /\ IsAct(b) /\ b.mark = <<>> /\ b.markCandidate = <<>> /\ b.markWaited = 0
        /\ b.named = raw /\ b.run = n /\ b.locked = <<>> /\ b.candidate = <<>>
        /\ b.waited = a.waited /\ b.station = a.station
    BY <1>1, MarkedFields
  <2> HIDE DEF b
  <2>4. Anchored(s.intent, b)
    BY <1>0, <1>1, <1>2, <2>2 DEF Anchored, Pending
  <2>5. HoldsStill(a, b)
    BY <2>2 DEF HoldsStill, Steady
  <2> QED
    BY <2>1, <2>2, <2>4, <2>5 DEF KeepsAnchor
<1>4. CASE raw # <<>>
  <2> DEFINE b == Marking(a, raw, d.locked, d.candidate, d.waited)
  <2>1. ResolveLandmark(s).act = b
    BY <1>4 DEF ResolveLandmark, raw, Marking
  <2>2. /\ IsAct(b) /\ b.mark = d.locked /\ b.markCandidate = d.candidate
        /\ b.markWaited = d.waited /\ b.named = raw /\ b.run = n /\ b.locked = <<>>
        /\ b.candidate = <<>> /\ b.waited = a.waited /\ b.station = a.station
    BY <1>1, MarkedFields
  <2>3. /\ Pending(d.candidate, d.waited, raw, n)
        /\ live /\ d.locked # a.mark => n > AnchorHold
    <3>1. CASE live
      BY <1>1, <1>4, <3>1, DebounceWaits DEF RunAfter
    <3>2. CASE ~live
      BY <1>0, <3>2 DEF Pending
    <3> QED
      BY <3>1, <3>2
  <2> HIDE DEF b, d, n
  <2>4. Anchored(s.intent, b)
    BY <1>1, <1>2, <2>2, <2>3 DEF Anchored, Pending
  <2>5. HoldsStill(a, b)
    BY <1>1, <2>2, <2>3 DEF HoldsStill, Steady
  <2> QED
    BY <2>1, <2>2, <2>4, <2>5 DEF KeepsAnchor
<1> QED
  BY <1>3, <1>4

(* Whatever the frame, the target is resolved without giving up an anchor. *)
LEMMA ResolveKeeps ==
    ASSUME NEW s, s.intent \in Intent, IsAct(s.act), Anchored(s.intent, s.act)
    PROVE  KeepsAnchor(s.intent, s.act, ResolveEffectiveTarget(s).act)
<1>1. s.intent.frame \in {"ABSOLUTE", "COLLECTIVE", "ELEMENT"}
  BY DEF Intent, Frames
<1>2. CASE s.intent.frame \in {"ABSOLUTE", "COLLECTIVE"}
  <2>1. ResolveEffectiveTarget(s).act = s.act
    BY <1>2 DEF ResolveEffectiveTarget
  <2> QED
    BY <2>1 DEF KeepsAnchor, HoldsStill
<1>3. CASE s.intent.frame = "ELEMENT"
  <2>1. ResolveEffectiveTarget(s) =
            IF s.intent.anchor = "LANDMARK" THEN ResolveLandmark(s) ELSE ResolveElement(s)
    BY <1>3 DEF ResolveEffectiveTarget
  <2> QED
    BY <2>1, LandmarkKeeps, ElementKeeps
<1> QED
  BY <1>1, <1>2, <1>3

-----------------------------------------------------------------------------
(* Directives *)

(* What a tick makes of the engine before achievement is looked at. *)
Decides(s, d) ==
    /\ IsEngine(d) /\ d.intent = s.intent /\ d.parked = s.parked
    /\ IsAct(d.act) /\ Anchored(s.intent, d.act) /\ HoldsStill(s.act, d.act)
    /\ Visited(d.act.station) /\ Visited(d.prev)
    /\ s.intent.type = "HOLD" => Visited(d.goal)
    /\ s.intent.type = "DISPERSE" => d.goal = <<>>

(* An activation that differs from another in nothing about its anchors. *)
SameAnchor(a, b) ==
    /\ IsAct(b) /\ b.run = a.run /\ b.named = a.named
    /\ b.locked = a.locked /\ b.candidate = a.candidate /\ b.waited = a.waited
    /\ b.mark = a.mark /\ b.markCandidate = a.markCandidate
    /\ b.markWaited = a.markWaited

LEMMA SameAnchorKeeps ==
    ASSUME NEW intent, NEW a, NEW b, NEW e, IsAct(a), SameAnchor(b, e),
           Anchored(intent, b), HoldsStill(a, b)
    PROVE  IsAct(e) /\ Anchored(intent, e) /\ HoldsStill(a, e)
BY DEF SameAnchor, Anchored, HoldsStill, Steady

(* The engine with a directive of either kind. *)
LEMMA CommandedFields ==
    ASSUME NEW s, IsEngine(s), NEW act, NEW to
    PROVE  LET d == Commanded(s, act, to)
           IN /\ IsEngine(d) /\ d.intent = s.intent /\ d.parked = s.parked
              /\ d.act = act /\ d.goal = <<to>> /\ d.prev = s.prev
BY DEF IsEngine, EngineFields, Commanded

LEMMA WaitingFields ==
    ASSUME NEW s, IsEngine(s), NEW act
    PROVE  LET d == Waiting(s, act)
           IN /\ IsEngine(d) /\ d.intent = s.intent /\ d.parked = s.parked
              /\ d.act = act /\ d.goal = s.goal /\ d.prev = s.prev
BY DEF IsEngine, EngineFields, Waiting

(* It is no way to where one is. *)
LEMMA NoWay ==
    ASSUME NEW x \in Int
    PROVE  Dist(x, x) = 0
BY DEF Dist

Ready(s) ==
    /\ IsEngine(s) /\ Sound(s.intent, s.act) /\ Visited(s.prev) /\ s.goal = <<>>
    /\ view.at[Me] \in Int /\ view.at[Me] \in been

LEMMA HeldDecides ==
    ASSUME NEW s, Ready(s), s.intent.type = "HOLD"
    PROVE  Decides(s, Held(s))
<1> DEFINE a == s.act
           station == IF a.station # <<>> THEN a.station
                      ELSE IF s.prev # <<>> THEN s.prev ELSE <<view.at[Me]>>
           act == [a EXCEPT !.station = station]
           d == Commanded(s, act, Head(station))
           e == [d EXCEPT !.prev = IF a.station = <<>> THEN <<>> ELSE @]
<1>1. Held(s) = e
  BY DEF Held
<1>2. station # <<>> /\ Visited(station)
  <2>1. Visited(<<view.at[Me]>>)
    BY NoWay, BseAssumption DEF Ready, Visited
  <2> QED
    BY <2>1 DEF Ready, Sound
<1> HIDE DEF station
<1>3. SameAnchor(a, act) /\ act.station = station
  BY DEF Ready, Sound, SameAnchor, IsAct, ActFields
<1>4. IsAct(act) /\ Anchored(s.intent, act) /\ HoldsStill(a, act)
  BY <1>3, SameAnchorKeeps DEF Ready, Sound, HoldsStill
<1> HIDE DEF act
<1>5. /\ IsEngine(d) /\ d.intent = s.intent /\ d.parked = s.parked
      /\ d.act = act /\ d.goal = <<Head(station)>> /\ d.prev = s.prev
  BY CommandedFields DEF Ready
<1> HIDE DEF d
<1>6. /\ IsEngine(e) /\ e.intent = s.intent /\ e.parked = s.parked
      /\ e.act = act /\ e.goal = <<Head(station)>>
      /\ e.prev = <<>> \/ e.prev = s.prev
  BY <1>5 DEF IsEngine, EngineFields
<1> HIDE DEF e
<1>7. Visited(e.goal) /\ Visited(e.prev) /\ Visited(e.act.station)
  BY <1>2, <1>3, <1>6 DEF Visited, Ready
<1> QED
  BY <1>1, <1>4, <1>6, <1>7 DEF Decides

LEMMA ExchangedDecides ==
    ASSUME NEW s, Ready(s), s.intent.type = "EXCHANGE"
    PROVE  Decides(s, Exchanged(s))
<1> DEFINE a == s.act
<1>1. CASE a.exchange = <<>> /\ Len(Ring(s)) < 2
  <2>1. Exchanged(s) = Waiting(s, a)
    BY <1>1 DEF Exchanged
  <2> QED
    BY <2>1, WaitingFields DEF Ready, Sound, Decides, HoldsStill
<1>2. CASE ~(a.exchange = <<>> /\ Len(Ring(s)) < 2)
  <2>1. PICK x, dir, goal :
           LET act == [a EXCEPT !.exchange = x]
           IN \/ Exchanged(s) = [s EXCEPT !.act = act, !.dir = dir]
              \/ Exchanged(s) = [s EXCEPT !.act = act, !.dir = dir, !.goal = goal]
    BY <1>2 DEF Exchanged
  <2> DEFINE act == [a EXCEPT !.exchange = x]
             d == Exchanged(s)
  <2>2. SameAnchor(a, act) /\ act.station = a.station
    BY DEF Ready, Sound, SameAnchor, IsAct, ActFields
  <2>3. IsAct(act) /\ Anchored(s.intent, act) /\ HoldsStill(a, act)
    BY <2>2, SameAnchorKeeps DEF Ready, Sound, HoldsStill
  <2> HIDE DEF act
  <2>4. d = [s EXCEPT !.act = act, !.dir = dir] \/ d = [s EXCEPT !.act = act, !.dir = dir, !.goal = goal]
    BY <2>1 DEF act
  <2>5. /\ IsEngine(d) /\ d.intent = s.intent /\ d.parked = s.parked
        /\ d.act = act /\ d.prev = s.prev
    BY <2>4 DEF Ready, IsEngine, EngineFields
  <2> QED
    BY <2>2, <2>3, <2>5 DEF Decides, Ready, Sound
<1> QED
  BY <1>1, <1>2

LEMMA MovedDecides ==
    ASSUME NEW s, Ready(s), s.intent.type = "MOVE"
    PROVE  Decides(s, Moved(s))
<1> DEFINE a == s.act
<1>1. PICK x, to : Moved(s) = Commanded(s, [a EXCEPT !.offset = x], to)
  BY DEF Moved
<1> DEFINE act == [a EXCEPT !.offset = x]
           d == Commanded(s, act, to)
<1>2. SameAnchor(a, act) /\ act.station = a.station
  BY DEF Ready, Sound, SameAnchor, IsAct, ActFields
<1>3. IsAct(act) /\ Anchored(s.intent, act) /\ HoldsStill(a, act)
  BY <1>2, SameAnchorKeeps DEF Ready, Sound, HoldsStill
<1> HIDE DEF act
<1>4. /\ IsEngine(d) /\ d.intent = s.intent /\ d.parked = s.parked
      /\ d.act = act /\ d.prev = s.prev
  BY CommandedFields DEF Ready
<1> HIDE DEF d
<1>5. Moved(s) = d
  BY <1>1 DEF d, act
<1> QED
  BY <1>2, <1>3, <1>4, <1>5 DEF Decides, Ready, Sound

(* Waiting for an anchor that is gone. *)
LEMMA LostFields ==
    ASSUME NEW s, IsEngine(s), NEW act
    PROVE  LET d == [Waiting(s, act) EXCEPT !.anchorLost = TRUE]
           IN /\ IsEngine(d) /\ d.intent = s.intent /\ d.parked = s.parked
              /\ d.act = act /\ d.goal = s.goal /\ d.prev = s.prev
BY DEF IsEngine, EngineFields, Waiting

LEMMA ConvergedDecides ==
    ASSUME NEW s, Ready(s), s.intent.type = "CONVERGE"
    PROVE  Decides(s, Converged(s))
<1> DEFINE a == s.act
           r == ResolveEffectiveTarget(s)
           d == Converged(s)
<1>1. KeepsAnchor(s.intent, a, r.act)
  BY ResolveKeeps DEF Ready, Sound
<1> HIDE DEF r
<1>2. d = IF r.at # <<>> THEN Commanded(s, r.act, Head(r.at))
          ELSE [Waiting(s, r.act) EXCEPT !.anchorLost = TRUE]
  BY DEF Converged, r
<1> HIDE DEF d
<1>3. /\ IsEngine(d) /\ d.intent = s.intent /\ d.parked = s.parked
      /\ d.act = r.act /\ d.prev = s.prev
  BY <1>2, CommandedFields, LostFields DEF Ready
<1> QED
  BY <1>1, <1>3 DEF d, Decides, Ready, Sound, KeepsAnchor

LEMMA FormedDecides ==
    ASSUME NEW s, Ready(s), s.intent.type = "FORM"
    PROVE  Decides(s, Formed(s))
<1> DEFINE a == s.act
           r == ResolveEffectiveTarget(s)
           turned == IF s.intent.spin THEN ~a.turned ELSE FALSE
           act == [r.act EXCEPT !.turned = turned]
           d == Formed(s)
<1>1. KeepsAnchor(s.intent, a, r.act)
  BY ResolveKeeps DEF Ready, Sound
<1>2. PICK to : \/ d = Waiting(s, a)
                \/ d = [Waiting(s, r.act) EXCEPT !.anchorLost = TRUE]
                \/ d = Commanded(s, act, to)
  BY DEF Formed
<1> HIDE DEF r, d, turned
<1>3. SameAnchor(r.act, act) /\ act.station = r.act.station
  BY <1>1 DEF KeepsAnchor, SameAnchor, IsAct, ActFields
<1>4. IsAct(act) /\ Anchored(s.intent, act) /\ HoldsStill(a, act)
  BY <1>1, <1>3, SameAnchorKeeps DEF Ready, Sound, KeepsAnchor
<1> HIDE DEF act
<1>5. /\ IsEngine(d) /\ d.intent = s.intent /\ d.parked = s.parked /\ d.prev = s.prev
      /\ d.act \in {a, r.act, act}
  <2>1. CASE d = Waiting(s, a)
    BY <2>1, WaitingFields DEF Ready
  <2>2. CASE d = [Waiting(s, r.act) EXCEPT !.anchorLost = TRUE]
    BY <2>2, LostFields DEF Ready
  <2>3. CASE d = Commanded(s, act, to)
    BY <2>3, CommandedFields DEF Ready
  <2> QED
    BY <1>2, <2>1, <2>2, <2>3
<1>6. IsAct(d.act) /\ Anchored(s.intent, d.act) /\ HoldsStill(a, d.act)
  BY <1>1, <1>4, <1>5 DEF Ready, Sound, KeepsAnchor, HoldsStill
<1>7. d.act.station = a.station
  BY <1>1, <1>3, <1>5 DEF KeepsAnchor
<1> QED
  BY <1>5, <1>6, <1>7 DEF d, Decides, Ready, Sound

LEMMA Decided ==
    ASSUME NEW s, Ready(s)
    PROVE  Decides(s, Decomposed(s))
<1>1. s.intent.type \in
          {"IDLE", "FORM", "MOVE", "DISPERSE", "CONVERGE", "HOLD", "EXCHANGE"}
  BY DEF Ready, Sound, Intent
<1>2. CASE s.intent.type \in {"IDLE", "DISPERSE"}
  <2>1. PICK dir : Decomposed(s) = [s EXCEPT !.dir = dir]
    BY <1>2 DEF Decomposed
  <2> DEFINE d == [s EXCEPT !.dir = dir]
  <2>2. /\ IsEngine(d) /\ d.intent = s.intent /\ d.parked = s.parked
        /\ d.act = s.act /\ d.goal = s.goal /\ d.prev = s.prev
    BY DEF Ready, IsEngine, EngineFields
  <2> HIDE DEF d
  <2>3. Decides(s, d)
    BY <1>2, <2>2 DEF Ready, Sound, Decides, HoldsStill
  <2> QED
    BY <2>1, <2>3 DEF d
<1>3. CASE s.intent.type = "HOLD"
  BY <1>3, HeldDecides DEF Decomposed
<1>4. CASE s.intent.type = "EXCHANGE"
  BY <1>4, ExchangedDecides DEF Decomposed
<1>5. CASE s.intent.type = "FORM"
  BY <1>5, FormedDecides DEF Decomposed
<1>6. CASE s.intent.type = "MOVE"
  BY <1>6, MovedDecides DEF Decomposed
<1>7. CASE s.intent.type = "CONVERGE"
  BY <1>7, ConvergedDecides DEF Decomposed
<1> QED
  BY <1>1, <1>2, <1>3, <1>4, <1>5, <1>6, <1>7
-----------------------------------------------------------------------------
(* Achievement *)

LEMMA CreditedFields ==
    ASSUME NEW a, IsAct(a), NEW there
    PROVE  LET b == Credited(a, there)
           IN /\ SameAnchor(a, b) /\ b.station = a.station
              /\ b.achieved => there
<1> DEFINE n == IF ~there THEN 0 ELSE IF a.accum < AchieveHold THEN a.accum + 1 ELSE a.accum
           b == [a EXCEPT !.accum = n, !.achieved = n >= AchieveHold]
<1>1. Credited(a, there) = b
  BY DEF Credited
<1>2. SameAnchor(a, b) /\ b.station = a.station /\ b.achieved = (n >= AchieveHold)
  BY DEF IsAct, ActFields, SameAnchor
<1> HIDE DEF b
<1>3. ~there => ~(n >= AchieveHold)
  BY BseAssumption
<1> QED
  BY <1>1, <1>2, <1>3

(* Only where the element has been is achieved. *)
LEMMA AchievedVisits ==
    ASSUME NEW s, NEW d, Ready(s), Decides(s, d)
    PROVE  LET e == Achieved(d)
           IN /\ SameAnchor(d.act, e) /\ e.station = d.act.station
              /\ e.achieved => Visited(d.goal)
<1>1. IsAct(d.act) /\ d.intent = s.intent
  BY DEF Decides
<1>2. CASE d.intent.type = "HOLD"
  <2> DEFINE e == [d.act EXCEPT !.achieved = TRUE]
  <2>1. SameAnchor(d.act, e) /\ e.station = d.act.station
    BY <1>1 DEF IsAct, ActFields, SameAnchor
  <2> HIDE DEF e
  <2>2. Achieved(d) = e
    BY <1>2 DEF Achieved, e
  <2> QED
    BY <1>1, <1>2, <2>1, <2>2 DEF Decides
<1>3. CASE d.intent.type = "DISPERSE"
  <2>1. Achieved(d) = Credited(d.act, SpreadOut)
    BY <1>3 DEF Achieved
  <2>2. Visited(d.goal)
    BY <1>1, <1>3 DEF Decides, Visited
  <2> QED
    BY <1>1, <2>1, <2>2, CreditedFields
<1>4. CASE d.intent.type \notin {"HOLD", "DISPERSE"} /\ d.goal # <<>>
  <2> DEFINE there == Dist(view.at[Me], Head(d.goal)) <= Eps
  <2>1. Achieved(d) = Credited(d.act, there)
    BY <1>4 DEF Achieved
  <2>2. there => Visited(d.goal)
    BY DEF Ready, Visited
  <2> HIDE DEF there
  <2>3. LET b == Credited(d.act, there)
        IN SameAnchor(d.act, b) /\ b.station = d.act.station /\ (b.achieved => there)
    BY <1>1, CreditedFields
  <2> QED
    BY <2>1, <2>2, <2>3
<1>5. CASE d.intent.type \notin {"HOLD", "DISPERSE"} /\ ~(d.goal # <<>>)
  <2> DEFINE e == [d.act EXCEPT !.accum = 0, !.achieved = FALSE]
  <2>1. SameAnchor(d.act, e) /\ e.station = d.act.station /\ ~e.achieved
    BY <1>1 DEF IsAct, ActFields, SameAnchor
  <2> HIDE DEF e
  <2>2. Achieved(d) = e
    BY <1>5 DEF Achieved, e
  <2> QED
    BY <2>1, <2>2
<1> QED
  BY <1>2, <1>3, <1>4, <1>5

-----------------------------------------------------------------------------
(* The invariant *)

LEMMA IdleIsIntent == Idle \in Intent
BY BseAssumption DEF Idle, Intent, Frames, Anchors, Ids, None

LEMMA FreshActivation ==
    ASSUME NEW intent \in Intent
    PROVE  Sound(intent, Activation) /\ ~Activation.achieved
<1>1. IsAct(Activation)
  BY DEF IsAct, ActFields, Activation
<1>2. 0 \in 0..(AnchorHold - 1)
  BY BseAssumption
<1>3. Anchored(intent, Activation)
  BY <1>2 DEF Anchored, Pending, Activation
<1> QED
  BY <1>1, <1>3 DEF Sound, Visited, Activation

LEMMA BseInvInit == BseInit => BseInv
<1> SUFFICES ASSUME BseInit PROVE BseInv
  OBVIOUS
<1>1. IsEngine(engine)
  BY DEF BseInit, IsEngine, EngineFields
<1>2. Sound(engine.intent, engine.act) /\ ~engine.act.achieved
  BY IdleIsIntent, FreshActivation DEF BseInit
<1> QED
  BY <1>1, <1>2 DEF BseInit, BseInv, Visited

(* What is kept when nothing but the engine changes. *)
LEMMA InvReady ==
    ASSUME BseInv
    PROVE  /\ view.at[Me] \in Int
           /\ Ready([engine EXCEPT !.goal = <<>>, !.anchorLost = FALSE])
<1> DEFINE s == [engine EXCEPT !.goal = <<>>, !.anchorLost = FALSE]
<1>1. view.at[Me] \in Int
  BY BseAssumption DEF BseInv, Ids
<1>2. /\ IsEngine(s) /\ s.intent = engine.intent /\ s.act = engine.act
      /\ s.prev = engine.prev /\ s.goal = <<>>
  BY DEF BseInv, IsEngine, EngineFields
<1> HIDE DEF s
<1> QED
  BY <1>1, <1>2 DEF s, BseInv, Ready

LEMMA PrevGoalVisited ==
    ASSUME BseInv
    PROVE  Visited(PrevGoal(engine))
BY DEF BseInv, PrevGoal, Visited

(* One operation on the engine. *)
LEMMA ActivatedFields ==
    ASSUME BseInv, NEW intent \in Intent, NEW parked
    PROVE  LET s == [Activated(engine, intent) EXCEPT !.parked = parked]
           IN /\ IsEngine(s) /\ s.intent = intent /\ s.act = Activation
              /\ s.prev = PrevGoal(engine) /\ s.goal = <<>> /\ s.parked = parked
BY DEF BseInv, IsEngine, EngineFields, Activated

LEMMA SubmitKeeps ==
    ASSUME BseInv, NEW intent \in Scenes[scene].intents, Submit(intent)
    PROVE  BseInv'
<1>1. intent \in Intent
  BY BseAssumption DEF BseInv
<1>2. /\ IsEngine(engine') /\ engine'.intent = intent /\ engine'.act = Activation
      /\ engine'.prev = PrevGoal(engine) /\ engine'.goal = <<>> /\ engine'.parked = <<>>
  BY <1>1, ActivatedFields DEF Submit, SubmitIntent
<1>3. Sound(intent, Activation) /\ ~Activation.achieved
  BY <1>1, FreshActivation
<1>4. been' = been /\ view' = view /\ scene' = scene
  BY DEF Submit
<1>5. Visited(engine'.prev) /\ Visited(engine'.goal)
  BY <1>2, PrevGoalVisited DEF Visited
<1> QED
  BY <1>2, <1>3, <1>4, <1>5 DEF BseInv, Sound, Visited

LEMMA PreemptKeeps ==
    ASSUME BseInv, NEW intent \in Scenes[scene].interrupts, Preempt(intent)
    PROVE  BseInv'
<1> DEFINE parked == <<[intent |-> engine.intent, act |-> engine.act]>>
<1>1. intent \in Intent
  BY BseAssumption DEF BseInv
<1>2. /\ IsEngine(engine') /\ engine'.intent = intent /\ engine'.act = Activation
      /\ engine'.prev = PrevGoal(engine) /\ engine'.goal = <<>> /\ engine'.parked = parked
  BY <1>1, ActivatedFields DEF Preempt, PreemptIntent
<1>3. Sound(intent, Activation) /\ ~Activation.achieved /\ Sound(engine.intent, engine.act)
  BY <1>1, FreshActivation DEF BseInv
<1>4. been' = been /\ view' = view /\ scene' = scene
  BY DEF Preempt
<1>5. Visited(engine'.prev) /\ Visited(engine'.goal)
  BY <1>2, PrevGoalVisited DEF Visited
<1>6. \E i, a : engine'.parked = <<[intent |-> i, act |-> a]>> /\ Sound(i, a)
  BY <1>2, <1>3
<1> QED
  BY <1>2, <1>3, <1>4, <1>5, <1>6 DEF BseInv, Sound, Visited

LEMMA ResumeKeeps ==
    ASSUME BseInv, Resume
    PROVE  BseInv'
<1>1. PICK intent, act : /\ engine.parked = <<[intent |-> intent, act |-> act]>>
                         /\ Sound(intent, act)
  BY DEF BseInv, Resume
<1>2. /\ Head(engine.parked) = [intent |-> intent, act |-> act]
      /\ Tail(engine.parked) = <<>>
  BY <1>1
<1>3. /\ IsEngine(engine') /\ engine'.intent = intent /\ engine'.act = act
      /\ engine'.prev = <<>> /\ engine'.goal = <<>> /\ engine'.parked = <<>>
  BY <1>2 DEF Resume, ResumeIntent, BseInv, IsEngine, EngineFields
<1>4. been' = been /\ view' = view /\ scene' = scene
  BY DEF Resume
<1> QED
  BY <1>1, <1>3, <1>4 DEF BseInv, Sound, Visited

LEMMA ScopeKeeps ==
    ASSUME BseInv, NEW track, SetTrackScope(track)
    PROVE  BseInv'
<1>1. /\ IsEngine(engine') /\ engine'.intent = engine.intent /\ engine'.act = engine.act
      /\ engine'.prev = engine.prev /\ engine'.goal = engine.goal
      /\ engine'.parked = engine.parked
  BY DEF SetTrackScope, BseInv, IsEngine, EngineFields
<1>2. been' = been /\ view' = view /\ scene' = scene
  BY DEF SetTrackScope
<1> QED
  BY <1>1, <1>2 DEF BseInv, Sound, Visited

(* What a tick makes of the engine. *)
LEMMA TickDecides ==
    ASSUME BseInv, BseTick
    PROVE  /\ IsEngine(engine') /\ engine'.intent = engine.intent
           /\ engine'.parked = engine.parked
           /\ Sound(engine.intent, engine'.act) /\ HoldsStill(engine.act, engine'.act)
           /\ Visited(engine'.prev) /\ (engine'.act.achieved => Visited(engine'.goal))
<1> DEFINE s == [engine EXCEPT !.goal = <<>>, !.anchorLost = FALSE]
           d == Decomposed(s)
           e == Achieved(d)
           t == [d EXCEPT !.act = e]
<1>1. Ready(s)
  BY InvReady
<1>2. s.intent = engine.intent /\ s.parked = engine.parked /\ s.act = engine.act
  BY DEF BseInv, IsEngine, EngineFields
<1>3. engine' = t
  BY DEF BseTick, BseTicked
<1> HIDE DEF s
<1>4. Decides(s, d)
  BY <1>1, Decided
<1> HIDE DEF d
<1>5. SameAnchor(d.act, e) /\ e.station = d.act.station /\ (e.achieved => Visited(d.goal))
  BY <1>1, <1>4, AchievedVisits
<1> HIDE DEF e
<1>6. /\ IsEngine(t) /\ t.intent = d.intent /\ t.parked = d.parked /\ t.act = e
      /\ t.prev = d.prev /\ t.goal = d.goal
  BY <1>4 DEF Decides, IsEngine, EngineFields
<1> HIDE DEF t
<1>7. IsAct(e) /\ Anchored(engine.intent, e) /\ HoldsStill(engine.act, e)
  BY <1>1, <1>2, <1>4, <1>5, SameAnchorKeeps DEF Decides, Ready, Sound
<1> QED
  BY <1>2, <1>3, <1>4, <1>5, <1>6, <1>7 DEF Decides, Sound, BseInv

LEMMA TickKeeps ==
    ASSUME BseInv, BseTick
    PROVE  BseInv'
<1>1. been' = been /\ view' = view /\ scene' = scene
  BY DEF BseTick
<1> QED
  BY <1>1, TickDecides DEF BseInv, Sound, Visited

(* The places this element has been are not forgotten. *)
LEMMA SeeKeeps ==
    ASSUME BseInv, NEW v \in Scenes[scene].views, See(v)
    PROVE  BseInv'
<1>1. engine' = engine /\ scene' = scene /\ view' = v /\ been' = been \cup {v.at[Me]}
  BY DEF See
<1>2. ASSUME NEW p, Visited(p) PROVE Visited(p)'
  BY <1>1, <1>2 DEF Visited
<1>3. ASSUME NEW intent, NEW act, Sound(intent, act) PROVE Sound(intent, act)'
  BY <1>2, <1>3 DEF Sound
<1>4. view'.at[Me] \in been'
  BY <1>1
<1>5. Visited(engine.prev)' /\ (engine.act.achieved => Visited(engine.goal)')
  BY <1>1, <1>2 DEF BseInv
<1>6. Sound(engine.intent, engine.act)'
  BY <1>1, <1>3 DEF BseInv
<1> QED
  BY <1>1, <1>3, <1>4, <1>5, <1>6 DEF BseInv

LEMMA BseInvNext == BseInv /\ [BseNext]_bseVars => BseInv'
<1> SUFFICES ASSUME BseInv, [BseNext]_bseVars PROVE BseInv'
  OBVIOUS
<1>1. CASE UNCHANGED bseVars
  BY <1>1 DEF bseVars, BseInv, Sound, Visited
<1> QED
  BY <1>1, SubmitKeeps, PreemptKeeps, ResumeKeeps, ScopeKeeps, TickKeeps, SeeKeeps
     DEF BseNext

(* The invariant holds of every engine, whatever the scenes, the shapes,   *)
(* the hold times and the peers (bse_tick and the three entries to it).    *)
THEOREM EngineSound == BseSpec => []BseInv
<1>1. BseInit => BseInv
  BY BseInvInit
<1>2. BseInv /\ [BseNext]_bseVars => BseInv'
  BY BseInvNext
<1> QED
  BY <1>1, <1>2, PTL DEF BseSpec

(* Through any chain of goals, preemptions and resumptions the station a   *)
(* HOLD keeps, active or parked, is one the element has been at, up to the *)
(* slack of achievement: never a point it was only on its way to           *)
(* (snapshot_prev_goal and the HOLD case of bse_tick).                     *)
THEOREM HoldsWhereItWas == BseSpec => []StationWasVisited
<1>1. BseInv => StationWasVisited
  <2> SUFFICES ASSUME BseInv,
                      NEW act \in {engine.act} \cup
                                  {engine.parked[k].act : k \in DOMAIN engine.parked}
               PROVE  Visited(act.station)
    BY DEF StationWasVisited, Visited
  <2>1. CASE act = engine.act
    BY <2>1 DEF BseInv, Sound
  <2>2. CASE act \in {engine.parked[k].act : k \in DOMAIN engine.parked}
    <3>1. PICK i, a : engine.parked = <<[intent |-> i, act |-> a]>> /\ Sound(i, a)
      BY <2>2 DEF BseInv
    <3>2. act = a
      BY <2>2, <3>1
    <3> QED
      BY <3>1, <3>2 DEF Sound
  <2> QED
    BY <2>1, <2>2
<1> QED
  BY <1>1, EngineSound, PTL

(* An anchor still worth steering by is given up for another only after    *)
(* that other has been named in every tick of the hold time, across        *)
(* flickers, preemptions and waits for the quorum (resolve_element,        *)
(* resolve_landmark).                                                      *)
THEOREM AnchorsHold == BseSpec => AnchorHoldsStill
<1>1. BseInv /\ [BseNext]_bseVars
        => [BseTick /\ Steady(engine.act) /\ Steady(engine'.act)
            /\ <<engine'.act.locked, engine'.act.mark>> # <<engine.act.locked, engine.act.mark>>
                => engine'.act.run > AnchorHold]_bseVars
  BY TickDecides DEF HoldsStill
<1> QED
  BY <1>1, EngineSound, PTL DEF BseSpec, AnchorHoldsStill

-----------------------------------------------------------------------------
(* Exchanges *)

SwapTypes ==
    /\ where \in [Pair -> Int] /\ dest \in [Pair -> Int]
    /\ hears \in [Pair -> [Pair -> Int]]

(* The exchange is at rest: all that can be heard has been, and nobody has *)
(* anywhere to go.                                                         *)
SwapRests ==
    \A i \in Pair : /\ Target(i) = where[i]
                    /\ \A j \in Pair \ {i} : hears[i][j] = where[j]

(* Who crowds i: one whose script has not come to the step stands on the   *)
(* place i is to take, or one that has captured is to take a place too     *)
(* near to it for the two to stand off from one another.                   *)
Crowds(j, i) ==
    \/ j \notin captured /\ On(where[j], dest[i])
    \/ j \in captured /\ Dist(dest[i], dest[j]) < Occupied + Standoff

OnlyCrowdsWait ==
    SwapRests => /\ \A i \in captured :
                        where[i] # dest[i] => \E j \in Pair \ {i} : Crowds(j, i)
                 /\ RoomToWait => Arrived

(* A place is held by somebody who is on his own or stands off from it.    *)
LEMMA HolderCrowds ==
    ASSUME SwapTypes, SwapRests, NEW i \in Pair, NEW j \in Pair \ {i},
           On(hears[i][j], dest[i])
    PROVE  Crowds(j, i)
<1>1. Dist(where[j], dest[i]) < Occupied
  BY DEF SwapRests, On
<1>2. CASE j \notin captured
  BY <1>1, <1>2 DEF Crowds, On
<1>3. CASE j \in captured
  <2>1. where[j] = dest[j] \/ where[j] = StandoffFrom(where[j], dest[j])
    BY <1>3 DEF SwapRests, Target
  <2>2. /\ where[j] \in Int /\ dest[j] \in Int /\ dest[i] \in Int
        /\ Occupied \in Nat /\ Standoff \in Nat
    BY SwapAssumption DEF SwapTypes
  <2>3. Dist(where[j], dest[j]) <= Standoff
    BY <2>1, <2>2 DEF StandoffFrom, Dist
  <2>4. Dist(dest[i], dest[j]) < Occupied + Standoff
    BY <1>1, <2>2, <2>3 DEF Dist
  <2> QED
    BY <1>3, <2>4 DEF Crowds
<1> QED
  BY <1>2, <1>3

LEMMA RestIsCrowdedOrComplete ==
    ASSUME SwapTypes, captured \subseteq Pair
    PROVE  OnlyCrowdsWait
<1> SUFFICES ASSUME SwapRests
             PROVE  /\ \A i \in captured :
                          where[i] # dest[i] => \E j \in Pair \ {i} : Crowds(j, i)
                    /\ RoomToWait => Arrived
  BY DEF OnlyCrowdsWait
<1>1. ASSUME NEW i \in captured, where[i] # dest[i]
      PROVE  \E j \in Pair \ {i} : Crowds(j, i)
  <2>1. i \in Pair /\ Taken(i)
    BY <1>1 DEF SwapRests, Target
  <2>2. PICK j \in Pair \ {i} : On(hears[i][j], dest[i])
    BY <2>1 DEF Taken
  <2> QED
    BY <2>1, <2>2, HolderCrowds
<1>2. ASSUME RoomToWait, NEW i \in Pair PROVE where[i] = dest[i]
  <2> SUFFICES ASSUME where[i] # dest[i] PROVE FALSE
    OBVIOUS
  <2>1. captured = Pair
    BY <1>2 DEF RoomToWait
  <2>2. PICK j \in Pair \ {i} : Crowds(j, i)
    BY <1>1, <2>1
  <2>3. Dist(dest[i], dest[j]) < Occupied + Standoff
    BY <2>1, <2>2 DEF Crowds
  <2>4. Occupied + Standoff <= Dist(dest[i], dest[j])
    BY <1>2 DEF RoomToWait
  <2>5. Dist(dest[i], dest[j]) \in Int /\ Occupied + Standoff \in Int
    BY SwapAssumption DEF SwapTypes, Dist
  <2> QED
    BY <2>3, <2>4, <2>5
<1>3. RoomToWait => Arrived
  BY <1>2 DEF RoomToWait, Arrived
<1> QED
  BY <1>1, <1>3

LEMMA SwapTyped == SwapSpec => [](SwapTypes /\ captured \subseteq Pair)
<1>1. SwapInit => SwapTypes /\ captured \subseteq Pair
  BY SwapAssumption DEF SwapInit, SwapTypes
<1>2. SwapTypes /\ captured \subseteq Pair /\ [SwapNext]_swapVars
        => SwapTypes' /\ (captured \subseteq Pair)'
  <2> SUFFICES ASSUME SwapTypes, captured \subseteq Pair, [SwapNext]_swapVars
               PROVE  SwapTypes' /\ (captured \subseteq Pair)'
    OBVIOUS
  <2>1. ASSUME NEW i \in Pair, Capture(i)
        PROVE  SwapTypes' /\ (captured \subseteq Pair)'
    <3>1. PICK j \in Pair : dest' = [dest EXCEPT ![i] = PlaceOf(i, j)]
      BY <2>1 DEF Capture
    <3>2. PlaceOf(i, j) \in Int
      BY DEF PlaceOf, SwapTypes
    <3>3. dest' \in [Pair -> Int]
      BY <3>1, <3>2 DEF SwapTypes
    <3>4. where' = where /\ hears' = hears /\ captured' = captured \cup {i}
      BY <2>1 DEF Capture
    <3> QED
      BY <3>3, <3>4 DEF SwapTypes
  <2>2. ASSUME NEW i \in Pair, Track(i)
        PROVE  SwapTypes' /\ (captured \subseteq Pair)'
    BY <2>2 DEF SwapTypes, Track
  <2>3. ASSUME NEW i \in Pair, NEW j \in Pair, HearFrom(i, j)
        PROVE  SwapTypes' /\ (captured \subseteq Pair)'
    BY <2>3 DEF SwapTypes, HearFrom
  <2>4. CASE UNCHANGED swapVars
    BY <2>4 DEF SwapTypes, swapVars
  <2> QED
    BY <2>1, <2>2, <2>3, <2>4 DEF SwapNext
<1> QED
  BY <1>1, <1>2, PTL DEF SwapSpec

(* Where an exchange on the direct path comes to rest, every element that  *)
(* is short of the place it is to take is crowded out of it: by one that   *)
(* never came to the step, or by one whose own place is too near.  Nobody  *)
(* waits for anything else, however late each captured, whomever it heard, *)
(* wherever they stood; with room to wait the exchange is complete         *)
(* (exchange_capture, and the standoff in bse_tick).                       *)
THEOREM OnlyCrowdingStalls == SwapSpec => []OnlyCrowdsWait
<1>1. SwapTypes /\ captured \subseteq Pair => OnlyCrowdsWait
  BY RestIsCrowdedOrComplete
<1> QED
  BY <1>1, SwapTyped, PTL

-----------------------------------------------------------------------------
(* Formations *)

(* The swarm is at rest: all that can be heard has been, and everybody is  *)
(* where he wants to be.                                                   *)
FormationRests ==
    \A i \in Team : /\ OwnSlot(i, View(i)) = at[i]
                    /\ \A j \in Team \ {i} : heard[i][j] = at[j]

RestsInShape ==
    FormationRests => {at[i] : i \in Team} = {FormSlots[k] : k \in DOMAIN FormSlots}

(* As long as the assignment gives every participant a slot of its own in  *)
(* everybody's view, a swarm that computes its slots each for itself rests *)
(* nowhere but in the shape, one element in each slot (bse_tick).          *)
THEOREM FormationsRestInShape == FormationSpec /\ []AssignmentIsBest => []RestsInShape
<1>1. FormationInit => at \in [Team -> Int]
  BY FormationAssumption DEF FormationInit
<1>2. at \in [Team -> Int] /\ [FormationNext]_formationVars => (at \in [Team -> Int])'
  BY DEF FormationNext, Drive, HearOf, formationVars
<1>3. at \in [Team -> Int] /\ AssignmentIsBest => RestsInShape
  <2> SUFFICES ASSUME at \in [Team -> Int], AssignmentIsBest, FormationRests
               PROVE  {at[i] : i \in Team} = {FormSlots[k] : k \in DOMAIN FormSlots}
    BY DEF RestsInShape
  <2>1. \A i \in Team : View(i) = at
    BY DEF FormationRests, View
  <2>2. \A i \in Team : OwnSlot(i, at) = at[i]
    BY <2>1 DEF FormationRests
  <2>3. PICK i \in Team : TRUE
    BY FormationAssumption
  <2> DEFINE taken == [p \in Team |-> OwnSlot(p, at)]
  <2>4. {taken[p] : p \in Team} = {FormSlots[k] : k \in DOMAIN FormSlots}
    BY <2>1, <2>3 DEF AssignmentIsBest
  <2>5. \A p \in Team : taken[p] = at[p]
    BY <2>2
  <2> QED
    BY <2>4, <2>5
<1> QED
  BY <1>1, <1>2, <1>3, PTL DEF FormationSpec
=============================================================================
