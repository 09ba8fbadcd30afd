-------------------------------- MODULE Bse --------------------------------
(***************************************************************************)
(* L6 of one element (bse/bse.c): the active intent and the one parked     *)
(* below it, what an intent captures when it becomes active, the choice    *)
(* and debounce of its anchor, the directive of each tick and whether the  *)
(* goal is achieved.                                                       *)
(*                                                                         *)
(* Space is a line of integers: the code asks for distances, means and     *)
(* sums of positions only, except on EXCHANGE's arc, which is seen along   *)
(* its chord.  A spin turns the shape half round in every tick.  What L4   *)
(* and L5 say is the record view.                                          *)
(***************************************************************************)
EXTENDS Slots

CONSTANTS
    Me, Others,       \* identifiers, natural numbers
    Untrusted,        \* peers SCR does not trust
    Energy,           \* [Me and Others -> energy_level]
    Marks,            \* shared facts of the landmark type, in order; each
    MarkAt,           \* has its place
    Scenes,           \* bound: by name, the intents submitted, the interrupts that
                      \* preempt them, the tracks and the views there may be
    AnchorHold, AchieveHold,  \* in ticks
    ArcTicks,         \* ticks an EXCHANGE's arc takes
    Eps, Spacing

Ids  == Others \cup {Me}
None == 0             \* no identifier

Frames  == {"ABSOLUTE", "COLLECTIVE", "ELEMENT"}
Anchors == {"LEADER", "SELF", "ID", "LOWEST_ENERGY", "LANDMARK"}

Intent ==
    [type: {"IDLE", "FORM", "MOVE", "DISPERSE", "CONVERGE", "HOLD", "EXCHANGE"},
     target: Int, frame: Frames, anchor: Anchors, anchorId: Ids, rank: Nat,
     spin: BOOLEAN, shift: Nat, direct: BOOLEAN]

ASSUME BseAssumption ==
    /\ Me \in Nat \ {None} /\ Others \subseteq Nat \ {None, Me}
    /\ Untrusted \subseteq Others /\ Energy \in [Ids -> Nat]
    /\ Marks \subseteq Nat /\ MarkAt \in [Marks -> Int]
    /\ \A name \in DOMAIN Scenes :
           /\ Scenes[name].intents \cup Scenes[name].interrupts \subseteq Intent
           /\ \A v \in Scenes[name].views : v.at \in [Ids -> Int]
    /\ {AnchorHold, AchieveHold, ArcTicks} \subseteq Nat \ {0} /\ Eps \in Nat

VARIABLES
    engine, \* bse.c's static variables
    view,   \* [at: where each is, see: what L4 makes of each peer, track: what
            \* track it is on, leader: scr_get_leader, marks: the live facts]
    scene,  \* which of the scenes
    been    \* history: the places this element has been

bseVars == <<engine, view, scene, been>>

(* A peer is DEPARTED while its frames still come.                         *)
Sights == {"FRESH", "STALE", "DEPARTED", "GONE"}

Here(i) == view.see[i] \in {"FRESH", "DEPARTED"} /\ i \notin Untrusted

-----------------------------------------------------------------------------
Idle == [type |-> "IDLE", target |-> 0, frame |-> "ABSOLUTE", anchor |-> "LEADER",
         anchorId |-> Me, rank |-> 0, spin |-> FALSE, shift |-> 0, direct |-> FALSE]

(* What an intent accumulates while it is active.  run is history: the     *)
(* ticks in a row in which the selector has named the same anchor.         *)
Activation ==  \* reset_activation
    [achieved |-> FALSE, accum |-> 0, station |-> <<>>, exchange |-> <<>>,
     offset |-> <<>>, turned |-> FALSE,
     locked |-> <<>>, candidate |-> <<>>, waited |-> 0,
     mark |-> <<>>, markCandidate |-> <<>>, markWaited |-> 0,
     named |-> <<>>, run |-> 0]

Still(type) == [type |-> type, to |-> 0]
MoveTo(p)   == [type |-> "MOVE_TO_POINT", to |-> p]

(* snapshot_prev_goal *)
(* Variant: a goal that is only being tracked is inherited too.            *)
PrevGoalTracked(s) == IF s.dir.type = "MOVE_TO_POINT" THEN s.goal ELSE <<>>

PrevGoal(s) ==
    IF s.act.achieved /\ s.dir.type = "MOVE_TO_POINT" THEN s.goal ELSE <<>>

(* An intent becomes active; quiescence takes effect at once.              *)
Activated(s, intent) ==
    [s EXCEPT !.prev = PrevGoal(s), !.intent = intent, !.act = Activation,
              !.goal = <<>>,
              !.dir = IF intent.type = "IDLE" THEN Still("IDLE") ELSE @]

SubmitIntent(s, intent) == [Activated(s, intent) EXCEPT !.parked = <<>>]

PreemptIntent(s, intent) ==
    [Activated(s, intent) EXCEPT
        !.parked = <<[intent |-> s.intent, act |-> s.act]>>]

ResumeIntent(s) ==
    [s EXCEPT !.intent = Head(s.parked).intent, !.act = Head(s.parked).act,
              !.parked = Tail(@), !.goal = <<>>, !.prev = <<>>]

-----------------------------------------------------------------------------
(* Who takes part, and anchors *)

CollectParticipants(s) ==
    {Me} \cup {i \in Others : /\ view.see[i] = "FRESH" /\ i \notin Untrusted
                             /\ view.track[i] = s.scope}

(* ID-sorted, with the element's rank. *)
Ring(s) == SetToSortSeq(CollectParticipants(s), <)
Rank(s) == CHOOSE r \in DOMAIN Ring(s) : Ring(s)[r] = Me

Centroid(s) ==
    LET all == CollectParticipants(s)
    IN MapThenSumSet(LAMBDA i : view.at[i], all) \div Cardinality(all)

LookupAnchorPosition(i) ==
    IF i = Me \/ (view.see[i] = "FRESH" /\ i \notin Untrusted) THEN <<view.at[i]>>
    ELSE <<>>

LowestEnergy ==
    CHOOSE i \in {Me} \cup {p \in Others : Here(p)} :
        \A j \in {Me} \cup {p \in Others : Here(p)} :
            Energy[i] < Energy[j] \/ (Energy[i] = Energy[j] /\ i <= j)

ResolveAnchorSelector(intent) ==
    CASE intent.anchor = "SELF" -> <<Me>>
      [] intent.anchor = "ID" -> <<intent.anchorId>>
      [] intent.anchor = "LEADER" ->
            IF view.leader = None THEN <<>> ELSE <<view.leader>>
      [] intent.anchor = "LOWEST_ENERGY" -> <<LowestEnergy>>

(* Variant: a flicker back does not cancel the pending switch. *)
DebouncedStubborn(locked, candidate, waited, raw) ==
    LET w == IF candidate = raw THEN waited + 1 ELSE 0
    IN IF locked = raw THEN [locked |-> locked, candidate |-> candidate, waited |-> waited]
       ELSE IF w >= AnchorHold THEN [locked |-> raw, candidate |-> <<>>, waited |-> 0]
       ELSE [locked |-> locked, candidate |-> raw, waited |-> w]

(* The debounce of a choice: [locked, candidate, waited] when the selector *)
(* names raw, the lock being worth protecting or not.                      *)
Debounced(locked, candidate, waited, raw) ==
    LET w == IF candidate = raw THEN waited + 1 ELSE 0
    IN IF locked = raw THEN [locked |-> locked, candidate |-> <<>>, waited |-> 0]
       ELSE IF w >= AnchorHold THEN [locked |-> raw, candidate |-> <<>>, waited |-> 0]
       ELSE [locked |-> locked, candidate |-> raw, waited |-> w]

Named(act, raw) ==
    [act EXCEPT !.named = raw,
                !.run = IF act.named # raw THEN 1
                        ELSE IF @ <= AnchorHold THEN @ + 1 ELSE @]

(* resolve_landmark: a lock on a fact no longer held is taken over at once. *)
RankedMark(rank) ==
    LET held == {m \in view.marks : Cardinality({n \in view.marks : n < m}) = rank}
    IN IF held = {} THEN <<>> ELSE <<CHOOSE m \in held : TRUE>>

ResolveLandmark(s) ==
    LET raw  == RankedMark(s.intent.rank)
        live == s.act.mark # <<>> /\ Head(s.act.mark) \in view.marks
        d    == IF live
                THEN Debounced(s.act.mark, s.act.markCandidate, s.act.markWaited, raw)
                ELSE [locked |-> raw, candidate |-> <<>>, waited |-> 0]
        act  == [Named(s.act, raw) EXCEPT !.mark = d.locked,
                     !.markCandidate = d.candidate, !.markWaited = d.waited]
    IN IF raw = <<>>
       THEN [act |-> [Named(s.act, raw) EXCEPT !.mark = <<>>, !.markCandidate = <<>>,
                                               !.markWaited = 0],
             at |-> <<>>]
       ELSE [act |-> act, at |-> <<MarkAt[Head(d.locked)]>>]

ResolveElement(s) ==
    LET raw == ResolveAnchorSelector(s.intent)
        d   == Debounced(s.act.locked, s.act.candidate, s.act.waited, raw)
        act == [Named(s.act, raw) EXCEPT !.locked = d.locked,
                                         !.candidate = d.candidate, !.waited = d.waited]
    IN IF raw = <<>>
       THEN [act |-> [Named(s.act, raw) EXCEPT !.locked = <<>>, !.candidate = <<>>,
                                               !.waited = 0],
             at |-> <<>>]
       ELSE [act |-> act,
             at |-> IF d.locked = <<>> THEN <<>>
                    ELSE LookupAnchorPosition(Head(d.locked))]

ResolveEffectiveTarget(s) ==
    CASE s.intent.frame = "ABSOLUTE" -> [act |-> s.act, at |-> <<s.intent.target>>]
      [] s.intent.frame = "COLLECTIVE" -> [act |-> s.act, at |-> <<Centroid(s)>>]
      [] s.intent.frame = "ELEMENT" ->
            IF s.intent.anchor = "LANDMARK" THEN ResolveLandmark(s)
            ELSE ResolveElement(s)

-----------------------------------------------------------------------------
(* The directive: one operator per intent, from the state to the state     *)
(* with the new activation, directive and goal point.                      *)
Commanded(s, act, to) == [s EXCEPT !.act = act, !.dir = MoveTo(to), !.goal = <<to>>]
Waiting(s, act)       == [s EXCEPT !.act = act, !.dir = Still("HOLD")]

Held(s) ==
    LET station == IF s.act.station # <<>> THEN s.act.station
                   ELSE IF s.prev # <<>> THEN s.prev ELSE <<view.at[Me]>>
    IN [Commanded(s, [s.act EXCEPT !.station = station], Head(station))
          EXCEPT !.prev = IF s.act.station = <<>> THEN <<>> ELSE @]

(* exchange_capture: whose station, and how long the arc is. *)
ExchangeCaptured(s) ==
    LET n    == Len(Ring(s))
        dest == ((Rank(s) - 1 + (IF s.intent.shift # 0 THEN s.intent.shift ELSE 1)) % n) + 1
    IN [from |-> view.at[Me], dest |-> view.at[Ring(s)[dest]],
        left |-> IF dest = Rank(s) \/ s.intent.direct THEN 0 ELSE ArcTicks]

(* Somebody fresh, trusted or not, sits on the station. *)
OccupiedAt(p) ==
    \E i \in Others : view.see[i] \in {"FRESH", "DEPARTED"} /\ On(view.at[i], p)

Exchanged(s) ==
    IF s.act.exchange = <<>> /\ Len(Ring(s)) < 2 THEN Waiting(s, s.act)
    ELSE
    LET x    == IF s.act.exchange # <<>> THEN Head(s.act.exchange)
                ELSE ExchangeCaptured(s)
        left == IF x.left = 0 THEN 0 ELSE x.left - 1
        act  == [s.act EXCEPT !.exchange = <<[x EXCEPT !.left = left]>>]
        to   == x.dest + ((x.from - x.dest) * left) \div ArcTicks
    IN IF s.intent.direct /\ OccupiedAt(x.dest)
       THEN [s EXCEPT !.act = act, !.dir = MoveTo(StandoffFrom(view.at[Me], x.dest))]
       ELSE [s EXCEPT !.act = act, !.dir = MoveTo(to),
                      !.goal = IF left = 0 THEN <<x.dest>> ELSE <<>>]

(* FORM needs the quorum; the shape has a slot for each participant. *)
Formed(s) ==
    LET r      == ResolveEffectiveTarget(s)
        turned == IF s.intent.spin THEN ~s.act.turned ELSE FALSE
        ring   == Ring(s)
        n      == Len(ring)
        slots  == FitAxis([k \in 1..n |-> Head(r.at) + SlotOffset(k, n, turned)])
    IN CASE view.leader = None -> Waiting(s, s.act)
         [] view.leader # None /\ r.at = <<>> ->
               [Waiting(s, r.act) EXCEPT !.anchorLost = TRUE]
         [] OTHER ->
               Commanded(s, [r.act EXCEPT !.turned = turned],
                         slots[AssignSlot([k \in 1..n |-> view.at[ring[k]]],
                                          slots, Rank(s))])

Moved(s) ==
    LET offset == IF s.act.offset # <<>> THEN Head(s.act.offset)
                  ELSE view.at[Me] - Centroid(s)
    IN Commanded(s, [s.act EXCEPT !.offset = <<offset>>], s.intent.target + offset)

Converged(s) ==
    LET r == ResolveEffectiveTarget(s)
    IN IF r.at # <<>> THEN Commanded(s, r.act, Head(r.at))
       ELSE [Waiting(s, r.act) EXCEPT !.anchorLost = TRUE]

Decomposed(s) ==
    CASE s.intent.type = "IDLE" -> [s EXCEPT !.dir = Still("IDLE")]
      [] s.intent.type = "HOLD" -> Held(s)
      [] s.intent.type = "EXCHANGE" -> Exchanged(s)
      [] s.intent.type = "FORM" -> Formed(s)
      [] s.intent.type = "MOVE" -> Moved(s)
      [] s.intent.type = "CONVERGE" -> Converged(s)
      [] s.intent.type = "DISPERSE" -> [s EXCEPT !.dir = Still("MAINTAIN_SPRING")]

(* The feedback controller: nearly there, for long enough. *)
Credited(act, there) ==
    LET n == IF ~there THEN 0 ELSE IF act.accum < AchieveHold THEN act.accum + 1
             ELSE act.accum
    IN [act EXCEPT !.accum = n, !.achieved = n >= AchieveHold]

SpreadOut ==
    \A i \in Others : Here(i) => Dist(view.at[i], view.at[Me]) >= Spacing - Eps

Achieved(s) ==
    CASE s.intent.type = "HOLD" -> [s.act EXCEPT !.achieved = TRUE]
      [] s.intent.type = "DISPERSE" -> Credited(s.act, SpreadOut)
      [] s.intent.type \notin {"HOLD", "DISPERSE"} /\ s.goal # <<>> ->
            Credited(s.act, Dist(view.at[Me], Head(s.goal)) <= Eps)
      [] OTHER -> [s.act EXCEPT !.accum = 0, !.achieved = FALSE]

BseTicked(s) ==
    LET d == Decomposed([s EXCEPT !.goal = <<>>, !.anchorLost = FALSE])
    IN [d EXCEPT !.act = Achieved(d)]
-----------------------------------------------------------------------------
BseTypeOK ==
    /\ engine.intent \in Intent
    /\ \A act \in {engine.act} \cup {engine.parked[k].act : k \in DOMAIN engine.parked} :
           /\ act.accum \in 0..AchieveHold /\ act.achieved \in BOOLEAN
           /\ act.waited \in 0..(AnchorHold - 1)
           /\ act.markWaited \in 0..(AnchorHold - 1)
           /\ act.station # <<>> => Head(act.station) \in Int
    /\ Len(engine.parked) <= 1
    /\ view \in Scenes[scene].views /\ view.at[Me] \in been

BseInit ==
    /\ scene \in DOMAIN Scenes
    /\ view \in Scenes[scene].views
    /\ been = {view.at[Me]}
    /\ engine = [intent |-> Idle, act |-> Activation, prev |-> <<>>, goal |-> <<>>,
            dir |-> Still("IDLE"), parked |-> <<>>, anchorLost |-> FALSE, scope |-> 0]

Submit(intent) ==
    /\ engine' = SubmitIntent(engine, intent)
    /\ UNCHANGED <<view, scene, been>>

Preempt(intent) ==
    /\ engine.parked = <<>>
    /\ engine' = PreemptIntent(engine, intent)
    /\ UNCHANGED <<view, scene, been>>

Resume ==
    /\ engine.parked # <<>>
    /\ engine' = ResumeIntent(engine)
    /\ UNCHANGED <<view, scene, been>>

(* bse_set_track_scope *)
SetTrackScope(track) ==
    /\ engine' = [engine EXCEPT !.scope = track]
    /\ UNCHANGED <<view, scene, been>>

BseTick ==
    /\ engine' = BseTicked(engine)
    /\ UNCHANGED <<view, scene, been>>

(* The element moves a step, peers move, come, go and depart, the leader   *)
(* and the facts change.                                                   *)
See(v) ==
    /\ Dist(v.at[Me], view.at[Me]) <= 1
    /\ view' = v
    /\ been' = been \cup {v.at[Me]}
    /\ UNCHANGED <<engine, scene>>

BseNext ==
    \/ \E i \in Scenes[scene].intents : Submit(i)
    \/ \E i \in Scenes[scene].interrupts : Preempt(i)
    \/ Resume
    \/ \E t \in Scenes[scene].tracks : SetTrackScope(t)
    \/ BseTick
    \/ \E v \in Scenes[scene].views : See(v)

BseSpec == BseInit /\ [][BseNext]_bseVars

-----------------------------------------------------------------------------
(* An anchor an element still steers by is given up for another only after *)
(* the selector has named that other one, and nothing else, for the whole  *)
(* hold time, whatever flickered before, whether the goal was preempted in *)
(* between or a FORM had to wait for its quorum.                           *)
Steady(act) ==
    \/ act.locked # <<>>
    \/ act.mark # <<>> /\ Head(act.mark) \in view.marks

AnchorHoldsStill ==
    [][BseTick /\ Steady(engine.act) /\ Steady(engine'.act)
       /\ <<engine'.act.locked, engine'.act.mark>> # <<engine.act.locked, engine.act.mark>>
           => engine'.act.run > AnchorHold]_bseVars

(* A HOLD keeps a station this element has really been at, the one it took *)
(* or the one it inherits through any chain of goals: never a point that   *)
(* it was only on its way to.                                              *)
StationWasVisited ==
    \A act \in {engine.act} \cup {engine.parked[k].act : k \in DOMAIN engine.parked} :
        act.station # <<>> => \E p \in been : Dist(p, Head(act.station)) <= Eps
=============================================================================
