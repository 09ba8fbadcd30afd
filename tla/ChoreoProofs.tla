---------------------------- MODULE ChoreoProofs ----------------------------
(***************************************************************************)
(* Proofs about L7 (Choreo), for every set of peers, scripts, shows and    *)
(* goals.  The theorems are about shows that have a track for an element   *)
(* whose battery is full: otherwise the table of a refused submission      *)
(* stays, a tick may start it (run choreo_tracks), and IInv as it stands   *)
(* is not an invariant.  Run choreo has a refused show among its own.      *)
(***************************************************************************)
EXTENDS Choreo, SequenceTheorems, WellFoundedInduction, TLAPS

EveryShowHasATrack == \A tracks \in TrackSets : Matching(tracks, FALSE) # {}

(* What validate_steps leaves of a script, and an engine standing in it.   *)
Playable(script) ==
    /\ script \in Seq(Step) /\ Len(script) > 0
    /\ \A i \in 1..Len(script) : \A j \in 1..Len(script[i].on) :
           script[i].on[j].goto \in 1..(Len(script) + 1)

At(script, step, goal) ==
    Playable(script) /\ step \in 1..Len(script) /\ goal = script[step].goal

(* L7's stack and L6's, and what each state of the lifecycle excludes.     *)
Stacks(s) ==
    /\ s.parked = <<>> => s.bseParked = <<>>
    /\ s.parked # <<>> =>
          /\ Len(s.parked) = 1 /\ s.bseParked = <<s.parked[1].goal>>
          /\ ~s.active /\ s.state # "IDLE"
          /\ s.parked[1].active =>
                 At(s.parked[1].script, s.parked[1].step, s.parked[1].goal)
    /\ s.state = "IDLE" => s.intent = "IDLE" /\ ~s.active
    /\ s.state # "IDLE" => s.intent = s.goal /\ s.goal \in Goals
    /\ s.active => At(s.script, s.step, s.goal)
    /\ s.done \/ s.triggered => s.state = "IDLE"

(* The tracks: where each was left, and whose script the engine is in.     *)
OnTrack(s) ==
    s.tracks # <<>> =>
        /\ s.tracks \in TrackSets /\ s.state # "IDLE"
        /\ s.track \in 1..Len(s.tracks) /\ Len(s.saved) = Len(s.tracks)
        /\ \A i \in 1..Len(s.tracks) :
               /\ Playable(s.tracks[i].script)
               /\ s.saved[i] \in 1..Len(s.tracks[i].script)
        /\ s.parked = <<>> => s.active /\ s.script = s.tracks[s.track].script
        /\ s.parked # <<>> =>
               s.parked[1].active /\ s.parked[1].script = s.tracks[s.track].script

Sound(s) == Stacks(s) /\ OnTrack(s)

IInv == TypeOK /\ Sound(c)

-----------------------------------------------------------------------------
(* Records.  A field is set to a constant, often a Boolean one, in most    *)
(* updates, so types are proved field by field.                            *)

Fields ==
    {"state", "goal", "intent", "achieved", "script", "step", "ms", "active", "done",
     "parked", "bseParked", "seen", "triggered", "how", "recall", "hold", "holdMs",
     "tracks", "track", "saved", "wanted"}

Shaped(t) == t = [f \in Fields |-> t[f]]

Typed(t, B) ==
    /\ t.state \in {"IDLE", "RUNNING", "SUSPENDED"} /\ t.goal \in Goals \cup {"NONE"}
    /\ t.intent \in Goals \cup {"IDLE"} /\ t.achieved \in B
    /\ t.script \in Seq(Step) /\ t.step \in Nat \ {0} /\ t.ms \in 0..MaxMs
    /\ t.active \in BOOLEAN /\ t.done \in BOOLEAN
    /\ t.parked \in Seq(Parked) /\ t.bseParked \in Seq(Goals)
    /\ t.seen \in (SUBSET Peers) \cup {NoMask}
    /\ t.triggered \in BOOLEAN /\ t.how \in Policies
    /\ t.recall \in BOOLEAN /\ t.hold \in BOOLEAN /\ t.holdMs \in 0..(HoldTimeout - 1)
    /\ t.tracks \in Seq(Track) /\ t.track \in Nat \ {0} /\ t.saved \in Seq(Nat \ {0})
    /\ t.wanted \in {<<>>} \cup ((Nat \ {0}) \X Nat)

(* A record is typed when each of its fields is.                           *)
LEMMA ByFields ==
    ASSUME NEW B, NEW t, Shaped(t), Typed(t, B)
    PROVE  t \in State(B)
  BY Zenon DEF State, Shaped, Typed, Fields

(* And each field of a typed record is.                                    *)
LEMMA ToFields ==
    ASSUME NEW B, NEW t \in State(B)
    PROVE  Shaped(t) /\ Typed(t, B)
<1>1. Shaped(t)
  BY SMT DEF State, Shaped, Fields
<1>2. Typed(t, B)
  BY SMT DEF State, Typed
<1> QED
  BY <1>1, <1>2

(* The constants the updates write.                                        *)
LEMMA Values ==
    /\ "IDLE" \in {"IDLE", "RUNNING", "SUSPENDED"} /\ "IDLE" \in Goals \cup {"IDLE"}
    /\ "RUNNING" \in {"IDLE", "RUNNING", "SUSPENDED"}
    /\ "SUSPENDED" \in {"IDLE", "RUNNING", "SUSPENDED"}
    /\ "LAND_IN_PLACE" \in Policies /\ "RECALL" \in Policies /\ "CONTINUE" \in Policies
    /\ <<>> \in Seq(Step) /\ <<>> \in Seq(Parked) /\ <<>> \in Seq(Goals)
    /\ <<>> \in Seq(Track) /\ <<>> \in Seq(Nat \ {0})
    /\ <<>> \in {<<>>} \cup ((Nat \ {0}) \X Nat)
    /\ 1 \in Nat \ {0} /\ 0 \in 0..MaxMs /\ 0 \in 0..(HoldTimeout - 1)
    /\ NoMask \in (SUBSET Peers) \cup {NoMask} /\ FALSE \in BOOLEAN /\ TRUE \in BOOLEAN
    /\ \A g \in Goals : g \in Goals \cup {"NONE"} /\ g \in Goals \cup {"IDLE"}
  BY ChoreoAssumption DEF Policies

-----------------------------------------------------------------------------
(* The updates *)

LEMMA TerminatedHardFacts ==
    ASSUME NEW B, FALSE \in B, NEW s \in State(B)
    PROVE  LET t == TerminatedHard(s)
           IN  /\ t \in State(B)
               /\ t.state = "IDLE" /\ t.intent = "IDLE" /\ t.active = FALSE
               /\ t.parked = <<>> /\ t.bseParked = <<>> /\ t.tracks = <<>>
               /\ t.achieved = FALSE /\ t.done = s.done /\ t.triggered = s.triggered
<1> DEFINE t == TerminatedHard(s)
<1>1. Shaped(s) /\ Typed(s, B)
  BY ToFields
<1>2. Shaped(t)
  BY Zenon DEF TerminatedHard, Submitted, State, Shaped, Fields
<1>3. /\ t.state = "IDLE" /\ t.intent = "IDLE" /\ t.achieved = FALSE /\ t.goal = s.goal
      /\ t.script = <<>> /\ t.step = 1 /\ t.ms = 0 /\ t.active = FALSE
      /\ t.done = s.done /\ t.parked = <<>> /\ t.bseParked = <<>>
      /\ t.seen = NoMask /\ t.triggered = s.triggered /\ t.how = s.how
      /\ t.recall = FALSE /\ t.hold = FALSE /\ t.holdMs = 0
      /\ t.tracks = <<>> /\ t.track = s.track /\ t.saved = <<>> /\ t.wanted = <<>>
  BY Zenon DEF TerminatedHard, Submitted, State
<1> HIDE DEF t
<1>4. Typed(t, B)
  BY <1>1, <1>3, Values, Zenon DEF Typed
<1>5. t \in State(B)
  BY <1>2, <1>4, ByFields
<1> QED
  BY <1>3, <1>5 DEF t

(* It leaves a sound, idle element.                                        *)
LEMMA HardIsSound ==
    ASSUME NEW B, FALSE \in B, NEW s \in State(B)
    PROVE  TerminatedHard(s) \in State(B) /\ Sound(TerminatedHard(s))
<1> DEFINE t == TerminatedHard(s)
<1>1. /\ t \in State(B) /\ t.state = "IDLE" /\ t.intent = "IDLE" /\ t.active = FALSE
      /\ t.parked = <<>> /\ t.bseParked = <<>> /\ t.tracks = <<>>
  BY TerminatedHardFacts
<1> HIDE DEF t
<1>2. Sound(t)
  BY <1>1, Zenon DEF Sound, Stacks, OnTrack
<1> QED
  BY <1>1, <1>2 DEF t

(* What was parked is taken up again.                                      *)
LEMMA ResumedIsSound ==
    ASSUME NEW B, NEW s \in State(B), Sound(s), s.parked # <<>>
    PROVE  /\ Terminated(s) \in State(B) /\ Sound(Terminated(s))
           /\ Terminated(s).achieved = s.achieved
<1> DEFINE t == Terminated(s)
           p == s.parked[1]
<1>1. Shaped(s) /\ Typed(s, B)
  BY ToFields
<1>2. /\ s.parked \in Seq(Parked) /\ Len(s.parked) = 1 /\ Head(s.parked) = p
      /\ Tail(s.parked) = <<>> /\ p \in Parked
      /\ s.bseParked = <<p.goal>> /\ Head(s.bseParked) = p.goal
      /\ Tail(s.bseParked) = <<>>
  <2>1. s.parked \in Seq(Parked) /\ Len(s.parked) = 1 /\ s.bseParked = <<p.goal>>
    BY <1>1 DEF Sound, Stacks, Typed
  <2>2. Tail(s.parked) = <<>> /\ p \in Parked /\ Head(s.parked) = p
    <3>1. Tail(s.parked) \in Seq(Parked) /\ Len(Tail(s.parked)) = 0
          /\ Head(s.parked) \in Parked
      BY <2>1, HeadTailProperties
    <3>2. Tail(s.parked) = <<>>
      BY <3>1, EmptySeq
    <3> QED
      BY <3>1, <3>2
  <2>3. Head(<<p.goal>>) = p.goal /\ Tail(<<p.goal>>) = <<>>
    OBVIOUS
  <2> QED
    BY <2>1, <2>2, <2>3
<1>3. /\ p.goal \in Goals /\ p.script \in Seq(Step) /\ p.step \in Nat \ {0}
      /\ p.ms \in 0..MaxMs /\ p.active \in BOOLEAN
  BY <1>2 DEF Parked
<1>4. t = [s EXCEPT !.goal = p.goal, !.script = p.script, !.step = p.step,
                    !.ms = p.ms, !.active = p.active, !.parked = <<>>,
                    !.intent = p.goal, !.bseParked = <<>>, !.state = "RUNNING"]
  BY <1>2, Zenon DEF Terminated
<1> HIDE DEF t, p
<1>5. Shaped(t)
  BY <1>4, Zenon DEF State, Shaped, Fields
<1>6. /\ t.state = "RUNNING" /\ t.intent = p.goal /\ t.achieved = s.achieved
      /\ t.goal = p.goal /\ t.script = p.script /\ t.step = p.step /\ t.ms = p.ms
      /\ t.active = p.active /\ t.done = s.done /\ t.parked = <<>> /\ t.bseParked = <<>>
      /\ t.seen = s.seen /\ t.triggered = s.triggered /\ t.how = s.how
      /\ t.recall = s.recall /\ t.hold = s.hold /\ t.holdMs = s.holdMs
      /\ t.tracks = s.tracks /\ t.track = s.track /\ t.saved = s.saved
      /\ t.wanted = s.wanted
  BY <1>4, Zenon DEF State
<1>7. Typed(t, B)
  BY <1>1, <1>3, <1>6, Values, Zenon DEF Typed
<1>8. Stacks(t)
  <2>1. p.active => At(p.script, p.step, p.goal)
    BY DEF Sound, Stacks, p
  <2>2. ~(s.done \/ s.triggered)
    BY DEF Sound, Stacks
  <2> QED
    BY <1>3, <1>6, <2>1, <2>2, Zenon DEF Stacks
<1>9. OnTrack(t)
  <2>1. OnTrack(s) /\ (s.tracks # <<>> => p.active /\ p.script = s.tracks[s.track].script)
    BY DEF Sound, OnTrack, p
  <2> QED
    BY <1>6, <2>1, Zenon DEF OnTrack
<1> QED
  BY <1>5, <1>6, <1>7, <1>8, <1>9, ByFields DEF Sound, t

(* A least element, for the first of the transitions and of the tracks.    *)
LEMMA Minimum ==
    ASSUME NEW T, T \subseteq Nat, T # {}
    PROVE  \E x \in T : \A y \in T : x <= y
<1>1. PICK x \in T : \A y \in T : <<y, x>> \notin OpToRel(<, Nat)
  BY NatLessThanWellFounded, WFMin, Zenon
<1>2. \A y \in T : ~(y < x)
  BY <1>1 DEF OpToRel
<1> QED
  BY <1>2

(* What runs is parked, in L7 and in L6 alike.                             *)
LEMMA PreemptedIsSound ==
    ASSUME NEW B, FALSE \in B, NEW s \in State(B), Sound(s), NEW goal, CanPreempt(s, goal)
    PROVE  /\ Preempted(s, goal) \in State(B) /\ Sound(Preempted(s, goal))
<1> DEFINE t == Preempted(s, goal)
           p == [goal |-> s.goal, script |-> s.script, step |-> s.step,
                 ms |-> s.ms, active |-> s.active]
<1>1. Shaped(s) /\ Typed(s, B)
  BY ToFields
<1>2. /\ s.state # "IDLE" /\ s.parked = <<>> /\ goal \in Goals
      /\ s.intent = s.goal /\ s.goal \in Goals
  BY ChoreoAssumption DEF CanPreempt, Sound, Stacks
<1>3. p \in Parked /\ <<p>> \in Seq(Parked) /\ <<s.intent>> \in Seq(Goals)
  <2>1. p \in Parked
    BY <1>1, <1>2, Zenon DEF Parked, Typed
  <2> HIDE DEF p
  <2> QED
    BY <2>1, <1>2
<1>4. /\ <<p>> # <<>> /\ Len(<<p>>) = 1 /\ <<p>>[1] = p
      /\ p.goal = s.goal /\ p.script = s.script /\ p.step = s.step
      /\ p.active = s.active
  <2>1. p.goal = s.goal /\ p.script = s.script /\ p.step = s.step /\ p.active = s.active
    BY Zenon
  <2> HIDE DEF p
  <2> QED
    BY <2>1
<1>5. t = [s EXCEPT !.parked = <<p>>, !.bseParked = <<s.intent>>, !.intent = goal,
                    !.achieved = FALSE, !.goal = goal, !.active = FALSE,
                    !.state = "RUNNING"]
  BY Zenon DEF Preempted
<1> HIDE DEF t, p
<1>6. Shaped(t)
  BY <1>5, Zenon DEF State, Shaped, Fields
<1>7. /\ t.state = "RUNNING" /\ t.intent = goal /\ t.achieved = FALSE
      /\ t.goal = goal /\ t.script = s.script /\ t.step = s.step /\ t.ms = s.ms
      /\ t.active = FALSE /\ t.done = s.done /\ t.parked = <<p>>
      /\ t.bseParked = <<s.intent>>
      /\ t.seen = s.seen /\ t.triggered = s.triggered /\ t.how = s.how
      /\ t.recall = s.recall /\ t.hold = s.hold /\ t.holdMs = s.holdMs
      /\ t.tracks = s.tracks /\ t.track = s.track /\ t.saved = s.saved
      /\ t.wanted = s.wanted
  BY <1>5, Zenon DEF State
<1>8. Typed(t, B)
  BY <1>1, <1>2, <1>3, <1>7, Values, Zenon DEF Typed
<1>9. Stacks(t)
  <2>1. p.active => At(p.script, p.step, p.goal)
    BY <1>4, Zenon DEF Sound, Stacks
  <2>2. ~(s.done \/ s.triggered)
    BY <1>2 DEF Sound, Stacks
  <2>3. t.parked # <<>> /\ t.parked[1] = p /\ Len(t.parked) = 1
        /\ t.bseParked = <<p.goal>>
    BY <1>2, <1>4, <1>7, Zenon
  <2>4. t.state = "RUNNING" /\ t.intent = goal /\ t.goal = goal /\ t.active = FALSE
        /\ ~(t.done \/ t.triggered)
    BY <1>7, <2>2, Zenon
  <2> QED
    BY <1>2, <2>1, <2>3, <2>4 DEF Stacks
<1>10. OnTrack(t)
  <2>1. OnTrack(s) /\ (s.tracks # <<>> => s.active /\ s.script = s.tracks[s.track].script)
    BY <1>2 DEF Sound, OnTrack
  <2> QED
    BY <1>4, <1>7, <2>1, Zenon DEF OnTrack
<1> QED
  BY <1>6, <1>8, <1>9, <1>10, ByFields DEF Sound, t

(* Of an idle element that has no tracks.                                  *)
LEMMA DeployedIsSound ==
    ASSUME NEW B, FALSE \in B, NEW s \in State(B), Sound(s), s.state = "IDLE",
           s.done = FALSE, s.triggered = FALSE, NEW goal \in Goals
    PROVE  LET t == Deployed(s, goal)
           IN  /\ t \in State(B) /\ Sound(t) /\ t.achieved = FALSE /\ t.tracks = <<>>
               /\ t.state = "RUNNING" /\ t.parked = <<>> /\ t.bseParked = <<>>
               /\ t.goal = goal /\ t.intent = goal /\ t.active = FALSE
               /\ t.done = FALSE /\ t.triggered = FALSE
<1> DEFINE t == Deployed(s, goal)
<1>1. Shaped(s) /\ Typed(s, B)
  BY ToFields
<1>2. s.parked = <<>> /\ s.bseParked = <<>> /\ s.tracks = <<>> /\ s.active = FALSE
  BY <1>1 DEF Sound, Stacks, OnTrack, Typed
<1>3. Shaped(t)
  BY Zenon DEF State, Shaped, Fields, Deployed, Submitted
<1>4. /\ t.state = "RUNNING" /\ t.intent = goal /\ t.achieved = FALSE
      /\ t.goal = goal /\ t.script = s.script /\ t.step = s.step /\ t.ms = s.ms
      /\ t.active = s.active /\ t.done = s.done /\ t.parked = s.parked
      /\ t.bseParked = <<>>
      /\ t.seen = s.seen /\ t.triggered = s.triggered /\ t.how = s.how
      /\ t.recall = s.recall /\ t.hold = s.hold /\ t.holdMs = s.holdMs
      /\ t.tracks = s.tracks /\ t.track = s.track /\ t.saved = s.saved
      /\ t.wanted = s.wanted
  BY Zenon DEF State, Deployed, Submitted
<1> HIDE DEF t
<1>5. Typed(t, B)
  BY <1>1, <1>2, <1>4, Values, Zenon DEF Typed
<1>6. Sound(t)
  BY <1>2, <1>4, Zenon DEF Sound, Stacks, OnTrack
<1> QED
  BY <1>2, <1>3, <1>4, <1>5, <1>6, ByFields DEF t

(* What Sound does not look at may change.                                 *)
LEMMA Bookkeeping ==
    ASSUME NEW s, Sound(s), NEW t,
           t.state = s.state, t.goal = s.goal, t.intent = s.intent,
           t.script = s.script, t.step = s.step, t.active = s.active,
           t.done = s.done, t.triggered = s.triggered,
           t.parked = s.parked, t.bseParked = s.bseParked,
           t.tracks = s.tracks, t.track = s.track, t.saved = s.saved
    PROVE  Sound(t)
  BY Zenon DEF Sound, Stacks, OnTrack

(* The next step of a script that runs.                                    *)
LEMMA SteppedIsSound ==
    ASSUME NEW B, FALSE \in B, NEW s \in State(B), Sound(s), s.active,
           NEW i \in 1..Len(s.script)
    PROVE  AdvancedTo(s, i) \in State(B) /\ Sound(AdvancedTo(s, i))
<1> DEFINE t == AdvancedTo(s, i)
           goal == s.script[i].goal
<1>1. Shaped(s) /\ Typed(s, B)
  BY ToFields
<1>2. /\ Playable(s.script) /\ s.state # "IDLE" /\ s.parked = <<>> /\ s.bseParked = <<>>
      /\ ~(s.done \/ s.triggered)
  BY DEF Sound, Stacks, At
<1>3. goal \in Goals /\ i \in Nat \ {0} /\ ~(i > Len(s.script))
  <2>1. s.script \in Seq(Step) /\ Len(s.script) \in Nat
    BY <1>2 DEF Playable
  <2>2. s.script[i] \in Step
    BY <2>1
  <2> QED
    BY <2>1, <2>2 DEF Step
<1>4. At(s.script, i, goal)
  BY <1>2 DEF At
<1>5. t = [[s EXCEPT !.intent = goal, !.bseParked = <<>>, !.achieved = FALSE]
              EXCEPT !.ms = 0, !.step = i, !.goal = goal]
  BY <1>3, Zenon DEF AdvancedTo, Submitted
<1> HIDE DEF t, goal
<1>6. Shaped(t)
  BY <1>5, Zenon DEF State, Shaped, Fields
<1>7. /\ t.state = s.state /\ t.intent = goal /\ t.achieved = FALSE
      /\ t.goal = goal /\ t.script = s.script /\ t.step = i /\ t.ms = 0
      /\ t.active = s.active /\ t.done = s.done /\ t.parked = s.parked
      /\ t.bseParked = <<>>
      /\ t.seen = s.seen /\ t.triggered = s.triggered /\ t.how = s.how
      /\ t.recall = s.recall /\ t.hold = s.hold /\ t.holdMs = s.holdMs
      /\ t.tracks = s.tracks /\ t.track = s.track /\ t.saved = s.saved
      /\ t.wanted = s.wanted
  BY <1>5, Zenon DEF State
<1>8. Typed(t, B)
  BY <1>1, <1>3, <1>7, Values, Zenon DEF Typed
<1>9. Stacks(t)
  BY <1>2, <1>3, <1>4, <1>7, Zenon DEF Stacks
<1>10. OnTrack(t)
  BY <1>2, <1>7, Zenon DEF Sound, OnTrack
<1> QED
  BY <1>6, <1>8, <1>9, <1>10, ByFields DEF Sound, t

(* Its end: idle, and complete.                                            *)
LEMMA CompletedIsSound ==
    ASSUME NEW B, FALSE \in B, NEW s \in State(B), Sound(s), s.active,
           NEW i \in Nat, i > Len(s.script)
    PROVE  AdvancedTo(s, i) \in State(B) /\ Sound(AdvancedTo(s, i))
<1> DEFINE u == [s EXCEPT !.ms = 0, !.done = TRUE]
<1>1. Shaped(s) /\ Typed(s, B)
  BY ToFields
<1>2. s.parked = <<>>
  BY DEF Sound, Stacks
<1>3. AdvancedTo(s, i) = Terminated(u)
  BY Zenon DEF AdvancedTo
<1>4. u \in State(B) /\ u.parked = <<>>
  <2>1. Shaped(u)
    BY Zenon DEF State, Shaped, Fields
  <2>2. /\ u.state = s.state /\ u.intent = s.intent /\ u.achieved = s.achieved
        /\ u.goal = s.goal /\ u.script = s.script /\ u.step = s.step /\ u.ms = 0
        /\ u.active = s.active /\ u.done = TRUE /\ u.parked = s.parked
        /\ u.bseParked = s.bseParked
        /\ u.seen = s.seen /\ u.triggered = s.triggered /\ u.how = s.how
        /\ u.recall = s.recall /\ u.hold = s.hold /\ u.holdMs = s.holdMs
        /\ u.tracks = s.tracks /\ u.track = s.track /\ u.saved = s.saved
        /\ u.wanted = s.wanted
    BY Zenon DEF State
  <2> HIDE DEF u
  <2>3. Typed(u, B)
    BY <1>1, <2>2, Values, Zenon DEF Typed
  <2> QED
    BY <1>2, <2>1, <2>2, <2>3, ByFields
<1> HIDE DEF u
<1>5. Terminated(u) = TerminatedHard(u)
  BY <1>4, Zenon DEF Terminated
<1> QED
  BY <1>3, <1>4, <1>5, HardIsSound

(* Either, as the destination of a transition or the next step says.       *)
LEMMA AdvancedIsSound ==
    ASSUME NEW B, FALSE \in B, NEW s \in State(B), Sound(s), s.active,
           NEW i \in Nat \ {0}
    PROVE  AdvancedTo(s, i) \in State(B) /\ Sound(AdvancedTo(s, i))
<1>1. Len(s.script) \in Nat
  BY DEF Sound, Stacks, At, Playable
<1>2. i \in 1..Len(s.script) \/ i > Len(s.script)
  BY <1>1
<1> QED
  BY <1>2, SteppedIsSound, CompletedIsSound

(* A change of track: where the old one was left is saved, and the new one *)
(* continues where it was left.                                            *)
LEMMA MigratedIsSound ==
    ASSUME NEW B, FALSE \in B, NEW s \in State(B), Sound(s),
           s.tracks # <<>>, s.parked = <<>>, NEW k \in 1..Len(s.tracks), k # s.track
    PROVE  Migrated(s, k) \in State(B) /\ Sound(Migrated(s, k))
<1> DEFINE t == Migrated(s, k)
           script == s.tracks[k].script
           i == s.saved[k]
           goal == script[i].goal
           saved == [s.saved EXCEPT ![s.track] = s.step]
<1>1. Shaped(s) /\ Typed(s, B)
  BY ToFields
<1>2. /\ s.state # "IDLE" /\ s.active /\ ~(s.done \/ s.triggered)
      /\ s.script = s.tracks[s.track].script /\ s.step \in 1..Len(s.script)
      /\ s.tracks \in TrackSets /\ s.track \in 1..Len(s.tracks)
      /\ Len(s.saved) = Len(s.tracks)
  BY DEF Sound, Stacks, OnTrack, At
<1>3. \A j \in 1..Len(s.tracks) :
          Playable(s.tracks[j].script) /\ s.saved[j] \in 1..Len(s.tracks[j].script)
  BY DEF Sound, OnTrack
<1>4. Playable(script) /\ i \in 1..Len(script)
  BY <1>3
<1>5. /\ script \in Seq(Step) /\ i \in Nat \ {0} /\ goal \in Goals
      /\ k \in Nat \ {0}
  <2> HIDE DEF script, i
  <2>1. script \in Seq(Step) /\ Len(script) \in Nat
    BY <1>4 DEF Playable
  <2>2. script[i] \in Step
    BY <1>4, <2>1
  <2>3. goal \in Goals
    BY <2>2 DEF Step
  <2>4. Len(s.tracks) \in Nat
    BY <1>1 DEF Typed
  <2>5. i \in Nat \ {0} /\ k \in Nat \ {0}
    BY <1>4, <2>1, <2>4
  <2> QED
    BY <2>1, <2>3, <2>5
<1>6. /\ saved \in Seq(Nat \ {0}) /\ Len(saved) = Len(s.tracks)
      /\ \A j \in 1..Len(s.tracks) : saved[j] = IF j = s.track THEN s.step ELSE s.saved[j]
  <2>1. s.saved \in Seq(Nat \ {0}) /\ s.step \in Nat \ {0} /\ s.track \in 1..Len(s.saved)
    BY <1>1, <1>2 DEF Typed
  <2> QED
    BY <1>2, <2>1, ExceptSeq
<1>7. At(script, i, goal)
  BY <1>4 DEF At
<1>8. t = [[s EXCEPT !.intent = goal, !.bseParked = <<>>, !.achieved = FALSE]
              EXCEPT !.saved = saved, !.track = k, !.script = script, !.step = i,
                     !.ms = 0, !.active = TRUE, !.goal = goal, !.wanted = <<>>]
  <2> DEFINE r == [s EXCEPT !.intent = goal, !.bseParked = <<>>, !.achieved = FALSE]
  <2>1. r.saved = s.saved
    BY Zenon DEF State
  <2>2. t = [r EXCEPT !.saved = [r.saved EXCEPT ![s.track] = s.step],
                      !.track = k, !.script = script, !.step = i,
                      !.ms = 0, !.active = TRUE, !.goal = goal, !.wanted = <<>>]
    BY Zenon DEF Migrated, Submitted
  <2> QED
    BY <2>1, <2>2, Zenon
<1> HIDE DEF t, script, i, goal, saved
<1>9. Shaped(t)
  BY <1>8, Zenon DEF State, Shaped, Fields
<1>10. /\ t.state = s.state /\ t.intent = goal /\ t.achieved = FALSE
       /\ t.goal = goal /\ t.script = script /\ t.step = i /\ t.ms = 0
       /\ t.active = TRUE /\ t.done = s.done /\ t.parked = s.parked
       /\ t.bseParked = <<>>
       /\ t.seen = s.seen /\ t.triggered = s.triggered /\ t.how = s.how
       /\ t.recall = s.recall /\ t.hold = s.hold /\ t.holdMs = s.holdMs
       /\ t.tracks = s.tracks /\ t.track = k /\ t.saved = saved
       /\ t.wanted = <<>>
  BY <1>8, Zenon DEF State
<1>11. Typed(t, B)
  BY <1>1, <1>5, <1>6, <1>10, Values, Zenon DEF Typed
<1>12. Stacks(t)
  BY <1>2, <1>5, <1>7, <1>10, Zenon DEF Stacks
<1>13. OnTrack(t)
  <2>1. \A j \in 1..Len(s.tracks) :
            Playable(s.tracks[j].script) /\ saved[j] \in 1..Len(s.tracks[j].script)
    BY <1>2, <1>3, <1>6
  <2> QED
    BY <1>2, <1>6, <1>10, <2>1, Zenon DEF OnTrack, script
<1> QED
  BY <1>9, <1>11, <1>12, <1>13, ByFields DEF Sound, t

(* The first track found is one of those found.                            *)
LEMMA FirstOfFound ==
    ASSUME NEW found, found \subseteq Nat, found # {}
    PROVE  FirstOf(found) \in found
<1>1. \E i \in found : \A j \in found : i <= j
  BY Minimum
<1> QED
  BY <1>1 DEF FirstOf

(* The candidate that is being waited for, or none.                        *)
LEMMA WaitedIsSound ==
    ASSUME NEW B, NEW s \in State(B), Sound(s),
           NEW w \in {<<>>} \cup ((Nat \ {0}) \X Nat)
    PROVE  [s EXCEPT !.wanted = w] \in State(B) /\ Sound([s EXCEPT !.wanted = w])
<1> DEFINE t == [s EXCEPT !.wanted = w]
<1>1. Shaped(s) /\ Typed(s, B)
  BY ToFields
<1>2. Shaped(t)
  BY Zenon DEF State, Shaped, Fields
<1>3. /\ t.state = s.state /\ t.intent = s.intent /\ t.achieved = s.achieved
      /\ t.goal = s.goal /\ t.script = s.script /\ t.step = s.step /\ t.ms = s.ms
      /\ t.active = s.active /\ t.done = s.done /\ t.parked = s.parked
      /\ t.bseParked = s.bseParked
      /\ t.seen = s.seen /\ t.triggered = s.triggered /\ t.how = s.how
      /\ t.recall = s.recall /\ t.hold = s.hold /\ t.holdMs = s.holdMs
      /\ t.tracks = s.tracks /\ t.track = s.track /\ t.saved = s.saved
      /\ t.wanted = w
  BY Zenon DEF State
<1> HIDE DEF t
<1>4. Typed(t, B)
  BY <1>1, <1>3, Zenon DEF Typed
<1>5. Sound(t)
  BY <1>3, Bookkeeping, Zenon
<1> QED
  BY <1>2, <1>4, <1>5, ByFields DEF t

(* The track of a tick: left alone, waited for, or changed.                *)
LEMMA TrackUpdatedIsSound ==
    ASSUME NEW B, FALSE \in B, NEW s \in State(B), Sound(s), NEW low
    PROVE  TrackUpdated(s, low) \in State(B) /\ Sound(TrackUpdated(s, low))
<1> DEFINE found == Matching(s.tracks, low)
           k == FirstOf(found)
           ms == IF s.wanted # <<>> /\ s.wanted[1] = k THEN s.wanted[2] + 1 ELSE 0
<1>1. CASE s.tracks = <<>> \/ s.parked # <<>>
  BY <1>1 DEF TrackUpdated
<1>2. CASE s.tracks # <<>> /\ s.parked = <<>>
  <2>1. TrackUpdated(s, low) = TrackSelected(s, low)
    BY <1>2 DEF TrackUpdated
  <2>2. CASE found = {} \/ k = s.track
    <3>1. TrackUpdated(s, low) = [s EXCEPT !.wanted = <<>>]
      BY <2>1, <2>2, Zenon DEF TrackSelected
    <3>2. <<>> \in {<<>>} \cup ((Nat \ {0}) \X Nat)
      BY Values
    <3> QED
      BY <3>1, <3>2, WaitedIsSound
  <2>3. CASE found # {} /\ k # s.track
    <3>1. Shaped(s) /\ Typed(s, B)
      BY ToFields
    <3>2. k \in 1..Len(s.tracks) /\ Len(s.tracks) \in Nat
      <4>1. Len(s.tracks) \in Nat
        BY <3>1 DEF Typed
      <4>2. found \subseteq Nat /\ found \subseteq 1..Len(s.tracks)
        BY <4>1 DEF Matching
      <4> QED
        BY <2>3, <4>1, <4>2, FirstOfFound
    <3>3. <<k, ms>> \in {<<>>} \cup ((Nat \ {0}) \X Nat)
      BY <3>1, <3>2 DEF Typed
    <3>4. \/ TrackUpdated(s, low) = Migrated(s, k)
          \/ TrackUpdated(s, low) = [s EXCEPT !.wanted = <<k, ms>>]
      BY <2>1, <2>3, Zenon DEF TrackSelected
    <3> HIDE DEF k, ms
    <3>5. Migrated(s, k) \in State(B) /\ Sound(Migrated(s, k))
      BY <1>2, <2>3, <3>2, MigratedIsSound
    <3>6. LET t == [s EXCEPT !.wanted = <<k, ms>>] IN t \in State(B) /\ Sound(t)
      BY <3>3, WaitedIsSound, Zenon
    <3> QED
      BY <3>4, <3>5, <3>6, Zenon
  <2> QED
    BY <2>2, <2>3
<1> QED
  BY <1>1, <1>2

(* What bse_tick reports of the goal, and its reset between two ticks.      *)
LEMMA ReportedIsSound ==
    ASSUME NEW B, NEW s \in State(B), Sound(s), NEW A, NEW a \in A
    PROVE  LET t == [s EXCEPT !.achieved = a]
           IN  t \in State(A) /\ Sound(t)
<1> DEFINE t == [s EXCEPT !.achieved = a]
<1>1. Shaped(s) /\ Typed(s, B)
  BY ToFields
<1>2. Shaped(t)
  BY Zenon DEF State, Shaped, Fields
<1>3. /\ t.state = s.state /\ t.intent = s.intent /\ t.achieved = a
      /\ t.goal = s.goal /\ t.script = s.script /\ t.step = s.step /\ t.ms = s.ms
      /\ t.active = s.active /\ t.done = s.done /\ t.parked = s.parked
      /\ t.bseParked = s.bseParked
      /\ t.seen = s.seen /\ t.triggered = s.triggered /\ t.how = s.how
      /\ t.recall = s.recall /\ t.hold = s.hold /\ t.holdMs = s.holdMs
      /\ t.tracks = s.tracks /\ t.track = s.track /\ t.saved = s.saved
      /\ t.wanted = s.wanted
  BY Zenon DEF State
<1> HIDE DEF t
<1>4. Typed(t, A)
  BY <1>1, <1>3, Values, Zenon DEF Typed
<1>5. Sound(t)
  BY <1>3, Bookkeeping, Zenon
<1> QED
  BY <1>2, <1>4, <1>5, ByFields DEF t

(* Time in the step, and who takes part.                                   *)
LEMMA TimedIsSound ==
    ASSUME NEW B, NEW s \in State(B), Sound(s),
           NEW m \in 0..MaxMs, NEW v \in (SUBSET Peers) \cup {NoMask}
    PROVE  LET t == [s EXCEPT !.ms = m, !.seen = v]
           IN  t \in State(B) /\ Sound(t)
<1> DEFINE t == [s EXCEPT !.ms = m, !.seen = v]
<1>1. Shaped(s) /\ Typed(s, B)
  BY ToFields
<1>2. Shaped(t)
  BY Zenon DEF State, Shaped, Fields
<1>3. /\ t.state = s.state /\ t.intent = s.intent /\ t.achieved = s.achieved
      /\ t.goal = s.goal /\ t.script = s.script /\ t.step = s.step /\ t.ms = m
      /\ t.active = s.active /\ t.done = s.done /\ t.parked = s.parked
      /\ t.bseParked = s.bseParked
      /\ t.seen = v /\ t.triggered = s.triggered /\ t.how = s.how
      /\ t.recall = s.recall /\ t.hold = s.hold /\ t.holdMs = s.holdMs
      /\ t.tracks = s.tracks /\ t.track = s.track /\ t.saved = s.saved
      /\ t.wanted = s.wanted
  BY Zenon DEF State
<1> HIDE DEF t
<1>4. Typed(t, B)
  BY <1>1, <1>3, Values, Zenon DEF Typed
<1>5. Sound(t)
  BY <1>3, Bookkeeping, Zenon
<1> QED
  BY <1>2, <1>4, <1>5, ByFields DEF t

(* Time alone, while suspended.                                            *)
LEMMA SpentIsSound ==
    ASSUME NEW B, NEW s \in State(B), Sound(s), NEW m \in 0..MaxMs
    PROVE  LET t == [s EXCEPT !.ms = m]
           IN  t \in State(B) /\ Sound(t)
<1> DEFINE t == [s EXCEPT !.ms = m]
<1>1. Shaped(s) /\ Typed(s, B)
  BY ToFields
<1>2. Shaped(t)
  BY Zenon DEF State, Shaped, Fields
<1>3. /\ t.state = s.state /\ t.intent = s.intent /\ t.achieved = s.achieved
      /\ t.goal = s.goal /\ t.script = s.script /\ t.step = s.step /\ t.ms = m
      /\ t.active = s.active /\ t.done = s.done /\ t.parked = s.parked
      /\ t.bseParked = s.bseParked
      /\ t.seen = s.seen /\ t.triggered = s.triggered /\ t.how = s.how
      /\ t.recall = s.recall /\ t.hold = s.hold /\ t.holdMs = s.holdMs
      /\ t.tracks = s.tracks /\ t.track = s.track /\ t.saved = s.saved
      /\ t.wanted = s.wanted
  BY Zenon DEF State
<1> HIDE DEF t
<1>4. Typed(t, B)
  BY <1>1, <1>3, Values, Zenon DEF Typed
<1>5. Sound(t)
  BY <1>3, Bookkeeping, Zenon
<1> QED
  BY <1>2, <1>4, <1>5, ByFields DEF t

(* The departure policy's flags.                                           *)
LEMMA RecallingIsSound ==
    ASSUME NEW B, NEW s \in State(B), Sound(s), NEW b \in BOOLEAN
    PROVE  LET t == [s EXCEPT !.recall = b]
           IN  t \in State(B) /\ Sound(t)
<1> DEFINE t == [s EXCEPT !.recall = b]
<1>1. Shaped(s) /\ Typed(s, B)
  BY ToFields
<1>2. Shaped(t)
  BY Zenon DEF State, Shaped, Fields
<1>3. /\ t.state = s.state /\ t.intent = s.intent /\ t.achieved = s.achieved
      /\ t.goal = s.goal /\ t.script = s.script /\ t.step = s.step /\ t.ms = s.ms
      /\ t.active = s.active /\ t.done = s.done /\ t.parked = s.parked
      /\ t.bseParked = s.bseParked
      /\ t.seen = s.seen /\ t.triggered = s.triggered /\ t.how = s.how
      /\ t.recall = b /\ t.hold = s.hold /\ t.holdMs = s.holdMs
      /\ t.tracks = s.tracks /\ t.track = s.track /\ t.saved = s.saved
      /\ t.wanted = s.wanted
  BY Zenon DEF State
<1> HIDE DEF t
<1>4. Typed(t, B)
  BY <1>1, <1>3, Values, Zenon DEF Typed
<1>5. Sound(t)
  BY <1>3, Bookkeeping, Zenon
<1> QED
  BY <1>2, <1>4, <1>5, ByFields DEF t

(* The same of a hold that begins, and of one that lasts.                  *)
LEMMA HoldingIsSound ==
    ASSUME NEW B, NEW s \in State(B), Sound(s), NEW b \in BOOLEAN,
           NEW m \in 0..(HoldTimeout - 1)
    PROVE  LET t == [s EXCEPT !.hold = b, !.holdMs = m]
           IN  t \in State(B) /\ Sound(t)
<1> DEFINE t == [s EXCEPT !.hold = b, !.holdMs = m]
<1>1. Shaped(s) /\ Typed(s, B)
  BY ToFields
<1>2. Shaped(t)
  BY Zenon DEF State, Shaped, Fields
<1>3. /\ t.state = s.state /\ t.intent = s.intent /\ t.achieved = s.achieved
      /\ t.goal = s.goal /\ t.script = s.script /\ t.step = s.step /\ t.ms = s.ms
      /\ t.active = s.active /\ t.done = s.done /\ t.parked = s.parked
      /\ t.bseParked = s.bseParked
      /\ t.seen = s.seen /\ t.triggered = s.triggered /\ t.how = s.how
      /\ t.recall = s.recall /\ t.hold = b /\ t.holdMs = m
      /\ t.tracks = s.tracks /\ t.track = s.track /\ t.saved = s.saved
      /\ t.wanted = s.wanted
  BY Zenon DEF State
<1> HIDE DEF t
<1>4. Typed(t, B)
  BY <1>1, <1>3, Values, Zenon DEF Typed
<1>5. Sound(t)
  BY <1>3, Bookkeeping, Zenon
<1> QED
  BY <1>2, <1>4, <1>5, ByFields DEF t

(* A hold that lasts.                                                      *)
LEMMA LastingIsSound ==
    ASSUME NEW B, NEW s \in State(B), Sound(s),
           NEW m \in 0..(HoldTimeout - 1)
    PROVE  LET t == [s EXCEPT !.holdMs = m]
           IN  t \in State(B) /\ Sound(t)
<1> DEFINE t == [s EXCEPT !.holdMs = m]
<1>1. Shaped(s) /\ Typed(s, B)
  BY ToFields
<1>2. Shaped(t)
  BY Zenon DEF State, Shaped, Fields
<1>3. /\ t.state = s.state /\ t.intent = s.intent /\ t.achieved = s.achieved
      /\ t.goal = s.goal /\ t.script = s.script /\ t.step = s.step /\ t.ms = s.ms
      /\ t.active = s.active /\ t.done = s.done /\ t.parked = s.parked
      /\ t.bseParked = s.bseParked
      /\ t.seen = s.seen /\ t.triggered = s.triggered /\ t.how = s.how
      /\ t.recall = s.recall /\ t.hold = s.hold /\ t.holdMs = m
      /\ t.tracks = s.tracks /\ t.track = s.track /\ t.saved = s.saved
      /\ t.wanted = s.wanted
  BY Zenon DEF State
<1> HIDE DEF t
<1>4. Typed(t, B)
  BY <1>1, <1>3, Values, Zenon DEF Typed
<1>5. Sound(t)
  BY <1>3, Bookkeeping, Zenon
<1> QED
  BY <1>2, <1>4, <1>5, ByFields DEF t

(* The quorum suspends what runs and lets it run again.                    *)
LEMMA RestatedIsSound ==
    ASSUME NEW B, NEW s \in State(B), Sound(s), s.state # "IDLE",
           NEW x \in {"RUNNING", "SUSPENDED"}
    PROVE  LET t == [s EXCEPT !.state = x]
           IN  t \in State(B) /\ Sound(t)
<1> DEFINE t == [s EXCEPT !.state = x]
<1>1. Shaped(s) /\ Typed(s, B)
  BY ToFields
<1>2. Shaped(t)
  BY Zenon DEF State, Shaped, Fields
<1>3. /\ t.state = x /\ t.intent = s.intent /\ t.achieved = s.achieved
      /\ t.goal = s.goal /\ t.script = s.script /\ t.step = s.step /\ t.ms = s.ms
      /\ t.active = s.active /\ t.done = s.done /\ t.parked = s.parked
      /\ t.bseParked = s.bseParked
      /\ t.seen = s.seen /\ t.triggered = s.triggered /\ t.how = s.how
      /\ t.recall = s.recall /\ t.hold = s.hold /\ t.holdMs = s.holdMs
      /\ t.tracks = s.tracks /\ t.track = s.track /\ t.saved = s.saved
      /\ t.wanted = s.wanted
  BY Zenon DEF State
<1> HIDE DEF t
<1>4. Typed(t, B)
  BY <1>1, <1>3, Values, Zenon DEF Typed
<1>5. Sound(t)
  <2>1. x # "IDLE" /\ ~(s.done \/ s.triggered)
    BY DEF Sound, Stacks
  <2>2. Stacks(t)
    BY <1>3, <2>1, Zenon DEF Sound, Stacks
  <2>3. OnTrack(t)
    BY <1>3, <2>1, Zenon DEF Sound, OnTrack
  <2> QED
    BY <2>2, <2>3 DEF Sound
<1> QED
  BY <1>2, <1>4, <1>5, ByFields DEF t

(* The flags a submission clears and an ending sets, of an idle element.   *)
LEMMA MarkedIsSound ==
    ASSUME NEW B, NEW s \in State(B), Sound(s), s.state = "IDLE",
           NEW d \in BOOLEAN, NEW g \in BOOLEAN, NEW h \in Policies
    PROVE  LET t == [s EXCEPT !.done = d, !.triggered = g, !.how = h]
           IN  t \in State(B) /\ Sound(t)
<1> DEFINE t == [s EXCEPT !.done = d, !.triggered = g, !.how = h]
<1>1. Shaped(s) /\ Typed(s, B)
  BY ToFields
<1>2. Shaped(t)
  BY Zenon DEF State, Shaped, Fields
<1>3. /\ t.state = s.state /\ t.intent = s.intent /\ t.achieved = s.achieved
      /\ t.goal = s.goal /\ t.script = s.script /\ t.step = s.step /\ t.ms = s.ms
      /\ t.active = s.active /\ t.done = d /\ t.parked = s.parked
      /\ t.bseParked = s.bseParked
      /\ t.seen = s.seen /\ t.triggered = g /\ t.how = h
      /\ t.recall = s.recall /\ t.hold = s.hold /\ t.holdMs = s.holdMs
      /\ t.tracks = s.tracks /\ t.track = s.track /\ t.saved = s.saved
      /\ t.wanted = s.wanted
  BY Zenon DEF State
<1> HIDE DEF t
<1>4. Typed(t, B)
  BY <1>1, <1>3, Values, Zenon DEF Typed
<1>5. Sound(t)
  <2>1. Stacks(t)
    BY <1>3, Zenon DEF Sound, Stacks
  <2>2. OnTrack(t)
    BY <1>3, Zenon DEF Sound, OnTrack
  <2> QED
    BY <2>1, <2>2 DEF Sound
<1> QED
  BY <1>2, <1>4, <1>5, ByFields DEF t

(* A departure that is acted on by landing where the element is.           *)
LEMMA LandedIsSound ==
    ASSUME NEW B, FALSE \in B, NEW s \in State(B), s.parked = <<>>
    PROVE  Landed(s) \in State(B) /\ Sound(Landed(s))
<1> DEFINE u == [s EXCEPT !.done = TRUE, !.triggered = TRUE, !.how = "LAND_IN_PLACE"]
<1>1. Landed(s) = Terminated(u)
  BY Zenon DEF Landed
<1>2. u \in State(B) /\ u.parked = <<>>
  <2>1. Shaped(s) /\ Typed(s, B)
    BY ToFields
  <2>2. Shaped(u)
    BY Zenon DEF State, Shaped, Fields
  <2>3. /\ u.state = s.state /\ u.intent = s.intent /\ u.achieved = s.achieved
        /\ u.goal = s.goal /\ u.script = s.script /\ u.step = s.step /\ u.ms = s.ms
        /\ u.active = s.active /\ u.done = TRUE /\ u.parked = s.parked
        /\ u.bseParked = s.bseParked
        /\ u.seen = s.seen /\ u.triggered = TRUE /\ u.how = "LAND_IN_PLACE"
        /\ u.recall = s.recall /\ u.hold = s.hold /\ u.holdMs = s.holdMs
        /\ u.tracks = s.tracks /\ u.track = s.track /\ u.saved = s.saved
        /\ u.wanted = s.wanted
    BY Zenon DEF State
  <2> HIDE DEF u
  <2>4. Typed(u, B)
    BY <2>1, <2>3, Values, Zenon DEF Typed
  <2> QED
    BY <2>2, <2>3, <2>4, ByFields
<1> HIDE DEF u
<1>3. Terminated(u) = TerminatedHard(u)
  BY <1>2, Zenon DEF Terminated
<1> QED
  BY <1>1, <1>2, <1>3, HardIsSound

(* A recall that has arrived, a hold that has timed out.                   *)
LEMMA EndedIsSound ==
    ASSUME NEW B, FALSE \in B, NEW s \in State(B), NEW how \in Policies
    PROVE  /\ Ended(s, how) \in State(B) /\ Sound(Ended(s, how))
           /\ Ended(s, how).state = "IDLE"
<1> DEFINE u == TerminatedHard(s)
           t == [u EXCEPT !.done = TRUE, !.triggered = TRUE, !.how = how]
<1>1. u \in State(B) /\ Sound(u)
  BY HardIsSound
<1>2. u.state = "IDLE"
  BY TerminatedHardFacts
<1>3. Ended(s, how) = t
  BY Zenon DEF Ended
<1>4. t.state = u.state
  <2> HIDE DEF u
  <2> QED
    BY <1>1, Zenon DEF State
<1> HIDE DEF u
<1>5. t \in State(B) /\ Sound(t)
  BY <1>1, <1>2, Values, MarkedIsSound, Zenon
<1> QED
  BY <1>2, <1>3, <1>4, <1>5, Zenon

(* trigger_departure_policy, whichever policy it is.                       *)
LEMMA TriggeredIsSound ==
    ASSUME NEW B, FALSE \in B, NEW s \in State(B), Sound(s), s.active,
           NEW policy, NEW home
    PROVE  Triggered(s, policy, home) \in State(B) /\ Sound(Triggered(s, policy, home))
<1>1. s.parked = <<>>
  BY DEF Sound, Stacks
<1>2. CASE policy = "RECALL" /\ home /\ CanPreempt(s, "CONVERGE")
  <2> DEFINE u == Preempted(s, "CONVERGE")
  <2>1. u \in State(B) /\ Sound(u)
    BY <1>2, PreemptedIsSound
  <2>2. Triggered(s, policy, home) = [u EXCEPT !.recall = TRUE]
    BY <1>2 DEF Triggered
  <2> HIDE DEF u
  <2>3. LET t == [u EXCEPT !.recall = TRUE] IN t \in State(B) /\ Sound(t)
    BY <2>1, Values, RecallingIsSound, Zenon
  <2> QED
    BY <2>2, <2>3, Zenon
<1>3. CASE policy = "HOLD" /\ CanPreempt(s, "HOLD")
  <2> DEFINE u == Preempted(s, "HOLD")
  <2>1. u \in State(B) /\ Sound(u)
    BY <1>3, PreemptedIsSound
  <2>2. Triggered(s, policy, home) = [u EXCEPT !.hold = TRUE, !.holdMs = 0]
    BY <1>3 DEF Triggered
  <2> HIDE DEF u
  <2>3. LET t == [u EXCEPT !.hold = TRUE, !.holdMs = 0] IN t \in State(B) /\ Sound(t)
    BY <2>1, Values, HoldingIsSound, Zenon
  <2> QED
    BY <2>2, <2>3, Zenon
<1>4. CASE /\ ~(policy = "RECALL" /\ home /\ CanPreempt(s, "CONVERGE"))
           /\ ~(policy = "HOLD" /\ CanPreempt(s, "HOLD"))
  <2>1. Triggered(s, policy, home) = Landed(s)
    BY <1>4 DEF Triggered
  <2> QED
    BY <1>1, <2>1, LandedIsSound
<1> QED
  BY <1>2, <1>3, <1>4

(* script_advance: whichever of the transitions fires, or none.            *)
LEMMA ScriptAdvancedIsSound ==
    ASSUME NEW B, FALSE \in B, NEW s \in State(B), Sound(s),
           NEW votes, NEW world, NEW home
    PROVE  LET t == ScriptAdvanced(s, votes, world, home)
           IN  t \in State(B) /\ Sound(t)
<1>1. CASE ~s.active
  BY <1>1 DEF ScriptAdvanced
<1>2. CASE s.active
  <2> DEFINE step   == s.script[s.step]
             t      == [s EXCEPT !.ms = Longer(s.ms), !.seen = Taking]
             policy == IF step.departure = "UNSET" THEN Mode ELSE step.departure
             firing == {i \in 1..Len(step.on) :
                           Fires(s, step, step.on[i].event, votes, world)}
             first  == CHOOSE i \in firing : \A j \in firing : i <= j
  <2>1. Typed(s, B) /\ s.step \in Nat \ {0}
    BY ToFields, Zenon DEF Typed
  <2>2. step.on \in Seq([event: Events, goto: Nat \ {0}])
    <3>1. s.script \in Seq(Step) /\ s.step \in 1..Len(s.script)
      BY <1>2 DEF Sound, Stacks, At, Playable
    <3>2. step \in Step
      BY <3>1
    <3> QED
      BY <3>2 DEF Step
  <2>3. t \in State(B) /\ Sound(t)
    <3>1. Longer(s.ms) \in 0..MaxMs
      BY <2>1, ChoreoAssumption DEF Typed, Longer
    <3>2. Taking \in (SUBSET Peers) \cup {NoMask}
      BY DEF Taking
    <3> QED
      BY <3>1, <3>2, TimedIsSound, Zenon
  <2>4. t.active
    BY <1>2, Zenon DEF State
  <2>5. ScriptAdvanced(s, votes, world, home) =
            IF firing # {} THEN AdvancedTo(t, step.on[first].goto)
            ELSE IF DepartureFires(s, policy) THEN Triggered(t, policy, home)
            ELSE IF TimeUp(t) \/ (step.untilAchieved /\ Reached(s, step, votes))
                 THEN AdvancedTo(t, s.step + 1)
            ELSE t
    BY <1>2, Zenon DEF ScriptAdvanced
  <2>6. CASE firing # {}
    <3>1. firing \subseteq Nat
      BY <2>2
    <3>2. first \in firing
      BY <2>6, <3>1, FirstOfFound DEF FirstOf
    <3>3. first \in 1..Len(step.on)
      BY <3>2, Zenon
    <3> HIDE DEF t, first, step, firing
    <3>4. step.on[first].goto \in Nat \ {0}
      <4>1. step.on[first] \in [event: Events, goto: Nat \ {0}]
        BY <2>2, <3>3, ElementOfSeq, Zenon
      <4> QED
        BY <4>1
    <3>5. ScriptAdvanced(s, votes, world, home) = AdvancedTo(t, step.on[first].goto)
      BY <2>5, <2>6, Zenon
    <3> QED
      BY <2>3, <2>4, <3>4, <3>5, AdvancedIsSound
  <2>7. CASE firing = {} /\ DepartureFires(s, policy)
    <3> HIDE DEF t, firing, policy, step
    <3>1. ScriptAdvanced(s, votes, world, home) = Triggered(t, policy, home)
      BY <2>5, <2>7, Zenon
    <3> QED
      BY <2>3, <2>4, <3>1, TriggeredIsSound
  <2>8. CASE firing = {} /\ ~DepartureFires(s, policy)
    <3> HIDE DEF t, firing, policy, step
    <3>1. \/ ScriptAdvanced(s, votes, world, home) = AdvancedTo(t, s.step + 1)
          \/ ScriptAdvanced(s, votes, world, home) = t
      BY <2>5, <2>8, Zenon
    <3>2. s.step + 1 \in Nat \ {0}
      BY <2>1
    <3>3. AdvancedTo(t, s.step + 1) \in State(B) /\ Sound(AdvancedTo(t, s.step + 1))
      BY <2>3, <2>4, <3>2, AdvancedIsSound
    <3> QED
      BY <2>3, <3>1, <3>3, Zenon
  <2> QED
    BY <2>6, <2>7, <2>8
<1> QED
  BY <1>1, <1>2

(* What follows the step engine in a tick: the recall.                     *)
LEMMA RecallCheckedIsSound ==
    ASSUME NEW B, FALSE \in B, NEW s \in State(B), Sound(s)
    PROVE  RecallChecked(s) \in State(B) /\ Sound(RecallChecked(s))
<1>1. Ended(s, "RECALL") \in State(B) /\ Sound(Ended(s, "RECALL"))
  BY Values, EndedIsSound, Zenon
<1> QED
  BY <1>1, Zenon DEF RecallChecked

(* The hold.                                                               *)
LEMMA HoldCheckedIsSound ==
    ASSUME NEW B, FALSE \in B, NEW s \in State(B), Sound(s)
    PROVE  HoldChecked(s) \in State(B) /\ Sound(HoldChecked(s))
<1> DEFINE m == s.holdMs + 1
<1>1. Ended(s, "LAND_IN_PLACE") \in State(B) /\ Sound(Ended(s, "LAND_IN_PLACE"))
  BY Values, EndedIsSound, Zenon
<1>2. CASE m >= HoldTimeout \/ ~s.hold \/ s.state # "RUNNING"
  BY <1>1, <1>2, Zenon DEF HoldChecked
<1>3. CASE ~(m >= HoldTimeout) /\ s.hold /\ s.state = "RUNNING"
  <2>1. s.holdMs \in 0..(HoldTimeout - 1)
    BY ToFields, Zenon DEF Typed
  <2>2. m \in 0..(HoldTimeout - 1)
    BY <1>3, <2>1, ChoreoAssumption
  <2>3. HoldChecked(s) = [s EXCEPT !.holdMs = m]
    BY <1>3, Zenon DEF HoldChecked
  <2> HIDE DEF m
  <2>4. LET t == [s EXCEPT !.holdMs = m] IN t \in State(B) /\ Sound(t)
    BY <2>2, LastingIsSound, Zenon
  <2> QED
    BY <2>3, <2>4, Zenon
<1> QED
  BY <1>2, <1>3, Zenon

(* The quorum.                                                             *)
LEMMA QuorumCheckedIsSound ==
    ASSUME NEW B, NEW s \in State(B), Sound(s)
    PROVE  QuorumChecked(s) \in State(B) /\ Sound(QuorumChecked(s))
<1>1. CASE s.state = "RUNNING" /\ lost
  <2>1. QuorumChecked(s) = [s EXCEPT !.state = "SUSPENDED"]
    BY <1>1, Zenon DEF QuorumChecked
  <2>2. "SUSPENDED" \in {"RUNNING", "SUSPENDED"} /\ s.state # "IDLE"
    BY <1>1
  <2>3. LET t == [s EXCEPT !.state = "SUSPENDED"] IN t \in State(B) /\ Sound(t)
    BY <2>2, RestatedIsSound, Zenon
  <2> QED
    BY <2>1, <2>3, Zenon
<1>2. CASE ~(s.state = "RUNNING" /\ lost)
  BY <1>2, Zenon DEF QuorumChecked
<1> QED
  BY <1>1, <1>2

(* choreo_tick of a running element, whole.                                *)
LEMMA RunningTickIsSound ==
    ASSUME NEW s \in State({FALSE}), Sound(s), NEW low, NEW achieved \in BOOLEAN,
           NEW votes, NEW world, NEW home
    PROVE  LET t == [RunningTick(s, low, achieved, votes, world, home)
                        EXCEPT !.achieved = FALSE]
           IN  t \in State({FALSE}) /\ Sound(t)
<1> DEFINE a == TrackUpdated(s, low)
           b == [a EXCEPT !.achieved = achieved]
           d == ScriptAdvanced(b, votes, world, home)
           e == RecallChecked(d)
           f == HoldChecked(e)
           g == QuorumChecked(f)
<1>1. a \in State({FALSE}) /\ Sound(a)
  BY TrackUpdatedIsSound
<1> HIDE DEF a
<1>2. b \in State(BOOLEAN) /\ Sound(b)
  BY <1>1, ReportedIsSound, Zenon
<1>3. FALSE \in BOOLEAN
  OBVIOUS
<1> HIDE DEF b
<1>4. d \in State(BOOLEAN) /\ Sound(d)
  BY <1>2, <1>3, ScriptAdvancedIsSound, Zenon
<1> HIDE DEF d
<1>5. e \in State(BOOLEAN) /\ Sound(e)
  BY <1>3, <1>4, RecallCheckedIsSound, Zenon
<1> HIDE DEF e
<1>6. f \in State(BOOLEAN) /\ Sound(f)
  BY <1>3, <1>5, HoldCheckedIsSound, Zenon
<1> HIDE DEF f
<1>7. g \in State(BOOLEAN) /\ Sound(g)
  BY <1>6, QuorumCheckedIsSound, Zenon
<1>8. RunningTick(s, low, achieved, votes, world, home) = g
  BY Zenon DEF RunningTick, a, b, d, e, f
<1> HIDE DEF g
<1>9. FALSE \in {FALSE}
  OBVIOUS
<1>10. LET t == [g EXCEPT !.achieved = FALSE] IN t \in State({FALSE}) /\ Sound(t)
  BY <1>7, <1>9, ReportedIsSound, Zenon
<1> QED
  BY <1>8, <1>10, Zenon

(* A suspended element spends its step's time when isolated.               *)
LEMMA SuspendedTimedOutIsSound ==
    ASSUME NEW B, FALSE \in B, NEW s \in State(B), Sound(s)
    PROVE  SuspendedTimedOut(s) \in State(B) /\ Sound(SuspendedTimedOut(s))
<1> DEFINE m == Longer(s.ms)
           t == [s EXCEPT !.ms = m]
<1>1. s.ms \in 0..MaxMs /\ s.step \in Nat \ {0}
  BY ToFields, Zenon DEF Typed
<1>2. m \in 0..MaxMs
  BY <1>1, ChoreoAssumption DEF Longer
<1>3. t.active = s.active
  BY Zenon DEF State
<1>4. \/ SuspendedTimedOut(s) = s
      \/ s.active /\ SuspendedTimedOut(s) = t
      \/ s.active /\ SuspendedTimedOut(s) = AdvancedTo(t, s.step + 1)
  BY Zenon DEF SuspendedTimedOut
<1> HIDE DEF m
<1>5. t \in State(B) /\ Sound(t)
  BY <1>2, SpentIsSound, Zenon
<1>6. s.step + 1 \in Nat \ {0}
  BY <1>1
<1> HIDE DEF t
<1>7. s.active => AdvancedTo(t, s.step + 1) \in State(B) /\ Sound(AdvancedTo(t, s.step + 1))
  BY <1>3, <1>5, <1>6, AdvancedIsSound
<1> QED
  BY <1>4, <1>5, <1>7, Zenon

(* choreo_tick of a suspended element, whole.                              *)
LEMMA SuspendedTickIsSound ==
    ASSUME NEW B, FALSE \in B, NEW s \in State(B), Sound(s)
    PROVE  SuspendedTick(s) \in State(B) /\ Sound(SuspendedTick(s))
<1> DEFINE t == SuspendedTimedOut(s)
<1>1. t \in State(B) /\ Sound(t)
  BY SuspendedTimedOutIsSound
<1>2. CASE t.state = "SUSPENDED" /\ ~lost
  <2>1. SuspendedTick(s) = [t EXCEPT !.state = "RUNNING"]
    BY <1>2, Zenon DEF SuspendedTick
  <2> HIDE DEF t
  <2>2. "RUNNING" \in {"RUNNING", "SUSPENDED"} /\ t.state # "IDLE"
    BY <1>2
  <2>3. LET u == [t EXCEPT !.state = "RUNNING"] IN u \in State(B) /\ Sound(u)
    BY <1>1, <2>2, RestatedIsSound, Zenon
  <2> QED
    BY <2>1, <2>3, Zenon
<1>3. CASE ~(t.state = "SUSPENDED" /\ ~lost)
  BY <1>1, <1>3, Zenon DEF SuspendedTick
<1> QED
  BY <1>2, <1>3

-----------------------------------------------------------------------------
(* The submissions *)

LEMMA FreshIsSound ==
    ASSUME TypeOK, Sound(c)
    PROVE  /\ Fresh \in State({FALSE}) /\ Sound(Fresh)
           /\ Fresh.state = "IDLE" /\ Fresh.done = FALSE /\ Fresh.triggered = FALSE
<1> DEFINE u == IF c.state # "IDLE" THEN TerminatedHard(c) ELSE c
           t == [u EXCEPT !.done = FALSE, !.triggered = FALSE, !.how = "CONTINUE"]
<1>1. c \in State({FALSE}) /\ FALSE \in {FALSE}
  BY DEF TypeOK
<1>2. /\ TerminatedHard(c) \in State({FALSE}) /\ Sound(TerminatedHard(c))
      /\ TerminatedHard(c).state = "IDLE"
  BY <1>1, HardIsSound, TerminatedHardFacts
<1>3. u \in State({FALSE}) /\ Sound(u) /\ u.state = "IDLE"
  BY <1>1, <1>2, Zenon
<1>4. Fresh = t
  BY Zenon DEF Fresh
<1> HIDE DEF u
<1>5. t \in State({FALSE}) /\ Sound(t)
  BY <1>3, Values, MarkedIsSound, Zenon
<1>6. t.state = u.state /\ t.done = FALSE /\ t.triggered = FALSE
  BY <1>3, Zenon DEF State
<1> QED
  BY <1>3, <1>4, <1>5, <1>6, Zenon

(* What validate_steps lets through can be played.                         *)
LEMMA ValidIsPlayable ==
    ASSUME NEW script \in Seq(Step), NEW checked, Valid(script, checked)
    PROVE  Playable(script)
<1>1. Len(script) \in Nat /\ Len(script) > 0
  BY DEF Valid
<1>2. ASSUME NEW i \in 1..Len(script), NEW j \in 1..Len(script[i].on)
      PROVE  script[i].on[j].goto \in 1..(Len(script) + 1)
  <2>1. script[i].on \in Seq([event: Events, goto: Nat \ {0}])
    <3>1. script[i] \in Step
      BY ElementOfSeq, Zenon
    <3> QED
      BY <3>1 DEF Step
  <2>2. script[i].on[j] \in [event: Events, goto: Nat \ {0}]
    BY <2>1, ElementOfSeq, Zenon
  <2>3. script[i].on[j].goto <= Len(script) + 1
    BY DEF Valid
  <2> QED
    BY <1>1, <2>2, <2>3
<1> QED
  BY <1>1, <1>2 DEF Playable

(* Where a playable script begins.                                         *)
LEMMA FirstStep ==
    ASSUME NEW script, Playable(script)
    PROVE  script[1].goal \in Goals /\ 1 \in 1..Len(script)
<1>1. script \in Seq(Step) /\ 1 \in 1..Len(script)
  BY DEF Playable
<1>2. script[1] \in Step
  BY <1>1, ElementOfSeq, Zenon
<1> QED
  BY <1>1, <1>2 DEF Step

(* A script that begins, on a fresh element.                               *)
LEMMA StartedIsSound ==
    ASSUME NEW B, FALSE \in B, NEW s \in State(B), Sound(s), s.state = "IDLE",
           s.done = FALSE, s.triggered = FALSE, NEW script, Playable(script)
    PROVE  LET t == [Deployed(s, script[1].goal) EXCEPT
                        !.script = script, !.step = 1, !.ms = 0, !.active = TRUE]
           IN  t \in State(B) /\ Sound(t)
<1> DEFINE goal == script[1].goal
           u == Deployed(s, goal)
           t == [u EXCEPT !.script = script, !.step = 1, !.ms = 0, !.active = TRUE]
<1>1. goal \in Goals /\ 1 \in 1..Len(script) /\ script \in Seq(Step)
  BY FirstStep DEF Playable
<1>2. At(script, 1, goal)
  BY <1>1 DEF At
<1> HIDE DEF goal
<1>3. /\ u \in State(B) /\ u.tracks = <<>> /\ u.state = "RUNNING"
      /\ u.parked = <<>> /\ u.bseParked = <<>> /\ u.goal = goal /\ u.intent = goal
      /\ u.done = FALSE /\ u.triggered = FALSE
  BY <1>1, DeployedIsSound
<1> HIDE DEF u
<1>4. Shaped(u) /\ Typed(u, B)
  BY <1>3, ToFields
<1>5. Shaped(t)
  BY <1>3, Zenon DEF State, Shaped, Fields
<1>6. /\ t.state = u.state /\ t.intent = u.intent /\ t.achieved = u.achieved
      /\ t.goal = u.goal /\ t.script = script /\ t.step = 1 /\ t.ms = 0
      /\ t.active = TRUE /\ t.done = u.done /\ t.parked = u.parked
      /\ t.bseParked = u.bseParked
      /\ t.seen = u.seen /\ t.triggered = u.triggered /\ t.how = u.how
      /\ t.recall = u.recall /\ t.hold = u.hold /\ t.holdMs = u.holdMs
      /\ t.tracks = u.tracks /\ t.track = u.track /\ t.saved = u.saved
      /\ t.wanted = u.wanted
  BY <1>3, Zenon DEF State
<1> HIDE DEF t
<1>7. Typed(t, B)
  BY <1>1, <1>4, <1>6, Values, Zenon DEF Typed
<1>8. Sound(t)
  <2>1. Stacks(t)
    BY <1>1, <1>2, <1>3, <1>6, Zenon DEF Stacks
  <2>2. OnTrack(t)
    BY <1>3, <1>6, Zenon DEF OnTrack
  <2> QED
    BY <2>1, <2>2 DEF Sound
<1> QED
  BY <1>5, <1>7, <1>8, ByFields DEF t, u, goal

(* A show, on a fresh element one of whose tracks has been found.          *)
LEMMA ShowIsSound ==
    ASSUME NEW B, FALSE \in B, NEW s \in State(B), Sound(s), s.state = "IDLE",
           s.done = FALSE, s.triggered = FALSE,
           NEW tracks \in TrackSets, NEW k \in 1..Len(tracks),
           \A i \in 1..Len(tracks) : Playable(tracks[i].script)
    PROVE  LET u == [s EXCEPT !.tracks = tracks, !.wanted = <<>>,
                              !.saved = [i \in DOMAIN tracks |-> 1]]
               t == [Deployed(u, tracks[k].script[1].goal) EXCEPT
                        !.track = k, !.script = tracks[k].script,
                        !.step = 1, !.ms = 0, !.active = TRUE]
           IN  t \in State(B) /\ Sound(t)
<1> DEFINE script == tracks[k].script
           goal == script[1].goal
           saved == [i \in DOMAIN tracks |-> 1]
           u == [s EXCEPT !.tracks = tracks, !.wanted = <<>>, !.saved = saved]
           t == [Deployed(u, goal) EXCEPT !.track = k, !.script = script,
                                          !.step = 1, !.ms = 0, !.active = TRUE]
<1>1. Shaped(s) /\ Typed(s, B)
  BY ToFields
<1>2. s.parked = <<>> /\ s.bseParked = <<>>
  BY DEF Sound, Stacks
<1>3. /\ tracks \in Seq(Track) /\ tracks # <<>> /\ Len(tracks) \in Nat
      /\ k \in Nat \ {0}
  BY ChoreoAssumption
<1>4. /\ saved \in Seq(Nat \ {0}) /\ Len(saved) = Len(tracks)
      /\ \A i \in 1..Len(tracks) : saved[i] = 1
  BY <1>3
<1>5. \A i \in 1..Len(tracks) : saved[i] \in 1..Len(tracks[i].script)
  <2> HIDE DEF saved
  <2>1. \A i \in 1..Len(tracks) : 1 \in 1..Len(tracks[i].script)
    BY FirstStep, Zenon
  <2> QED
    BY <1>4, <2>1, Zenon
<1>6. /\ Playable(script) /\ goal \in Goals /\ 1 \in 1..Len(script)
      /\ script \in Seq(Step)
  <2>1. Playable(script)
    BY Zenon
  <2> HIDE DEF script
  <2> QED
    BY <2>1, FirstStep DEF Playable
<1>7. At(script, 1, goal)
  BY <1>6 DEF At
<1> HIDE DEF script, goal, saved
<1>8. Shaped(t)
  BY Zenon DEF State, Shaped, Fields, Deployed, Submitted
<1>9. /\ t.state = "RUNNING" /\ t.intent = goal /\ t.achieved = FALSE
      /\ t.goal = goal /\ t.script = script /\ t.step = 1 /\ t.ms = 0
      /\ t.active = TRUE /\ t.done = s.done /\ t.parked = s.parked
      /\ t.bseParked = <<>>
      /\ t.seen = s.seen /\ t.triggered = s.triggered /\ t.how = s.how
      /\ t.recall = s.recall /\ t.hold = s.hold /\ t.holdMs = s.holdMs
      /\ t.tracks = tracks /\ t.track = k /\ t.saved = saved
      /\ t.wanted = <<>>
  BY Zenon DEF State, Deployed, Submitted
<1> HIDE DEF t
<1>10. Typed(t, B)
  BY <1>1, <1>3, <1>4, <1>6, <1>9, Values, Zenon DEF Typed
<1>11. Stacks(t)
  BY <1>2, <1>6, <1>7, <1>9, Zenon DEF Stacks
<1>12. OnTrack(t)
  BY <1>2, <1>3, <1>4, <1>5, <1>9, Zenon DEF OnTrack, script
<1> QED
  BY <1>8, <1>10, <1>11, <1>12, ByFields DEF Sound, t, u, script, goal, saved

-----------------------------------------------------------------------------
(* The invariant: one lemma for each kind of step *)

LEMMA InitSound == Init => IInv
<1> SUFFICES ASSUME Init PROVE IInv
  OBVIOUS
<1>1. Shaped(c)
  BY Zenon DEF Init, Shaped, Fields
<1>2. /\ c.state = "IDLE" /\ c.goal = "NONE" /\ c.intent = "IDLE" /\ c.achieved = FALSE
      /\ c.script = <<>> /\ c.step = 1 /\ c.ms = 0 /\ c.active = FALSE
      /\ c.done = FALSE /\ c.parked = <<>> /\ c.bseParked = <<>> /\ c.seen = NoMask
      /\ c.triggered = FALSE /\ c.how = "CONTINUE" /\ c.recall = FALSE
      /\ c.hold = FALSE /\ c.holdMs = 0 /\ c.tracks = <<>> /\ c.track = 1
      /\ c.saved = <<>> /\ c.wanted = <<>>
  BY Zenon DEF Init
<1>3. "NONE" \in Goals \cup {"NONE"} /\ FALSE \in {FALSE}
  OBVIOUS
<1>4. Typed(c, {FALSE})
  BY <1>2, <1>3, Values, Zenon DEF Typed
<1>5. Sound(c)
  BY <1>2, Zenon DEF Sound, Stacks, OnTrack
<1>6. peer \in [Peers -> {"IN", "DEPARTED", "SILENT"}] /\ lost \in BOOLEAN
  BY DEF Init
<1> QED
  BY <1>1, <1>4, <1>5, <1>6, ByFields DEF IInv, TypeOK

(* A tick, running, suspended or idle.                                     *)
LEMMA TickSound == IInv /\ Tick => IInv'
<1> SUFFICES ASSUME IInv, Tick PROVE IInv'
  OBVIOUS
<1>1. c \in State({FALSE}) /\ Sound(c) /\ FALSE \in {FALSE}
  BY DEF IInv, TypeOK
<1>2. CASE c.state = "RUNNING"
  <2>1. PICK low, achieved \in BOOLEAN, votes \in BOOLEAN, world \in BOOLEAN,
             home \in BOOLEAN :
             c' = [RunningTick(c, low, achieved, votes, world, home)
                      EXCEPT !.achieved = FALSE]
    BY <1>2 DEF Tick
  <2>2. c' \in State({FALSE}) /\ Sound(c')
    BY <1>1, <2>1, RunningTickIsSound, Zenon
  <2> QED
    BY <2>2 DEF IInv, TypeOK, Tick
<1>3. CASE c.state = "SUSPENDED"
  <2>1. c' = SuspendedTick(c)
    BY <1>3 DEF Tick
  <2>2. c' \in State({FALSE}) /\ Sound(c')
    BY <1>1, <2>1, SuspendedTickIsSound, Zenon
  <2> QED
    BY <2>2 DEF IInv, TypeOK, Tick
<1>4. CASE c.state # "RUNNING" /\ c.state # "SUSPENDED"
  BY <1>4 DEF IInv, TypeOK, Tick
<1> QED
  BY <1>2, <1>3, <1>4

(* A goal, accepted or refused.                                            *)
LEMMA SubmitGoalSound == \A goal \in Goals : IInv /\ SubmitGoal(goal) => IInv'
<1> SUFFICES ASSUME NEW goal \in Goals, IInv, SubmitGoal(goal) PROVE IInv'
  OBVIOUS
<1>1. /\ Fresh \in State({FALSE}) /\ Sound(Fresh) /\ FALSE \in {FALSE}
      /\ Fresh.state = "IDLE" /\ Fresh.done = FALSE /\ Fresh.triggered = FALSE
  BY FreshIsSound DEF IInv
<1>2. Deployed(Fresh, goal) \in State({FALSE}) /\ Sound(Deployed(Fresh, goal))
  BY <1>1, DeployedIsSound, Zenon
<1>3. c' \in State({FALSE}) /\ Sound(c')
  BY <1>1, <1>2, Zenon DEF SubmitGoal
<1> QED
  BY <1>3 DEF IInv, TypeOK, SubmitGoal

(* A script that validates.                                                *)
LEMMA SubmitScriptSound == \A script \in Scripts : IInv /\ SubmitScript(script) => IInv'
<1> SUFFICES ASSUME NEW script \in Scripts, IInv, SubmitScript(script) PROVE IInv'
  OBVIOUS
<1>1. /\ Fresh \in State({FALSE}) /\ Sound(Fresh) /\ FALSE \in {FALSE}
      /\ Fresh.state = "IDLE" /\ Fresh.done = FALSE /\ Fresh.triggered = FALSE
  BY FreshIsSound DEF IInv
<1>2. Playable(script)
  BY ChoreoAssumption, ValidIsPlayable DEF SubmitScript
<1>3. c' = [Deployed(Fresh, script[1].goal) EXCEPT
               !.script = script, !.step = 1, !.ms = 0, !.active = TRUE]
  BY DEF SubmitScript
<1>4. c' \in State({FALSE}) /\ Sound(c')
  BY <1>1, <1>2, <1>3, StartedIsSound, Zenon
<1> QED
  BY <1>4 DEF IInv, TypeOK, SubmitScript

(* What a low battery lets match includes what matches anyway.             *)
LEMMA SubmitTracksSound ==
    ASSUME EveryShowHasATrack
    PROVE  \A tracks \in TrackSets : IInv /\ SubmitTracks(tracks) => IInv'
<1> SUFFICES ASSUME NEW tracks \in TrackSets, IInv, SubmitTracks(tracks) PROVE IInv'
  OBVIOUS
<1>1. /\ Fresh \in State({FALSE}) /\ Sound(Fresh) /\ FALSE \in {FALSE}
      /\ Fresh.state = "IDLE" /\ Fresh.done = FALSE /\ Fresh.triggered = FALSE
  BY FreshIsSound DEF IInv
<1>2. tracks \in Seq(Track) /\ Len(tracks) \in Nat /\ DOMAIN tracks = 1..Len(tracks)
  BY ChoreoAssumption
<1>3. \A i \in 1..Len(tracks) : Playable(tracks[i].script)
  <2> SUFFICES ASSUME NEW i \in 1..Len(tracks) PROVE Playable(tracks[i].script)
    OBVIOUS
  <2>1. tracks[i] \in Track
    BY <1>2, ElementOfSeq, Zenon
  <2>2. tracks[i].script \in Seq(Step)
    BY <2>1 DEF Track
  <2>3. Valid(tracks[i].script, tracks[i].caps)
    BY <1>2, Zenon DEF SubmitTracks
  <2> QED
    BY <2>2, <2>3, ValidIsPlayable, Zenon
<1>4. PICK low \in BOOLEAN :
          LET s     == [Fresh EXCEPT !.tracks = tracks, !.wanted = <<>>,
                                     !.saved = [i \in DOMAIN tracks |-> 1]]
              found == Matching(tracks, low)
              t     == FirstOf(found)
          IN c' = IF found = {} THEN s
                  ELSE [Deployed(s, tracks[t].script[1].goal) EXCEPT
                           !.track = t, !.script = tracks[t].script,
                           !.step = 1, !.ms = 0, !.active = TRUE]
  BY Zenon DEF SubmitTracks
<1> DEFINE found == Matching(tracks, low)
           k == FirstOf(found)
<1>5. found # {} /\ found \subseteq Nat /\ found \subseteq 1..Len(tracks)
  <2>1. Matching(tracks, FALSE) \subseteq found /\ Matching(tracks, FALSE) # {}
    BY DEF Matching, EveryShowHasATrack
  <2>2. found \subseteq 1..Len(tracks) /\ 1..Len(tracks) \subseteq Nat
    BY <1>2 DEF Matching
  <2> HIDE DEF found
  <2> QED
    BY <2>1, <2>2
<1>6. k \in 1..Len(tracks)
  BY <1>5, FirstOfFound, Zenon
<1>7. c' = [Deployed([Fresh EXCEPT !.tracks = tracks, !.wanted = <<>>,
                                   !.saved = [i \in DOMAIN tracks |-> 1]],
                     tracks[k].script[1].goal) EXCEPT
               !.track = k, !.script = tracks[k].script,
               !.step = 1, !.ms = 0, !.active = TRUE]
  BY <1>4, <1>5, Zenon
<1> HIDE DEF k, found
<1>8. c' \in State({FALSE}) /\ Sound(c')
  BY <1>1, <1>3, <1>6, <1>7, ShowIsSound, Zenon
<1> QED
  BY <1>8 DEF IInv, TypeOK, SubmitTracks

(* A preempting goal.                                                      *)
LEMMA PreemptGoalSound == \A goal \in Goals : IInv /\ PreemptGoal(goal) => IInv'
<1> SUFFICES ASSUME NEW goal \in Goals, IInv, PreemptGoal(goal) PROVE IInv'
  OBVIOUS
<1>1. c' \in State({FALSE}) /\ Sound(c')
  <2>1. c \in State({FALSE}) /\ Sound(c) /\ FALSE \in {FALSE}
    BY DEF IInv, TypeOK
  <2> QED
    BY <2>1, PreemptedIsSound, Zenon DEF PreemptGoal
<1> QED
  BY <1>1 DEF IInv, TypeOK, PreemptGoal

(* A cancellation, which resumes what is parked.                           *)
LEMMA TerminateSound == IInv /\ Terminate => IInv'
<1> SUFFICES ASSUME IInv, Terminate PROVE IInv'
  OBVIOUS
<1>1. c' \in State({FALSE}) /\ Sound(c')
  <2>1. c \in State({FALSE}) /\ Sound(c) /\ FALSE \in {FALSE}
    BY DEF IInv, TypeOK
  <2>2. CASE c.parked = <<>>
    <3>1. Terminated(c) = TerminatedHard(c)
      BY <2>2, Zenon DEF Terminated
    <3> QED
      BY <2>1, <3>1, HardIsSound, Zenon DEF Terminate
  <2>3. CASE c.parked # <<>>
    BY <2>1, <2>3, ResumedIsSound, Zenon DEF Terminate
  <2> QED
    BY <2>2, <2>3
<1> QED
  BY <1>1 DEF IInv, TypeOK, Terminate

(* What L4 and L5 see changes without L7.                                  *)
LEMMA OutsideSound == IInv /\ (PeerChanges \/ QuorumChanges \/ UNCHANGED vars) => IInv'
<1>1. IInv /\ PeerChanges => IInv'
  BY DEF PeerChanges, IInv, TypeOK
<1>2. IInv /\ QuorumChanges => IInv'
  BY DEF QuorumChanges, IInv, TypeOK
<1>3. IInv /\ UNCHANGED vars => IInv'
  BY DEF vars, IInv, TypeOK
<1> QED
  BY <1>1, <1>2, <1>3

(* The stacks of L6 and L7 and the table of tracks stay sound.             *)
THEOREM AlwaysSound ==
    ASSUME EveryShowHasATrack
    PROVE  Spec => []IInv
<1>1. IInv /\ [Next]_vars => IInv'
  BY TickSound, SubmitGoalSound, SubmitScriptSound, SubmitTracksSound,
     PreemptGoalSound, TerminateSound, OutsideSound DEF Next
<1> QED
  BY InitSound, <1>1, PTL DEF Spec

(* Type correctness of L7: the goal run and parked, the step and the saved *)
(* steps stay goals and positions, whatever is submitted and in whatever   *)
(* order.                                                                  *)
THEOREM TypeCorrect ==
    ASSUME EveryShowHasATrack
    PROVE  Spec => []TypeOK
<1>1. IInv => TypeOK
  BY DEF IInv
<1> QED
  BY AlwaysSound, <1>1, PTL

(* What the run checks follows from the invariant.                         *)
LEMMA SoundStacksAgree == IInv => StacksAgree
<1> SUFFICES ASSUME IInv PROVE StacksAgree
  OBVIOUS
<1>1. Typed(c, {FALSE}) /\ Stacks(c)
  BY ToFields, Zenon DEF IInv, Sound, TypeOK
<1>2. c.parked = <<>> \/ Len(c.parked) = 1
  BY <1>1 DEF Stacks
<1>3. Len(c.parked) <= 1
  <2>1. Len(<<>>) = 0
    OBVIOUS
  <2>2. CASE c.parked = <<>>
    BY <2>1, <2>2
  <2>3. CASE Len(c.parked) = 1
    BY <2>3
  <2> QED
    BY <1>2, <2>2, <2>3
<1>4. c.bseParked = [i \in DOMAIN c.parked |-> c.parked[i].goal]
  <2>1. CASE c.parked = <<>>
    BY <1>1, <2>1 DEF Stacks
  <2>2. CASE c.parked # <<>>
    <3>1. Len(c.parked) = 1 /\ c.bseParked = <<c.parked[1].goal>>
      BY <1>1, <2>2 DEF Stacks
    <3>2. DOMAIN c.parked = {1}
      BY <1>1, <3>1 DEF Typed
    <3>3. <<c.parked[1].goal>> = [i \in {1} |-> c.parked[i].goal]
      OBVIOUS
    <3> QED
      BY <3>1, <3>2, <3>3
  <2> QED
    BY <2>1, <2>2
<1>5. c.intent = IF c.state = "IDLE" THEN "IDLE" ELSE c.goal
  BY <1>1 DEF Stacks
<1>6. c.active => c.step \in 1..Len(c.script) /\ c.state # "IDLE"
  BY <1>1 DEF Stacks, At
<1> QED
  BY <1>1, <1>3, <1>4, <1>5, <1>6, Zenon DEF StacksAgree, Stacks

(* bse.c's parked intent follows choreo.c's parked goal through every      *)
(* preemption, ending, departure and migration, though no return value     *)
(* between the two is looked at; nothing that ends by itself does so while *)
(* something is parked; and a complete script leaves an idle element.      *)
THEOREM StacksAlwaysAgree ==
    ASSUME EveryShowHasATrack
    PROVE  Spec => []StacksAgree
  BY AlwaysSound, SoundStacksAgree, PTL

(* The same of the track.                                                  *)
LEMMA SoundRunsItsOwn == IInv => TrackRunsItsOwn
<1> SUFFICES ASSUME IInv, c.tracks # <<>>, Claimed(c.tracks)
             PROVE  LET now == IF c.parked # <<>> THEN Head(c.parked) ELSE c
                    IN /\ c.state # "IDLE" /\ now.active
                       /\ now.script = c.tracks[c.track].script
                       /\ now.goal = now.script[now.step].goal
  BY Zenon DEF TrackRunsItsOwn
<1>1. Typed(c, {FALSE}) /\ Stacks(c) /\ OnTrack(c)
  BY ToFields, Zenon DEF IInv, Sound, TypeOK
<1>2. CASE c.parked = <<>>
  BY <1>1, <1>2 DEF Stacks, OnTrack, At
<1>3. CASE c.parked # <<>>
  <2>1. Head(c.parked) = c.parked[1]
    BY <1>1, <1>3 DEF Typed
  <2> QED
    BY <1>1, <1>3, <2>1 DEF Stacks, OnTrack, At
<1> QED
  BY <1>2, <1>3

(* In multi-track mode the step engine, or what waits under a preempting   *)
(* goal, is always in the script of the active track.                      *)
THEOREM TracksRunTheirOwn ==
    ASSUME EveryShowHasATrack
    PROVE  Spec => []TrackRunsItsOwn
  BY AlwaysSound, SoundRunsItsOwn, PTL

(* Without a step engine, or with one that waits, no script advances and   *)
(* no track changes: a tick has only the departure's own recall and hold   *)
(* to act on.                                                              *)
LEMMA QuietTick ==
    ASSUME NEW s \in State({FALSE}), Sound(s), ~s.active, s.state = "RUNNING",
           s.parked # <<>> \/ s.tracks = <<>>,
           NEW low, NEW achieved \in BOOLEAN, NEW votes, NEW world, NEW home
    PROVE  LET t == [RunningTick(s, low, achieved, votes, world, home)
                        EXCEPT !.achieved = FALSE]
           IN  ~t.active /\ (t.parked = s.parked \/ t.state = "IDLE")
<1> DEFINE b == [s EXCEPT !.achieved = achieved]
           e == RecallChecked(b)
           f == HoldChecked(e)
           g == QuorumChecked(f)
           Quiet(x) == x \in State(BOOLEAN) /\ Sound(x) /\ ~x.active
                       /\ (x.parked = s.parked \/ x.state = "IDLE")
<1>1. FALSE \in BOOLEAN /\ "RECALL" \in Policies /\ "LAND_IN_PLACE" \in Policies
  BY Values, Zenon
<1>2. b.parked = s.parked /\ b.active = s.active
  BY Zenon DEF State
<1>3. \A x : Sound(x) /\ x.state = "IDLE" => ~x.active
  BY DEF Sound, Stacks
<1>4. TrackUpdated(s, low) = s /\ ScriptAdvanced(b, votes, world, home) = b
  BY <1>2, Zenon DEF TrackUpdated, ScriptAdvanced
<1>5. RunningTick(s, low, achieved, votes, world, home) = g
  BY <1>4, Zenon DEF RunningTick
<1>6. Quiet(b)
  <2>1. LET t == [s EXCEPT !.achieved = achieved] IN t \in State(BOOLEAN) /\ Sound(t)
    BY ReportedIsSound, Zenon
  <2> QED
    BY <1>2, <2>1, Zenon
<1> HIDE DEF b
<1>7. Quiet(e)
  <2>1. e \in State(BOOLEAN) /\ Sound(e)
    BY <1>1, <1>6, RecallCheckedIsSound, Zenon
  <2>2. e = b \/ e = Ended(b, "RECALL")
    BY Zenon DEF RecallChecked
  <2>3. Ended(b, "RECALL").state = "IDLE"
    BY <1>1, <1>6, EndedIsSound, Zenon
  <2> HIDE DEF e
  <2> QED
    BY <1>3, <1>6, <2>1, <2>2, <2>3, Zenon
<1> HIDE DEF e
<1>8. Quiet(f)
  <2>1. f \in State(BOOLEAN) /\ Sound(f)
    BY <1>1, <1>7, HoldCheckedIsSound, Zenon
  <2>2. f = e \/ f = Ended(e, "LAND_IN_PLACE") \/ f = [e EXCEPT !.holdMs = e.holdMs + 1]
    BY Zenon DEF HoldChecked
  <2>3. Ended(e, "LAND_IN_PLACE").state = "IDLE"
    BY <1>1, <1>7, EndedIsSound, Zenon
  <2>4. LET x == [e EXCEPT !.holdMs = e.holdMs + 1]
        IN  x.parked = e.parked /\ x.state = e.state /\ x.active = e.active
    BY <1>7, Zenon DEF State
  <2> HIDE DEF f
  <2> QED
    BY <1>3, <1>7, <2>1, <2>2, <2>3, <2>4, Zenon
<1> HIDE DEF f
<1>9. Quiet(g)
  <2>1. g \in State(BOOLEAN) /\ Sound(g)
    BY <1>8, QuorumCheckedIsSound, Zenon
  <2>2. g = f \/ (f.state = "RUNNING" /\ g = [f EXCEPT !.state = "SUSPENDED"])
    BY Zenon DEF QuorumChecked
  <2>3. LET x == [f EXCEPT !.state = "SUSPENDED"]
        IN  x.parked = f.parked /\ x.active = f.active
    BY <1>8, Zenon DEF State
  <2>4. "RUNNING" # "IDLE"
    OBVIOUS
  <2> HIDE DEF g
  <2> QED
    BY <1>8, <2>1, <2>2, <2>3, <2>4, Zenon
<1> HIDE DEF g
<1>10. LET t == [g EXCEPT !.achieved = FALSE]
       IN  t.parked = g.parked /\ t.state = g.state /\ t.active = g.active
  BY <1>9, Zenon DEF State
<1> QED
  BY <1>5, <1>9, <1>10, Zenon

(* A whole tick, from a state of the invariant.                            *)
LEMMA IdleEngineTick ==
    IInv /\ Tick /\ ~c.active =>
        /\ c.parked # <<>> => c'.parked = c.parked \/ c'.state = "IDLE"
        /\ ~c'.active
<1> SUFFICES ASSUME IInv, Tick, ~c.active
             PROVE  /\ c.parked # <<>> => c'.parked = c.parked \/ c'.state = "IDLE"
                    /\ ~c'.active
  OBVIOUS
<1>1. c \in State({FALSE}) /\ Sound(c)
  BY DEF IInv, TypeOK
<1>2. CASE c.state = "RUNNING"
  <2>1. PICK low, achieved \in BOOLEAN, votes \in BOOLEAN, world \in BOOLEAN,
             home \in BOOLEAN :
             c' = [RunningTick(c, low, achieved, votes, world, home)
                      EXCEPT !.achieved = FALSE]
    BY <1>2 DEF Tick
  <2>2. c.parked # <<>> \/ c.tracks = <<>>
    BY <1>1 DEF Sound, OnTrack
  <2>3. LET t == [RunningTick(c, low, achieved, votes, world, home)
                     EXCEPT !.achieved = FALSE]
        IN  ~t.active /\ (t.parked = c.parked \/ t.state = "IDLE")
    BY <1>1, <1>2, <2>2, QuietTick
  <2> QED
    BY <2>1, <2>3, Zenon
<1>3. CASE c.state = "SUSPENDED"
  <2>1. c' = SuspendedTick(c)
    BY <1>3 DEF Tick
  <2>2. SuspendedTimedOut(c) = c
    BY <1>1, Zenon DEF SuspendedTimedOut
  <2>3. c' = c \/ c' = [c EXCEPT !.state = "RUNNING"]
    BY <2>1, <2>2, Zenon DEF SuspendedTick
  <2>4. LET t == [c EXCEPT !.state = "RUNNING"]
        IN  t.parked = c.parked /\ t.active = c.active
    BY <1>1, Zenon DEF State
  <2> QED
    BY <2>3, <2>4, Zenon
<1>4. CASE c.state # "RUNNING" /\ c.state # "SUSPENDED"
  BY <1>4 DEF Tick
<1> QED
  BY <1>2, <1>3, <1>4

(* While a departure's hold or recall is in force no tick resumes what it  *)
(* parked: the tick keeps it parked or ends in an idle element.            *)
THEOREM DeparturesAreFinal ==
    ASSUME EveryShowHasATrack
    PROVE  Spec => DepartureIsFinal
<1>1. IInv /\ [Next]_vars =>
          [Tick /\ (c.hold \/ c.recall) /\ c.parked # <<>> =>
              c'.parked = c.parked \/ c'.state = "IDLE"]_vars
  BY IdleEngineTick DEF IInv, Sound, Stacks
<1> QED
  BY AlwaysSound, <1>1, PTL DEF Spec, DepartureIsFinal

(* The refused show is the only way in which a tick starts what was not    *)
(* submitted: without one the step engine comes alive only at a            *)
(* submission, or when what waited is resumed.                             *)
THEOREM OnlySubmissionsStart ==
    ASSUME EveryShowHasATrack
    PROVE  Spec => OnlyASubmissionStarts
<1>1. IInv /\ [Next]_vars => [Tick /\ c'.active => c.active \/ c.parked # <<>>]_vars
  BY IdleEngineTick
<1> QED
  BY AlwaysSound, <1>1, PTL DEF Spec, OnlyASubmissionStarts

=============================================================================
