------------------------------- MODULE Choreo -------------------------------
(***************************************************************************)
(* L7 of one element (choreo/choreo.c): the lifecycle of a goal or script, *)
(* the step engine with its transitions and time-outs, the parking of a    *)
(* goal under a preempting one, the departure policy, and the half of L6   *)
(* (bse.c) L7 drives: which intent is active and which is parked.          *)
(*                                                                         *)
(* The static variables of the file are the fields of c.  Where one C      *)
(* function calls another the operators nest the same way, so that a tick  *)
(* is one step.  What a tick reads of L5 and L4 (the quorum, who takes     *)
(* part) changes between ticks; what else it may find (the goal achieved,  *)
(* the peers' votes, an event, a recall point) is chosen in the tick.      *)
(***************************************************************************)
EXTENDS Naturals, Sequences, FiniteSets

CONSTANTS
    Peers,
    Scripts,         \* what an application may submit: sequences of steps
    TrackSets,       \* or sequences of tracks: a filter and a script each
    TrackHold,       \* CHOREO_MEMBERSHIP_HOLD_MS, in ticks
    Goals, Able,     \* goals, and those whose capabilities the element has
    Mode, Reasons, MinParticipants,  \* choreo_set_departure_policy
    QuorumMin,       \* scr->quorum_min
    HoldTimeout,     \* CHOREO_DEPARTURE_HOLD_TIMEOUT_MS, in ticks
    MaxMs            \* bound: time in a step is not told apart beyond this

Policies == {"CONTINUE", "HOLD", "LAND_IN_PLACE", "RECALL"}
Events   == {"ACHIEVED", "QUORUM_LOST", "WORLD"}  \* WORLD: any of the others

(* A step: whether it ends when achieved, by this element or by all; its   *)
(* time (0: no bound); its transitions; its departure policy.              *)
Step == [goal: Goals, untilAchieved: BOOLEAN, all: BOOLEAN, max: 0..MaxMs,
         on: Seq([event: Events, goto: Nat \ {0}]),
         departure: Policies \cup {"UNSET"}]

(* A track: whether the element has the capabilities its filter asks for,  *)
(* whether it asks for a low battery, and what it runs.                    *)
Track == [caps: BOOLEAN, low: BOOLEAN, script: Seq(Step)]

ASSUME ChoreoAssumption ==
    /\ IsFiniteSet(Peers)
    /\ \A s \in Scripts : s \in Seq(Step)
    /\ \A ts \in TrackSets : ts \in Seq(Track)
    /\ TrackHold \in Nat
    /\ {"HOLD", "CONVERGE"} \subseteq Goals /\ Able \subseteq Goals
    /\ "NONE" \notin Goals
    /\ Mode \in Policies /\ Reasons \subseteq {"LOST", "DECLARED"}
    /\ MinParticipants \in Nat /\ QuorumMin \in Nat
    /\ HoldTimeout \in Nat \ {0} /\ MaxMs \in Nat

VARIABLES
    c,       \* choreo.c's state, with bse.c's intents
    peer,    \* what L4 says of each peer: IN (participating), DEPARTED, SILENT
    lost     \* scr->quorum_state is LOST

vars == <<c, peer, lost>>

Parked == [goal: Goals, script: Seq(Step), step: Nat \ {0}, ms: 0..MaxMs,
           active: BOOLEAN]

NoMask == {"none"}  \* s_prev_participating_mask_valid is false

Taking == {p \in Peers : peer[p] = "IN"}

-----------------------------------------------------------------------------
(* Lifecycle *)

(* bse_submit_intent: any parked intent is dropped, achievement starts     *)
(* afresh.                                                                 *)
Submitted(s, intent) ==
    [s EXCEPT !.intent = intent, !.bseParked = <<>>, !.achieved = FALSE]

(* terminate_hard, with script_clear.  saved and wanted are only read in    *)
(* multi-track mode and are empty out of it; how only while triggered.     *)
TerminatedHard(s) ==
    [Submitted(s, "IDLE") EXCEPT
        !.state = "IDLE", !.script = <<>>, !.step = 1, !.ms = 0, !.active = FALSE,
        !.parked = <<>>, !.seen = NoMask,
        !.recall = FALSE, !.hold = FALSE, !.holdMs = 0,
        !.tracks = <<>>, !.saved = <<>>, !.wanted = <<>>]

(* Variant: BSE is not told that its parked intent is active again.        *)
TerminatedAlone(s) ==
    IF s.parked = <<>> THEN TerminatedHard(s)
    ELSE LET p == Head(s.parked)
         IN [s EXCEPT !.goal = p.goal, !.script = p.script, !.step = p.step,
                      !.ms = p.ms, !.active = p.active, !.parked = Tail(@),
                      !.state = "RUNNING"]

(* choreo_terminate: a parked goal is resumed, with bse_resume_intent.     *)
Terminated(s) ==
    IF s.parked = <<>> THEN TerminatedHard(s)
    ELSE LET p == Head(s.parked)
         IN [s EXCEPT !.goal = p.goal, !.script = p.script, !.step = p.step,
                      !.ms = p.ms, !.active = p.active, !.parked = Tail(@),
                      !.intent = Head(s.bseParked), !.bseParked = Tail(@),
                      !.state = "RUNNING"]

(* choreo_preempt_goal, with bse_preempt_intent. *)
CanPreempt(s, goal) ==
    s.state \in {"RUNNING", "SUSPENDED"} /\ s.parked = <<>> /\ goal \in Able

Preempted(s, goal) ==
    [s EXCEPT !.parked = <<[goal |-> s.goal, script |-> s.script, step |-> s.step,
                            ms |-> s.ms, active |-> s.active]>>,
              !.bseParked = <<s.intent>>, !.intent = goal, !.achieved = FALSE,
              !.goal = goal, !.active = FALSE, !.state = "RUNNING"]

(* choreo_configure and choreo_deploy of an idle element. *)
Deployed(s, goal) == [Submitted(s, goal) EXCEPT !.goal = goal, !.state = "RUNNING"]

(* validate_steps; checked: the capabilities too. *)
Valid(script, checked) ==
    /\ Len(script) > 0
    /\ \A i \in 1..Len(script) :
          /\ script[i].untilAchieved \/ script[i].max > 0
          /\ checked => script[i].goal \in Able
          /\ \A j \in 1..Len(script[i].on) : script[i].on[j].goto <= Len(script) + 1

-----------------------------------------------------------------------------
(* Tracks: the first whose filter matches, and a change of track once it   *)
(* has matched for a while.  Where the script stopped in the track left is *)
(* remembered; only the outgoing index is, so re-entry starts that step    *)
(* afresh.                                                                 *)

Matching(tracks, low) == {i \in 1..Len(tracks) : tracks[i].caps /\ (tracks[i].low => low)}

FirstOf(found) == CHOOSE i \in found : \A j \in found : i <= j

(* A track left behind by an earlier, longer show is beyond the table: its *)
(* step is saved where nobody reads it.                                    *)
Migrated(s, t) ==
    LET script == s.tracks[t].script
    IN [Submitted(s, script[s.saved[t]].goal) EXCEPT
           !.saved[s.track] = s.step, !.track = t, !.script = script,
           !.step = s.saved[t], !.ms = 0, !.active = TRUE, !.goal = script[s.saved[t]].goal,
           !.wanted = <<>>]

TrackSelected(s, low) ==
    LET found == Matching(s.tracks, low)
    IN IF found = {} \/ FirstOf(found) = s.track THEN [s EXCEPT !.wanted = <<>>]
       ELSE LET t  == FirstOf(found)
                ms == IF s.wanted # <<>> /\ s.wanted[1] = t THEN s.wanted[2] + 1 ELSE 0
            IN IF ms >= TrackHold THEN Migrated(s, t) ELSE [s EXCEPT !.wanted = <<t, ms>>]

(* Variant: a track may change under a preempting goal.                    *)
TrackUpdatedParked(s, low) == IF s.tracks = <<>> THEN s ELSE TrackSelected(s, low)

(* Not while something is parked.                                          *)
TrackUpdated(s, low) ==
    IF s.tracks = <<>> \/ s.parked # <<>> THEN s ELSE TrackSelected(s, low)

-----------------------------------------------------------------------------
(* The step engine *)

(* advance_to: the next step's goal, or the end of the script. *)
AdvancedTo(s, i) ==
    IF i > Len(s.script) THEN Terminated([s EXCEPT !.ms = 0, !.done = TRUE])
    ELSE [Submitted(s, s.script[i].goal) EXCEPT
             !.ms = 0, !.step = i, !.goal = s.script[i].goal]

(* land_for_departure *)
Landed(s) ==
    Terminated([s EXCEPT !.done = TRUE, !.triggered = TRUE, !.how = "LAND_IN_PLACE"])

(* trigger_departure_policy; home: the platform knows a recall point.      *)
Triggered(s, policy, home) ==
    CASE policy = "RECALL" /\ home /\ CanPreempt(s, "CONVERGE") ->
            [Preempted(s, "CONVERGE") EXCEPT !.recall = TRUE]
      [] policy = "HOLD" /\ CanPreempt(s, "HOLD") ->
            [Preempted(s, "HOLD") EXCEPT !.hold = TRUE, !.holdMs = 0]
      [] OTHER -> Landed(s)

(* departure_policy_should_fire: somebody who took part at the last        *)
(* evaluated tick does not any more, for a reason that counts.             *)
Reason(p) == IF peer[p] = "SILENT" THEN "LOST" ELSE "DECLARED"

DepartureFires(s, policy) ==
    /\ s.seen # NoMask /\ policy # "CONTINUE"
    /\ \E p \in s.seen \ Taking : Reason(p) \in Reasons
    /\ MinParticipants > 0 => 1 + Cardinality(Taking) < MinParticipants

(* choreo_collective_achieved, the peers' votes given. *)
Reached(s, step, votes) ==
    s.achieved /\ (step.all /\ Taking # {} => votes)

(* event_fires *)
Fires(s, step, event, votes, world) ==
    CASE event = "ACHIEVED" -> Reached(s, step, votes)
      [] event = "QUORUM_LOST" -> lost
      [] event = "WORLD" -> world

Longer(ms) == IF ms < MaxMs THEN ms + 1 ELSE ms

TimeUp(s) == s.script[s.step].max > 0 /\ s.ms >= s.script[s.step].max

(* script_advance: a transition first, then the departure policy, then the *)
(* end of the step.                                                        *)
ScriptAdvanced(s, votes, world, home) ==
    IF ~s.active THEN s
    ELSE LET step   == s.script[s.step]
             t      == [s EXCEPT !.ms = Longer(@), !.seen = Taking]
             policy == IF step.departure = "UNSET" THEN Mode ELSE step.departure
             firing == {i \in 1..Len(step.on) :
                           Fires(s, step, step.on[i].event, votes, world)}
         IN IF firing # {} THEN
                AdvancedTo(t, step.on[CHOOSE i \in firing : \A j \in firing : i <= j].goto)
            ELSE IF DepartureFires(s, policy) THEN Triggered(t, policy, home)
            ELSE IF TimeUp(t) \/ (step.untilAchieved /\ Reached(s, step, votes))
                 THEN AdvancedTo(t, s.step + 1)
            ELSE t

(* What follows script_advance in a RUNNING tick: a recall that has        *)
(* arrived, a hold that has timed out, the quorum.                         *)
EndedResuming(s, how) ==  \* variant: the parked goal is resumed
    [Terminated(s) EXCEPT !.done = TRUE, !.triggered = TRUE, !.how = how]

Ended(s, how) ==
    [TerminatedHard(s) EXCEPT !.done = TRUE, !.triggered = TRUE, !.how = how]

RecallChecked(s) ==
    IF s.recall /\ s.state = "RUNNING" /\ s.achieved THEN Ended(s, "RECALL") ELSE s

HoldChecked(s) ==
    IF ~s.hold \/ s.state # "RUNNING" THEN s
    ELSE IF s.holdMs + 1 >= HoldTimeout THEN Ended(s, "LAND_IN_PLACE")
    ELSE [s EXCEPT !.holdMs = @ + 1]

(* The quorum is looked at after the step engine. *)
QuorumChecked(s) ==
    IF s.state = "RUNNING" /\ lost THEN [s EXCEPT !.state = "SUSPENDED"] ELSE s

(* suspended_step_timeout: only isolation spends the step's time.          *)
Isolated == Cardinality(Taking) < (IF QuorumMin > 0 THEN QuorumMin ELSE 1)

(* Variant: time stands still while suspended. *)
FrozenTimedOut(s) == s

SuspendedTimedOut(s) ==
    IF ~s.active \/ ~Isolated THEN s
    ELSE LET t == [s EXCEPT !.ms = Longer(@)]
         IN IF TimeUp(t) THEN AdvancedTo(t, s.step + 1) ELSE t

SuspendedTick(s) ==
    LET t == SuspendedTimedOut(s)
    IN IF t.state = "SUSPENDED" /\ ~lost THEN [t EXCEPT !.state = "RUNNING"] ELSE t

RunningTick(s, low, achieved, votes, world, home) ==
    LET ticked == [TrackUpdated(s, low) EXCEPT !.achieved = achieved]  \* bse_tick
    IN QuorumChecked(HoldChecked(RecallChecked(
            ScriptAdvanced(ticked, votes, world, home))))

-----------------------------------------------------------------------------

(* What c may be, between two ticks (achieved: {FALSE}) and inside one.     *)
State(achieved) ==
    [state: {"IDLE", "RUNNING", "SUSPENDED"}, goal: Goals \cup {"NONE"},
     intent: Goals \cup {"IDLE"}, achieved: achieved,
     script: Seq(Step), step: Nat \ {0}, ms: 0..MaxMs, active: BOOLEAN,
     done: BOOLEAN, parked: Seq(Parked), bseParked: Seq(Goals),
     seen: (SUBSET Peers) \cup {NoMask}, triggered: BOOLEAN, how: Policies,
     recall: BOOLEAN, hold: BOOLEAN, holdMs: 0..(HoldTimeout - 1),
     tracks: Seq(Track), track: Nat \ {0}, saved: Seq(Nat \ {0}),
     wanted: {<<>>} \cup ((Nat \ {0}) \X Nat)]

TypeOK ==
    /\ c \in State({FALSE})
    /\ peer \in [Peers -> {"IN", "DEPARTED", "SILENT"}]
    /\ lost \in BOOLEAN

(* choreo_init and bse_init; achieved is only read in the tick that sets   *)
(* it and is kept FALSE between ticks.                                     *)
Init ==
    /\ c = [state |-> "IDLE", goal |-> "NONE", intent |-> "IDLE", achieved |-> FALSE,
            script |-> <<>>, step |-> 1, ms |-> 0, active |-> FALSE, done |-> FALSE,
            parked |-> <<>>, bseParked |-> <<>>, seen |-> NoMask,
            triggered |-> FALSE, how |-> "CONTINUE",
            recall |-> FALSE, hold |-> FALSE, holdMs |-> 0,
            tracks |-> <<>>, track |-> 1, saved |-> <<>>, wanted |-> <<>>]
    /\ peer = [p \in Peers |-> "SILENT"]
    /\ lost = TRUE

(* What every submission starts with. *)
Fresh ==
    [(IF c.state # "IDLE" THEN TerminatedHard(c) ELSE c)
        EXCEPT !.done = FALSE, !.triggered = FALSE, !.how = "CONTINUE"]

(* choreo_submit_goal: what ran is gone even if the new goal is refused.   *)
SubmitGoal(goal) ==
    /\ c' = IF goal \in Able THEN Deployed(Fresh, goal) ELSE Fresh
    /\ UNCHANGED <<peer, lost>>

(* choreo_submit_script: a script that does not validate changes nothing.  *)
SubmitScript(script) ==
    /\ Valid(script, TRUE)
    /\ c' = [Deployed(Fresh, script[1].goal) EXCEPT
                !.script = script, !.step = 1, !.ms = 0, !.active = TRUE]
    /\ UNCHANGED <<peer, lost>>

(* choreo_submit_tracks: the capabilities only of a track this element     *)
(* could ever run.  What ran is gone, and the table of tracks is in place, *)
(* before it is known whether any track matches.                           *)
SubmitTracks(tracks) ==
    /\ \A i \in DOMAIN tracks : Valid(tracks[i].script, tracks[i].caps)
    /\ \E low \in BOOLEAN :
          LET s     == [Fresh EXCEPT !.tracks = tracks, !.wanted = <<>>,
                                     !.saved = [i \in DOMAIN tracks |-> 1]]
              found == Matching(tracks, low)
              t     == FirstOf(found)
          IN c' = IF found = {} THEN s
                  ELSE [Deployed(s, tracks[t].script[1].goal) EXCEPT
                           !.track = t, !.script = tracks[t].script,
                           !.step = 1, !.ms = 0, !.active = TRUE]
    /\ UNCHANGED <<peer, lost>>

PreemptGoal(goal) ==
    /\ CanPreempt(c, goal)
    /\ c' = Preempted(c, goal)
    /\ UNCHANGED <<peer, lost>>

(* choreo_terminate and choreo_cancel_goal. *)
Terminate ==
    /\ c' = Terminated(c)
    /\ UNCHANGED <<peer, lost>>

(* choreo_tick.  What the tick has no occasion to look at is not told      *)
(* apart: a vote without the own, a peer's vote, an event or a recall      *)
(* point without a step engine, a recall point when nobody has gone.       *)
Engaged == c.active \/ (c.tracks # <<>> /\ c.parked = <<>>)

Tick ==
    /\ UNCHANGED <<peer, lost>>
    /\ \/ /\ c.state = "RUNNING"
          /\ \E low \in IF c.tracks = <<>> THEN {FALSE} ELSE BOOLEAN,
                achieved, votes, world, home \in BOOLEAN :
                /\ votes => achieved
                /\ votes \/ world \/ home => Engaged
                /\ home => c.seen \ Taking # {}
                /\ c' = [RunningTick(c, low, achieved, votes, world, home)
                            EXCEPT !.achieved = FALSE]
       \/ c.state = "SUSPENDED" /\ c' = SuspendedTick(c)
       \/ c.state = "IDLE" /\ c' = c

(* Between two ticks L4 and L5 may come to see things otherwise.           *)
PeerChanges ==
    /\ UNCHANGED <<c, lost>>
    /\ \E p \in Peers, x \in {"IN", "DEPARTED", "SILENT"} : peer' = [peer EXCEPT ![p] = x]

QuorumChanges == lost' = ~lost /\ UNCHANGED <<c, peer>>

Next ==
    \/ Tick \/ Terminate \/ PeerChanges \/ QuorumChanges
    \/ \E goal \in Goals : SubmitGoal(goal) \/ PreemptGoal(goal)
    \/ \E script \in Scripts : SubmitScript(script)
    \/ \E tracks \in TrackSets : SubmitTracks(tracks)

Spec == Init /\ [][Next]_vars

(* A mission: the application submits a script and then only ticks, every  *)
(* cycle, as the examples' main loops do.                                  *)
MissionNext ==
    \/ Tick \/ PeerChanges \/ QuorumChanges
    \/ /\ c.state = "IDLE" /\ ~c.done
       /\ \E script \in Scripts : SubmitScript(script)

MissionSpec == Init /\ [][MissionNext]_vars /\ WF_vars(Tick)

FairSpec == Spec /\ WF_vars(Tick)

(* The application has nothing more to say, and what runs is bounded.      *)
LeftAlone ==
    /\ <>[][PeerChanges \/ QuorumChanges \/ Tick]_vars
    /\ <>[](c.active => \A i \in DOMAIN c.script : c.script[i].max > 0)

-----------------------------------------------------------------------------
(* Safety *)

(* L7 and L6 park and resume together: while something runs or waits the   *)
(* active intent is the goal's and what is parked below is the parked      *)
(* goal's; an idle element has neither.  No return value of BSE's resume   *)
(* is looked at (choreo_terminate), so nothing else keeps them in step.  A *)
(* preempting goal has no step engine: while something is parked no script *)
(* advances, so nothing that ends by itself resumes it by accident.  And a *)
(* script that is complete, or a departure acted on, means the element is  *)
(* idle: the application lands on these two flags.                         *)
StacksAgree ==
    /\ Len(c.parked) <= 1
    /\ c.bseParked = [i \in DOMAIN c.parked |-> c.parked[i].goal]
    /\ c.intent = IF c.state = "IDLE" THEN "IDLE" ELSE c.goal
    /\ c.parked # <<>> => ~c.active
    /\ c.active => c.step \in 1..Len(c.script) /\ c.state # "IDLE"
    /\ c.done \/ c.triggered => c.state = "IDLE"

(* "An element runs exactly ONE track at a time", the one it belongs to:   *)
(* under the table of a show that has a track for this element whatever    *)
(* its battery, the step engine, or what waits under a preempting goal, is *)
(* in the script of the active track, and the goal is its step's.  So no   *)
(* migration, preemption, cancellation or departure, and nothing a refused *)
(* show left behind, sets the engine of one track under the table of       *)
(* another.  Under what a refused show leaves behind (choreo.c:1235) the   *)
(* engine does run what is not in the table: OnlyASubmissionStarts.        *)
Claimed(tracks) == \A low \in BOOLEAN : Matching(tracks, low) # {}

TrackRunsItsOwn ==
    c.tracks # <<>> /\ Claimed(c.tracks) =>
        LET now == IF c.parked # <<>> THEN Head(c.parked) ELSE c
        IN /\ c.state # "IDLE" /\ now.active
           /\ now.script = c.tracks[c.track].script
           /\ now.goal = now.script[now.step].goal

(* Action properties *)

(* "Does not resume the original script": while the policy's hold or       *)
(* recall runs no tick brings back what it parked.                         *)
DepartureIsFinal ==
    [][(c.hold \/ c.recall) /\ c.parked # <<>> /\ Tick =>
         c'.parked = c.parked \/ c'.state = "IDLE"]_vars

(* A tick advances what was submitted and starts nothing: the step engine  *)
(* comes alive at a submission, or when what waited is resumed.  For a     *)
(* show none of whose filters matches this is choreo.h's "the same         *)
(* 'nothing to run' case choreo_configure() rejects": what was refused     *)
(* does not run later, in the middle of a goal accepted since.             *)
OnlyASubmissionStarts ==
    [][Tick /\ c'.active => c.active \/ c.parked # <<>>]_vars

(* Liveness *)

(* "Permanent isolation needs a way out": an element that stays isolated   *)
(* does not run a bounded script for ever, with or without quorum, however *)
(* often it went from RUNNING to SUSPENDED and back, and whatever was      *)
(* preempted or cancelled before the application left it alone; unless it  *)
(* changes tracks for ever, for each change starts the step's time afresh  *)
(* (choreo.c:1159).                                                        *)
TracksSettle == <>[][c'.track = c.track]_vars

IsolationEnds == <>[]Isolated /\ LeftAlone /\ TracksSettle => <>[](~c.active)

(* "Preempt to a HOLD for up to CHOREO_DEPARTURE_HOLD_TIMEOUT_MS, then     *)
(* fall through to LAND_IN_PLACE": a departure's hold comes to an end.     *)
HoldEnds == c.hold ~> ~c.hold
=============================================================================
